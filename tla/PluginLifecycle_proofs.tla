------------------------ MODULE PluginLifecycle_proofs ------------------------
(***************************************************************************)
(* Theorems about PluginLifecycle, for every finite number of impls, of    *)
(* copies and of events.                                                   *)
(***************************************************************************)
EXTENDS PluginLifecycle, FiniteSetTheorems, TLAPS

Idle    == {"none", "gone"}
Stages  == {"none", "create", "live", "release", "check", "delete", "gone"}
Stopped == {"none", "finished"}

Types ==
  /\ mod \in BOOLEAN
  /\ impl \in [Impls -> Stages]
  /\ refs \in [Impls -> Nat]
  /\ queued \in Nat
  /\ plugin \in {"none", "live", "unwinding", "deleting", "deleted"}
  /\ count_ \in Int

\* The impls that hold the plugin.
Owners == {i \in Impls : impl[i] \in {"create", "live", "release"}}

Counts == plugin # "none" => count_ = Cardinality(Owners)

\* An impl has holders from its creation to the call of ~impl, and only then.
Held ==
  /\ owner \in Impls \/ (owner = NoImpl /\ plugin = "none" /\ queued = 0 /\ modifier = "none")
  /\ \A i \in Impls :
       /\ impl[i] = "create" => refs[i] = 1
       /\ impl[i] = "live" => Holders(i) > 0
       /\ impl[i] \notin {"create", "live"} => Holders(i) = 0

\* Somebody is responsible for the plugin as long as there is one.
Kept ==
  /\ plugin \in {"none", "deleted"} => modifier \in Stopped /\ configurator \in Stopped
  /\ plugin = "none" => \A i \in Impls : impl[i] \in Idle
  /\ plugin = "live" => \E i \in Impls : impl[i] \in {"create", "live", "release", "check"}
  /\ plugin = "deleting" => \E i \in Impls : impl[i] = "delete"
  /\ plugin = "unwinding" => /\ \E i \in Impls : impl[i] = "create"
                             /\ \A i \in Impls : impl[i] \in Idle \cup {"create"}
                             /\ configurator = "acquire" /\ sem_to_cfg_ = 0

IInv == Types /\ Counts /\ Held /\ Kept

\* With the rules, the impl that the callbacks point to outlasts the others.
OwnerLast ==
  /\ plugin \in {"none", "deleted"} => \A i \in Impls : impl[i] \in Idle
  /\ plugin = "live" => impl[owner] \in {"create", "live", "release", "check"}
  /\ plugin = "unwinding" => impl[owner] = "create"
  /\ plugin = "deleting" => impl[owner] = "delete"
  /\ (plugin = "unwinding" \/ (plugin # "none" /\ impl[owner] \in {"release", "check", "delete"}))
       => \A i \in Impls \ {owner} : impl[i] \in Idle
  /\ \A i \in Impls \ {owner} : impl[i] # "delete"

QueueLast == queue # "alive" => modifier \in Stopped

RuledInv == ~undefined /\ OwnerLast /\ QueueLast

-----------------------------------------------------------------------------
\* How many impls hold the plugin, when one of them begins to or lets go.
LEMMA OwnersFinite == IsFiniteSet(Owners) /\ Cardinality(Owners) \in Nat
<1>1. IsFiniteSet(Owners)
  BY FS_Subset, LifecycleAssumption DEF Owners
<1> QED BY <1>1, FS_CardinalityType

LEMMA OwnerComes ==
  ASSUME NEW i \in Impls, Types, impl[i] \in Idle, impl' = [impl EXCEPT ![i] = "create"]
  PROVE  Cardinality(Owners') = Cardinality(Owners) + 1
<1>1. Owners' = Owners \cup {i} /\ i \notin Owners
  BY DEF Owners, Types, Idle
<1> QED BY <1>1, OwnersFinite, FS_AddElement

LEMMA OwnerGoes ==
  ASSUME NEW i \in Impls, Types, NEW to \in {"check", "gone"},
         impl[i] \in {"create", "live", "release"}, impl' = [impl EXCEPT ![i] = to]
  PROVE  Cardinality(Owners') = Cardinality(Owners) - 1
<1>1. Owners' = Owners \ {i} /\ i \in Owners
  BY DEF Owners, Types
<1> QED BY <1>1, OwnersFinite, FS_RemoveElement

LEMMA OwnersStay ==
  ASSUME NEW i \in Impls, Types, NEW to \in Stages, impl' = [impl EXCEPT ![i] = to],
         impl[i] \in {"create", "live", "release"} <=> to \in {"create", "live", "release"}
  PROVE  Owners' = Owners
BY DEF Owners, Types

LEMMA OneOwner ==
  ASSUME NEW i \in Impls, i \in Owners
  PROVE  Cardinality(Owners) # 0
BY OwnersFinite, FS_EmptySet

LEMMA IInvInit == Init => IInv
<1> SUFFICES ASSUME Init PROVE IInv
  OBVIOUS
<1>1. Types
  BY DEF Init, Types, Stages
<1>2. Counts /\ Kept
  BY DEF Init, Counts, Kept, Idle, Stopped
<1>3. Held
  <2>1. \A i \in Impls : i # owner /\ refs[i] = 0 /\ impl[i] = "none"
    BY LifecycleAssumption DEF Init
  <2>2. \A i \in Impls : Holders(i) = 0
    BY <2>1 DEF Holders
  <2> QED BY <2>1, <2>2 DEF Init, Held
<1> QED BY <1>1, <1>2, <1>3 DEF IInv

-----------------------------------------------------------------------------
\* When every impl is idle nobody and nothing holds one.
LEMMA NobodyHolds ==
  ASSUME IInv, \A i \in Impls : impl[i] \in Idle
  PROVE  queued = 0 /\ modifier # "callback" /\ \A i \in Impls : refs[i] = 0
<1>1. \A i \in Impls : Holders(i) = 0
  BY DEF IInv, Held, Idle
<1>2. \A i \in Impls : refs[i] = 0
  BY <1>1 DEF Holders, IInv, Types
<1>3. CASE owner \in Impls
  BY <1>1, <1>2, <1>3 DEF Holders, IInv, Types
<1>4. CASE owner = NoImpl
  BY <1>2, <1>4, LifecycleAssumption DEF IInv, Held
<1> QED BY <1>2, <1>3, <1>4 DEF IInv, Held

LEMMA StepCreateFirst == ASSUME IInv, NEW i \in Impls, CreateFirst(i) PROVE IInv'
<1> USE DEF CreateFirst
<1>1. \A j \in Impls : impl[j] \in Idle
  BY DEF IInv, Kept
<1>2. queued = 0 /\ modifier # "callback" /\ \A j \in Impls : refs[j] = 0
  BY <1>1, NobodyHolds
<1>3. Types'
  BY DEF IInv, Types, Stages
<1>4. Counts'
  <2>1. Owners = {}
    BY <1>1 DEF Owners, Idle
  <2>2. Cardinality(Owners') = Cardinality(Owners) + 1
    BY <1>1, OwnerComes DEF IInv
  <2>3. Cardinality(Owners) = 0
    BY <2>1, FS_EmptySet
  <2> QED BY <2>2, <2>3 DEF Counts
<1>5. Held'
  <2>1. \A j \in Impls : Holders(j)' = IF j = i THEN 1 ELSE 0
    BY <1>2 DEF Holders, IInv, Types
  <2> QED BY <1>1, <2>1 DEF Held, Idle, IInv, Types
<1>6. Kept'
  BY <1>1 DEF Kept, IInv, Types, Idle
<1> QED BY <1>3, <1>4, <1>5, <1>6 DEF IInv

LEMMA StepCreateAgain == ASSUME IInv, NEW i \in Impls, CreateAgain(i) PROVE IInv'
<1> USE DEF CreateAgain
<1>1. Types'
  BY DEF IInv, Types, Stages
<1>2. Counts'
  <2>1. Cardinality(Owners') = Cardinality(Owners) + 1
    BY OwnerComes DEF IInv, Idle
  <2> QED BY <2>1 DEF IInv, Counts
<1>3. Held'
  <2>1. Holders(i) = 0
    BY DEF IInv, Held
  <2>2. \A j \in Impls \ {i} : Holders(j)' = Holders(j)
    BY DEF Holders, IInv, Types
  <2> QED BY <2>1, <2>2 DEF Held, IInv, Types
<1>4. Kept'
  BY DEF Kept, IInv, Types, Idle
<1> QED BY <1>1, <1>2, <1>3, <1>4 DEF IInv

LEMMA StepCreateReturns == ASSUME IInv, NEW i \in Impls, CreateReturns(i) PROVE IInv'
<1> USE DEF CreateReturns, pluginVars
<1>1. Types'
  BY DEF IInv, Types, Stages
<1>2. Counts'
  <2>1. Owners' = Owners
    BY OwnersStay DEF IInv, Stages
  <2> QED BY <2>1 DEF IInv, Counts
<1>3. Held'
  <2>1. \A j \in Impls : Holders(j)' = Holders(j)
    BY DEF Holders
  <2>2. Holders(i) > 0
    BY DEF Holders, Held, IInv, Types
  <2> QED BY <2>1, <2>2 DEF Held, IInv, Types
<1>4. Kept'
  BY DEF Kept, IInv, Types, Idle
<1> QED BY <1>1, <1>2, <1>3, <1>4 DEF IInv

LEMMA StepCopy == ASSUME IInv, NEW i \in Impls, Copy(i) PROVE IInv'
<1> USE DEF Copy, pluginVars
<1>1. Types'
  BY DEF IInv, Types
<1>2. Counts' /\ Kept'
  BY DEF IInv, Counts, Kept, Owners
<1>3. Held'
  <2>1. \A j \in Impls \ {i} : Holders(j)' = Holders(j)
    BY DEF Holders, IInv, Types
  <2>2. Holders(i)' > 0
    BY DEF Holders, IInv, Types
  <2> QED BY <2>1, <2>2 DEF Held, IInv, Types
<1> QED BY <1>1, <1>2, <1>3 DEF IInv

\* Losing a holder: ~impl runs when it was the last, which a plugin whose creation
\* is in progress never loses.
LEMMA HolderLost ==
  ASSUME IInv, NEW i \in Impls, impl[i] = "live" \/ Holders(i) > 1, LoseHolder(i)
  PROVE  /\ impl' \in [Impls -> Stages]
         /\ Owners' = Owners
         /\ \A j \in Impls \ {i} : impl'[j] = impl[j]
         /\ impl'[i] = IF Holders(i) = 1 THEN "release" ELSE impl[i]
<1>1. CASE Holders(i) = 1
  BY <1>1, OwnersStay DEF LoseHolder, IInv, Types, Stages
<1>2. CASE Holders(i) # 1
  BY <1>2 DEF LoseHolder, IInv, Types, Owners
<1> QED BY <1>1, <1>2

LEMMA StepDrop == ASSUME IInv, NEW i \in Impls, Drop(i) PROVE IInv'
<1> USE DEF Drop, pluginVars
<1>1. /\ impl' \in [Impls -> Stages] /\ Owners' = Owners
      /\ \A j \in Impls \ {i} : impl'[j] = impl[j]
      /\ impl'[i] = IF Holders(i) = 1 THEN "release" ELSE impl[i]
  BY HolderLost
<1>2. Types'
  <2>1. refs[i] - 1 \in Nat
    BY DEF IInv, Types
  <2> QED BY <1>1, <2>1 DEF IInv, Types
<1>3. Counts'
  BY <1>1 DEF IInv, Counts
<1>4. Held'
  <2>1. \A j \in Impls \ {i} : Holders(j)' = Holders(j)
    BY DEF Holders, IInv, Types
  <2>2. Holders(i)' = Holders(i) - 1 /\ Holders(i) \in Int
    BY DEF Holders, IInv, Types
  <2>3. Holders(i) > 0
    BY DEF IInv, Held
  <2>4. \A j \in Impls \ {i} : refs'[j] = refs[j]
    BY DEF IInv, Types
  <2> HIDE DEF Drop
  <2>5. owner' = owner /\ plugin' = plugin /\ queued' = queued /\ modifier' = modifier
    BY DEF Drop
  <2>6. impl[i] = "live"
    BY DEF Drop
  <2> QED BY <1>1, <2>1, <2>2, <2>3, <2>4, <2>5, <2>6 DEF Held, IInv
<1>5. Kept'
  BY <1>1 DEF IInv, Kept, Types, Idle
<1> QED BY <1>2, <1>3, <1>4, <1>5 DEF IInv

\* A message in the queue holds the impl that the callbacks point to.
LEMMA MessageHolds ==
  ASSUME IInv, DropMessage
  PROVE  /\ owner \in Impls /\ plugin # "none"
         /\ impl[owner] = "live" \/ (impl[owner] = "create" /\ Holders(owner) > 1)
         /\ impl' \in [Impls -> Stages] /\ Owners' = Owners
         /\ \A j \in Impls \ {owner} : impl'[j] = impl[j]
         /\ impl'[owner] = IF Holders(owner) = 1 THEN "release" ELSE impl[owner]
<1>1. owner \in Impls
  BY DEF DropMessage, IInv, Held
<1>2. Holders(owner) > 0
  BY <1>1 DEF DropMessage, Holders, IInv, Types
<1>3. impl[owner] \in {"create", "live"}
  BY <1>1, <1>2 DEF IInv, Held
<1>4. impl[owner] = "create" => Holders(owner) > 1
  BY <1>1 DEF DropMessage, Holders, IInv, Types, Held
<1>5. plugin # "none"
  BY <1>1, <1>3 DEF IInv, Kept, Idle
<1> QED BY <1>1, <1>3, <1>4, <1>5, HolderLost DEF DropMessage

LEMMA StepDropMessage == ASSUME IInv, DropMessage PROVE IInv'
<1> USE DEF DropMessage, pluginVars
<1>1. owner \in Impls
  BY MessageHolds
<1>2. impl[owner] = "live" \/ (impl[owner] = "create" /\ Holders(owner) > 1)
  BY MessageHolds
<1>3. /\ impl' \in [Impls -> Stages] /\ Owners' = Owners
      /\ \A j \in Impls \ {owner} : impl'[j] = impl[j]
      /\ impl'[owner] = IF Holders(owner) = 1 THEN "release" ELSE impl[owner]
  BY MessageHolds
<1>4. Types'
  BY <1>3 DEF IInv, Types
<1>5. Counts'
  BY <1>3 DEF IInv, Counts
<1>6. Held'
  <2>1. \A j \in Impls \ {owner} : Holders(j)' = Holders(j)
    BY DEF Holders, IInv, Types
  <2>2. Holders(owner)' = Holders(owner) - 1 /\ Holders(owner) \in Int
    BY <1>1 DEF Holders, IInv, Types
  <2>3. Holders(owner) > 0
    BY <1>1, <1>2, <2>2 DEF IInv, Held
  <2> HIDE DEF DropMessage
  <2>4. owner' = owner /\ plugin' = plugin /\ refs' = refs /\ modifier' = modifier
    BY DEF DropMessage
  <2> QED BY <1>1, <1>2, <1>3, <2>1, <2>2, <2>3, <2>4 DEF Held, IInv
<1>7. Kept'
  BY <1>1, <1>2, <1>3 DEF IInv, Kept, Types, Idle
<1> QED BY <1>4, <1>5, <1>6, <1>7 DEF IInv

LEMMA StepHost ==
  ASSUME IInv, DestroyQueue \/ DropModule PROVE IInv'
<1>1. Types'
  BY DEF IInv, Types, DestroyQueue, DropModule, pluginVars
<1>2. Counts' /\ Kept'
  BY DEF IInv, Counts, Kept, Owners, DestroyQueue, DropModule, pluginVars
<1>3. Held'
  <2>1. \A j \in Impls : Holders(j)' = Holders(j)
    BY DEF Holders, DestroyQueue, DropModule, pluginVars
  <2> QED BY <2>1 DEF IInv, Held, DestroyQueue, DropModule, pluginVars
<1> QED BY <1>1, <1>2, <1>3 DEF IInv

LEMMA StepLoadAgain == ASSUME IInv, LoadAgain PROVE IInv'
<1> USE DEF LoadAgain
<1>1. \A j \in Impls : impl[j] \in Idle
  BY DEF Loaded, Idle
<1>2. queued = 0 /\ \A j \in Impls : refs[j] = 0
  BY <1>1, NobodyHolds
<1>3. Types'
  BY DEF IInv, Types
<1>4. Held'
  <2>1. \A j \in Impls : Holders(j)' = 0
    BY <1>2, LifecycleAssumption DEF Holders
  <2> QED BY <1>1, <1>2, <2>1 DEF Held, Idle
<1> QED BY <1>1, <1>3, <1>4 DEF IInv, Counts, Kept, Stopped

LEMMA StepRelease == ASSUME IInv, NEW i \in Impls, Release(i) PROVE IInv'
<1> USE DEF Release
<1>1. Types'
  BY DEF IInv, Types, Stages
<1>2. Counts'
  <2>1. Cardinality(Owners') = Cardinality(Owners) - 1
    BY OwnerGoes DEF IInv
  <2> QED BY <2>1 DEF IInv, Counts
<1>3. Held'
  <2>1. \A j \in Impls : Holders(j)' = Holders(j)
    BY DEF Holders
  <2> QED BY <2>1 DEF Held, IInv, Types
<1>4. Kept'
  BY DEF Kept, IInv, Types, Idle
<1> QED BY <1>1, <1>2, <1>3, <1>4 DEF IInv

LEMMA StepCheck == ASSUME IInv, NEW i \in Impls, Check(i) PROVE IInv'
<1> USE DEF Check
<1>1. Types'
  BY DEF IInv, Types, Stages
<1>0. plugin \notin {"none", "unwinding"}
  BY DEF IInv, Kept, Idle
<1>2. Counts'
  <2>1. Owners' = Owners
    BY DEF IInv, Types, Owners
  <2> QED BY <1>0, <2>1 DEF IInv, Counts
<1>3. Held'
  <2>1. \A j \in Impls : Holders(j)' = Holders(j)
    BY DEF Holders
  <2>2. impl'[i] \in {"delete", "gone"} /\ \A j \in Impls \ {i} : impl'[j] = impl[j]
    BY DEF IInv, Types
  <2>3. owner \in Impls /\ Holders(i) = 0
    BY <1>0 DEF IInv, Held
  <2> QED BY <2>1, <2>2, <2>3 DEF Held, IInv
<1>4. Kept'
  <2>2. CASE count_ = 0
    BY <1>0, <2>2 DEF Kept, IInv, Types, Idle
  <2>3. CASE count_ # 0
    <3>1. PICK j \in Impls : j \in Owners
      BY <1>0, <2>3, FS_EmptySet DEF IInv, Counts, Owners
    <3>2. j # i /\ impl'[j] = impl[j] /\ impl'[i] = "gone"
      BY <2>3, <3>1 DEF Owners, IInv, Types
    <3> QED BY <1>0, <2>3, <3>1, <3>2 DEF Owners, Kept, IInv, Types
  <2> QED BY <2>2, <2>3
<1> QED BY <1>1, <1>2, <1>3, <1>4 DEF IInv

LEMMA StepJoin == ASSUME IInv, NEW i \in Impls, Join(i) PROVE IInv'
<1> USE DEF Join
<1>1. Types'
  BY DEF IInv, Types, Stages
<1>2. Counts'
  <2>1. plugin = "deleting" => Owners' = Owners
    BY DEF IInv, Types, Owners
  <2> QED BY <2>1 DEF IInv, Counts
<1>3. Held'
  <2>1. \A j \in Impls : Holders(j)' = Holders(j)
    BY DEF Holders
  <2>2. impl[i] = "delete"
    BY DEF IInv, Kept
  <2> QED BY <2>1, <2>2 DEF Held, IInv, Types
<1>4. Kept'
  <2>1. plugin = "deleting"
    BY DEF IInv, Kept
  <2> QED BY <2>1 DEF IInv, Kept, Types, Stopped
<1> QED BY <1>1, <1>2, <1>3, <1>4 DEF IInv

LEMMA StepThreads == ASSUME IInv, Threads PROVE IInv'
<1>1. CASE FinishConfigurator
  <2>1. \A j \in Impls : Holders(j)' = Holders(j)
    BY <1>1 DEF FinishConfigurator, Holders, hostVars
  <2> QED
    BY <1>1, <2>1 DEF FinishConfigurator, hostVars, IInv, Types, Counts, Held, Kept, Owners,
                      Stopped
<1>2. CASE FinishModifier
  <2>1. \A j \in Impls : Holders(j)' = Holders(j)
    BY <1>2 DEF FinishModifier, Holders, hostVars
  <2> QED
    BY <1>2, <2>1 DEF FinishModifier, hostVars, IInv, Types, Counts, Held, Kept, Owners,
                      Stopped
<1>3. CASE Announce
  <2>1. owner \in Impls /\ plugin \notin {"none", "deleted"}
    BY <1>3 DEF Announce, IInv, Held, Kept, Stopped
  <2>2. Types' /\ Counts' /\ Kept'
    BY <1>3, <2>1 DEF Announce, hostVars, IInv, Types, Counts, Kept, Owners
  <2>3. Held'
    <3>1. CASE Holders(owner) > 0
      <4>1. impl[owner] \in {"create", "live"}
        BY <2>1, <3>1 DEF IInv, Held
      <4>2. Holders(owner)' > 0
        <5>1. modifier' = "callback" /\ owner' = owner /\ refs' = refs /\ queued' = queued
          BY <1>3, <3>1 DEF Announce, hostVars
        <5>2. Holders(owner)' = refs[owner] + (queued + 1)
          BY <5>1 DEF Holders
        <5> QED BY <2>1, <5>2 DEF IInv, Types
      <4>3. \A j \in Impls \ {owner} : Holders(j)' = Holders(j)
        BY <1>3 DEF Announce, hostVars, Holders
      <4> QED BY <1>3, <2>1, <4>1, <4>2, <4>3 DEF Announce, hostVars, Held, IInv
    <3>2. CASE ~(Holders(owner) > 0)
      <4>1. \A j \in Impls : Holders(j)' = Holders(j)
        BY <1>3, <3>2 DEF Announce, hostVars, Holders
      <4> QED BY <1>3, <2>1, <3>2, <4>1 DEF Announce, hostVars, Held, IInv
    <3> QED BY <3>1, <3>2
  <2> QED BY <2>2, <2>3 DEF IInv
<1>4. CASE Deliver
  <2>1. owner \in Impls /\ plugin \notin {"none", "deleted"}
    BY <1>4 DEF Deliver, IInv, Held, Kept, Stopped
  <2>2. Types' /\ Counts' /\ Kept'
    BY <1>4, <2>1 DEF Deliver, IInv, Types, Counts, Kept, Owners
  <2>3. Held'
    <3>1. \A j \in Impls : Holders(j)' = Holders(j)
      BY <1>4 DEF Deliver, Holders, IInv, Types
    <3> QED BY <1>4, <2>1, <3>1 DEF Deliver, Held, IInv
  <2> QED BY <2>2, <2>3 DEF IInv
<1> QED BY <1>1, <1>2, <1>3, <1>4 DEF Threads

LEMMA IInvStep == IInv /\ [Next]_vars => IInv'
<1> SUFFICES ASSUME IInv, [Next]_vars PROVE IInv'
  OBVIOUS
<1>1. CASE UNCHANGED vars
  <2>1. \A j \in Impls : Holders(j)' = Holders(j)
    BY <1>1 DEF vars, hostVars, pluginVars, Holders
  <2> QED
    BY <1>1, <2>1 DEF vars, hostVars, pluginVars, IInv, Types, Counts, Held, Kept, Owners
<1>2. ASSUME NEW i \in Impls,
             CreateFirst(i) \/ CreateAgain(i) \/ Copy(i) \/ Drop(i) \/ InCall(i)
      PROVE  IInv'
  BY <1>2, StepCreateFirst, StepCreateAgain, StepCopy, StepDrop, StepCreateReturns,
     StepRelease, StepCheck, StepJoin DEF InCall
<1>3. CASE DropMessage \/ DestroyQueue \/ DropModule \/ LoadAgain \/ Threads
  BY <1>3, StepDropMessage, StepHost, StepLoadAgain, StepThreads
<1> QED BY <1>1, <1>2, <1>3 DEF Next

LEMMA IInvAlways == Spec => []IInv
BY IInvInit, IInvStep, PTL DEF Spec

\* my_plugin's reference count is the number of wrap::plugin::impl objects that have
\* called create and not yet release, whatever the host does.
THEOREM CountIsRight == Spec => []CountIsOwners
<1>1. IInv => CountIsOwners
  BY DEF IInv, Counts, Owners, CountIsOwners
<1> QED BY <1>1, IInvAlways, PTL

\* The library is not unloaded while its object lives or one of its threads runs: each
\* impl has a copy of the loaded_module until its destructor is over.
THEOREM LibraryStays == Spec => []LibraryOutlivesPlugin
<1>1. IInv => LibraryOutlivesPlugin
  <2> SUFFICES ASSUME IInv, plugin \notin {"none", "deleted"}
               PROVE  \E i \in Impls : impl[i] \notin {"none", "gone"}
    BY DEF IInv, Types, Kept, Stopped, Loaded, LibraryOutlivesPlugin
  <2> QED BY DEF IInv, Types, Kept
<1> QED BY <1>1, IInvAlways, PTL

-----------------------------------------------------------------------------
LEMMA RuledInit == Init => RuledInv
BY LifecycleAssumption DEF Init, RuledInv, OwnerLast, QueueLast, Idle

\* The owner is somewhere in the middle of its life whenever the plugin is used.
LEMMA InUse ==
  ASSUME IInv, RuledInv, NEW i \in Impls, impl[i] \in {"live", "release", "check"}
  PROVE  /\ plugin = "live" /\ owner \in Impls
         /\ i # owner => impl[owner] \in {"create", "live"}
<1>1. plugin \notin {"none", "deleted", "unwinding"}
  BY DEF IInv, Kept, RuledInv, OwnerLast, Idle
<1>2. plugin # "deleting"
  BY <1>1 DEF IInv, Held, RuledInv, OwnerLast, Idle
<1> QED BY <1>1, <1>2 DEF IInv, Types, Held, RuledInv, OwnerLast, Idle

LEMMA RuledStep ==
  ASSUME Rules = AllRules, IInv, IInv', RuledInv, [Next]_vars
  PROVE  RuledInv'
<1>1. ASSUME NEW i \in Impls, CreateFirst(i) PROVE RuledInv'
  <2>1. \A j \in Impls : impl[j] \in Idle
    BY <1>1 DEF CreateFirst, IInv, Kept
  <2>2. impl' = [impl EXCEPT ![i] = "create"] /\ owner' = i
    BY <1>1 DEF CreateFirst
  <2>3. OwnerLast'
    BY <1>1, <2>1, <2>2 DEF CreateFirst, OwnerLast, IInv, Types, Idle
  <2>4. queue = "alive"
    BY <1>1 DEF CreateFirst, MayCreate, AllRules
  <2> QED BY <1>1, <2>3, <2>4 DEF CreateFirst, RuledInv, QueueLast
<1>2. ASSUME NEW i \in Impls, CreateAgain(i) PROVE RuledInv'
  <2>1. PICK j \in Impls : impl[j] \in {"create", "live"}
    BY <1>2 DEF CreateAgain, MayCreate, NoReturn, AllRules
  <2>2. plugin = "live" /\ owner \in Impls
    BY <1>2, <2>1 DEF CreateAgain, IInv, Held, RuledInv, OwnerLast, Idle
  <2>3. impl[owner] \in {"create", "live"}
    BY <2>1, <2>2 DEF RuledInv, OwnerLast, Idle
  <2>4. OwnerLast'
    BY <1>2, <2>2, <2>3 DEF CreateAgain, RuledInv, OwnerLast, IInv, Types, Idle
  <2> QED BY <1>2, <2>2, <2>4 DEF CreateAgain, RuledInv, QueueLast
<1>3. ASSUME NEW i \in Impls, CreateReturns(i) PROVE RuledInv'
  <2>1. owner \in Impls /\ plugin # "none"
    BY <1>3 DEF CreateReturns, IInv, Held, Kept, Idle
  <2>2. OwnerLast'
    BY <1>3, <2>1 DEF CreateReturns, pluginVars, RuledInv, OwnerLast, IInv, Types, Idle
  <2> QED BY <1>3, <2>2 DEF CreateReturns, pluginVars, RuledInv, QueueLast
<1>4. ASSUME NEW i \in Impls, Copy(i) PROVE RuledInv'
  BY <1>4 DEF Copy, pluginVars, RuledInv, OwnerLast, QueueLast
<1>5. ASSUME NEW i \in Impls, Drop(i) PROVE RuledInv'
  <2>1. plugin = "live" /\ owner \in Impls
    BY <1>5, InUse DEF Drop
  <2>2. i = owner /\ Holders(i) = 1 => \A j \in Impls \ {i} : impl[j] \in Idle
    BY <1>5 DEF Drop, LoseHolder, MayRelease, FirstLast, AllRules, Idle
  <2>3. /\ impl' \in [Impls -> Stages]
        /\ \A j \in Impls \ {i} : impl'[j] = impl[j]
        /\ impl'[i] = IF Holders(i) = 1 THEN "release" ELSE impl[i]
    BY <1>5, HolderLost DEF Drop
  <2>4. plugin' = plugin /\ owner' = owner /\ impl[i] = "live"
    BY <1>5 DEF Drop, pluginVars
  <2>5. OwnerLast'
    BY <2>1, <2>2, <2>3, <2>4 DEF RuledInv, OwnerLast, Idle
  <2> QED BY <1>5, <2>5 DEF Drop, pluginVars, RuledInv, QueueLast
<1>6. CASE DropMessage
  <2>1. owner \in Impls /\ plugin # "none"
    BY <1>6, MessageHolds
  <2>2. plugin' = plugin /\ owner' = owner
    BY <1>6 DEF DropMessage, pluginVars
  <2>3. Holders(owner) = 1 => \A j \in Impls \ {owner} : impl[j] \in Idle
    BY <1>6 DEF DropMessage, LoseHolder, MayRelease, FirstLast, AllRules, Idle
  <2>4. /\ \A j \in Impls \ {owner} : impl'[j] = impl[j]
        /\ impl'[owner] = IF Holders(owner) = 1 THEN "release" ELSE impl[owner]
        /\ impl[owner] = "live" \/ (impl[owner] = "create" /\ Holders(owner) > 1)
    BY <1>6, MessageHolds
  <2>5. plugin = "live" \/ plugin = "unwinding"
    BY <2>1, <2>4 DEF IInv, Types, RuledInv, OwnerLast, Idle
  <2>6. plugin = "unwinding" => impl[owner] = "create"
    BY DEF RuledInv, OwnerLast
  <2>7. Holders(owner) = 1 => plugin = "live"
    BY <2>4, <2>5, <2>6
  <2>8. OwnerLast'
    BY <2>1, <2>2, <2>3, <2>4, <2>5, <2>7 DEF RuledInv, OwnerLast, Idle
  <2> QED BY <1>6, <2>8 DEF DropMessage, pluginVars, RuledInv, QueueLast
<1>7. CASE DestroyQueue
  BY <1>7 DEF DestroyQueue, MayDestroyQueue, AllRules, pluginVars, RuledInv, OwnerLast,
              QueueLast, Stopped
<1>8. CASE DropModule
  BY <1>8 DEF DropModule, pluginVars, RuledInv, OwnerLast, QueueLast
<1>9. CASE LoadAgain
  BY <1>9 DEF LoadAgain, Loaded, RuledInv, OwnerLast, QueueLast, Idle, Stopped
<1>10. ASSUME NEW i \in Impls, Release(i) PROVE RuledInv'
  <2>1. plugin = "live" /\ owner \in Impls /\ (i # owner => impl[owner] \in {"create", "live"})
    BY <1>10, InUse DEF Release
  <2>2. OwnerLast'
    BY <1>10, <2>1 DEF Release, RuledInv, OwnerLast, IInv, Types, Idle
  <2> QED BY <1>10, <2>1, <2>2 DEF Release, RuledInv, QueueLast
<1>11. ASSUME NEW i \in Impls, Check(i) PROVE RuledInv'
  <2>1. plugin = "live" /\ owner \in Impls /\ (i # owner => impl[owner] \in {"create", "live"})
    BY <1>11, InUse DEF Check
  <2>2. count_ = 0 <=> i = owner
    <3>1. CASE i # owner
      BY <2>1, <3>1, OneOwner DEF IInv, Counts, Owners
    <3>2. CASE i = owner
      <4>1. \A j \in Impls \ {i} : impl[j] \in Idle
        BY <1>11, <2>1, <3>2 DEF Check, RuledInv, OwnerLast
      <4>2. Owners = {}
        BY <1>11, <4>1 DEF Check, Owners, Idle
      <4> QED BY <2>1, <3>2, <4>2, FS_EmptySet DEF IInv, Counts
    <3> QED BY <3>1, <3>2
  <2>3. OwnerLast'
    <3>1. CASE i = owner
      BY <1>11, <2>1, <2>2, <3>1 DEF Check, RuledInv, OwnerLast, IInv, Types, Idle
    <3>2. CASE i # owner
      BY <1>11, <2>1, <2>2, <3>2 DEF Check, RuledInv, OwnerLast, IInv, Types, Idle
    <3> QED BY <3>1, <3>2
  <2> QED BY <1>11, <2>1, <2>3 DEF Check, RuledInv, QueueLast
<1>12. ASSUME NEW i \in Impls, Join(i) PROVE RuledInv'
  <2>1. plugin = "deleting" /\ impl[i] = "delete" /\ owner \in Impls
    BY <1>12 DEF Join, IInv, Held, Kept
  <2>2. i = owner /\ \A j \in Impls \ {i} : impl[j] \in Idle
    BY <2>1 DEF RuledInv, OwnerLast
  <2>3. OwnerLast'
    BY <1>12, <2>1, <2>2 DEF Join, RuledInv, OwnerLast, IInv, Types, Idle
  <2> QED BY <1>12, <2>3 DEF Join, RuledInv, QueueLast
<1>13. CASE FinishConfigurator \/ FinishModifier
  BY <1>13 DEF FinishConfigurator, FinishModifier, hostVars, RuledInv, OwnerLast, QueueLast,
               Stopped
<1>14. CASE Announce \/ Deliver
  <2>1. owner \in Impls /\ plugin \notin {"none", "deleted"} /\ queue = "alive"
    BY <1>14 DEF Announce, Deliver, IInv, Held, Kept, RuledInv, QueueLast, Stopped
  <2>2. impl[owner] # "gone"
    BY <2>1 DEF RuledInv, OwnerLast, IInv, Types
  <2> QED BY <1>14, <2>1, <2>2 DEF Announce, Deliver, hostVars, RuledInv, OwnerLast, QueueLast
<1>15. CASE UNCHANGED vars
  BY <1>15 DEF vars, hostVars, pluginVars, RuledInv, OwnerLast, QueueLast
<1> QED
  BY <1>1, <1>2, <1>3, <1>4, <1>5, <1>6, <1>7, <1>8, <1>9, <1>10, <1>11, <1>12, <1>13,
     <1>14, <1>15 DEF Next, InCall, Threads

\* A host that keeps all of the rules never has the plugin, an impl or the queue used
\* after it was freed.
THEOREM RulesSuffice == ASSUME Rules = AllRules PROVE Spec => []NothingDangles
<1>1. RuledInv /\ IInv /\ IInv' /\ [Next]_vars => RuledInv'
  BY RuledStep
<1>2. RuledInv => NothingDangles
  BY DEF RuledInv, NothingDangles
<1> QED BY <1>1, <1>2, RuledInit, IInvAlways, PTL DEF Spec
=============================================================================
