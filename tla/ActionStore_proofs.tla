-------------------------- MODULE ActionStore_proofs --------------------------
(***************************************************************************)
(* Theorems about ActionStore, for every number of actions and every set   *)
(* of readers.  The inductive invariant counts the changes that modifier_  *)
(* has made and the ones it has announced: each count determines a set.    *)
(***************************************************************************)
EXTENDS ActionStore, SequenceTheorems, TLAPS

Kinds == {"add", "remove"}

\* How many calls of insert and remove have changed actions_, and how many of
\* them were announced.
Changed   == IF modifier \in {"announce", "unlock"} THEN step ELSE step - 1
Announced == IF modifier = "unlock" THEN step ELSE step - 1

\* What the first n calls inserted and removed.
Added(n)   == IF n <= Count THEN 1..n ELSE 1..Count
Removed(n) == IF n <= Count THEN {} ELSE 1..(n - Count)

Shape ==
  /\ step \in 1..(Total + 1)
  /\ modifier \in {"next", "lock", "change", "announce", "unlock", "done"}
  /\ modifier \notin {"next", "done"} => step <= Total

Counter ==
  next_id = IF ~Inserting THEN Count ELSE IF modifier = "next" THEN step - 1 ELSE step

Stored == actions_ = Added(Changed) \ Removed(Changed)

Logged ==
  /\ events \in Seq(Kinds \X Ids)
  /\ Named("add", events) = Added(Announced)
  /\ Named("remove", events) = Removed(Announced)

Locked ==
  /\ writer \in BOOLEAN
  /\ sharers \subseteq Readers
  /\ writer <=> modifier \in {"change", "announce", "unlock"}
  /\ writer => sharers = {}

Reading ==
  /\ reader \in [Readers -> {"idle", "look", "unlock"}]
  /\ query \in [Readers -> 0..Count]
  /\ answer \in [Readers -> {"none", "found", "noent"}]
  /\ \A r \in Readers : reader[r] # "idle" => r \in sharers

IInv == Shape /\ Counter /\ Stored /\ Logged /\ Locked /\ Reading

LEMMA TotalFacts == Total \in Nat /\ Count <= Total /\ Total - Count <= Count
<1> DEFINE half == Count \div 2
<1>1. half \in Nat /\ half <= Count
  BY StoreAssumption
<1>2. Total = Count + half
  BY DEF Total
<1> HIDE DEF half
<1> QED
  BY <1>1, <1>2, StoreAssumption

LEMMA NamedAppend ==
  ASSUME NEW log \in Seq(Kinds \X Ids), NEW e \in Kinds \X Ids, NEW name
  PROVE  Named(name, Append(log, e)) =
           IF e[1] = name THEN Named(name, log) \cup {e[2]} ELSE Named(name, log)
<1> DEFINE L == Append(log, e)
<1>1. Len(log) \in Nat /\ DOMAIN log = 1..Len(log)
  BY LenProperties
<1>2. L \in Seq(Kinds \X Ids) /\ Len(L) = Len(log) + 1
  BY AppendProperties
<1>3. DOMAIN L = 1..(Len(log) + 1)
  BY <1>2, LenProperties
<1>4. \A i \in DOMAIN log : i \in DOMAIN L /\ L[i] = log[i]
  BY <1>1, <1>3, AppendProperties
<1>5. L[Len(log) + 1] = e /\ Len(log) + 1 \in DOMAIN L
  BY <1>1, <1>3, AppendProperties
<1>6. \A i \in DOMAIN L : i \in DOMAIN log \/ i = Len(log) + 1
  BY <1>1, <1>3
<1> HIDE DEF L
<1>7. \A x : x \in Named(name, L) <=>
             x \in Named(name, log) \/ (e[1] = name /\ x = e[2])
  BY <1>4, <1>5, <1>6 DEF Named
<1> QED
  BY <1>7 DEF L

LEMMA IInvInit == Init => IInv
<1> SUFFICES ASSUME Init PROVE IInv
  OBVIOUS
<1>1. Total \in Nat /\ Count \in Nat
  BY TotalFacts, StoreAssumption
<1>2. Shape
  BY <1>1 DEF Init, Shape
<1>3. Counter
  BY <1>1 DEF Init, Counter, Inserting
<1>4. Stored
  BY <1>1 DEF Init, Stored, Changed, Added, Removed
<1>5. Logged
  <2>1. events \in Seq(Kinds \X Ids) /\ DOMAIN events = {}
    BY EmptySeq DEF Init
  <2>2. \A name : Named(name, events) = {}
    BY <2>1 DEF Named
  <2>3. Added(Announced) = {} /\ Removed(Announced) = {}
    BY <1>1 DEF Init, Announced, Added, Removed
  <2> QED
    BY <2>1, <2>2, <2>3 DEF Logged
<1>6. Locked
  BY DEF Init, Locked
<1>7. Reading
  BY <1>1 DEF Init, Reading
<1> QED
  BY <1>2, <1>3, <1>4, <1>5, <1>6, <1>7 DEF IInv

\* The action that a call is about is one of those that the plugin ever has,
\* new for insert and present for remove.
LEMMA IdIsRight ==
  ASSUME Shape, Counter, Stored, modifier \in {"change", "announce"}
  PROVE  /\ Id \in Ids
         /\ Id = IF Inserting THEN step ELSE step - Count
         /\ modifier = "change" => (Inserting <=> Id \notin actions_)
<1>1. Total \in Nat /\ Count \in Nat /\ Total - Count <= Count
  BY TotalFacts, StoreAssumption
<1>2. step \in 1..Total
  BY <1>1 DEF Shape
<1>3. Id = IF Inserting THEN step ELSE step - Count
  BY <1>2 DEF Id, Counter, Shape
<1>4. Id \in 1..Count
  BY <1>1, <1>2, <1>3 DEF Inserting
<1>5. ASSUME modifier = "change", Inserting PROVE Id \notin actions_
  <2>1. actions_ \subseteq 1..(step - 1)
    BY <1>1, <1>2, <1>5 DEF Stored, Changed, Added, Inserting
  <2> QED
    BY <1>2, <1>3, <1>5, <2>1
<1>6. ASSUME modifier = "change", ~Inserting PROVE Id \in actions_
  <2>1. step - Count \in 1..Count /\ Id = step - Count
    BY <1>1, <1>2, <1>3, <1>6 DEF Inserting
  <2>2. Changed = step - 1 /\ step - 1 >= Count
    BY <1>1, <1>2, <1>6 DEF Changed, Inserting
  <2>3. step - Count \in Added(step - 1)
    BY <1>1, <1>2, <2>1, <2>2 DEF Added
  <2>4. step - Count \notin Removed(step - 1)
    BY <1>1, <1>2, <2>1, <2>2 DEF Removed
  <2> QED
    BY <2>1, <2>2, <2>3, <2>4 DEF Stored
<1> QED
  BY <1>3, <1>4, <1>5, <1>6 DEF Ids

\* What one more call adds to what the calls inserted and removed.
LEMMA OneMore ==
  ASSUME Shape, modifier \notin {"next", "done"}
  PROVE  /\ Inserting => /\ Added(step) = Added(step - 1) \cup {step}
                         /\ Removed(step) = {} /\ Removed(step - 1) = {}
         /\ ~Inserting => /\ Added(step) = Added(step - 1)
                          /\ Removed(step) = Removed(step - 1) \cup {step - Count}
<1>1. Total \in Nat /\ Count \in Nat /\ step \in 1..Total
  BY TotalFacts, StoreAssumption DEF Shape
<1>2. CASE Inserting
  <2>1. step <= Count /\ step - 1 <= Count
    BY <1>1, <1>2 DEF Inserting
  <2>2. 1..step = (1..(step - 1)) \cup {step}
    BY <1>1
  <2> QED
    BY <1>2, <2>1, <2>2 DEF Added, Removed
<1>3. CASE ~Inserting
  <2>1. step > Count /\ step - 1 >= Count
    BY <1>1, <1>3 DEF Inserting
  <2>2. Added(step) = 1..Count
    BY <1>1, <2>1 DEF Added
  <2>3. Added(step - 1) = 1..Count
    BY <1>1, <2>1 DEF Added
  <2>4. Removed(step) = 1..(step - Count)
    BY <1>1, <2>1 DEF Removed
  <2>5. Removed(step - 1) = 1..(step - 1 - Count)
    BY <1>1, <2>1 DEF Removed
  <2>6. 1..(step - Count) = (1..(step - 1 - Count)) \cup {step - Count}
    BY <1>1, <2>1
  <2> QED
    BY <1>3, <2>2, <2>3, <2>4, <2>5, <2>6
<1> QED
  BY <1>2, <1>3

LEMMA IInvStep == IInv /\ [Next]_storeVars => IInv'
<1> SUFFICES ASSUME IInv, [Next]_storeVars PROVE IInv'
  OBVIOUS
<1>0. Shape /\ Counter /\ Stored /\ Logged /\ Locked /\ Reading
  BY DEF IInv
<1>1. Total \in Nat /\ Count \in Nat /\ Total >= Count /\ Total - Count <= Count
  BY TotalFacts, StoreAssumption
<1>2. step \in Nat /\ step >= 1 /\ step <= Total + 1
  BY <1>0, <1>1 DEF Shape
<1>3. CASE Begin
  <2>1. Shape'
    BY <1>0, <1>1, <1>3 DEF Begin, Shape
  <2>2. Counter'
    BY <1>0, <1>1, <1>2, <1>3 DEF Begin, Counter, Inserting
  <2>3. Changed' = Changed /\ Announced' = Announced
    BY <1>3 DEF Begin, Changed, Announced
  <2>4. Stored' /\ Logged'
    BY <1>0, <1>3, <2>3 DEF Begin, Stored, Logged
  <2>5. Locked' /\ Reading'
    BY <1>0, <1>3 DEF Begin, readerVars, Locked, Reading
  <2> QED
    BY <2>1, <2>2, <2>4, <2>5 DEF IInv
<1>4. CASE End
  <2>1. Shape'
    BY <1>0, <1>1, <1>4 DEF End, Shape
  <2>2. Counter'
    BY <1>0, <1>1, <1>2, <1>4 DEF End, Counter, Inserting
  <2>3. Changed' = Changed /\ Announced' = Announced
    BY <1>4 DEF End, Changed, Announced
  <2>4. Stored' /\ Logged'
    BY <1>0, <1>4, <2>3 DEF End, Stored, Logged
  <2>5. Locked' /\ Reading'
    BY <1>0, <1>4 DEF End, readerVars, Locked, Reading
  <2> QED
    BY <2>1, <2>2, <2>4, <2>5 DEF IInv
<1>5. CASE WriteLock
  <2>1. Shape' /\ Counter'
    BY <1>0, <1>5 DEF WriteLock, Shape, Counter, Inserting
  <2>2. Changed' = Changed /\ Announced' = Announced
    BY <1>5 DEF WriteLock, Changed, Announced
  <2>3. Stored' /\ Logged'
    BY <1>0, <1>5, <2>2 DEF WriteLock, Stored, Logged
  <2>4. Locked' /\ Reading'
    BY <1>0, <1>5 DEF WriteLock, readerVars, Locked, Reading
  <2> QED
    BY <2>1, <2>3, <2>4 DEF IInv
<1>6. CASE Change
  <2>1. modifier = "change" /\ modifier' = "announce" /\ step' = step
    BY <1>0, <1>6, IdIsRight DEF Change
  <2>2. Shape' /\ Counter'
    BY <1>0, <1>6, <2>1 DEF Change, Shape, Counter, Inserting
  <2>3. Stored'
    <3>1. Changed = step - 1 /\ Changed' = step
      BY <2>1 DEF Changed
    <3>2. actions_ = Added(step - 1) \ Removed(step - 1)
      BY <1>0, <3>1 DEF Stored
    <3>3. (Added(step) \ Removed(step))' = Added(step) \ Removed(step)
      BY <2>1 DEF Added, Removed
    <3>4. CASE Inserting
      <4>1. actions_' = actions_ \cup {step}
        BY <1>0, <1>6, <2>1, <3>4, IdIsRight DEF Change
      <4> QED
        BY <1>0, <2>1, <3>1, <3>2, <3>3, <3>4, <4>1, OneMore DEF Stored
    <3>5. CASE ~Inserting
      <4>1. actions_' = actions_ \ {step - Count}
        BY <1>0, <1>6, <2>1, <3>5, IdIsRight DEF Change
      <4> QED
        BY <1>0, <2>1, <3>1, <3>2, <3>3, <3>5, <4>1, OneMore DEF Stored
    <3> QED
      BY <3>4, <3>5
  <2>4. Announced' = Announced
    BY <2>1 DEF Announced
  <2>5. Logged'
    BY <1>0, <1>6, <2>4 DEF Change, Logged
  <2>6. Locked' /\ Reading'
    BY <1>0, <1>6, <2>1 DEF Change, readerVars, Locked, Reading
  <2> QED
    BY <2>2, <2>3, <2>5, <2>6 DEF IInv
<1>7. CASE Announce
  <2>1. modifier = "announce" /\ modifier' = "unlock" /\ step' = step
    BY <1>7 DEF Announce
  <2>2. Shape' /\ Counter'
    BY <1>0, <1>7, <2>1 DEF Announce, Shape, Counter, Inserting
  <2>3. Changed' = Changed
    BY <2>1 DEF Changed
  <2>4. Stored'
    BY <1>0, <1>7, <2>3 DEF Announce, Stored
  <2>5. Logged'
    <3>1. Announced = step - 1 /\ Announced' = step
      BY <2>1 DEF Announced
    <3>2. Event \in Kinds \X Ids /\ events \in Seq(Kinds \X Ids)
      BY <1>0, <2>1, IdIsRight DEF Event, Kinds, Logged
    <3>3. events' \in Seq(Kinds \X Ids)
      BY <1>7, <3>2, AppendProperties DEF Announce
    <3>4. \A name : Named(name, Append(events, Event)) =
             IF Event[1] = name THEN Named(name, events) \cup {Event[2]}
             ELSE Named(name, events)
      BY <3>2, NamedAppend
    <3>5. Named("add", events) = Added(step - 1) /\ Named("remove", events) = Removed(step - 1)
      BY <1>0, <3>1 DEF Logged
    <3>6. CASE Inserting
      <4>1. Event[1] = "add" /\ Event[2] = step
        BY <1>0, <2>1, <3>6, IdIsRight DEF Event
      <4> QED
        BY <1>0, <1>7, <2>1, <3>1, <3>3, <3>5, <3>6, <3>4, <4>1, OneMore DEF Logged, Announce
    <3>7. CASE ~Inserting
      <4>1. Event[1] = "remove" /\ Event[2] = step - Count
        BY <1>0, <2>1, <3>7, IdIsRight DEF Event
      <4> QED
        BY <1>0, <1>7, <2>1, <3>1, <3>3, <3>5, <3>7, <3>4, <4>1, OneMore DEF Logged, Announce
    <3> QED
      BY <3>6, <3>7
  <2>6. Locked' /\ Reading'
    BY <1>0, <1>7, <2>1 DEF Announce, readerVars, Locked, Reading
  <2> QED
    BY <2>2, <2>4, <2>5, <2>6 DEF IInv
<1>8. CASE WriteUnlock
  <2>1. modifier = "unlock" /\ modifier' = "next" /\ step' = step + 1 /\ step <= Total
    BY <1>0, <1>8 DEF WriteUnlock, Shape
  <2>2. Shape'
    BY <1>1, <1>2, <2>1 DEF Shape
  <2>3. Counter'
    BY <1>0, <1>1, <1>2, <1>8, <2>1 DEF WriteUnlock, Counter, Inserting
  <2>4. Changed = step /\ Announced = step /\ Changed' = step /\ Announced' = step
    BY <1>2, <2>1 DEF Changed, Announced
  <2>5. Stored' /\ Logged'
    BY <1>0, <1>8, <2>4 DEF WriteUnlock, Stored, Logged
  <2>6. Locked' /\ Reading'
    BY <1>0, <1>8, <2>1 DEF WriteUnlock, readerVars, Locked, Reading
  <2> QED
    BY <2>2, <2>3, <2>5, <2>6 DEF IInv
<1>9. ASSUME NEW r \in Readers, NEW id \in Ids, ReadLock(r, id) PROVE IInv'
  <2>1. UNCHANGED <<next_id, actions_, writer, modifier, step, events>>
    BY <1>9 DEF ReadLock
  <2>2. Shape' /\ Counter' /\ Stored' /\ Logged'
    BY <1>0, <2>1 DEF Shape, Counter, Inserting, Stored, Logged, Changed, Announced
  <2>3. Locked'
    BY <1>0, <1>9 DEF ReadLock, Locked
  <2>4. Reading'
    BY <1>0, <1>1, <1>9 DEF ReadLock, Reading, Ids
  <2> QED
    BY <2>2, <2>3, <2>4 DEF IInv
<1>10. ASSUME NEW r \in Readers, Look(r) PROVE IInv'
  <2>1. UNCHANGED <<next_id, actions_, writer, modifier, step, events>>
    BY <1>10 DEF Look
  <2>2. Shape' /\ Counter' /\ Stored' /\ Logged'
    BY <1>0, <2>1 DEF Shape, Counter, Inserting, Stored, Logged, Changed, Announced
  <2>3. Locked' /\ Reading'
    BY <1>0, <1>10 DEF Look, Locked, Reading
  <2> QED
    BY <2>2, <2>3 DEF IInv
<1>11. ASSUME NEW r \in Readers, ReadUnlock(r) PROVE IInv'
  <2>1. UNCHANGED <<next_id, actions_, writer, modifier, step, events>>
    BY <1>11 DEF ReadUnlock
  <2>2. Shape' /\ Counter' /\ Stored' /\ Logged'
    BY <1>0, <2>1 DEF Shape, Counter, Inserting, Stored, Logged, Changed, Announced
  <2>3. Locked' /\ Reading'
    BY <1>0, <1>11 DEF ReadUnlock, Locked, Reading
  <2> QED
    BY <2>2, <2>3 DEF IInv
<1>12. CASE UNCHANGED storeVars
  <2>1. Shape' /\ Counter' /\ Stored' /\ Logged'
    BY <1>0, <1>12
    DEF storeVars, Shape, Counter, Inserting, Stored, Logged, Changed, Announced
  <2>2. Locked' /\ Reading'
    BY <1>0, <1>12 DEF storeVars, Locked, Reading
  <2> QED
    BY <2>1, <2>2 DEF IInv
<1> QED
  BY <1>3, <1>4, <1>5, <1>6, <1>7, <1>8, <1>9, <1>10, <1>11, <1>12 DEF Next
LEMMA IInvAlways == Spec => []IInv
<1> QED
  BY IInvInit, IInvStep, PTL DEF Spec

\* The events are as many as the calls that have announced theirs.
Counted == Len(events) = Announced

LEMMA CountedAlways == Spec => []Counted
<1>1. Init => Counted
  BY EmptySeq DEF Init, Counted, Announced
<1>2. ASSUME IInv, Counted, [Next]_storeVars PROVE Counted'
  <2>1. events \in Seq(Kinds \X Ids) /\ step \in Nat
    BY <1>2, TotalFacts DEF IInv, Logged, Shape
  <2>2. CASE Announce
    <3>1. Len(events') = Len(events) + 1
      BY <2>1, <2>2 DEF Announce
    <3>2. QED
      BY <1>2, <2>1, <2>2, <3>1 DEF Announce, Counted, Announced
  <2>3. CASE WriteUnlock
    BY <1>2, <2>1, <2>3 DEF WriteUnlock, Counted, Announced
  <2>4. CASE Begin \/ End \/ WriteLock \/ Change
    BY <1>2, <2>4 DEF Begin, End, WriteLock, Change, Counted, Announced
  <2>5. ASSUME NEW r \in Readers,
               (\E id \in Ids : ReadLock(r, id)) \/ Look(r) \/ ReadUnlock(r)
        PROVE  Counted'
    BY <1>2, <2>5 DEF ReadLock, Look, ReadUnlock, Counted, Announced
  <2>6. CASE UNCHANGED storeVars
    BY <1>2, <2>6 DEF storeVars, Counted, Announced
  <2>7. QED
    BY <1>2, <2>2, <2>3, <2>4, <2>5, <2>6 DEF Next
<1>3. QED
  BY <1>1, <1>2, IInvAlways, PTL DEF Spec

\* Every variable keeps its type.
THEOREM TypeCorrect == Spec => []TypeOK
<1>1. IInv => TypeOK
  <2> SUFFICES ASSUME IInv PROVE TypeOK
    OBVIOUS
  <2>0. Shape /\ Counter /\ Stored /\ Logged /\ Locked /\ Reading
    BY DEF IInv
  <2>1. Total \in Nat /\ Count \in Nat /\ Total >= Count /\ Total - Count <= Count
    BY TotalFacts, StoreAssumption
  <2>2. next_id \in 0..Count
    BY <2>0, <2>1 DEF Shape, Counter, Inserting
  <2>3. actions_ \subseteq Ids
    <3>1. Changed \in Nat /\ Added(Changed) \subseteq Ids
      BY <2>0, <2>1 DEF Shape, Changed, Added, Ids
    <3> QED
      BY <2>0, <3>1 DEF Stored
  <2> QED
    BY <2>0, <2>2, <2>3 DEF TypeOK, Shape, Logged, Locked, Reading, Kinds
<1> QED
  BY <1>1, IInvAlways, PTL

\* my_plugin::remove finds each id that modifier_ guesses, and insert never finds
\* its id there, so neither throws out of the thread.
THEOREM GuessedIdsExist == Spec => []ModifierNeverThrows
<1>1. IInv => ModifierNeverThrows
  BY DEF IInv, Shape, ModifierNeverThrows
<1> QED
  BY <1>1, IInvAlways, PTL

\* While a thread reads, what was changed was announced.
LEMMA ReadersMatch == IInv => StoreMatchesEvents
<1> SUFFICES ASSUME IInv, sharers # {}
             PROVE  actions_ = Named("add", events) \ Named("remove", events)
  BY DEF StoreMatchesEvents
<1>1. modifier \notin {"change", "announce", "unlock"}
  BY DEF IInv, Locked
<1>2. Changed = Announced
  BY <1>1 DEF Changed, Announced
<1> QED
  BY <1>2 DEF IInv, Stored, Logged

\* A thread inside retrieve or execute sees the set that the events announced so
\* far add up to: insert and remove call the host before they unlock mtx_.
THEOREM ReadersSeeWhatWasAnnounced == Spec => []StoreMatchesEvents
BY ReadersMatch, IInvAlways, PTL

\* An action that was announced is only answered with PASMP_ERROR_ACTION_NOENT
\* when its removal was announced before.
THEOREM NoentComesAfterTheEvent == Spec => NoentIsAnnounced
<1>1. IInv /\ [Next]_storeVars =>
        [\A r \in Readers :
           (Look(r) /\ answer'[r] = "noent" /\ query[r] \in Named("add", events)) =>
             query[r] \in Named("remove", events)]_storeVars
  <2> SUFFICES ASSUME IInv, NEW r \in Readers, Look(r), answer'[r] = "noent",
                      query[r] \in Named("add", events)
               PROVE  query[r] \in Named("remove", events)
    OBVIOUS
  <2>1. query[r] \notin actions_
    BY DEF Look, IInv, Reading
  <2>2. r \in sharers
    BY DEF Look, IInv, Reading
  <2>3. modifier \notin {"change", "announce", "unlock"}
    BY <2>2 DEF IInv, Locked
  <2>4. Changed = Announced
    BY <2>3 DEF Changed, Announced
  <2> QED
    BY <2>1, <2>4 DEF IInv, Stored, Logged
<1> QED
  BY <1>1, IInvAlways, PTL DEF Spec, NoentIsAnnounced
=============================================================================
