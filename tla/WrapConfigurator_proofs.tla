----------------------- MODULE WrapConfigurator_proofs -----------------------
(***************************************************************************)
(* Proofs about WrapConfigurator for any sets of configurators.  Every     *)
(* step is a step of the plugin or leaves the plugin alone, so the         *)
(* invariant of PluginConfiguration holds of the composition.  What is     *)
(* added follows one request from prime_configure to the permit: for as    *)
(* long as the plugin may call the object, and then while the permit lies  *)
(* in resultsem_, the object is about to wait for it.                      *)
(***************************************************************************)
EXTENDS WrapConfigurator, TLAPS

Handshake == INSTANCE PluginConfiguration_proofs WITH
  Clients  <- Configurators,
  Throwing <- {}

\* The user is on the way to resultsem_.acquire(), or will be sent there by the
\* flag: whoever finds it set has to wait.
Expecting(o) ==
  \/ driver[o] \in {"mark", "take", "dtor_take"}
  \/ being_configured_[o] /\ driver[o] \in {"idle", "await", "dtor_await"}

\* One request at a time: it is being submitted, with the plugin, or answered.
RequestInv(o) ==
  /\ caller[o] # "idle" <=> driver[o] = "prime"
  /\ being_configured_[o] => driver[o] \in {"idle", "await", "dtor_await"}
  /\ WillCall(o) => Expecting(o) /\ resultsem_[o] = 0
  /\ resultsem_[o] > 0 => Expecting(o)
  /\ resultsem_[o] > 0 \/ driver[o] = "read" => reports[o] # <<>> /\ result_[o] # "none"

ObjTypes ==
  /\ driver \in [Configurators -> DriverLabels]
  /\ being_configured_ \in [Configurators -> BOOLEAN]
  /\ resultsem_ \in [Configurators -> {0, 1}]
  /\ result_ \in [Configurators -> Results]
  /\ returned \in [Configurators -> Results]
  /\ callback_ \in [Configurators -> BOOLEAN]
  /\ cb \in {"none", "user", "signal"}

\* Inside wrap_callback the plugin's thread is inside the callback.
InCallback ==
  /\ cb # "none" => thread = "callback"
  /\ cb = "user" => cfgcallback_ \in AsyncConfigurators
  /\ cb = "signal" => result_[cfgcallback_] # "none"

WInv ==
  /\ Handshake!IInv
  /\ thread \notin {"catch", "terminated"}
  /\ ObjTypes
  /\ InCallback
  /\ dtor # "alive" => \A o \in Configurators : driver[o] = "gone"
  /\ \A o \in Configurators : RequestInv(o)

\* callback_ goes with the destructor; if users await first, the destructor has
\* nothing left to wait for.
MembersInv ==
  \A o \in Configurators :
    /\ ~callback_[o] => driver[o] \in {"dtor_await", "dtor_take", "gone"}
    /\ AwaitsLast => ~(driver[o] \in {"dtor_await", "dtor_take"} /\ Expecting(o))

-----------------------------------------------------------------------------
(***************************************************************************)
(* The plugin inside.                                                      *)
(***************************************************************************)
LEMMA HandshakeAssumption == Handshake!ConfigurationAssumption
BY ConfiguratorAssumption DEF Handshake!ConfigurationAssumption

\* What the proofs below need of the plugin's invariant.
LEMMA HandshakeHolds ==
  ASSUME Handshake!IInv
  PROVE  /\ cfgcallback_ \in Configurators \cup {NoClient}
         /\ sem_from_cfg_ \in {0, 1}
         /\ caller \in [Configurators -> {"idle", "assign", "publish"}]
         /\ reports \in [Configurators -> Seq({"success", "error"})]
         /\ thread \in {"callback", "release"} => cfgcallback_ \in Configurators
         /\ dtor = "alive" /\ thread \in {"check", "callback", "release"} => sem_to_cfg_ = 0
         /\ dtor = "alive" /\ sem_from_cfg_ = 1 => sem_to_cfg_ = 0 /\ thread \notin {"check", "callback"}
         /\ \A o \in Configurators : caller[o] # "idle" =>
              /\ dtor = "alive" /\ sem_to_cfg_ = 0 /\ thread = "acquire"
              /\ \A p \in Configurators : caller[p] # "idle" => p = o
         /\ \A o \in Configurators : caller[o] = "publish" => cfgcallback_ = o
         /\ dtor # "alive" => stop_requested
<1>1. /\ cfgcallback_ \in Configurators \cup {NoClient}
      /\ sem_from_cfg_ \in {0, 1}
      /\ caller \in [Configurators -> {"idle", "assign", "publish"}]
      /\ reports \in [Configurators -> Seq({"success", "error"})]
  BY DEF Handshake!IInv, Handshake!TypeOK, Handshake!CallerLabels, Handshake!Outcomes
<1>2. /\ thread \in {"callback", "release"} => cfgcallback_ \in Configurators
      /\ \A o \in Configurators : caller[o] = "publish" => cfgcallback_ = o
      /\ dtor = "alive" /\ thread \in {"callback", "release"} => sem_to_cfg_ = 0
      /\ thread \in {"callback", "release"} => sem_from_cfg_ = 0
  BY DEF Handshake!IInv, Handshake!GoodCallback
<1>3. /\ dtor = "alive" /\ thread = "check" => sem_from_cfg_ = 0 /\ sem_to_cfg_ = 0
      /\ dtor = "alive" /\ sem_from_cfg_ = 1 => sem_to_cfg_ = 0
  BY DEF Handshake!IInv, Handshake!OnePermit, Handshake!TypeOK
<1>4. ASSUME NEW o \in Configurators, caller[o] # "idle"
      PROVE  /\ dtor = "alive" /\ sem_to_cfg_ = 0 /\ thread = "acquire"
             /\ \A p \in Configurators : caller[p] # "idle" => p = o
  <2>1. \A p \in Configurators : caller[p] # "idle" => p \in Handshake!Submitting
    BY <1>1 DEF Handshake!Submitting
  <2>2. dtor = "alive"
    BY <1>4, <2>1 DEF Handshake!IInv
  <2>3. QED
    BY <1>4, <2>1, <2>2 DEF Handshake!IInv, Handshake!OnePermit
<1>5. dtor # "alive" => stop_requested
  BY DEF Handshake!IInv
<1>6. QED
  BY <1>1, <1>2, <1>3, <1>4, <1>5

\* The instances name the same formulas.
LEMMA SamePlugin ==
  /\ Plugin!Init <=> Handshake!Init
  /\ [Plugin!Next]_(Plugin!cfgVars) <=> [Handshake!Next]_(Handshake!cfgVars)
  /\ Plugin!TypeOK <=> Handshake!TypeOK
<1> USE DEF Plugin!cfgVars, Handshake!cfgVars
<1>1. ASSUME NEW o \in Configurators
      PROVE  /\ Plugin!TryAcquire(o) <=> Handshake!TryAcquire(o)
             /\ Plugin!InConfigure(o) <=> Handshake!InConfigure(o)
  BY DEF Plugin!TryAcquire, Handshake!TryAcquire, Plugin!InConfigure, Handshake!InConfigure,
         Plugin!AssignCallback, Handshake!AssignCallback, Plugin!Publish, Handshake!Publish
<1>2. /\ Plugin!Acquire <=> Handshake!Acquire
      /\ Plugin!CheckStop <=> Handshake!CheckStop
      /\ Plugin!Release <=> Handshake!Release
      /\ Plugin!DtorNext <=> Handshake!DtorNext
  BY DEF Plugin!Acquire, Handshake!Acquire, Plugin!CheckStop, Handshake!CheckStop,
         Plugin!Release, Handshake!Release, Plugin!DtorNext, Handshake!DtorNext,
         Plugin!RequestStop, Handshake!RequestStop, Plugin!DtorRelease,
         Handshake!DtorRelease, Plugin!Join, Handshake!Join
<1>3. ASSUME NEW threw \in BOOLEAN
      PROVE  Plugin!RunCallback(threw) <=> Handshake!RunCallback(threw)
  BY DEF Plugin!RunCallback, Handshake!RunCallback, Plugin!Told, Handshake!Told
<1>4. ASSUME NEW threw \in {"never", "on_error", "on_success"}
      PROVE  Plugin!RunHandler(threw) <=> Handshake!RunHandler(threw)
  BY DEF Plugin!RunHandler, Handshake!RunHandler, Plugin!Told, Handshake!Told
<1>5. Plugin!Next <=> Handshake!Next
  BY <1>1, <1>2, <1>3, <1>4 DEF Plugin!Next, Handshake!Next, Plugin!ThreadNext,
     Handshake!ThreadNext, Plugin!Running, Handshake!Running
<1>6. Plugin!Init <=> Handshake!Init
  BY DEF Plugin!Init, Handshake!Init
<1>7. Plugin!TypeOK <=> Handshake!TypeOK
  BY DEF Plugin!TypeOK, Handshake!TypeOK, Plugin!ThreadLabels, Handshake!ThreadLabels,
         Plugin!CallerLabels, Handshake!CallerLabels, Plugin!Outcomes, Handshake!Outcomes,
         Plugin!DtorLabels, Handshake!DtorLabels
<1>8. QED
  BY <1>5, <1>6, <1>7

\* Every step of the wrapper is a step of the plugin or leaves it alone.
LEMMA StepOfPlugin ==
  ASSUME thread # "terminated", [Next]_vars
  PROVE  [Plugin!Next]_(Plugin!cfgVars)
<1> USE DEF Plugin!Running
<1>1. ASSUME NEW o \in Configurators, Prime(o) \/ Assign(o) \/ Publish(o)
      PROVE  Plugin!Next
  BY <1>1 DEF Prime, Assign, Publish, Plugin!Next, Plugin!InConfigure
<1>2. CASE UserReturns \/ Signal
  BY <1>2 DEF UserReturns, Signal, Plugin!Next, Plugin!ThreadNext
<1>3. CASE PluginWorks \/ DropPlugin
  BY <1>3 DEF PluginWorks, DropPlugin, Plugin!Next, Plugin!ThreadNext, Plugin!DtorNext
<1>4. ASSUME NEW o \in Configurators,
             \/ Mark(o) \/ Read(o) \/ CallAwait(o) \/ DestroyMembers(o)
             \/ \E from, to \in DriverLabels : Exchange(o, from, to) \/ Take(o, from, to)
      PROVE  UNCHANGED cfgVars
  BY <1>4 DEF Mark, Read, CallAwait, DestroyMembers, Exchange, Take
<1>5. CASE CallUser \/ UserThrows \/ StoreSync \/ UNCHANGED vars
  BY <1>5 DEF CallUser, UserThrows, StoreSync, vars, cfgVars, Plugin!cfgVars
<1>6. UNCHANGED cfgVars => UNCHANGED Plugin!cfgVars
  BY DEF cfgVars, Plugin!cfgVars
<1>7. QED
  BY <1>1, <1>2, <1>3, <1>4, <1>5, <1>6 DEF Next, Working, Callback, DriverLabels

LEMMA HandshakeStep ==
  ASSUME Handshake!IInv, thread # "terminated", [Next]_vars
  PROVE  Handshake!IInv'
BY StepOfPlugin, SamePlugin, Handshake!IInvStep, HandshakeAssumption

-----------------------------------------------------------------------------
(***************************************************************************)
(* The objects.                                                            *)
(***************************************************************************)
LEMMA WInvInit == Init => WInv
<1> SUFFICES ASSUME Init PROVE WInv
  OBVIOUS
<1>1. Handshake!IInv
  BY SamePlugin, Handshake!IInvInit, HandshakeAssumption DEF Init
<1>2. /\ thread = "acquire" /\ sem_to_cfg_ = 0 /\ dtor = "alive"
      /\ caller = [o \in Configurators |-> "idle"]
  BY DEF Init, Plugin!Init
<1>3. ObjTypes /\ InCallback
  BY DEF Init, ObjTypes, InCallback, DriverLabels, Results
<1>4. ASSUME NEW o \in Configurators PROVE RequestInv(o)
  BY <1>2 DEF Init, RequestInv, WillCall, Expecting
<1>5. QED
  BY <1>1, <1>2, <1>3, <1>4 DEF WInv

\* The steps that leave what concerns o alone.
LEMMA RequestKept ==
  ASSUME NEW o \in Configurators, RequestInv(o), WillCall(o)' => WillCall(o),
         driver'[o] = driver[o], being_configured_'[o] = being_configured_[o],
         resultsem_'[o] = resultsem_[o], result_'[o] = result_[o],
         reports'[o] = reports[o], caller'[o] = caller[o]
  PROVE  RequestInv(o)'
BY DEF RequestInv, Expecting

\* The steps of the user of o inside its member functions.
LEMMA UserSteps ==
  ASSUME WInv, NEW o \in Configurators, UNCHANGED <<cfgVars, result_, cb>>,
         \A p \in Configurators \ {o} :
           /\ driver'[p] = driver[p] /\ being_configured_'[p] = being_configured_[p]
           /\ resultsem_'[p] = resultsem_[p],
         ObjTypes', RequestInv(o)', dtor = "alive"
  PROVE  WInv'
<1>1. ASSUME NEW p \in Configurators PROVE RequestInv(p)'
  <2>1. WillCall(p)' = WillCall(p)
    BY DEF WillCall, cfgVars
  <2>2. CASE p # o
    BY <2>1, <2>2, RequestKept DEF WInv, cfgVars
  <2>3. QED
    BY <2>2
<1>2. Handshake!IInv'
  BY DEF WInv, cfgVars, Handshake!IInv, Handshake!TypeOK, Handshake!OnePermit,
         Handshake!GoodCallback, Handshake!Busy, Handshake!Submitting
<1>3. InCallback'
  BY DEF WInv, InCallback, cfgVars
<1>4. QED
  BY <1>1, <1>2, <1>3 DEF WInv, cfgVars

LEMMA UserStep ==
  ASSUME WInv, NEW o \in Configurators,
         \/ Mark(o) \/ CallAwait(o) \/ Read(o) \/ DestroyMembers(o)
         \/ Exchange(o, "await", "take") \/ Exchange(o, "dtor_await", "dtor_take")
         \/ Take(o, "take", "read") \/ Take(o, "dtor_take", "gone")
  PROVE  WInv'
<1>1. ObjTypes /\ RequestInv(o)
  BY DEF WInv
<1>2. driver[o] # "gone" => dtor = "alive"
  BY DEF WInv
<1> USE DEF ObjTypes, DriverLabels, Results, Move
<1>4. CASE Mark(o)
  <2>1. WillCall(o)' = WillCall(o)
    BY <1>4 DEF Mark, cfgVars, WillCall
  <2>2. ObjTypes'
    BY <1>1, <1>4 DEF Mark
  <2>3. RequestInv(o)'
    BY <1>1, <1>4, <2>1 DEF Mark, cfgVars, RequestInv, Expecting
  <2>4. QED
    BY <1>1, <1>2, <1>4, <2>2, <2>3, UserSteps DEF Mark
<1>5. CASE CallAwait(o)
  <2>1. WillCall(o)' = WillCall(o)
    BY <1>5 DEF CallAwait, cfgVars, WillCall
  <2>2. ObjTypes'
    BY <1>1, <1>5 DEF CallAwait
  <2>3. RequestInv(o)'
    BY <1>1, <1>5, <2>1 DEF CallAwait, cfgVars, RequestInv, Expecting
  <2>4. QED
    BY <1>1, <1>2, <1>5, <2>2, <2>3, UserSteps DEF CallAwait
<1>6. CASE Read(o)
  <2>1. WillCall(o)' = WillCall(o)
    BY <1>6 DEF Read, cfgVars, WillCall
  <2>2. ObjTypes'
    BY <1>1, <1>6 DEF Read
  <2>3. RequestInv(o)'
    BY <1>1, <1>6, <2>1 DEF Read, cfgVars, RequestInv, Expecting
  <2>4. QED
    BY <1>1, <1>2, <1>6, <2>2, <2>3, UserSteps DEF Read
<1>7. CASE DestroyMembers(o)
  <2>1. WillCall(o)' = WillCall(o)
    BY <1>7 DEF DestroyMembers, cfgVars, WillCall
  <2>2. ObjTypes'
    BY <1>1, <1>7 DEF DestroyMembers
  <2>3. RequestInv(o)'
    BY <1>1, <1>7, <2>1 DEF DestroyMembers, cfgVars, RequestInv, Expecting
  <2>4. QED
    BY <1>1, <1>2, <1>7, <2>2, <2>3, UserSteps DEF DestroyMembers
<1>8. ASSUME NEW from, NEW to, Exchange(o, from, to),
             (from = "await" /\ to = "take") \/ (from = "dtor_await" /\ to = "dtor_take")
      PROVE  WInv'
  <2>1. WillCall(o)' = WillCall(o)
    BY <1>8 DEF Exchange, cfgVars, WillCall
  <2>2. ObjTypes'
    BY <1>1, <1>8 DEF Exchange
  <2>3. RequestInv(o)'
    <3>1. CASE being_configured_[o]
      BY <1>1, <1>8, <2>1, <3>1 DEF Exchange, cfgVars, RequestInv, Expecting
    <3>2. CASE ~being_configured_[o]
      BY <1>1, <1>8, <2>1, <3>2 DEF Exchange, cfgVars, RequestInv, Expecting
    <3>3. QED
      BY <3>1, <3>2
  <2>4. QED
    BY <1>1, <1>2, <1>8, <2>2, <2>3, UserSteps DEF Exchange
<1>9. ASSUME NEW from, NEW to, Take(o, from, to),
             (from = "take" /\ to = "read") \/ (from = "dtor_take" /\ to = "gone")
      PROVE  WInv'
  <2>1. WillCall(o)' = WillCall(o) /\ ~WillCall(o)
    BY <1>1, <1>9 DEF Take, cfgVars, WillCall, RequestInv
  <2>2. resultsem_[o] = 1 /\ resultsem_' = [resultsem_ EXCEPT ![o] = 0]
    <3>1. resultsem_[o] \in {0, 1} /\ resultsem_[o] > 0
      BY <1>1, <1>9 DEF Take
    <3>2. resultsem_[o] = 1 /\ resultsem_[o] - 1 = 0
      BY <3>1
    <3>3. QED
      BY <1>9, <3>2 DEF Take
  <2>3. ObjTypes'
    BY <1>1, <1>9, <2>2 DEF Take
  <2>4. RequestInv(o)'
    BY <1>1, <1>9, <2>1, <2>2 DEF Take, cfgVars, RequestInv, Expecting
  <2>5. QED
    BY <1>1, <1>2, <1>9, <2>2, <2>3, <2>4, UserSteps DEF Take
<1>10. QED
  BY <1>4, <1>5, <1>6, <1>7, <1>8, <1>9

\* The three steps of a request in the plugin.
LEMMA RequestStep ==
  ASSUME WInv, Handshake!IInv', AwaitsEach, NEW o \in Configurators,
         Prime(o) \/ Assign(o) \/ Publish(o)
  PROVE  WInv'
<1>1. /\ ObjTypes /\ Handshake!IInv
      /\ \A p \in Configurators : RequestInv(p)
  BY DEF WInv
<1>2. dtor = "alive" /\ dtor' = "alive" /\ UNCHANGED <<thread, cb>>
  <2>1. CASE Prime(o)
    BY <2>1 DEF Prime, Plugin!TryAcquire
  <2>2. CASE Assign(o) \/ Publish(o)
    <3>1. caller[o] # "idle"
      BY <2>2 DEF Assign, Publish, Plugin!AssignCallback, Plugin!Publish
    <3>2. QED
      BY <1>1, <2>2, <3>1, HandshakeHolds
         DEF Assign, Publish, Plugin!AssignCallback, Plugin!Publish, objVars
  <2>3. QED
    BY <2>1, <2>2
<1>3. UNCHANGED <<being_configured_, resultsem_, result_, returned, callback_, cb>>
  BY DEF Prime, Assign, Publish, objVars
<1>4. /\ caller \in [Configurators -> {"idle", "assign", "publish"}]
      /\ reports \in [Configurators -> Seq({"success", "error"})]
  BY <1>1, HandshakeHolds
<1>5. CASE Prime(o)
  <2>1. driver[o] = "idle" /\ ~being_configured_[o]
    BY <1>5 DEF Prime
  <2>2. ~WillCall(o) /\ resultsem_[o] = 0 /\ resultsem_[o] \in {0, 1} /\ ~(resultsem_[o] > 0)
    BY <1>1, <2>1 DEF RequestInv, Expecting, ObjTypes
  <2>3. UNCHANGED <<cfgcallback_, sem_to_cfg_>>
    BY <1>5 DEF Prime, Plugin!TryAcquire
  <2>4. \A p \in Configurators : WillCall(p)' <=> WillCall(p)
    BY <1>2, <2>3 DEF WillCall
  <2>5. CASE sem_from_cfg_ = 1
    <3>1. /\ caller' = [caller EXCEPT ![o] = "assign"]
          /\ answer' = [answer EXCEPT ![o] = "none"]
          /\ reports' = [reports EXCEPT ![o] = <<>>]
      BY <1>5, <2>5 DEF Prime, Plugin!TryAcquire
    <3>2. answer'[o] = "none"
      BY <1>1, <3>1 DEF Handshake!IInv, Handshake!TypeOK
    <3>3. driver' = [driver EXCEPT ![o] = "prime"]
      BY <1>5, <3>2 DEF Prime
    <3>4. ASSUME NEW p \in Configurators \ {o} PROVE RequestInv(p)'
      BY <1>1, <1>3, <1>4, <2>4, <3>1, <3>3, RequestKept DEF ObjTypes
    <3>5. caller'[o] = "assign" /\ driver'[o] = "prime"
      BY <1>1, <1>4, <3>1, <3>3 DEF ObjTypes
    <3>6. RequestInv(o)'
      BY <1>3, <2>1, <2>2, <2>4, <3>5 DEF RequestInv, Expecting
    <3>7. ObjTypes'
      BY <1>1, <1>3, <3>3 DEF ObjTypes, DriverLabels
    <3>8. QED
      BY <1>2, <1>3, <2>3, <3>4, <3>6, <3>7 DEF WInv, InCallback
  <2>6. CASE sem_from_cfg_ # 1
    <3>1. UNCHANGED <<caller, reports>> /\ answer' = [answer EXCEPT ![o] = "unavailable"]
      BY <1>5, <2>6 DEF Prime, Plugin!TryAcquire
    <3>2. answer'[o] = "unavailable"
      BY <1>1, <3>1 DEF Handshake!IInv, Handshake!TypeOK
    <3>3. driver' = driver
      BY <1>1, <1>5, <2>1, <3>2 DEF Prime, ObjTypes
    <3>4. ASSUME NEW p \in Configurators PROVE RequestInv(p)'
      BY <1>1, <1>3, <2>4, <3>1, <3>3, RequestKept
    <3>5. QED
      BY <1>1, <1>2, <1>3, <2>3, <3>3, <3>4 DEF WInv, ObjTypes, InCallback
  <2>7. QED
    BY <2>5, <2>6
<1>6. CASE Assign(o) \/ Publish(o)
  <2>1. caller[o] # "idle" /\ UNCHANGED reports
    BY <1>6 DEF Assign, Publish, Plugin!AssignCallback, Plugin!Publish
  <2>2. thread = "acquire" /\ sem_to_cfg_ = 0
    BY <1>1, <2>1, HandshakeHolds
  <2>3. /\ driver[o] = "prime"
        /\ resultsem_[o] = 0 /\ ~(resultsem_[o] > 0) /\ ~being_configured_[o]
    BY <1>1, <2>1 DEF RequestInv, Expecting, ObjTypes
  <2>4. cb = "none"
    BY <2>2 DEF WInv, InCallback, ObjTypes
  <2>5. CASE Assign(o)
    <3>1. /\ caller' = [caller EXCEPT ![o] = "publish"]
          /\ UNCHANGED <<sem_to_cfg_, driver>>
      BY <1>6, <2>5 DEF Assign, Plugin!AssignCallback, objVars
    <3>2. \A p \in Configurators : ~WillCall(p)'
      BY <1>2, <2>2, <3>1 DEF WillCall
    <3>3. ASSUME NEW p \in Configurators \ {o} PROVE RequestInv(p)'
      BY <1>1, <1>3, <1>4, <2>1, <3>1, <3>2, RequestKept
    <3>4. RequestInv(o)'
      BY <1>3, <1>4, <2>3, <3>1, <3>2 DEF RequestInv, Expecting
    <3>5. QED
      BY <1>1, <1>2, <1>3, <2>4, <3>1, <3>3, <3>4 DEF WInv, ObjTypes, InCallback
  <2>6. CASE Publish(o)
    <3>1. /\ caller' = [caller EXCEPT ![o] = "idle"]
          /\ driver' = [driver EXCEPT ![o] = "mark"]
          /\ cfgcallback_' = cfgcallback_ /\ cfgcallback_ = o
      BY <1>1, <2>6, HandshakeHolds DEF Publish, Plugin!Publish, Move
    <3>2. \A p \in Configurators \ {o} : ~WillCall(p)'
      BY <3>1 DEF WillCall
    <3>3. ASSUME NEW p \in Configurators \ {o} PROVE RequestInv(p)'
      BY <1>1, <1>3, <1>4, <2>1, <3>1, <3>2, RequestKept DEF ObjTypes
    <3>4. caller'[o] = "idle" /\ driver'[o] = "mark"
      BY <1>1, <1>4, <3>1 DEF ObjTypes
    <3>5. RequestInv(o)'
      BY <1>3, <2>3, <3>4 DEF RequestInv, Expecting
    <3>6. ObjTypes'
      BY <1>1, <1>3, <3>1 DEF ObjTypes, DriverLabels
    <3>7. QED
      BY <1>2, <1>3, <2>4, <3>3, <3>5, <3>6 DEF WInv, InCallback
  <2>7. QED
    BY <1>6, <2>5, <2>6
<1>7. QED
  BY <1>5, <1>6

\* Inside the callback only what is of the object that is called may change, and
\* the object expects it.
LEMMA CallbackStep ==
  ASSUME WInv, Handshake!IInv', Callback
  PROVE  WInv'
<1>1. /\ ObjTypes /\ Handshake!IInv /\ InCallback
      /\ \A p \in Configurators : RequestInv(p)
  BY DEF WInv
<1>2. thread = "callback" /\ cfgcallback_ \in Configurators
  <2>1. thread = "callback"
    BY <1>1 DEF Callback, CallUser, UserReturns, UserThrows, StoreSync, Signal, InCallback
  <2>2. QED
    BY <1>1, <2>1, HandshakeHolds
<1> DEFINE o == cfgcallback_
<1>3. WillCall(o) /\ Expecting(o) /\ resultsem_[o] = 0 /\ driver[o] \notin {"read", "gone"}
  BY <1>1, <1>2 DEF WillCall, RequestInv, Expecting
<1>4. dtor = "alive" /\ sem_to_cfg_ = 0
  BY <1>1, <1>2, <1>3, HandshakeHolds DEF WInv
<1>5. /\ reports \in [Configurators -> Seq({"success", "error"})]
      /\ UNCHANGED <<driver, being_configured_, returned, callback_, caller, cfgcallback_, dtor>>
  BY <1>1, HandshakeHolds DEF Callback, CallUser, UserReturns, UserThrows, StoreSync, Signal,
     cfgVars, Plugin!RunCallback
<1> USE DEF ObjTypes
<1>6. CASE CallUser
  <2>1. ASSUME NEW p \in Configurators PROVE RequestInv(p)'
    BY <1>1, <1>5, <1>6, RequestKept DEF CallUser, cfgVars, WillCall
  <2>2. QED
    BY <1>1, <1>2, <1>4, <1>5, <1>6, <2>1 DEF CallUser, cfgVars, WInv, InCallback
<1>7. CASE UserThrows \/ StoreSync
  <2>1. PICK r \in {"success", "callback_exception"} : Store(r)
    BY <1>7 DEF UserThrows, StoreSync
  <2>2. result_' = [result_ EXCEPT ![o] = r] /\ cb' = "signal" /\ UNCHANGED <<cfgVars, resultsem_>>
    BY <1>7, <2>1 DEF UserThrows, StoreSync, Store
  <2>3. \A p \in Configurators : WillCall(p)' <=> WillCall(p)
    BY <2>2 DEF cfgVars, WillCall
  <2>4. ASSUME NEW p \in Configurators \ {o} PROVE RequestInv(p)'
    BY <1>1, <1>5, <2>2, <2>3, RequestKept DEF cfgVars
  <2>5. ~(resultsem_'[o] > 0)
    BY <1>3, <2>2
  <2>6. RequestInv(o)'
    BY <1>1, <1>2, <1>3, <1>5, <2>2, <2>3, <2>5 DEF cfgVars, RequestInv, Expecting
  <2>7. ObjTypes'
    BY <1>1, <1>5, <2>2 DEF Results
  <2>8. result_'[o] # "none"
    BY <1>1, <1>2, <2>2
  <2>9. QED
    BY <1>1, <1>2, <1>4, <1>5, <2>2, <2>4, <2>6, <2>7, <2>8 DEF cfgVars, WInv, InCallback
<1>8. CASE UserReturns \/ Signal
  <2>1. /\ thread' = "release" /\ cb' = "none" /\ sem_to_cfg_' = 0
        /\ reports' = [reports EXCEPT ![o] = @ \o <<"success">>]
    BY <1>4, <1>8 DEF UserReturns, Signal, Plugin!RunCallback, Plugin!Told
  <2>2. \A p \in Configurators : ~WillCall(p)'
    BY <1>5, <2>1 DEF WillCall
  <2>3. reports'[o] # <<>> /\ \A p \in Configurators \ {o} : reports'[p] = reports[p]
    <3>1. Handshake!Told(<<"success">>)
      BY <2>1 DEF Handshake!Told
    <3>2. reports \in [Configurators -> Seq(Handshake!Outcomes)]
      BY <1>5 DEF Handshake!Outcomes
    <3>3. QED
      BY <1>2, <3>1, <3>2, Handshake!ToldStep, HandshakeAssumption
  <2>4. CASE UserReturns
    <3>1. result_' = [result_ EXCEPT ![o] = "success"] /\ UNCHANGED resultsem_
      BY <2>4 DEF UserReturns, Store
    <3>2. ASSUME NEW p \in Configurators \ {o} PROVE RequestInv(p)'
      BY <1>1, <1>5, <2>2, <2>3, <3>1, RequestKept
    <3>3. ~(resultsem_'[o] > 0)
      BY <1>3, <3>1
    <3>4. RequestInv(o)'
      BY <1>1, <1>2, <1>3, <1>5, <2>2, <3>3 DEF RequestInv, Expecting
    <3>5. ObjTypes'
      BY <1>1, <1>5, <2>1, <3>1 DEF Results
    <3>6. QED
      BY <1>4, <1>5, <2>1, <3>2, <3>4, <3>5 DEF WInv, InCallback
  <2>5. CASE Signal
    <3>1. resultsem_' = [resultsem_ EXCEPT ![o] = 1] /\ UNCHANGED result_
      <4>1. resultsem_[o] + 1 = 1
        BY <1>3
      <4>2. QED
        BY <2>5, <4>1 DEF Signal
    <3>2. ASSUME NEW p \in Configurators \ {o} PROVE RequestInv(p)'
      BY <1>1, <1>5, <2>2, <2>3, <3>1, RequestKept
    <3>3. result_'[o] # "none"
      BY <1>1, <2>5, <3>1 DEF Signal, InCallback
    <3>4. RequestInv(o)'
      BY <1>1, <1>2, <1>3, <1>5, <2>2, <2>3, <3>3 DEF RequestInv, Expecting
    <3>5. ObjTypes'
      BY <1>1, <1>5, <2>1, <3>1
    <3>6. QED
      BY <1>4, <1>5, <2>1, <3>2, <3>4, <3>5 DEF WInv, InCallback
  <2>6. QED
    BY <1>8, <2>4, <2>5
<1>9. QED
  BY <1>6, <1>7, <1>8 DEF Callback

\* The rest of the plugin's steps call nobody anew.
LEMMA PluginStep ==
  ASSUME WInv, Handshake!IInv', PluginWorks \/ DropPlugin
  PROVE  WInv'
<1>1. /\ ObjTypes /\ Handshake!IInv /\ InCallback
      /\ \A p \in Configurators : RequestInv(p)
  BY DEF WInv
<1>2. UNCHANGED objVars /\ UNCHANGED <<caller, reports, cfgcallback_>>
  BY DEF PluginWorks, DropPlugin, Plugin!Acquire, Plugin!CheckStop, Plugin!Release,
         Plugin!DtorRelease, Plugin!Join, Plugin!RequestStop
<1>3. thread' \notin {"catch", "terminated"} /\ (thread = "callback" => thread' = "callback")
  BY DEF WInv, PluginWorks, DropPlugin, Plugin!Acquire, Plugin!CheckStop, Plugin!Release,
         Plugin!DtorRelease, Plugin!Join, Plugin!RequestStop
<1>4. dtor' # "alive" => \A o \in Configurators : driver[o] = "gone"
  BY DEF WInv, PluginWorks, DropPlugin, Plugin!Acquire, Plugin!CheckStop, Plugin!Release,
         Plugin!DtorRelease, Plugin!Join, Plugin!RequestStop
<1>5. ASSUME NEW o \in Configurators, WillCall(o)' PROVE WillCall(o)
  <2>1. CASE Plugin!Acquire
    <3>1. sem_to_cfg_ = 1 /\ sem_to_cfg_' = 0 /\ thread = "acquire" /\ thread' = "check"
          /\ dtor' = dtor
      BY <2>1 DEF Plugin!Acquire
    <3>2. QED
      BY <1>2, <1>5, <3>1 DEF WillCall
  <2>2. CASE Plugin!CheckStop
    <3>1. /\ thread = "check" /\ UNCHANGED <<dtor, sem_to_cfg_>>
          /\ thread' = IF stop_requested THEN "finished" ELSE "callback"
      BY <2>2 DEF Plugin!CheckStop
    <3>2. ~stop_requested => dtor = "alive"
      BY <1>1, HandshakeHolds
    <3>3. QED
      BY <1>2, <1>5, <3>1, <3>2 DEF WillCall
  <2>3. CASE Plugin!Release
    BY <1>2, <1>5, <2>3 DEF Plugin!Release, WillCall
  <2>4. CASE Plugin!DtorRelease \/ Plugin!Join \/ Plugin!RequestStop
    <3>1. dtor' # "alive" /\ thread' = thread
      BY <2>4 DEF Plugin!DtorRelease, Plugin!Join, Plugin!RequestStop
    <3>2. QED
      BY <1>2, <1>5, <3>1 DEF WillCall
  <2>5. QED
    BY <2>1, <2>2, <2>3, <2>4 DEF PluginWorks, DropPlugin
<1>6. ASSUME NEW o \in Configurators PROVE RequestInv(o)'
  BY <1>1, <1>2, <1>5, RequestKept DEF objVars
<1>7. ObjTypes' /\ InCallback'
  BY <1>1, <1>2, <1>3 DEF objVars, ObjTypes, InCallback
<1>8. QED
  BY <1>2, <1>3, <1>4, <1>6, <1>7 DEF objVars, WInv

LEMMA WInvStep ==
  ASSUME AwaitsEach, WInv, [Next]_vars
  PROVE  WInv'
<1>1. Handshake!IInv'
  BY HandshakeStep DEF WInv
<1>2. CASE UNCHANGED vars
  BY <1>1, <1>2, RequestKept DEF vars, cfgVars, objVars, WInv, ObjTypes, InCallback, WillCall
<1>3. CASE Next
  BY <1>1, <1>3, UserStep, RequestStep, CallbackStep, PluginStep DEF Next, Working
<1>4. QED
  BY <1>2, <1>3

LEMMA WInvAlways == ASSUME AwaitsEach PROVE Spec => []WInv
<1>1. WInv /\ [Next]_vars => WInv'
  BY WInvStep
<1>2. QED
  BY <1>1, WInvInit, PTL DEF Spec

-----------------------------------------------------------------------------
\* wrap_callback lets no exception reach the plugin's loop, so its thread is never
\* in the handler; no user's habits are supposed.
LEMMA NoHandler == Spec => [](Handshake!IInv /\ thread \notin {"catch", "terminated"})
<1> DEFINE I == Handshake!IInv /\ thread \notin {"catch", "terminated"}
<1>1. Init => I
  BY SamePlugin, Handshake!IInvInit, HandshakeAssumption DEF Init, Plugin!Init
<1>2. ASSUME I, [Next]_vars PROVE I'
  <2>1. Handshake!IInv'
    BY <1>2, HandshakeStep
  <2>2. ASSUME thread' # thread
        PROVE  thread' \in {"acquire", "check", "callback", "finished", "release"}
    <3>1. CASE UserReturns \/ Signal
      BY <3>1 DEF UserReturns, Signal, Plugin!RunCallback
    <3>2. CASE PluginWorks \/ DropPlugin
      BY <2>2, <3>2 DEF PluginWorks, DropPlugin, Plugin!Acquire, Plugin!CheckStop, Plugin!Release,
         Plugin!DtorRelease, Plugin!Join, Plugin!RequestStop
    <3>3. CASE CallUser \/ UserThrows \/ StoreSync \/ UNCHANGED vars
      BY <2>2, <3>3 DEF CallUser, UserThrows, StoreSync, vars, cfgVars
    <3>4. ASSUME NEW o \in Configurators, Prime(o) \/ CallAwait(o) \/ DestroyMembers(o) \/ Working(o)
          PROVE  FALSE
      BY <2>2, <3>4 DEF Prime, CallAwait, DestroyMembers, Working, Assign, Publish, Mark, Read,
         Exchange, Take, cfgVars, Plugin!TryAcquire, Plugin!AssignCallback, Plugin!Publish
    <3>5. QED
      BY <1>2, <3>1, <3>2, <3>3, <3>4 DEF Next, Callback
  <2>3. QED
    BY <1>2, <2>1, <2>2
<1>3. QED
  BY <1>1, <1>2, PTL DEF Spec

\* The wrapper uses the plugin as PluginConfiguration describes it, with callbacks
\* that do not throw, whatever its users do: what is proved of the handshake, that
\* it implements ConfigService among it, holds below the wrapper.
THEOREM WrapperUsesPlugin == Spec => Plugin!Spec
<1>1. Init => Plugin!Init
  BY DEF Init
<1>2. thread \notin {"catch", "terminated"} /\ [Next]_vars => [Plugin!Next]_(Plugin!cfgVars)
  BY StepOfPlugin
<1>3. QED
  BY <1>1, <1>2, NoHandler, PTL DEF Spec, Plugin!Spec

\* So each request the plugin accepts from a configurator is answered once, and
\* before the next one is accepted.
THEOREM WrapperIsServed == Spec => Handshake!ServiceSpec
<1>1. Plugin!Spec => Handshake!Spec
  BY SamePlugin, PTL DEF Plugin!Spec, Handshake!Spec
<1>2. QED
  BY <1>1, WrapperUsesPlugin, Handshake!ImplementsConfigService, HandshakeAssumption, PTL

\* If users await each configuration before they ask for the next, resultsem_, a
\* binary semaphore, is never released while it is 1, nor taken below 0.
THEOREM TypeCorrect == ASSUME AwaitsEach PROVE Spec => []TypeOK
<1>1. WInv => TypeOK
  BY SamePlugin DEF WInv, ObjTypes, TypeOK, Handshake!IInv
<1>2. QED
  BY <1>1, WInvAlways, PTL

\* The plugin's bare pointer to a configurator never outlives it: the destructor
\* waits, also when the user did not.
THEOREM PointerOutlived == ASSUME AwaitsEach PROVE Spec => []CalledObjectExists
<1>1. WInv => CalledObjectExists
  BY DEF WInv, RequestInv, Expecting, CalledObjectExists
<1>2. QED
  BY <1>1, WInvAlways, PTL

\* await returns the answer to the request it waits for, never an earlier one.
THEOREM AnswersAreFresh == ASSUME AwaitsEach PROVE Spec => []ResultIsFresh
<1>1. WInv => ResultIsFresh
  BY DEF WInv, RequestInv, ResultIsFresh
<1>2. QED
  BY <1>1, WInvAlways, PTL

\* The unlocked member result_ is not read while the plugin's thread may write it.
THEOREM ResultIsHandedOver == ASSUME AwaitsEach PROVE Spec => []ResultNotTorn
<1>1. WInv => ResultNotTorn
  BY DEF WInv, RequestInv, Expecting, WillCall, ResultNotTorn
<1>2. QED
  BY <1>1, WInvAlways, PTL

-----------------------------------------------------------------------------
(***************************************************************************)
(* The converse of RequestInv: whoever expects an answer has it or gets    *)
(* it, unless it is the one that wrap_callback does not signal.            *)
(***************************************************************************)
Unsignalled(o) == o \in AsyncConfigurators /\ reports[o] # <<>> /\ result_[o] = "success"

AnswerInv ==
  \A o \in Configurators :
    Expecting(o) => resultsem_[o] = 1 \/ WillCall(o) \/ Unsignalled(o)

LEMMA AnswerUserStep ==
  ASSUME WInv, AnswerInv, NEW o \in Configurators,
         \/ Mark(o) \/ CallAwait(o) \/ Read(o) \/ DestroyMembers(o)
         \/ Exchange(o, "await", "take") \/ Exchange(o, "dtor_await", "dtor_take")
         \/ Take(o, "take", "read") \/ Take(o, "dtor_take", "gone")
  PROVE  AnswerInv'
<1>1. ObjTypes /\ RequestInv(o)
  BY DEF WInv
<1>2. UNCHANGED <<cfgVars, result_>>
  BY DEF Mark, CallAwait, Read, DestroyMembers, Exchange, Take
<1>3. \A p \in Configurators :
        (WillCall(p) <=> WillCall(p)') /\ (Unsignalled(p) <=> Unsignalled(p)')
  BY <1>2 DEF WillCall, Unsignalled, cfgVars
<1>4. ASSUME NEW p \in Configurators \ {o} PROVE Expecting(p)' = Expecting(p) /\ resultsem_'[p] = resultsem_[p]
  BY <1>1 DEF Mark, CallAwait, Read, DestroyMembers, Exchange, Take, Expecting, ObjTypes, Move
<1>5. Expecting(o)' => Expecting(o) /\ resultsem_'[o] = resultsem_[o]
  <2> USE DEF Expecting, ObjTypes, RequestInv, Move
  <2>1. CASE Mark(o) \/ CallAwait(o) \/ Read(o) \/ DestroyMembers(o)
    BY <1>1, <2>1 DEF Mark, CallAwait, Read, DestroyMembers
  <2>2. CASE Exchange(o, "await", "take") \/ Exchange(o, "dtor_await", "dtor_take")
    BY <1>1, <2>2 DEF Exchange
  <2>3. CASE Take(o, "take", "read") \/ Take(o, "dtor_take", "gone")
    BY <1>1, <2>3 DEF Take
  <2>4. QED
    BY <2>1, <2>2, <2>3
<1>6. QED
  BY <1>3, <1>4, <1>5 DEF AnswerInv

LEMMA AnswerRequestStep ==
  ASSUME WInv, AnswerInv, NEW o \in Configurators, Prime(o) \/ Assign(o) \/ Publish(o),
         AwaitsEach
  PROVE  AnswerInv'
<1>1. /\ ObjTypes /\ Handshake!IInv /\ \A p \in Configurators : RequestInv(p)
      /\ reports \in [Configurators -> Seq({"success", "error"})]
  BY HandshakeHolds DEF WInv
<1>2. UNCHANGED <<being_configured_, resultsem_, result_>>
  BY DEF Prime, Assign, Publish, objVars
<1>3. CASE Prime(o)
  <2>1. UNCHANGED <<thread, cfgcallback_, sem_to_cfg_, dtor>>
    BY <1>3 DEF Prime, Plugin!TryAcquire
  <2>2. driver'[o] \in {"idle", "prime"} /\ ~being_configured_[o]
    BY <1>1, <1>3 DEF Prime, ObjTypes
  <2>3. ~Expecting(o)'
    BY <1>2, <2>2 DEF Expecting
  <2>4. ASSUME NEW p \in Configurators \ {o}
        PROVE  driver'[p] = driver[p] /\ reports'[p] = reports[p]
    BY <1>1, <1>3 DEF Prime, Plugin!TryAcquire, ObjTypes
  <2>5. QED
    BY <1>2, <2>1, <2>3, <2>4 DEF AnswerInv, Expecting, WillCall, Unsignalled
<1>4. CASE Assign(o) \/ Publish(o)
  <2>1. caller[o] # "idle" /\ UNCHANGED reports
    BY <1>4 DEF Assign, Publish, Plugin!AssignCallback, Plugin!Publish
  <2>2. thread = "acquire" /\ sem_to_cfg_ = 0 /\ dtor = "alive" /\ driver[o] = "prime"
    BY <1>1, <2>1, HandshakeHolds DEF RequestInv
  <2>3. \A p \in Configurators : ~WillCall(p)
    BY <2>2 DEF WillCall
  <2>4. CASE Assign(o)
    <3>1. driver' = driver
      BY <2>4 DEF Assign, objVars
    <3>2. QED
      BY <1>2, <2>1, <2>3, <3>1 DEF AnswerInv, Expecting, Unsignalled
  <2>5. CASE Publish(o)
    <3>1. /\ cfgcallback_' = cfgcallback_ /\ cfgcallback_ = o
          /\ sem_to_cfg_' = 1 /\ dtor' = dtor
          /\ driver' = [driver EXCEPT ![o] = "mark"]
      BY <1>1, <2>5, HandshakeHolds DEF Publish, Plugin!Publish, Move
    <3>2. WillCall(o)'
      BY <2>2, <3>1 DEF WillCall
    <3>3. \A p \in Configurators \ {o} : driver'[p] = driver[p]
      BY <1>1, <3>1 DEF ObjTypes
    <3>4. QED
      BY <1>2, <2>1, <2>3, <3>2, <3>3 DEF AnswerInv, Expecting, Unsignalled
  <2>6. QED
    BY <1>4, <2>4, <2>5
<1>5. QED
  BY <1>3, <1>4

LEMMA AnswerCallbackStep ==
  ASSUME WInv, AnswerInv, Callback
  PROVE  AnswerInv'
<1>1. /\ ObjTypes /\ Handshake!IInv /\ InCallback
      /\ \A p \in Configurators : RequestInv(p)
      /\ reports \in [Configurators -> Seq({"success", "error"})]
  BY HandshakeHolds DEF WInv
<1>2. thread = "callback" /\ cfgcallback_ \in Configurators
  <2>1. thread = "callback"
    BY <1>1 DEF Callback, CallUser, UserReturns, UserThrows, StoreSync, Signal, InCallback
  <2>2. QED
    BY <1>1, <2>1, HandshakeHolds
<1> DEFINE o == cfgcallback_
<1>3. UNCHANGED <<driver, being_configured_, cfgcallback_, dtor>>
  BY DEF Callback, CallUser, UserReturns, UserThrows, StoreSync, Signal, cfgVars,
         Plugin!RunCallback
<1>4. WillCall(o) /\ resultsem_[o] = 0 /\ \A p \in Configurators \ {o} : ~WillCall(p)
  BY <1>1, <1>2 DEF WillCall, RequestInv
<1>5. \A p \in Configurators : Expecting(p)' <=> Expecting(p)
  BY <1>3 DEF Expecting
<1>6. ASSUME NEW p \in Configurators \ {o}
      PROVE  resultsem_'[p] = resultsem_[p] /\ result_'[p] = result_[p] /\ reports'[p] = reports[p]
  BY <1>1, <1>2 DEF Callback, CallUser, UserReturns, UserThrows, StoreSync, Signal, cfgVars,
     Store, ObjTypes, Plugin!RunCallback, Plugin!Told
<1>7. WillCall(o)' \/ resultsem_'[o] = 1 \/ Unsignalled(o)'
  <2>1. CASE CallUser \/ UserThrows \/ StoreSync
    BY <1>2, <2>1 DEF CallUser, UserThrows, StoreSync, cfgVars, WillCall
  <2>2. CASE UserReturns
    <3>1. o \in AsyncConfigurators /\ result_'[o] = "success"
      BY <1>1, <1>2, <2>2 DEF UserReturns, InCallback, Store, ObjTypes
    <3>2. Handshake!Told(<<"success">>) /\ reports \in [Configurators -> Seq(Handshake!Outcomes)]
      BY <1>1, <2>2 DEF UserReturns, Plugin!RunCallback, Plugin!Told, Handshake!Told,
         Handshake!Outcomes
    <3>3. reports'[o] # <<>>
      BY <1>2, <3>2, Handshake!ToldStep, HandshakeAssumption
    <3>4. QED
      BY <1>3, <3>1, <3>3 DEF Unsignalled
  <2>3. CASE Signal
    <3>1. resultsem_[o] + 1 = 1
      BY <1>4
    <3>2. QED
      BY <1>1, <1>2, <2>3, <3>1 DEF Signal, ObjTypes
  <2>4. QED
    BY <2>1, <2>2, <2>3 DEF Callback
<1>8. ASSUME NEW p \in Configurators, Expecting(p)'
      PROVE  resultsem_'[p] = 1 \/ WillCall(p)' \/ Unsignalled(p)'
  <2>1. CASE p = o
    BY <1>3, <1>7, <2>1
  <2>2. CASE p # o
    BY <1>4, <1>5, <1>6, <1>8, <2>2 DEF AnswerInv, Unsignalled
  <2>3. QED
    BY <2>1, <2>2
<1>9. QED
  BY <1>8 DEF AnswerInv

LEMMA AnswerPluginStep ==
  ASSUME WInv, AnswerInv, PluginWorks \/ DropPlugin
  PROVE  AnswerInv'
<1>1. UNCHANGED objVars /\ UNCHANGED <<reports, cfgcallback_>>
  BY DEF PluginWorks, DropPlugin, Plugin!Acquire, Plugin!CheckStop, Plugin!Release,
         Plugin!DtorRelease, Plugin!Join, Plugin!RequestStop
<1>2. ASSUME \A p \in Configurators : Expecting(p) /\ WillCall(p) => WillCall(p)'
      PROVE  AnswerInv'
  BY <1>1, <1>2 DEF objVars, AnswerInv, Expecting, Unsignalled
<1>3. dtor # "alive" => \A p \in Configurators : ~Expecting(p)
  BY DEF WInv, Expecting
<1>4. CASE Plugin!RequestStop \/ Plugin!DtorRelease \/ Plugin!Join
  <2>1. \A p \in Configurators : ~Expecting(p)
    <3>1. CASE DropPlugin
      BY <3>1 DEF DropPlugin, Expecting
    <3>2. CASE PluginWorks
      <4>1. dtor # "alive"
        BY <1>4, <3>2 DEF PluginWorks, Plugin!RequestStop, Plugin!DtorRelease, Plugin!Join,
           Plugin!Acquire, Plugin!CheckStop, Plugin!Release
      <4>2. QED
        BY <1>3, <4>1
    <3>3. QED
      BY <3>1, <3>2
  <2>2. QED
    BY <1>1, <2>1 DEF AnswerInv, objVars, Expecting
<1>5. CASE Plugin!Acquire \/ Plugin!Release
  <2>1. ASSUME NEW p \in Configurators, WillCall(p) PROVE WillCall(p)'
    BY <1>1, <1>5, <2>1 DEF WillCall, Plugin!Acquire, Plugin!Release, WInv
  <2>2. QED
    BY <1>2, <2>1
<1>6. CASE Plugin!CheckStop
  <2>1. dtor = "alive" => ~stop_requested /\ thread' = "callback"
    BY <1>6 DEF Plugin!CheckStop, WInv, Handshake!IInv, Handshake!OnePermit
  <2>2. ASSUME NEW p \in Configurators, WillCall(p), dtor = "alive" PROVE WillCall(p)'
    BY <1>1, <2>1, <2>2 DEF WillCall
  <2>3. QED
    BY <1>2, <1>3, <2>2
<1>7. QED
  BY <1>4, <1>5, <1>6 DEF PluginWorks, DropPlugin

\* The safety half of "await returns": while somebody waits for resultsem_, in await
\* or in the destructor, a permit is there or on its way, unless the user's callback
\* has returned, which the run wrap_hang shows to be a wait for ever.
THEOREM AnswersArrive == ASSUME AwaitsEach PROVE Spec => []NoAnswerLost
<1>1. Init => AnswerInv
  BY DEF Init, AnswerInv, Expecting
<1>2. WInv /\ AnswerInv /\ [Next]_vars => AnswerInv'
  <2>1. ASSUME WInv, AnswerInv, Next PROVE AnswerInv'
    BY <2>1, AnswerUserStep, AnswerRequestStep, AnswerCallbackStep, AnswerPluginStep
       DEF Next, Working
  <2>2. ASSUME AnswerInv, UNCHANGED vars PROVE AnswerInv'
    BY <2>2 DEF vars, objVars, cfgVars, AnswerInv, Expecting, WillCall, Unsignalled
  <2>3. QED
    BY <2>1, <2>2
<1>3. AnswerInv => NoAnswerLost
  BY DEF AnswerInv, NoAnswerLost, Expecting, Unsignalled
<1>4. QED
  BY <1>1, <1>2, <1>3, WInvAlways, PTL DEF Spec

-----------------------------------------------------------------------------
LEMMA MembersStep ==
  ASSUME WInv, MembersInv, [Next]_vars
  PROVE  MembersInv'
<1>1. ObjTypes
  BY DEF WInv
<1> USE DEF MembersInv, Expecting
<1>2. CASE Callback \/ PluginWorks \/ DropPlugin \/ UNCHANGED vars
  <2>1. UNCHANGED <<driver, being_configured_, callback_>>
    BY <1>2 DEF Callback, CallUser, UserReturns, UserThrows, StoreSync, Signal, PluginWorks,
       DropPlugin, vars, objVars
  <2>2. QED
    BY <2>1
<1> USE DEF ObjTypes, Move
<1>3. ASSUME NEW o \in Configurators, Prime(o) PROVE MembersInv'
  BY <1>1, <1>3 DEF Prime
<1>4. ASSUME NEW o \in Configurators, Assign(o) \/ Publish(o) PROVE MembersInv'
  BY <1>1, <1>4 DEF Assign, Publish, objVars
<1>5. ASSUME NEW o \in Configurators, Mark(o) \/ CallAwait(o) \/ Read(o) PROVE MembersInv'
  BY <1>1, <1>5 DEF Mark, CallAwait, Read
<1>6. ASSUME NEW o \in Configurators, DestroyMembers(o) PROVE MembersInv'
  BY <1>1, <1>6 DEF DestroyMembers
<1>7. ASSUME NEW o \in Configurators,
             Exchange(o, "await", "take") \/ Exchange(o, "dtor_await", "dtor_take")
      PROVE  MembersInv'
  BY <1>1, <1>7 DEF Exchange
<1>8. ASSUME NEW o \in Configurators, Take(o, "take", "read") \/ Take(o, "dtor_take", "gone")
      PROVE  MembersInv'
  BY <1>1, <1>8 DEF Take
<1>9. QED
  BY <1>2, <1>3, <1>4, <1>5, <1>6, <1>7, <1>8 DEF Next, Working

\* assert(imp.callback_): if users also await before they destroy the object, the
\* plugin finds the callback there.  The run wrap_assert shows that the destructor's
\* own await is not enough.
THEOREM CallbackIsThere == ASSUME AwaitsEach, AwaitsLast PROVE Spec => CallbackAsserted
<1>1. Init => MembersInv
  BY DEF Init, MembersInv
<1>2. WInv /\ MembersInv /\ [Next]_vars => MembersInv'
  BY MembersStep
<1>3. ASSUME WInv, MembersInv, CallUser
      PROVE  callback_[cfgcallback_]
  <2>1. thread = "callback" /\ cfgcallback_ \in Configurators
    BY <1>3, HandshakeHolds DEF CallUser, WInv
  <2>2. WillCall(cfgcallback_) /\ RequestInv(cfgcallback_)
    BY <1>3, <2>1 DEF WInv, WillCall
  <2>3. Expecting(cfgcallback_) /\ driver[cfgcallback_] # "gone"
    BY <2>2 DEF RequestInv, Expecting
  <2>4. QED
    BY <1>3, <2>1, <2>3 DEF MembersInv
<1>4. WInv /\ MembersInv /\ [Next]_vars => [CallUser => callback_[cfgcallback_]]_vars
  BY <1>3
<1>5. QED
  BY <1>1, <1>2, <1>4, WInvAlways, PTL DEF Spec, CallbackAsserted
=============================================================================
