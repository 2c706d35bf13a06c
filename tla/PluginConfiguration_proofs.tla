--------------------- MODULE PluginConfiguration_proofs ---------------------
(***************************************************************************)
(* Proofs about PluginConfiguration for any set of clients.  The inductive *)
(* invariant follows the one permit of the handshake: it is in             *)
(* sem_from_cfg_, with the one caller that is submitting, in sem_to_cfg_,  *)
(* or with the thread that serves.  The destructor adds a second permit to *)
(* sem_to_cfg_, but only after it has told the thread to stop.             *)
(***************************************************************************)
EXTENDS PluginConfiguration, SequenceTheorems, TLAPS

\* While the plugin lives the permit is in exactly one place.
OnePermit ==
  /\ \A c, d \in Clients : c \in Submitting /\ d \in Submitting => c = d
  /\ Submitting # {} => sem_from_cfg_ = 0 /\ sem_to_cfg_ = 0 /\ thread = "acquire"
  /\ sem_to_cfg_ = 1 => sem_from_cfg_ = 0 /\ thread = "acquire"
  /\ thread = "check" => sem_from_cfg_ = 0 /\ sem_to_cfg_ = 0
  /\ sem_from_cfg_ = 0 => Busy
  /\ thread # "finished" /\ ~stop_requested

\* What the thread serves was assigned by its requester, who has heard nothing
\* yet; this outlives the beginning of the destructor.
GoodCallback ==
  /\ \A c \in Clients : caller[c] = "publish" => cfgcallback_ = c
  /\ (dtor = "alive" /\ (sem_to_cfg_ = 1 \/ thread = "check")) =>
       cfgcallback_ \in Clients /\ reports[cfgcallback_] = <<>>
  /\ \A c \in Submitting : reports[c] = <<>>
  /\ thread \in {"callback", "catch", "release", "terminated"} =>
       cfgcallback_ \in Clients /\ sem_from_cfg_ = 0
  /\ (dtor = "alive" /\ thread \in {"callback", "catch", "release", "terminated"}) =>
       sem_to_cfg_ = 0
  /\ thread = "callback" => reports[cfgcallback_] = <<>>
  /\ thread \in {"catch", "release"} => reports[cfgcallback_] # <<>>
  /\ thread = "catch" => cfgcallback_ \in Throwing

IInv ==
  /\ TypeOK
  /\ dtor = "alive" => OnePermit
  /\ dtor # "alive" => Submitting = {} /\ stop_requested
  /\ GoodCallback

LEMMA IInvInit == Init => IInv
<1> SUFFICES ASSUME Init PROVE IInv
  OBVIOUS
<1>1. TypeOK
  BY EmptySeq DEF Init, TypeOK, ThreadLabels, CallerLabels, DtorLabels
<1>2. Submitting = {}
  BY DEF Init, Submitting
<1>3. OnePermit
  BY <1>2 DEF Init, OnePermit, Busy
<1>4. GoodCallback
  BY <1>2 DEF Init, GoodCallback
<1>5. QED
  BY <1>1, <1>2, <1>3, <1>4 DEF Init, IInv

-----------------------------------------------------------------------------
LEMMA ToldIsSomething ==
  ASSUME NEW told \in {<<"success">>, <<"error">>, <<"error", "success">>}
  PROVE  told \in Seq(Outcomes) /\ Len(told) > 0
<1>1. "success" \in Outcomes /\ "error" \in Outcomes
  BY DEF Outcomes
<1>2. ASSUME NEW x \in Outcomes PROVE <<x>> \in Seq(Outcomes) /\ Len(<<x>>) = 1
  OBVIOUS
<1>3. ASSUME NEW x \in Outcomes, NEW y \in Outcomes
      PROVE  <<x, y>> \in Seq(Outcomes) /\ Len(<<x, y>>) = 2
  OBVIOUS
<1>4. CASE told = <<"success">>
  BY <1>1, <1>2, <1>4
<1>5. CASE told = <<"error">>
  BY <1>1, <1>2, <1>5
<1>6. CASE told = <<"error", "success">>
  BY <1>1, <1>3, <1>6
<1>7. QED
  BY <1>4, <1>5, <1>6

LEMMA ToldStep ==
  ASSUME reports \in [Clients -> Seq(Outcomes)],
         NEW told \in {<<"success">>, <<"error">>, <<"error", "success">>}, Told(told)
  PROVE  /\ reports' \in [Clients -> Seq(Outcomes)]
         /\ cfgcallback_ \in Clients => reports'[cfgcallback_] # <<>>
         /\ \A c \in Clients : c # cfgcallback_ => reports'[c] = reports[c]
<1>1. told \in Seq(Outcomes) /\ Len(told) > 0
  BY ToldIsSomething
<1>2. ASSUME NEW s \in Seq(Outcomes)
      PROVE  s \o told \in Seq(Outcomes) /\ s \o told # <<>>
  BY <1>1, ConcatProperties, EmptySeq
<1>3. QED
  BY <1>2 DEF Told

LEMMA TypeStep ==
  ASSUME TypeOK, Next
  PROVE  TypeOK'
<1> USE DEF TypeOK, ThreadLabels, CallerLabels, DtorLabels
<1>1. ASSUME NEW c \in Clients, TryAcquire(c)
      PROVE  TypeOK'
  <2>1. <<>> \in Seq(Outcomes)
    BY EmptySeq
  <2>2. reports' \in [Clients -> Seq(Outcomes)]
    BY <1>1, <2>1 DEF TryAcquire
  <2>3. sem_from_cfg_' \in {0, 1} /\ caller' \in [Clients -> CallerLabels]
    BY <1>1 DEF TryAcquire
  <2>4. answer' \in [Clients -> {"none", "success", "unavailable"}]
    BY <1>1 DEF TryAcquire
  <2>5. QED
    BY <1>1, <2>2, <2>3, <2>4 DEF TryAcquire
<1>2. ASSUME NEW c \in Clients, InConfigure(c)
      PROVE  TypeOK'
  BY <1>2 DEF InConfigure, AssignCallback, Publish
<1>3. CASE Acquire \/ CheckStop \/ Release
  BY <1>3 DEF Acquire, CheckStop, Release
<1>4. ASSUME NEW threw \in BOOLEAN, RunCallback(threw)
      PROVE  TypeOK'
  BY <1>4, ToldStep DEF RunCallback
<1>5. ASSUME NEW threw \in {"never", "on_error", "on_success"}, RunHandler(threw)
      PROVE  TypeOK'
  BY <1>5, ToldStep DEF RunHandler
<1>6. CASE DtorNext
  BY <1>6 DEF DtorNext, RequestStop, DtorRelease, Join
<1>7. QED
  BY <1>1, <1>2, <1>3, <1>4, <1>5, <1>6 DEF Next, ThreadNext

\* Who is submitting changes when a client gets the permit and when it hands it on.
LEMMA SubmittingStep ==
  ASSUME TypeOK, NEW c \in Clients
  PROVE  /\ TryAcquire(c) =>
              Submitting' = IF sem_from_cfg_ = 1 THEN Submitting \cup {c} ELSE Submitting
         /\ AssignCallback(c) => c \in Submitting /\ Submitting' = Submitting
         /\ Publish(c) => c \in Submitting /\ Submitting' = Submitting \ {c}
         /\ UNCHANGED caller => Submitting' = Submitting
<1> USE DEF TypeOK, Submitting, CallerLabels
<1>1. TryAcquire(c) =>
        Submitting' = IF sem_from_cfg_ = 1 THEN Submitting \cup {c} ELSE Submitting
  BY DEF TryAcquire
<1>2. AssignCallback(c) => c \in Submitting /\ Submitting' = Submitting
  BY DEF AssignCallback
<1>3. Publish(c) => c \in Submitting /\ Submitting' = Submitting \ {c}
  BY DEF Publish
<1>4. QED
  BY <1>1, <1>2, <1>3

-----------------------------------------------------------------------------
\* The permit moves from place to place; the destructor only sets dtor.
LEMMA OnePermitStep ==
  ASSUME IInv, Next, dtor' = "alive"
  PROVE  OnePermit'
<1> USE DEF OnePermit, Busy, Serving
<1>1. TypeOK /\ dtor = "alive" /\ OnePermit
  BY DEF IInv, Next, ThreadNext, DtorNext, InConfigure, TryAcquire, AssignCallback, Publish,
         Acquire, CheckStop, Release, RunCallback, RunHandler, RequestStop, DtorRelease, Join
<1>2. sem_from_cfg_ \in {0, 1} /\ sem_to_cfg_ \in {0, 1} /\ thread \in ThreadLabels
  BY <1>1 DEF TypeOK
<1> HIDE DEF Next
<1>3. ASSUME NEW c \in Clients, TryAcquire(c)
      PROVE  OnePermit'
  <2>1. Submitting' = IF sem_from_cfg_ = 1 THEN Submitting \cup {c} ELSE Submitting
    BY <1>1, <1>3, SubmittingStep
  <2>2. CASE sem_from_cfg_ = 1
    <3>1. Submitting = {} /\ sem_to_cfg_ = 0 /\ thread \in {"acquire", "callback", "catch", "release", "terminated"}
      BY <1>1, <1>2, <2>2 DEF ThreadLabels
    <3>2. QED
      BY <1>1, <1>2, <1>3, <2>1, <2>2, <3>1 DEF TryAcquire, IInv, GoodCallback
  <2>3. CASE sem_from_cfg_ = 0
    BY <1>1, <1>2, <1>3, <2>1, <2>3 DEF TryAcquire
  <2>4. QED
    BY <1>2, <2>2, <2>3
<1>4. ASSUME NEW c \in Clients, AssignCallback(c)
      PROVE  OnePermit'
  <2>1. Submitting' = Submitting
    BY <1>1, <1>4, SubmittingStep
  <2>2. QED
    BY <1>1, <1>4, <2>1 DEF AssignCallback
<1>5. ASSUME NEW c \in Clients, Publish(c)
      PROVE  OnePermit'
  <2>1. c \in Submitting /\ Submitting' = Submitting \ {c}
    BY <1>1, <1>5, SubmittingStep
  <2>2. Submitting' = {}
    BY <1>1, <2>1 DEF Submitting
  <2>3. QED
    BY <1>1, <1>5, <2>1, <2>2 DEF Publish
<1>6. CASE ThreadNext
  <2>1. UNCHANGED <<caller, stop_requested>>
    BY <1>6 DEF ThreadNext, Acquire, CheckStop, Release, RunCallback, RunHandler
  <2>2. Submitting' = Submitting
    BY <2>1 DEF Submitting
  <2>3. CASE Acquire
    BY <1>1, <1>2, <2>2, <2>3 DEF Acquire
  <2>4. CASE CheckStop
    BY <1>1, <1>2, <2>2, <2>4 DEF CheckStop
  <2>5. CASE Release
    BY <1>1, <1>2, <2>2, <2>5 DEF Release, IInv, GoodCallback
  <2>6. ASSUME NEW threw \in BOOLEAN, RunCallback(threw)
        PROVE  OnePermit'
    BY <1>1, <1>2, <2>2, <2>6 DEF RunCallback
  <2>7. ASSUME NEW threw \in {"never", "on_error", "on_success"}, RunHandler(threw)
        PROVE  OnePermit'
    BY <1>1, <1>2, <2>2, <2>7 DEF RunHandler
  <2>8. QED
    BY <1>6, <2>3, <2>4, <2>5, <2>6, <2>7 DEF ThreadNext
<1>7. ~DtorNext
  BY <1>1 DEF DtorNext, RequestStop, DtorRelease, Join
<1>8. QED
  BY <1>3, <1>4, <1>5, <1>6, <1>7 DEF Next, InConfigure

\* What the thread is given: each part of GoodCallback, after each action.
LEMMA GoodCallbackStep ==
  ASSUME IInv, Next, TypeOK'
  PROVE  GoodCallback'
<1>1. TypeOK /\ GoodCallback /\ (dtor = "alive" => OnePermit)
  BY DEF IInv
<1>2. /\ sem_from_cfg_ \in {0, 1} /\ sem_to_cfg_ \in {0, 1} /\ thread \in ThreadLabels
      /\ reports \in [Clients -> Seq(Outcomes)] /\ caller \in [Clients -> CallerLabels]
  BY <1>1 DEF TypeOK
<1>3. dtor # "alive" => Submitting = {} /\ \A c \in Clients : caller[c] = "idle"
  BY <1>2 DEF IInv, Submitting, CallerLabels
<1> USE DEF GoodCallback
<1>4. ASSUME NEW c \in Clients, TryAcquire(c)
      PROVE  GoodCallback'
  <2>1. Submitting' = IF sem_from_cfg_ = 1 THEN Submitting \cup {c} ELSE Submitting
    BY <1>1, <1>4, SubmittingStep
  <2>2. CASE sem_from_cfg_ = 1
    <3>1. Submitting = {} /\ sem_to_cfg_ = 0
          /\ thread \notin {"check", "callback", "catch", "release", "terminated"}
      BY <1>1, <1>2, <1>4, <2>2 DEF TryAcquire, OnePermit
    <3>2. caller' = [caller EXCEPT ![c] = "assign"] /\ reports' = [reports EXCEPT ![c] = <<>>]
      BY <1>4, <2>2 DEF TryAcquire
    <3>3. reports'[c] = <<>> /\ (\A d \in Clients : caller'[d] = "publish" => caller[d] = "publish")
      BY <1>2, <3>2
    <3>4. QED
      BY <1>1, <1>4, <2>1, <2>2, <3>1, <3>3 DEF TryAcquire
  <2>3. CASE sem_from_cfg_ = 0
    BY <1>1, <1>4, <2>1, <2>3 DEF TryAcquire
  <2>4. QED
    BY <1>2, <2>2, <2>3
<1>5. ASSUME NEW c \in Clients, AssignCallback(c)
      PROVE  GoodCallback'
  <2>1. c \in Submitting /\ Submitting' = Submitting
    BY <1>1, <1>5, SubmittingStep
  <2>2. /\ dtor = "alive" /\ sem_from_cfg_ = 0 /\ sem_to_cfg_ = 0 /\ thread = "acquire"
        /\ \A d \in Clients : d \in Submitting => d = c
    BY <1>1, <1>3, <2>1 DEF OnePermit
  <2>3. \A d \in Clients : caller'[d] = "publish" => d = c
    BY <1>2, <1>5, <2>2 DEF AssignCallback, Submitting
  <2>4. QED
    BY <1>1, <1>5, <2>1, <2>2, <2>3 DEF AssignCallback
<1>6. ASSUME NEW c \in Clients, Publish(c)
      PROVE  GoodCallback'
  <2>1. c \in Submitting /\ Submitting' = Submitting \ {c}
    BY <1>1, <1>6, SubmittingStep
  <2>2. dtor = "alive" /\ sem_from_cfg_ = 0 /\ thread = "acquire"
    BY <1>1, <1>3, <2>1 DEF OnePermit
  <2>3. \A d \in Clients : caller'[d] = "publish" => caller[d] = "publish"
    BY <1>2, <1>6 DEF Publish
  <2>4. cfgcallback_ = c /\ reports[c] = <<>>
    BY <1>1, <1>6, <2>1 DEF Publish
  <2>5. QED
    BY <1>1, <1>6, <2>1, <2>2, <2>3, <2>4 DEF Publish
<1>7. CASE ThreadNext
  <2>1. UNCHANGED <<caller, cfgcallback_, dtor>>
    BY <1>7 DEF ThreadNext, Acquire, CheckStop, Release, RunCallback, RunHandler
  <2>2. Submitting' = Submitting
    BY <2>1 DEF Submitting
  <2>3. CASE Acquire
    BY <1>1, <1>2, <2>1, <2>2, <2>3 DEF Acquire
  <2>4. CASE CheckStop
    BY <1>1, <1>2, <2>1, <2>2, <2>4 DEF CheckStop, OnePermit, IInv
  <2>5. CASE Release
    BY <1>1, <1>2, <2>1, <2>2, <2>5 DEF Release
  <2>6. ASSUME NEW threw \in BOOLEAN, RunCallback(threw)
        PROVE  GoodCallback'
    <3>1. thread = "callback" /\ cfgcallback_ \in Clients /\ Told(<<"success">>)
      BY <1>1, <2>6 DEF RunCallback
    <3>2. /\ reports'[cfgcallback_] # <<>>
          /\ \A c \in Clients : c # cfgcallback_ => reports'[c] = reports[c]
      BY <1>2, <3>1, ToldStep
    <3>3. \A c \in Clients : caller[c] # "publish" /\ c \notin Submitting
      BY <1>1, <1>3, <3>1 DEF OnePermit, Submitting
    <3>4. QED
      BY <1>1, <2>1, <2>2, <2>6, <3>1, <3>2, <3>3 DEF RunCallback, Submitting
  <2>7. ASSUME NEW threw \in {"never", "on_error", "on_success"}, RunHandler(threw)
        PROVE  GoodCallback'
    <3>1. /\ thread = "catch" /\ cfgcallback_ \in Clients
          /\ Told(<<"error">>) \/ Told(<<"error", "success">>)
      BY <1>1, <2>7 DEF RunHandler
    <3>2. /\ reports'[cfgcallback_] # <<>>
          /\ \A c \in Clients : c # cfgcallback_ => reports'[c] = reports[c]
      BY <1>2, <3>1, ToldStep
    <3>3. \A c \in Clients : caller[c] # "publish" /\ c \notin Submitting
      BY <1>1, <1>3, <3>1 DEF OnePermit, Submitting
    <3>4. QED
      BY <1>1, <2>1, <2>2, <2>7, <3>1, <3>2, <3>3 DEF RunHandler, Submitting
  <2>8. QED
    BY <1>7, <2>3, <2>4, <2>5, <2>6, <2>7 DEF ThreadNext
<1>8. CASE DtorNext
  <2>1. UNCHANGED <<caller, cfgcallback_, reports, thread, sem_from_cfg_>> /\ dtor' # "alive"
    BY <1>8 DEF DtorNext, RequestStop, DtorRelease, Join
  <2>2. Submitting' = Submitting
    BY <2>1 DEF Submitting
  <2>3. QED
    BY <1>1, <2>1, <2>2
<1>9. QED
  BY <1>4, <1>5, <1>6, <1>7, <1>8 DEF Next, InConfigure

LEMMA IInvStep == IInv /\ [Next]_cfgVars => IInv'
<1>1. ASSUME IInv, Next
      PROVE  IInv'
  <2>1. TypeOK'
    BY <1>1, TypeStep DEF IInv
  <2>2. dtor' = "alive" => OnePermit'
    BY <1>1, OnePermitStep
  <2>3. GoodCallback'
    BY <1>1, <2>1, GoodCallbackStep
  <2>4. ASSUME dtor' # "alive"
        PROVE  Submitting' = {} /\ stop_requested'
    <3>1. CASE dtor = "alive"
      <4>1. RequestStop
        BY <1>1, <2>4, <3>1 DEF Next, ThreadNext, DtorNext, InConfigure, TryAcquire, AssignCallback,
             Publish, Acquire, CheckStop, Release, RunCallback, RunHandler, DtorRelease, Join
      <4>2. QED
        BY <4>1 DEF RequestStop, Submitting
    <3>2. CASE dtor # "alive"
      <4>1. Submitting = {} /\ stop_requested
        BY <1>1, <3>2 DEF IInv
      <4>2. \A c \in Clients : ~TryAcquire(c) /\ ~InConfigure(c)
        BY <3>2, <4>1 DEF TryAcquire, InConfigure, AssignCallback, Publish, Submitting
      <4>3. UNCHANGED <<caller, stop_requested>>
        BY <1>1, <3>2, <4>2 DEF Next, ThreadNext, DtorNext, Acquire, CheckStop, Release,
             RunCallback, RunHandler, RequestStop, DtorRelease, Join
      <4>4. QED
        BY <4>1, <4>3 DEF Submitting
    <3>3. QED
      BY <3>1, <3>2
  <2>5. QED
    BY <2>1, <2>2, <2>3, <2>4 DEF IInv
<1>2. ASSUME IInv, UNCHANGED cfgVars
      PROVE  IInv'
  BY <1>2 DEF IInv, TypeOK, OnePermit, GoodCallback, Busy, Serving, Submitting, cfgVars
<1>3. QED
  BY <1>1, <1>2

LEMMA IInvAlways == Spec => []IInv
BY IInvInit, IInvStep, PTL DEF Spec

\* Every variable of the handshake keeps to its range: in particular neither
\* binary semaphore is taken below 0, which acquire and try_acquire rely on.
THEOREM TypeCorrect == Spec => []TypeOK
<1>1. IInv => TypeOK
  BY DEF IInv
<1>2. QED
  BY IInvAlways, <1>1, PTL

\* The unlocked member cfgcallback_ is never assigned and used at once.
THEOREM CallbackIsHandedOver == Spec => []CallbackNotTorn
<1>1. IInv => CallbackNotTorn
  <2> SUFFICES ASSUME IInv PROVE CallbackNotTorn
    OBVIOUS
  <2>1. ASSUME NEW c \in Clients, caller[c] = "assign"
        PROVE  thread \notin {"callback", "catch"} /\ Submitting = {c}
    <3>1. c \in Submitting
      BY <2>1 DEF Submitting
    <3>2. OnePermit
      BY <3>1 DEF IInv
    <3>3. Submitting \subseteq Clients
      BY DEF Submitting
    <3>4. QED
      BY <3>1, <3>2, <3>3 DEF OnePermit
  <2>2. QED
    BY <2>1 DEF IInv, GoodCallback, CallbackNotTorn
<1>2. QED
  BY IInvAlways, <1>1, PTL

\* The plugin can be configured exactly when it is not busy doing so.
THEOREM PermitNeverLost == Spec => []AvailableUnlessBusy
<1>1. IInv => AvailableUnlessBusy
  BY DEF IInv, TypeOK, ThreadLabels, OnePermit, GoodCallback, AvailableUnlessBusy, Busy, Serving
<1>2. QED
  BY IInvAlways, <1>1, PTL

\* PASMP_UNAVAILABLE is only answered because of a request in progress.
THEOREM RefusalsHaveAReason == Spec => RefusedOnlyWhenBusy
<1> DEFINE Justified ==
      \A c \in Clients : (answer'[c] = "unavailable" /\ answer[c] # "unavailable") => Busy
<1>1. ASSUME IInv, [Next]_cfgVars, NEW c \in Clients,
             answer'[c] = "unavailable", answer[c] # "unavailable"
      PROVE  Busy
  <2>1. answer \in [Clients -> {"none", "success", "unavailable"}]
    BY <1>1 DEF IInv, TypeOK
  <2>2. PICK d \in Clients : TryAcquire(d) \/ AssignCallback(d) \/ Publish(d)
    BY <1>1 DEF Next, cfgVars, ThreadNext, DtorNext, InConfigure, Acquire, CheckStop, Release,
         RunCallback, RunHandler, RequestStop, DtorRelease, Join
  <2>3. TryAcquire(d) /\ sem_from_cfg_ = 0
    BY <1>1, <2>1, <2>2 DEF TryAcquire, AssignCallback, Publish
  <2>4. OnePermit
    BY <1>1, <2>3 DEF IInv, TryAcquire
  <2>5. QED
    BY <2>3, <2>4 DEF OnePermit
<1>2. IInv /\ [Next]_cfgVars => [Justified]_cfgVars
  BY <1>1
<1>3. QED
  BY IInvAlways, <1>2, PTL DEF Spec, RefusedOnlyWhenBusy

-----------------------------------------------------------------------------
\* Whose request is in progress, read off the permit.
\* The safety half of "the destructor joins": while it waits for the thread, the
\* thread is not left waiting for it.  Only the thread takes the permit, it looks
\* for the stop before anything else, and no request can come any more.
THEOREM StopIsSeen == Spec => []StopReachesThread
<1>1. Init => StopReachesThread
  BY DEF Init, StopReachesThread
<1>2. ASSUME IInv, StopReachesThread, [Next]_cfgVars
      PROVE  StopReachesThread'
  <2> USE DEF StopReachesThread
  <2>1. CASE UNCHANGED cfgVars
    BY <1>2, <2>1 DEF cfgVars
  <2>2. ASSUME NEW c \in Clients, TryAcquire(c) PROVE StopReachesThread'
    BY <1>2, <2>2 DEF TryAcquire
  <2>3. ASSUME NEW c \in Clients, InConfigure(c) PROVE StopReachesThread'
    <3>1. c \in Submitting /\ dtor' = dtor
      BY <2>3 DEF InConfigure, AssignCallback, Publish, Submitting
    <3>2. QED
      BY <1>2, <3>1 DEF IInv
  <2>4. CASE Acquire
    BY <1>2, <2>4 DEF Acquire
  <2>5. CASE CheckStop
    BY <1>2, <2>5 DEF CheckStop
  <2>6. CASE Release
    BY <1>2, <2>6 DEF Release
  <2>7. ASSUME NEW threw \in BOOLEAN, RunCallback(threw) PROVE StopReachesThread'
    BY <1>2, <2>7 DEF RunCallback
  <2>8. ASSUME NEW threw \in {"never", "on_error", "on_success"}, RunHandler(threw)
        PROVE  StopReachesThread'
    BY <1>2, <2>8 DEF RunHandler
  <2>9. CASE DtorNext
    <3>1. CASE DtorRelease
      BY <1>2, <3>1 DEF IInv, DtorRelease
    <3>2. CASE RequestStop \/ Join
      BY <3>2 DEF RequestStop, Join
    <3>3. QED
      BY <2>9, <3>1, <3>2 DEF DtorNext
  <2>10. QED
    BY <1>2, <2>1, <2>2, <2>3, <2>4, <2>5, <2>6, <2>7, <2>8, <2>9 DEF Next, ThreadNext
<1>3. QED
  BY <1>1, <1>2, IInvAlways, PTL DEF Spec

LEMMA CurrentIs ==
  ASSUME IInv
  PROVE  /\ sem_from_cfg_ = 1 => Current = NoClient
         /\ \A c \in Submitting : Current = c /\ sem_from_cfg_ = 0
         /\ thread \in {"callback", "catch", "release"} =>
              Current = cfgcallback_ /\ sem_from_cfg_ = 0 /\ Submitting = {}
<1>1. sem_from_cfg_ = 1 => Current = NoClient
  BY DEF Current
<1>2. ASSUME NEW c \in Submitting
      PROVE  Current = c /\ sem_from_cfg_ = 0
  <2>1. OnePermit /\ c \in Clients
    BY DEF IInv, Submitting
  <2>2. sem_from_cfg_ = 0 /\ Submitting # {}
    BY <2>1 DEF OnePermit
  <2>3. \A d \in Clients : d \in Submitting <=> d = c
    BY <2>1 DEF OnePermit
  <2>4. (CHOOSE d \in Clients : d \in Submitting) = c
    BY <2>1, <2>3
  <2>5. QED
    BY <2>2, <2>4 DEF Current
<1>3. ASSUME thread \in {"callback", "catch", "release"}
      PROVE  Current = cfgcallback_ /\ sem_from_cfg_ = 0 /\ Submitting = {}
  <2>1. sem_from_cfg_ = 0
    BY <1>3 DEF IInv, GoodCallback
  <2>2. Submitting = {}
    BY <1>3 DEF IInv, OnePermit
  <2>3. QED
    BY <2>1, <2>2 DEF Current
<1>4. QED
  BY <1>1, <1>2, <1>3

-----------------------------------------------------------------------------
LEMMA CallersServe ==
  ASSUME IInv, IInv', NEW c \in Clients, TryAcquire(c) \/ InConfigure(c)
  PROVE  [Service!Next]_(Service!vars)
<1> USE DEF Service!vars
<1>1. TypeOK
  BY DEF IInv
<1>2. CASE TryAcquire(c)
  <2>1. dtor = "alive" /\ dtor' = "alive"
    BY <1>2 DEF TryAcquire
  <2>2. Submitting' = IF sem_from_cfg_ = 1 THEN Submitting \cup {c} ELSE Submitting
    BY <1>1, <1>2, SubmittingStep
  <2>3. CASE sem_from_cfg_ = 1
    <3>1. Current = NoClient
      BY <2>3, CurrentIs
    <3>2. c \in Submitting'
      BY <2>2, <2>3
    <3>3. Current' = c
      <4>1. sem_from_cfg_' = 0 /\ Submitting = {}
        BY <1>2, <2>3, CurrentIs DEF TryAcquire
      <4>2. \A d \in Clients : d \in Submitting' <=> d = c
        BY <2>2, <2>3, <4>1
      <4>3. (CHOOSE d \in Clients : d \in Submitting') = c
        BY <4>2
      <4>4. QED
        BY <3>2, <4>1, <4>3 DEF Current
    <3>4. Service!Accept(c)
      BY <1>2, <2>1, <2>3, <3>1, <3>3 DEF TryAcquire, Service!Accept
    <3>5. QED
      BY <3>4 DEF Service!Next
  <2>4. CASE sem_from_cfg_ # 1
    <3>1. UNCHANGED <<sem_from_cfg_, cfgcallback_, reports, dtor>>
      BY <1>2, <2>4 DEF TryAcquire
    <3>2. Current' = Current
      BY <2>2, <2>4, <3>1 DEF Current
    <3>3. QED
      BY <3>1, <3>2
  <2>5. QED
    BY <2>3, <2>4
<1>3. CASE AssignCallback(c) \/ Publish(c)
  <2>1. UNCHANGED <<reports, dtor, sem_from_cfg_>>
    BY <1>3 DEF AssignCallback, Publish
  <2>2. c \in Submitting /\ Submitting # {}
    BY <1>1, <1>3, SubmittingStep
  <2>3. Current = c /\ sem_from_cfg_ = 0
    BY <2>2, CurrentIs
  <2>4. CASE AssignCallback(c)
    <3>1. Submitting' = Submitting
      BY <1>1, <2>4, SubmittingStep
    <3>2. Current' = Current
      BY <2>1, <2>2, <2>3, <3>1 DEF Current
    <3>3. QED
      BY <2>1, <3>2
  <2>5. CASE Publish(c)
    <3>1. Submitting' = Submitting \ {c}
      BY <1>1, <2>5, SubmittingStep
    <3>2. \A d \in Submitting : d = c
      BY <2>3, CurrentIs
    <3>3. Submitting' = {}
      BY <3>1, <3>2
    <3>4. cfgcallback_' = c
      BY <2>5 DEF Publish, IInv, GoodCallback
    <3>5. Current' = c
      BY <2>1, <2>3, <3>3, <3>4 DEF Current
    <3>6. QED
      BY <2>1, <2>3, <3>5
  <2>6. QED
    BY <1>3, <2>4, <2>5
<1>4. QED
  BY <1>2, <1>3 DEF InConfigure

LEMMA ThreadServes ==
  ASSUME IInv, ThreadNext
  PROVE  [Service!Next]_(Service!vars)
<1> USE DEF Service!vars
<1>1. UNCHANGED <<caller, cfgcallback_, dtor>>
  BY DEF ThreadNext, Acquire, CheckStop, Release, RunCallback, RunHandler
<1>2. Submitting' = Submitting
  BY <1>1 DEF Submitting
<1>3. reports \in [Clients -> Seq(Outcomes)]
  BY DEF IInv, TypeOK
<1>4. CASE Acquire \/ CheckStop
  BY <1>1, <1>2, <1>4 DEF Acquire, CheckStop, Current
<1>5. CASE Release
  <2>1. Current = cfgcallback_ /\ cfgcallback_ \in Clients /\ reports[cfgcallback_] # <<>>
    BY <1>5, CurrentIs DEF Release, IInv, GoodCallback
  <2>2. Current' = NoClient
    BY <1>5 DEF Release, Current
  <2>3. Service!Finish
    BY <1>1, <1>5, <2>1, <2>2, ConfigurationAssumption DEF Release, Service!Finish
  <2>4. QED
    BY <2>3 DEF Service!Next
<1>6. ASSUME NEW threw \in BOOLEAN, RunCallback(threw)
      PROVE  Service!Next
  <2>1. thread = "callback" /\ Told(<<"success">>) /\ sem_from_cfg_' = sem_from_cfg_
    BY <1>6 DEF RunCallback
  <2>2. Current = cfgcallback_ /\ cfgcallback_ \in Clients /\ reports[cfgcallback_] = <<>>
    BY <2>1, CurrentIs DEF IInv, GoodCallback
  <2>3. Current' = Current
    BY <1>1, <1>2, <2>1 DEF Current
  <2>4. Service!Report
    BY <1>1, <2>1, <2>2, <2>3, ConfigurationAssumption DEF Told, Service!Report
  <2>5. QED
    BY <2>4 DEF Service!Next
<1>7. ASSUME NEW threw \in {"never", "on_error", "on_success"}, RunHandler(threw)
      PROVE  Service!Next
  <2>1. /\ thread = "catch" /\ sem_from_cfg_' = sem_from_cfg_
        /\ \E told \in {<<"success">>, <<"error">>, <<"error", "success">>} : Told(told)
    BY <1>7 DEF RunHandler
  <2>2. Current = cfgcallback_ /\ cfgcallback_ \in Clients /\ cfgcallback_ \in Throwing
    BY <2>1, CurrentIs DEF IInv, GoodCallback
  <2>3. Current' = Current
    BY <1>1, <1>2, <2>1 DEF Current
  <2>4. Service!Report
    BY <1>1, <2>1, <2>2, <2>3, ConfigurationAssumption DEF Told, Service!Report
  <2>5. QED
    BY <2>4 DEF Service!Next
<1>8. QED
  BY <1>4, <1>5, <1>6, <1>7 DEF ThreadNext

\* The plugin is the service that ConfigService describes: one request at a time,
\* each accepted one reported to its requester, once unless the requester's own
\* callback throws, before the next is accepted.
THEOREM ImplementsConfigService == Spec => ServiceSpec
<1>1. Init => Service!Init
  BY DEF Init, Current, Service!Init
<1>2. ASSUME IInv, IInv', [Next]_cfgVars
      PROVE  [Service!Next]_(Service!vars)
  <2>1. ASSUME NEW c \in Clients, TryAcquire(c) \/ InConfigure(c)
        PROVE  [Service!Next]_(Service!vars)
    BY <1>2, <2>1, CallersServe
  <2>2. CASE ThreadNext
    BY <1>2, <2>2, ThreadServes
  <2>3. CASE DtorNext
    <3>1. UNCHANGED <<caller, sem_from_cfg_, cfgcallback_, reports>>
      BY <2>3 DEF DtorNext, RequestStop, DtorRelease, Join
    <3>2. Current' = Current
      BY <3>1 DEF Current, Submitting
    <3>3. CASE RequestStop
      BY <3>1, <3>2, <3>3 DEF RequestStop, Service!Close, Service!Next
    <3>4. CASE DtorRelease \/ Join
      BY <3>1, <3>2, <3>4 DEF DtorRelease, Join, Service!vars
    <3>5. QED
      BY <2>3, <3>3, <3>4 DEF DtorNext
  <2>4. CASE UNCHANGED cfgVars
    BY <2>4 DEF cfgVars, Current, Submitting, Service!vars
  <2>5. QED
    BY <1>2, <2>1, <2>2, <2>3, <2>4 DEF Next
<1>3. QED
  BY IInvAlways, <1>1, <1>2, PTL DEF Spec, ServiceSpec, Service!Spec
=============================================================================
