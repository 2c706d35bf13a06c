------------------------- MODULE PluginConfiguration -------------------------
(***************************************************************************)
(* How a plugin is configured (src/plugin/plugin_impl.cpp and the C entry  *)
(* point in src/plugin/plugin_interface.cpp): callers hand their callback  *)
(* to the plugin's configurator_ thread through the plain member           *)
(* cfgcallback_, which two binary semaphores protect.  sem_from_cfg_ is    *)
(* free when the thread can take a request, sem_to_cfg_ says that one is   *)
(* there.  The destructor uses sem_to_cfg_ too, to wake the thread up.     *)
(***************************************************************************)
EXTENDS Naturals, Sequences

CONSTANTS
  Clients,         \* threads that call PASMP_plugin_configure_cli, with their cb
  Throwing,        \* the clients whose cb may let an exception out
  NoClient

ASSUME ConfigurationAssumption ==
  /\ NoClient \notin Clients
  /\ Throwing \subseteq Clients

VARIABLES
  sem_from_cfg_,   \* std::binary_semaphore, initially 1
  sem_to_cfg_,     \* std::binary_semaphore, initially 0
  cfgcallback_,    \* whose callback it holds
  stop_requested,  \* the stop state of configurator_
  thread,          \* where configurator_ is in configuration_procedure
  caller,          \* where each client is in configure
  answer,          \* what the client's last call returned
  reports,         \* the calls of each client's cb since it was last accepted
  dtor             \* where ~my_plugin is

cfgVars == <<sem_from_cfg_, sem_to_cfg_, cfgcallback_, stop_requested, thread,
             caller, answer, reports, dtor>>

ThreadLabels == {"acquire", "check", "callback", "catch", "release", "finished", "terminated"}
CallerLabels == {"idle", "assign", "publish"}
Outcomes     == {"success", "error"}
DtorLabels   == {"alive", "release", "join", "joined"}

Init ==
  /\ sem_from_cfg_ = 1
  /\ sem_to_cfg_ = 0
  /\ cfgcallback_ = NoClient
  /\ stop_requested = FALSE
  /\ thread = "acquire"
  /\ caller = [c \in Clients |-> "idle"]
  /\ answer = [c \in Clients |-> "none"]
  /\ reports = [c \in Clients |-> <<>>]
  /\ dtor = "alive"

(***************************************************************************)
(* my_plugin::configure, called by PASMP_plugin_configure_cli.  A caller   *)
(* holds a reference to the plugin, so the destructor has not begun.       *)
(***************************************************************************)
TryAcquire(c) ==
  /\ dtor = "alive"
  /\ caller[c] = "idle"
  /\ \/ /\ sem_from_cfg_ = 1
        /\ sem_from_cfg_' = 0
        /\ caller' = [caller EXCEPT ![c] = "assign"]
        /\ answer' = [answer EXCEPT ![c] = "none"]
        /\ reports' = [reports EXCEPT ![c] = <<>>]
     \/ /\ sem_from_cfg_ = 0
        /\ answer' = [answer EXCEPT ![c] = "unavailable"]
        /\ UNCHANGED <<sem_from_cfg_, caller, reports>>
  /\ UNCHANGED <<sem_to_cfg_, cfgcallback_, stop_requested, thread, dtor>>

\* Fault: the thread is woken up before, and again after, the assignment.
EarlyPublish(c) ==
  /\ caller[c] = "assign"
  /\ cfgcallback_' = c
  /\ sem_to_cfg_' = 1
  /\ caller' = [caller EXCEPT ![c] = "publish"]
  /\ UNCHANGED <<sem_from_cfg_, stop_requested, thread, answer, reports, dtor>>

AssignCallback(c) ==
  /\ caller[c] = "assign"
  /\ cfgcallback_' = c
  /\ caller' = [caller EXCEPT ![c] = "publish"]
  /\ UNCHANGED <<sem_from_cfg_, sem_to_cfg_, stop_requested, thread, answer, reports, dtor>>

\* Fault: the thread is not woken up.
SilentPublish(c) ==
  /\ caller[c] = "publish"
  /\ caller' = [caller EXCEPT ![c] = "idle"]
  /\ answer' = [answer EXCEPT ![c] = "success"]
  /\ UNCHANGED <<sem_from_cfg_, sem_to_cfg_, cfgcallback_, stop_requested, thread,
                 reports, dtor>>

Publish(c) ==
  /\ caller[c] = "publish"
  /\ sem_to_cfg_' = 1
  /\ caller' = [caller EXCEPT ![c] = "idle"]
  /\ answer' = [answer EXCEPT ![c] = "success"]
  /\ UNCHANGED <<sem_from_cfg_, cfgcallback_, stop_requested, thread, reports, dtor>>

(***************************************************************************)
(* configuration_procedure.                                                *)
(***************************************************************************)
\* Fault: the next request is let in before this one is served.
EagerAcquire ==
  /\ thread = "acquire"
  /\ sem_to_cfg_ = 1
  /\ sem_to_cfg_' = 0
  /\ sem_from_cfg_' = 1
  /\ thread' = "check"
  /\ UNCHANGED <<cfgcallback_, stop_requested, caller, answer, reports, dtor>>

Acquire ==
  /\ thread = "acquire"
  /\ sem_to_cfg_ = 1
  /\ sem_to_cfg_' = 0
  /\ thread' = "check"
  /\ UNCHANGED <<sem_from_cfg_, cfgcallback_, stop_requested, caller, answer, reports, dtor>>

CheckStop ==
  /\ thread = "check"
  /\ thread' = IF stop_requested THEN "finished" ELSE "callback"
  /\ UNCHANGED <<sem_from_cfg_, sem_to_cfg_, cfgcallback_, stop_requested,
                 caller, answer, reports, dtor>>

Told(told) ==
  reports' = [reports EXCEPT ![cfgcallback_] = @ \o told]

\* cfgcallback_(nullptr, finish): the lambda of PASMP_plugin_configure_cli
\* calls cb once, with success.  An exception of cb is caught in the loop.
RunCallback(threw) ==
  /\ thread = "callback"
  /\ threw => cfgcallback_ \in Throwing
  /\ Told(<<"success">>)
  /\ thread' = IF threw THEN "catch" ELSE "release"
  /\ UNCHANGED <<sem_from_cfg_, sem_to_cfg_, cfgcallback_, stop_requested,
                 caller, answer, dtor>>

\* cfgcallback_(std::current_exception(), {}): the lambda calls cb with the
\* error and, unless that throws, falls through to the switch, where a
\* value-initialised status reads as finish, and calls cb with success.  An
\* exception leaves the handler, the thread's function, and ends the process.
RunHandler(threw) ==
  /\ thread = "catch"
  /\ \/ /\ threw = "never"
        /\ Told(<<"error", "success">>)
     \/ /\ threw = "on_error"
        /\ Told(<<"error">>)
     \/ /\ threw = "on_success"
        /\ Told(<<"error", "success">>)
  /\ thread' = IF threw = "never" THEN "release" ELSE "terminated"
  /\ UNCHANGED <<sem_from_cfg_, sem_to_cfg_, cfgcallback_, stop_requested,
                 caller, answer, dtor>>

\* Fault: the plugin is not made available again.
ForgetfulRelease ==
  /\ thread = "release"
  /\ thread' = "acquire"
  /\ UNCHANGED <<sem_from_cfg_, sem_to_cfg_, cfgcallback_, stop_requested,
                 caller, answer, reports, dtor>>

Release ==
  /\ thread = "release"
  /\ sem_from_cfg_' = 1
  /\ thread' = "acquire"
  /\ UNCHANGED <<sem_to_cfg_, cfgcallback_, stop_requested, caller, answer, reports, dtor>>

(***************************************************************************)
(* ~my_plugin, run by the release of the last reference: no caller is left *)
(* in configure, but a request that was accepted may still be in progress. *)
(***************************************************************************)
RequestStop ==
  /\ dtor = "alive"
  /\ \A c \in Clients : caller[c] = "idle"
  /\ stop_requested' = TRUE
  /\ dtor' = "release"
  /\ UNCHANGED <<sem_from_cfg_, sem_to_cfg_, cfgcallback_, thread, caller, answer, reports>>

\* Fault: the destructor relies on request_stop alone, which does not wake a
\* thread blocked in an acquire.
SilentDtorRelease ==
  /\ dtor = "release"
  /\ dtor' = "join"
  /\ UNCHANGED <<sem_from_cfg_, sem_to_cfg_, cfgcallback_, stop_requested, thread,
                 caller, answer, reports>>

\* Releasing a binary_semaphore that is already 1 breaks its precondition; the
\* implementations leave it at 1, or at 2, which the loop does not tell apart
\* because it leaves at the first stop it sees.
DtorRelease ==
  /\ dtor = "release"
  /\ sem_to_cfg_' = 1
  /\ dtor' = "join"
  /\ UNCHANGED <<sem_from_cfg_, cfgcallback_, stop_requested, thread, caller, answer, reports>>

\* ~jthread of configurator_: request_stop again, then join.
Join ==
  /\ dtor = "join"
  /\ thread = "finished"
  /\ dtor' = "joined"
  /\ UNCHANGED <<sem_from_cfg_, sem_to_cfg_, cfgcallback_, stop_requested, thread,
                 caller, answer, reports>>

ThreadNext ==
  \/ Acquire \/ CheckStop \/ Release
  \/ \E threw \in BOOLEAN : RunCallback(threw)
  \/ \E threw \in {"never", "on_error", "on_success"} : RunHandler(threw)

InConfigure(c) == AssignCallback(c) \/ Publish(c)

DtorNext == RequestStop \/ DtorRelease \/ Join

Running == thread # "terminated"

Next ==
  /\ Running
  /\ \/ \E c \in Clients : TryAcquire(c) \/ InConfigure(c)
     \/ ThreadNext
     \/ DtorNext

\* The plugin's thread, a caller inside configure and a destructor that has
\* begun keep running; nobody has to ask for a configuration or drop the plugin.
Fairness ==
  /\ WF_cfgVars(Running /\ ThreadNext)
  /\ \A c \in Clients : WF_cfgVars(Running /\ InConfigure(c))
  /\ WF_cfgVars(Running /\ (DtorRelease \/ Join))

Spec == Init /\ [][Next]_cfgVars

FairSpec == Spec /\ Fairness

-----------------------------------------------------------------------------
Serving == {"check", "callback", "catch", "release"}
Submitting == {c \in Clients : caller[c] \in {"assign", "publish"}}

\* A request is being handed over, waiting for the thread, or being served.
Busy == Submitting # {} \/ sem_to_cfg_ = 1 \/ thread \in Serving \cup {"terminated"}

\* Whose request is in progress: the one being handed over, or else the one
\* whose callback the thread was given.
Current ==
  IF sem_from_cfg_ = 1 THEN NoClient
  ELSE IF Submitting # {} THEN CHOOSE c \in Clients : c \in Submitting
  ELSE cfgcallback_

\* Type invariant.
TypeOK ==
  /\ sem_from_cfg_ \in {0, 1}
  /\ sem_to_cfg_ \in {0, 1}
  /\ cfgcallback_ \in Clients \cup {NoClient}
  /\ stop_requested \in BOOLEAN
  /\ thread \in ThreadLabels
  /\ caller \in [Clients -> CallerLabels]
  /\ answer \in [Clients -> {"none", "success", "unavailable"}]
  /\ reports \in [Clients -> Seq(Outcomes)]
  /\ dtor \in DtorLabels

\* cfgcallback_ has no lock of its own: nobody assigns it while the thread uses
\* it or while another caller assigns it, and the thread never calls it empty.
CallbackNotTorn ==
  /\ \A c \in Clients : caller[c] = "assign" =>
       thread \notin {"callback", "catch"} /\ Submitting = {c}
  /\ thread \in {"callback", "catch"} => cfgcallback_ \in Clients

\* The one permit is never lost nor doubled: while the plugin lives,
\* sem_from_cfg_ is free exactly when no request is in progress.
AvailableUnlessBusy ==
  dtor = "alive" => (sem_from_cfg_ = 1 <=> ~Busy)

\* A call is turned down (PASMP_UNAVAILABLE) only while a request accepted
\* earlier is still in progress; the caller's own last one may be it.
RefusedOnlyWhenBusy ==
  [][\A c \in Clients :
       (answer'[c] = "unavailable" /\ answer[c] # "unavailable") => Busy]_cfgVars

\* An accepted request is reported, unless the plugin is destroyed first.
AcceptedIsReported ==
  \A c \in Clients : caller[c] = "publish" ~> (reports[c] # <<>> \/ dtor # "alive")

\* The destructor's wake-up is not lost, whatever the thread was doing: while
\* ~my_plugin joins, the thread finds a permit or has passed its last acquire, and
\* it will see the stop.
StopReachesThread ==
  dtor = "join" =>
    stop_requested /\ (sem_to_cfg_ = 1 \/ thread \in {"check", "finished"})

\* ~my_plugin returns: whatever the thread is doing, it sees the stop, unless a
\* callback that throws again in the handler ends the process first.
DestructorJoins == dtor = "release" ~> (dtor = "joined" \/ thread = "terminated")

-----------------------------------------------------------------------------
(***************************************************************************)
(* The promise (ConfigService).                                            *)
(***************************************************************************)
Service == INSTANCE ConfigService WITH
  Requesters  <- Clients,
  Unruly      <- Throwing,
  NoRequester <- NoClient,
  current     <- Current,
  inbox       <- reports,
  open        <- (dtor = "alive")

\* The two semaphores serve one request at a time and report each accepted one
\* to its own requester, once if its callback does not throw; also on the error
\* path of the loop, a client that was refused or answered before hears nothing.
ServiceSpec == Service!Spec
=============================================================================
