------------------------------ MODULE SampleHost ------------------------------
(***************************************************************************)
(* The sample program (src/src/PluginArchitectureSample.cpp) and a plugin: *)
(* the plugin's event callback puts a message into the blocking queue, and *)
(* the main loop, until it finds the queue empty, pops a message and, for  *)
(* an added action, asks the plugin for its descriptor and executes it a   *)
(* few times.  The queue is used through BoundedFifo, its specification,   *)
(* which BlockingQueue implements.                                         *)
(***************************************************************************)
EXTENDS ActionStore, FiniteSets

CONSTANTS
  Capacity,  \* of the queue: 256 in the code, where there are 15 events
  Submits    \* how often the loop executes an action: 10 in the code

ASSUME HostAssumption ==
  /\ Readers = {"main"}
  /\ Capacity \in Nat /\ Capacity >= Total
  /\ Submits \in Nat \ {0}

VARIABLES
  items, call, result,  \* the queue
  main,      \* where the main thread is
  msg,       \* the message in the loop's body
  submits,   \* executions left for it
  consumed,  \* the messages popped so far
  lost,      \* the events whose emplace threw, as on_error was told
  warned     \* the actions that the loop found not to exist any more

queueVars == <<items, call, result>>
loopVars == <<main, msg, submits, consumed, lost, warned>>
vars == <<storeVars, queueVars, loopVars>>

Events == {"add", "remove"} \X Ids

Queue == INSTANCE BoundedFifo WITH
  Callers <- {"main", "modifier"},
  Values  <- Events

NoMessage == <<"none", 0>>

HostInit ==
  /\ Init
  /\ Queue!Init
  /\ main = "empty"
  /\ msg = NoMessage
  /\ submits = 0
  /\ consumed = <<>>
  /\ lost = {}
  /\ warned = {}

Ask(t, request) ==
  /\ Queue!Invoke(t)
  /\ call'[t] = request

(***************************************************************************)
(* The plugin's thread.  on_action_event is the callback, and ends when    *)
(* emplace returns; until then modifier_ holds mtx_.  What emplace throws  *)
(* is caught behind the C interface: the event is lost and the plugin goes *)
(* on.  The queue has taken a slot for it that no pop gives back.          *)
(***************************************************************************)
EmplaceCall ==
  /\ modifier = "announce"
  /\ Ask("modifier", <<"put", Event>>)
  /\ UNCHANGED <<storeVars, loopVars>>

\* Fault: the callback drops the event when the main loop is using the queue.
LossyEmplace ==
  /\ call["modifier"] = <<"put", Event>>
  /\ Announce
  /\ IF call["main"] = <<"none">> THEN Queue!Put("modifier", Event)
     ELSE Queue!Become("modifier", <<"returning">>, <<"done">>) /\ UNCHANGED items
  /\ UNCHANGED loopVars

Room == Len(items) + Cardinality(lost) < Capacity

Emplace ==
  /\ Room
  /\ Queue!Put("modifier", Event)
  /\ Announce
  /\ UNCHANGED loopVars

EmplaceThrows ==
  /\ call["modifier"] = <<"put", Event>> /\ Room
  /\ Announce
  /\ Queue!Become("modifier", <<"returning">>, <<"threw">>)
  /\ lost' = lost \cup {Event}
  /\ UNCHANGED <<items, main, msg, submits, consumed, warned>>

EmplaceReturn ==
  /\ Queue!Return("modifier")
  /\ UNCHANGED <<storeVars, loopVars>>

Modify ==
  \/ EmplaceCall \/ Emplace \/ EmplaceThrows \/ EmplaceReturn
  \/ /\ call["modifier"] = <<"none">>
     /\ Begin \/ End \/ WriteLock \/ Change \/ WriteUnlock
     /\ UNCHANGED <<queueVars, loopVars>>

(***************************************************************************)
(* The main loop.                                                          *)
(***************************************************************************)
GoMain(from, to) == main = from /\ main' = to

\* while (!message_queue.empty()): the call, and what it found.
EmptyCall ==
  /\ main = "empty"
  /\ Ask("main", <<"size">>)
  /\ UNCHANGED <<storeVars, loopVars>>

EmptyReturn ==
  /\ Queue!Size("main")
  /\ GoMain("empty", IF items = <<>> THEN "left" ELSE "pop")
  /\ UNCHANGED <<storeVars, msg, submits, consumed, lost, warned>>

PopCall ==
  /\ main = "pop"
  /\ Ask("main", <<"get">>)
  /\ UNCHANGED <<storeVars, loopVars>>

Pop ==
  /\ Queue!Get("main")
  /\ consumed' = Append(consumed, Head(items))
  /\ UNCHANGED <<storeVars, main, msg, submits, lost, warned>>

\* Fault: the loop leaves at the first action that is removed.
ImpatientPopReturn ==
  /\ Queue!Return("main")
  /\ msg' = result["main"][2]
  /\ main' = CASE msg'[1] = "add" -> "describe" [] msg'[1] = "remove" -> "left"
  /\ submits' = Submits
  /\ UNCHANGED <<storeVars, consumed, lost, warned>>

\* Fault: after a removed action the loop pops again without another look.
EagerPopReturn ==
  /\ Queue!Return("main")
  /\ msg' = result["main"][2]
  /\ main' = CASE msg'[1] = "add" -> "describe" [] msg'[1] = "remove" -> "pop"
  /\ submits' = Submits
  /\ UNCHANGED <<storeVars, consumed, lost, warned>>

\* The switch: only an added action is worked on.
PopReturn ==
  /\ Queue!Return("main")
  /\ msg' = result["main"][2]
  /\ main' = CASE msg'[1] = "add" -> "describe" [] msg'[1] = "remove" -> "empty"
  /\ submits' = Submits
  /\ UNCHANGED <<storeVars, consumed, lost, warned>>

\* wrap::action_descriptor and action_executor::submit call the plugin, which
\* answers, and runs the executor's callback, before they return.
AskPlugin ==
  /\ main \in {"describe", "submit"}
  /\ ReadLock("main", msg[2])
  /\ main' = IF main = "describe" THEN "described" ELSE "submitted"
  /\ UNCHANGED <<queueVars, msg, submits, consumed, lost, warned>>

LookUp ==
  /\ Look("main")
  /\ UNCHANGED <<queueVars, loopVars>>

\* A missing descriptor is printed as an error and the executions follow.
Described ==
  /\ ReadUnlock("main")
  /\ GoMain("described", "submit")
  /\ UNCHANGED <<queueVars, msg, submits, consumed, lost, warned>>

Submitted ==
  /\ ReadUnlock("main")
  /\ warned' = IF answer["main"] = "noent" THEN warned \cup {msg[2]} ELSE warned
  /\ submits' = submits - 1
  /\ GoMain("submitted", IF submits = 1 THEN "empty" ELSE "submit")
  /\ UNCHANGED <<queueVars, msg, consumed, lost>>

Loop ==
  \/ EmptyCall \/ EmptyReturn \/ PopCall \/ Pop \/ PopReturn
  \/ AskPlugin \/ LookUp \/ Described \/ Submitted

HostNext == Running /\ (Modify \/ Loop)

HostSpec == HostInit /\ [][HostNext]_vars

\* Both threads keep running.  mtx_ prefers nobody, but a reader keeps it from
\* modifier_ only for as long as the main loop has messages.
HostFairSpec == HostSpec /\ WF_vars(Running /\ Modify) /\ WF_vars(Running /\ Loop)

-----------------------------------------------------------------------------
\* Type invariant.
HostTypeOK ==
  /\ TypeOK
  /\ items \in Seq(Events)
  /\ Len(items) <= Capacity
  /\ main \in {"empty", "pop", "describe", "described", "submit", "submitted", "left"}
  /\ msg \in Events \cup {NoMessage}
  /\ submits \in 0..Submits
  /\ consumed \in Seq(Events)
  /\ lost \subseteq Events
  /\ warned \subseteq Ids

In(log) == {log[i] : i \in DOMAIN log}

Before(d, e, log) == \E i, j \in DOMAIN log : i < j /\ log[i] = d /\ log[j] = e

\* Every event reaches the loop or waits for it, once and in order, unless the host
\* was told that it could not be queued.
NothingLost ==
  LET log == consumed \o items
  IN  /\ In(log) \cup lost = In(events) /\ In(log) \cap lost = {}
      /\ \A i, j \in DOMAIN log : i < j => Before(log[i], log[j], events)

\* pop never waits: only this thread takes messages, and it saw that there is one.
PopNeverBlocks == call["main"] = <<"get">> => items # <<>>

\* "Action '{}' does not exist, will receive removed event": the removed event
\* is on its way when the loop says so, if it could be queued,
RemovedIsComing ==
  \A id \in warned : <<"remove", id>> \in In(consumed \o items) \cup lost

\* and the loop does not end before it has received it.
RemovedIsReceived ==
  \A id \in Ids : id \in warned ~> <<"remove", id>> \in In(consumed) \cup lost

\* The event callback, which runs with mtx_ held, never waits for room: the loop may
\* wait for mtx_ with messages in the queue, and would then make none.
EmplaceHasRoom == call["modifier"][1] = "put" => Room

\* The loop and the plugin's thread do not wait for each other: modifier_ holds
\* mtx_ while it waits for the queue, the loop takes mtx_ between two pops.
BothEnd == <>(main = "left" /\ modifier = "done")
=============================================================================
