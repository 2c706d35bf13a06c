----------------------------- MODULE ActionStore -----------------------------
(***************************************************************************)
(* The actions of a plugin (src/plugin/plugin_impl.cpp): the set actions_, *)
(* guarded by the shared mutex mtx_, which the plugin's modifier_ thread   *)
(* fills and then half empties, calling the host's event callback while it *)
(* holds the mutex, and which any thread reads through the C functions.    *)
(***************************************************************************)
EXTENDS Naturals, Sequences

CONSTANTS
  Readers,  \* threads that call retrieve and execute
  Count     \* how many actions modifier_ inserts: count, 10 in the code

ASSUME StoreAssumption == Count \in Nat

VARIABLES
  next_id,   \* the static counter of next_id()
  actions_,  \* the ids in the set
  writer,    \* does modifier_ hold mtx_ exclusively?
  sharers,   \* the readers that hold it shared
  modifier,  \* where modifier_ is
  step,      \* the index of its current call of insert or remove
  events,    \* what the event callback was called with, oldest first
  reader,    \* where each reader is
  query,     \* the id it asks about
  answer     \* the answer to its last question

storeVars == <<next_id, actions_, writer, sharers, modifier, step, events, reader,
               query, answer>>
readerVars == <<sharers, reader, query, answer>>

Total == Count + (Count \div 2)
Ids   == 1..Count

Inserting == step <= Count

\* Fault: remove(i) instead of remove(i + 1).
OffByOneId == IF Inserting THEN next_id ELSE step - Count - 1

\* The action that the current insert or remove is about.
Id == IF Inserting THEN next_id ELSE step - Count

Event == <<IF Inserting THEN "add" ELSE "remove", Id>>

Named(name, log) == {log[i][2] : i \in {j \in DOMAIN log : log[j][1] = name}}

Init ==
  /\ next_id = 0
  /\ actions_ = {}
  /\ writer = FALSE
  /\ sharers = {}
  /\ modifier = "next"
  /\ step = 1
  /\ events = <<>>
  /\ reader = [r \in Readers |-> "idle"]
  /\ query = [r \in Readers |-> 0]
  /\ answer = [r \in Readers |-> "none"]

(***************************************************************************)
(* modifier_.  An exception of insert or remove leaves the thread's        *)
(* function and ends the process.                                          *)
(***************************************************************************)
\* Constructing the action that is inserted takes the next id.
Begin ==
  /\ modifier = "next"
  /\ step <= Total
  /\ modifier' = "lock"
  /\ next_id' = IF Inserting THEN next_id + 1 ELSE next_id
  /\ UNCHANGED <<actions_, writer, step, events, readerVars>>

End ==
  /\ modifier = "next"
  /\ step > Total
  /\ modifier' = "done"
  /\ UNCHANGED <<next_id, actions_, writer, step, events, readerVars>>

WriteLock ==
  /\ modifier = "lock"
  /\ ~writer /\ sharers = {}
  /\ writer' = TRUE
  /\ modifier' = "change"
  /\ UNCHANGED <<next_id, actions_, step, events, readerVars>>

\* Fault: the lock does not cover the callback.
UnlockingChange ==
  /\ modifier = "change"
  /\ actions_' = IF Inserting THEN actions_ \cup {Id} ELSE actions_ \ {Id}
  /\ writer' = FALSE
  /\ modifier' = "announce"
  /\ UNCHANGED <<next_id, step, events, readerVars>>

\* Inserting an id that is there, or erasing one that is not, throws.
Change ==
  /\ modifier = "change"
  /\ actions_' = IF Inserting THEN actions_ \cup {Id} ELSE actions_ \ {Id}
  /\ modifier' = IF Inserting <=> Id \notin actions_ THEN "announce" ELSE "terminated"
  /\ UNCHANGED <<next_id, writer, step, events, readerVars>>

\* attr_.on_action_added or on_action_removed, with mtx_ still held.
Announce ==
  /\ modifier = "announce"
  /\ events' = Append(events, Event)
  /\ modifier' = "unlock"
  /\ UNCHANGED <<next_id, actions_, writer, step, readerVars>>

\* Fault: the lock is not a scoped one, and nobody unlocks after a removal.
ForgetfulUnlock ==
  /\ modifier = "unlock"
  /\ writer' = ~Inserting
  /\ step' = step + 1
  /\ modifier' = "next"
  /\ UNCHANGED <<next_id, actions_, events, readerVars>>

WriteUnlock ==
  /\ modifier = "unlock"
  /\ writer' = FALSE
  /\ step' = step + 1
  /\ modifier' = "next"
  /\ UNCHANGED <<next_id, actions_, events, readerVars>>

(***************************************************************************)
(* retrieve, execute and snapshot: look at actions_ under a shared lock.   *)
(***************************************************************************)
\* Fault: the reader does not wait for the writer.
UncheckedReadLock(r, id) ==
  /\ reader[r] = "idle"
  /\ sharers' = sharers \cup {r}
  /\ reader' = [reader EXCEPT ![r] = "look"]
  /\ query' = [query EXCEPT ![r] = id]
  /\ UNCHANGED <<next_id, actions_, writer, modifier, step, events, answer>>

ReadLock(r, id) ==
  /\ reader[r] = "idle"
  /\ ~writer
  /\ sharers' = sharers \cup {r}
  /\ reader' = [reader EXCEPT ![r] = "look"]
  /\ query' = [query EXCEPT ![r] = id]
  /\ UNCHANGED <<next_id, actions_, writer, modifier, step, events, answer>>

Look(r) ==
  /\ reader[r] = "look"
  /\ answer' = [answer EXCEPT ![r] = IF query[r] \in actions_ THEN "found" ELSE "noent"]
  /\ reader' = [reader EXCEPT ![r] = "unlock"]
  /\ UNCHANGED <<next_id, actions_, writer, modifier, step, events, sharers, query>>

ReadUnlock(r) ==
  /\ reader[r] = "unlock"
  /\ sharers' = sharers \ {r}
  /\ reader' = [reader EXCEPT ![r] = "idle"]
  /\ UNCHANGED <<next_id, actions_, writer, modifier, step, events, query, answer>>

Running == modifier # "terminated"

Next ==
  /\ Running
  /\ \/ Begin \/ End \/ WriteLock \/ Change \/ Announce \/ WriteUnlock
     \/ \E r \in Readers :
          \/ \E id \in Ids : ReadLock(r, id)
          \/ Look(r) \/ ReadUnlock(r)

Spec == Init /\ [][Next]_storeVars

-----------------------------------------------------------------------------
\* Type invariant.
TypeOK ==
  /\ next_id \in 0..Count
  /\ actions_ \subseteq Ids
  /\ writer \in BOOLEAN
  /\ sharers \subseteq Readers
  /\ modifier \in {"next", "lock", "change", "announce", "unlock", "done", "terminated"}
  /\ step \in 1..(Total + 1)
  /\ events \in Seq({"add", "remove"} \X Ids)
  /\ reader \in [Readers -> {"idle", "look", "unlock"}]
  /\ query \in [Readers -> 0..Count]
  /\ answer \in [Readers -> {"none", "found", "noent"}]

\* A reader sees the set that results from the events so far: no change is
\* visible before the callback was called with it, and none is announced late.
StoreMatchesEvents ==
  sharers # {} => actions_ = Named("add", events) \ Named("remove", events)

\* PASMP_ERROR_ACTION_NOENT for an action that was announced is only answered
\* once its removal has been announced too.
NoentIsAnnounced ==
  [][\A r \in Readers :
       (Look(r) /\ answer'[r] = "noent" /\ query[r] \in Named("add", events)) =>
         query[r] \in Named("remove", events)]_storeVars

\* The ids that modifier_ guesses (remove(i + 1)) are there, and the ones it
\* inserts are new, so neither call throws and ends the process.
ModifierNeverThrows == modifier # "terminated"
=============================================================================
