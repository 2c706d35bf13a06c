---------------------------- MODULE ConfigService ----------------------------
(***************************************************************************)
(* What the plugin promises to those who ask it to be configured, without  *)
(* threads or semaphores: it works on one request at a time, refuses the   *)
(* others, and reports to the requester, exactly once, before it takes the *)
(* next request, unless it is shut down first.  A requester whose own code *)
(* fails while it is told may be told more than once, but nobody else is.  *)
(***************************************************************************)
EXTENDS Sequences

CONSTANTS Requesters, Unruly, NoRequester   \* Unruly: those whose code may fail

VARIABLES
  current,   \* whose request is in progress
  inbox,     \* what each requester was told about its last request
  open       \* has the plugin not begun to shut down?

vars == <<current, inbox, open>>

Init ==
  /\ current = NoRequester
  /\ inbox = [r \in Requesters |-> <<>>]
  /\ open = TRUE

Accept(r) ==
  /\ open
  /\ current = NoRequester
  /\ current' = r
  /\ inbox' = [inbox EXCEPT ![r] = <<>>]
  /\ UNCHANGED open

Report ==
  /\ current # NoRequester
  /\ \E told \in {<<"success">>, <<"error">>, <<"error", "success">>} :
       /\ current \notin Unruly => inbox[current] = <<>> /\ told = <<"success">>
       /\ inbox' = [inbox EXCEPT ![current] = @ \o told]
  /\ UNCHANGED <<current, open>>

Finish ==
  /\ current # NoRequester
  /\ inbox[current] # <<>>
  /\ current' = NoRequester
  /\ UNCHANGED <<inbox, open>>

Close ==
  /\ open
  /\ open' = FALSE
  /\ UNCHANGED <<current, inbox>>

Next == (\E r \in Requesters : Accept(r)) \/ Report \/ Finish \/ Close

Spec == Init /\ [][Next]_vars
=============================================================================
