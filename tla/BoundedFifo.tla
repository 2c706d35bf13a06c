----------------------------- MODULE BoundedFifo -----------------------------
(***************************************************************************)
(* What a caller of q::blocking_queue may rely on, without semaphores or   *)
(* mutex: a FIFO of at most Capacity items on which each call takes effect *)
(* at one instant between its invocation and its return.                   *)
(***************************************************************************)
EXTENDS Naturals, Sequences

CONSTANTS Callers, Values, Capacity

VARIABLES
  items,   \* the queued elements, front first
  call,    \* per caller: what it has asked for and not yet obtained
  result   \* per caller: the outcome of its last call

vars == <<items, call, result>>

Init ==
  /\ items = <<>>
  /\ call = [c \in Callers |-> <<"none">>]
  /\ result = [c \in Callers |-> <<>>]

Become(c, k, r) ==
  /\ call' = [call EXCEPT ![c] = k]
  /\ result' = [result EXCEPT ![c] = r]

Invoke(c) ==
  /\ call[c] = <<"none">>
  /\ \E k \in {<<"get">>, <<"size">>} \cup {<<"put", v>> : v \in Values} : Become(c, k, <<>>)
  /\ UNCHANGED items

\* A try_ operation that finds no permit.
Refuse(c) ==
  /\ call[c] = <<"none">>
  /\ \E op \in {"get", "put"} : Become(c, <<"none">>, <<"refused", op>>)
  /\ UNCHANGED items

Put(c, v) ==
  /\ call[c] = <<"put", v>>
  /\ Len(items) < Capacity
  /\ items' = Append(items, v)
  /\ Become(c, <<"returning">>, <<"done">>)

Get(c) ==
  /\ call[c] = <<"get">>
  /\ items # <<>>
  /\ items' = Tail(items)
  /\ Become(c, <<"returning">>, <<"value", Head(items)>>)

Size(c) ==
  /\ call[c] = <<"size">>
  /\ Become(c, <<"none">>, <<"size", Len(items)>>)
  /\ UNCHANGED items

Return(c) ==
  /\ call[c] = <<"returning">>
  /\ Become(c, <<"none">>, result[c])
  /\ UNCHANGED items

Next ==
  \E c \in Callers :
    \/ Invoke(c) \/ Refuse(c) \/ Get(c) \/ Size(c) \/ Return(c)
    \/ \E v \in Values : Put(c, v)

Spec == Init /\ [][Next]_vars
=============================================================================
