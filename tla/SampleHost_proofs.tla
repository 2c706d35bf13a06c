--------------------------- MODULE SampleHost_proofs ---------------------------
(***************************************************************************)
(* Theorems about the sample program's loop and the plugin's thread, for   *)
(* every number of actions and executions and every queue that is large    *)
(* enough.  The composition implements ActionStore, whose invariant says   *)
(* what the loop finds when it asks the plugin.                            *)
(***************************************************************************)
EXTENDS SampleHost, ActionStore_proofs, FiniteSetTheorems

\* What NothingLost says of a log, of the events lost and of all that were announced.
Kept(log, gone, all) ==
  /\ In(log) \cup gone = In(all) /\ In(log) \cap gone = {}
  /\ \A i, j \in DOMAIN log : i < j => Before(log[i], log[j], all)

\* The queue between the events that were announced and the messages received.
QueueInv ==
  /\ DOMAIN call = {"main", "modifier"} /\ DOMAIN result = {"main", "modifier"}
  /\ items \in Seq(Events) /\ consumed \in Seq(Events)
  /\ Kept(consumed \o items, lost, events)
  /\ IsFiniteSet(lost)
  /\ Len(consumed) + Len(items) + Cardinality(lost) = Len(events)

\* An added action that the loop has heard of was announced.
Heard(e) == e \in Events /\ (e[1] = "add" => e[2] \in Named("add", events))

Asking  == main \in {"described", "submitted"}
Working == main \in {"describe", "submit"} \/ Asking

\* What the loop waits for from the queue: only while pop is on its way is there
\* anything that it could wait for.
CallInv ==
  /\ main \in {"empty", "pop", "left"} \/ Working
  /\ main = "empty" => call["main"] \in {<<"none">>, <<"size">>}
  /\ main = "pop" => /\ call["main"] \in {<<"none">>, <<"get">>, <<"returning">>}
                     /\ call["main"] # <<"returning">> => items # <<>>
                     /\ call["main"] = <<"returning">> =>
                          \E e : Heard(e) /\ result["main"] = <<"value", e>>
  /\ main \notin {"empty", "pop"} => call["main"] = <<"none">>

\* What the loop asks the plugin about, and what it concludes.
AskInv ==
  /\ Working => Heard(msg) /\ msg[1] = "add"
  /\ Asking => query["main"] = msg[2]
  /\ reader["main"] # "idle" => Asking
  /\ reader["main"] = "unlock" /\ answer["main"] = "noent" =>
       query["main"] \in Named("remove", events)
  /\ warned \subseteq Named("remove", events)

HostInv == IInv /\ QueueInv /\ CallInv /\ AskInv

-----------------------------------------------------------------------------
LEMMA EventsAre == Events = Kinds \X Ids
BY DEF Events, Kinds

LEMMA InAppend ==
  ASSUME NEW log \in Seq(Events), NEW e \in Events
  PROVE  In(Append(log, e)) = In(log) \cup {e}
<1> DEFINE L == Append(log, e)
<1>1. /\ Len(log) \in Nat /\ DOMAIN log = 1..Len(log) /\ DOMAIN L = 1..(Len(log) + 1)
      /\ \A i \in 1..Len(log) : L[i] = log[i]
      /\ L[Len(log) + 1] = e
  BY AppendProperties, LenProperties
<1>2. 1..(Len(log) + 1) = 1..Len(log) \cup {Len(log) + 1}
  BY <1>1
<1> HIDE DEF L
<1> QED BY <1>1, <1>2 DEF In, L

\* An event that is announced for the first time goes to the end of the log or is lost.
LEMMA KeptAppend ==
  ASSUME NEW log \in Seq(Events), NEW all \in Seq(Events), NEW gone, NEW e \in Events,
         Kept(log, gone, all), e \notin In(all)
  PROVE  /\ Kept(Append(log, e), gone, Append(all, e))
         /\ Kept(log, gone \cup {e}, Append(all, e))
<1> DEFINE L == Append(log, e)
           A == Append(all, e)
<1>1. /\ Len(log) \in Nat /\ DOMAIN log = 1..Len(log) /\ DOMAIN L = 1..(Len(log) + 1)
      /\ \A i \in 1..Len(log) : L[i] = log[i]
      /\ L[Len(log) + 1] = e
  BY AppendProperties, LenProperties
<1>2. /\ Len(all) \in Nat /\ DOMAIN all = 1..Len(all) /\ DOMAIN A = 1..(Len(all) + 1)
      /\ \A i \in 1..Len(all) : A[i] = all[i]
      /\ A[Len(all) + 1] = e
  BY AppendProperties, LenProperties
<1>3. In(L) = In(log) \cup {e} /\ In(A) = In(all) \cup {e}
  BY InAppend
<1> HIDE DEF L, A
<1>4. \A d, f : Before(d, f, all) => Before(d, f, A)
  BY <1>2 DEF Before
<1>5. \A d \in In(all) : Before(d, e, A)
  BY <1>2 DEF Before, In
<1>6. \A i, j \in DOMAIN L : i < j => Before(L[i], L[j], A)
  <2> SUFFICES ASSUME NEW i \in DOMAIN L, NEW j \in DOMAIN L, i < j
               PROVE  Before(L[i], L[j], A)
    OBVIOUS
  <2>1. i \in DOMAIN log /\ L[i] = log[i]
    BY <1>1
  <2>2. CASE j \in DOMAIN log
    <3>1. L[j] = log[j] /\ Before(log[i], log[j], all)
      BY <1>1, <2>1, <2>2 DEF Kept
    <3> QED BY <1>4, <2>1, <3>1
  <2>3. CASE j \notin DOMAIN log
    <3>1. L[j] = e
      BY <1>1, <2>3
    <3>2. log[i] \in In(all)
      BY <2>1 DEF In, Kept
    <3> QED BY <1>5, <2>1, <3>1, <3>2
  <2> QED BY <2>2, <2>3
<1>7. Kept(L, gone, A)
  BY <1>3, <1>6 DEF Kept
<1>8. Kept(log, gone \cup {e}, A)
  BY <1>3, <1>4 DEF Kept
<1> QED BY <1>7, <1>8 DEF L, A

LEMMA AppendToQueue ==
  ASSUME NEW c \in Seq(Events), NEW q \in Seq(Events), NEW e \in Events
  PROVE  /\ c \o Append(q, e) = Append(c \o q, e)
         /\ Len(Append(q, e)) = Len(q) + 1
         /\ Append(q, e) \in Seq(Events) /\ Append(q, e) # <<>>
<1>1. <<e>> \in Seq(Events) /\ Append(q, e) = q \o <<e>>
  BY AppendIsConcat
<1>2. c \o q \in Seq(Events) /\ Append(c \o q, e) = (c \o q) \o <<e>>
  BY ConcatProperties, AppendIsConcat
<1>3. c \o (q \o <<e>>) = (c \o q) \o <<e>>
  BY <1>1, ConcatAssociative
<1>4. Append(q, e) \in Seq(Events) /\ Append(q, e) # <<>> /\ Len(Append(q, e)) = Len(q) + 1
  BY AppendProperties
<1> QED BY <1>1, <1>2, <1>3, <1>4

LEMMA MoveHead ==
  ASSUME NEW c \in Seq(Events), NEW q \in Seq(Events), q # <<>>
  PROVE  /\ Append(c, Head(q)) \o Tail(q) = c \o q
         /\ Len(Append(c, Head(q))) + Len(Tail(q)) = Len(c) + Len(q)
         /\ Append(c, Head(q)) \in Seq(Events) /\ Tail(q) \in Seq(Events)
         /\ Head(q) \in Events
         /\ \E n \in DOMAIN (c \o q) : (c \o q)[n] = Head(q)
<1>1. /\ Head(q) \in Events /\ Tail(q) \in Seq(Events) /\ Len(q) \in Nat \ {0}
      /\ Len(Tail(q)) = Len(q) - 1 /\ Head(q) = q[1]
  BY HeadTailProperties, EmptySeq
<1>2. <<Head(q)>> \in Seq(Events) /\ Append(c, Head(q)) = c \o <<Head(q)>>
  BY <1>1, AppendIsConcat
<1>3. <<Head(q)>> \o Tail(q) = q
  BY <1>1
<1>4. (c \o <<Head(q)>>) \o Tail(q) = c \o (<<Head(q)>> \o Tail(q))
  BY <1>1, <1>2, ConcatAssociative
<1>5. Append(c, Head(q)) \in Seq(Events) /\ Len(Append(c, Head(q))) = Len(c) + 1
      /\ Len(c) \in Nat
  BY <1>1, AppendProperties, LenProperties
<1>6. \E n \in DOMAIN (c \o q) : (c \o q)[n] = Head(q)
  <2>1. Len(c) \in Nat /\ Len(c \o q) = Len(c) + Len(q) /\ c \o q \in Seq(Events)
    BY ConcatProperties, LenProperties
  <2>2. Len(c) + 1 \in 1..(Len(c) + Len(q)) /\ DOMAIN (c \o q) = 1..(Len(c) + Len(q))
    BY <1>1, <2>1, LenProperties
  <2>3. (c \o q)[Len(c) + 1] = q[1]
    BY <1>1, <2>1, <2>2, ConcatProperties
  <2> QED BY <1>1, <2>2, <2>3
<1>7. Len(Append(c, Head(q))) + Len(Tail(q)) = Len(c) + Len(q)
  BY <1>1, <1>5
<1>8. Append(c, Head(q)) \o Tail(q) = c \o q
  BY <1>2, <1>3, <1>4
<1> QED BY <1>1, <1>5, <1>6, <1>7, <1>8

LEMMA Becoming ==
  ASSUME QueueInv, NEW c \in {"main", "modifier"}, NEW k, NEW r, Queue!Become(c, k, r)
  PROVE  /\ DOMAIN call' = {"main", "modifier"} /\ DOMAIN result' = {"main", "modifier"}
         /\ call'[c] = k /\ result'[c] = r
         /\ \A d \in {"main", "modifier"} \ {c} : call'[d] = call[d] /\ result'[d] = result[d]
BY DEF QueueInv, Queue!Become

\* The event that modifier_ announces has not been announced before.
LEMMA EventIsNew ==
  ASSUME HostInv, modifier = "announce"
  PROVE  Event \in Events /\ Event \notin In(events) /\ events \in Seq(Events)
<1>1. events \in Seq(Events)
  BY EventsAre DEF HostInv, IInv, Logged
<1>2. Id \in Ids /\ (Id = IF Inserting THEN step ELSE step - Count) /\ step \in Nat
  BY IdIsRight, TotalFacts DEF HostInv, IInv, Shape
<1>3. Named("add", events) = Added(step - 1) /\ Named("remove", events) = Removed(step - 1)
  BY DEF HostInv, IInv, Logged, Announced
<1>4. \A e \in In(events) : e[2] \in Named(e[1], events)
  BY DEF In, Named
<1>5. Event[2] \notin Named(Event[1], events)
  <2>1. CASE Inserting
    <3>1. Event = <<"add", Id>> /\ Id = step
      BY <1>2, <2>1 DEF Event
    <3>2. step \notin Added(step - 1)
      BY <1>2, StoreAssumption DEF Added, Ids, Inserting
    <3> QED BY <1>3, <3>1, <3>2
  <2>2. CASE ~Inserting
    <3>1. Event = <<"remove", Id>> /\ Id = step - Count
      BY <1>2, <2>2 DEF Event
    <3>2. step - Count \notin Removed(step - 1)
      BY <1>2, StoreAssumption DEF Removed
    <3> QED BY <1>3, <3>1, <3>2
  <2> QED BY <2>1, <2>2
<1>6. Event \in Events
  BY <1>2 DEF Event, Events
<1> QED BY <1>1, <1>4, <1>5, <1>6

LEMMA HostInvInit == HostInit => HostInv
<1> SUFFICES ASSUME HostInit PROVE HostInv
  OBVIOUS
<1>1. IInv
  BY IInvInit DEF HostInit
<1>2. QueueInv
  <2>1. <<>> \in Seq(Events) /\ <<>> \o <<>> = <<>> /\ Len(<<>>) = 0
    BY EmptySeq, ConcatEmptySeq
  <2>2. IsFiniteSet({}) /\ Cardinality({}) = 0
    BY FS_EmptySet
  <2>3. Kept(<<>>, {}, <<>>)
    <3>1. DOMAIN <<>> = {}
      BY <2>1, EmptySeq
    <3> QED BY <3>1 DEF Kept, In
  <2> QED BY <2>1, <2>2, <2>3 DEF HostInit, Init, Queue!Init, QueueInv
<1>3. CallInv
  BY DEF HostInit, Queue!Init, CallInv, Working, Asking
<1>4. AskInv
  BY HostAssumption DEF HostInit, Init, AskInv, Working, Asking
<1> QED BY <1>1, <1>2, <1>3, <1>4 DEF HostInv

-----------------------------------------------------------------------------
\* Steps that leave the events, the queue and the loop's reading alone.
LEMMA StoreOnly ==
  ASSUME HostInv, IInv', UNCHANGED <<events, queueVars, loopVars, readerVars>>
  PROVE  HostInv'
BY DEF HostInv, QueueInv, CallInv, AskInv, Working, Asking, Heard, queueVars, loopVars,
       readerVars

LEMMA ModifierSteps == ASSUME HostInv, HostNext, Modify PROVE [Next]_storeVars /\ HostInv'
<1>1. CASE EmplaceCall
  <2>1. PICK k : Queue!Become("modifier", k, <<>>)
    BY <1>1 DEF EmplaceCall, Ask, Queue!Invoke
  <2>2. /\ DOMAIN call' = {"main", "modifier"} /\ DOMAIN result' = {"main", "modifier"}
        /\ call'["main"] = call["main"] /\ result'["main"] = result["main"]
    BY <2>1, Becoming DEF HostInv
  <2>3. UNCHANGED storeVars /\ UNCHANGED <<items, main, msg, submits, consumed, lost, warned>>
    BY <1>1 DEF EmplaceCall, Ask, Queue!Invoke, loopVars
  <2>4. IInv'
    BY <2>3, IInvStep DEF HostInv
  <2>5. QueueInv'
    BY <2>2, <2>3 DEF HostInv, QueueInv, storeVars
  <2>6. CallInv'
    BY <2>2, <2>3 DEF HostInv, CallInv, Working, Asking, Heard, storeVars
  <2>7. AskInv'
    BY <2>3 DEF HostInv, AskInv, Working, Asking, Heard, storeVars
  <2> QED BY <2>3, <2>4, <2>5, <2>6, <2>7 DEF HostInv
<1>2. CASE EmplaceReturn
  <2>1. PICK k, r : Queue!Become("modifier", k, r)
    BY <1>2 DEF EmplaceReturn, Queue!Return
  <2>2. /\ DOMAIN call' = {"main", "modifier"} /\ DOMAIN result' = {"main", "modifier"}
        /\ call'["main"] = call["main"] /\ result'["main"] = result["main"]
    BY <2>1, Becoming DEF HostInv
  <2>3. UNCHANGED storeVars /\ UNCHANGED <<items, main, msg, submits, consumed, lost, warned>>
    BY <1>2 DEF EmplaceReturn, Queue!Return, loopVars
  <2>4. IInv'
    BY <2>3, IInvStep DEF HostInv
  <2>5. QueueInv'
    BY <2>2, <2>3 DEF HostInv, QueueInv, storeVars
  <2>6. CallInv'
    BY <2>2, <2>3 DEF HostInv, CallInv, Working, Asking, Heard, storeVars
  <2>7. AskInv'
    BY <2>3 DEF HostInv, AskInv, Working, Asking, Heard, storeVars
  <2> QED BY <2>3, <2>4, <2>5, <2>6, <2>7 DEF HostInv
<1>3. CASE Emplace \/ EmplaceThrows
  <2>0. Next /\ IInv' /\ modifier = "announce" /\ events' = Append(events, Event)
    BY <1>3, IInvStep DEF Emplace, EmplaceThrows, HostNext, Next, HostInv, Announce
  <2>1. Event \in Events /\ Event \notin In(events) /\ events \in Seq(Events)
    BY <2>0, EventIsNew
  <2>2. PICK k, r : Queue!Become("modifier", k, r)
    BY <1>3 DEF Emplace, EmplaceThrows, Queue!Put
  <2>3. /\ DOMAIN call' = {"main", "modifier"} /\ DOMAIN result' = {"main", "modifier"}
        /\ call'["main"] = call["main"] /\ result'["main"] = result["main"]
    BY <2>2, Becoming DEF HostInv
  <2>4. UNCHANGED <<main, msg, submits, consumed, warned, reader, query, answer>>
    BY <1>3 DEF Emplace, EmplaceThrows, Announce, loopVars, readerVars
  <2>5. QueueInv' /\ (items # <<>> => items' # <<>>)
    <3>0. /\ items \in Seq(Events) /\ consumed \in Seq(Events)
          /\ consumed \o items \in Seq(Events)
          /\ Kept(consumed \o items, lost, events) /\ IsFiniteSet(lost)
          /\ Len(consumed) + Len(items) + Cardinality(lost) = Len(events)
      BY ConcatProperties DEF HostInv, QueueInv
    <3>1. /\ Len(consumed) \in Nat /\ Len(items) \in Nat /\ Cardinality(lost) \in Nat
          /\ Len(events') = Len(events) + 1
      BY <2>0, <2>1, <3>0, LenProperties, FS_CardinalityType, AppendProperties
    <3>2. /\ Kept(Append(consumed \o items, Event), lost, events')
          /\ Kept(consumed \o items, lost \cup {Event}, events')
      BY <2>0, <2>1, <3>0, KeptAppend
    <3>3. CASE Emplace
      <4>1. items' = Append(items, Event) /\ UNCHANGED <<consumed, lost>>
        BY <3>3 DEF Emplace, Queue!Put, loopVars
      <4>2. /\ consumed' \o items' = Append(consumed \o items, Event)
            /\ items' \in Seq(Events) /\ items' # <<>> /\ Len(items') = Len(items) + 1
        BY <2>1, <3>0, <4>1, AppendToQueue
      <4>3. Kept(consumed' \o items', lost', events')
        BY <3>2, <4>1, <4>2
      <4>4. /\ consumed' \in Seq(Events) /\ IsFiniteSet(lost')
            /\ Len(consumed') + Len(items') + Cardinality(lost') = Len(events')
        <5>1. /\ Len(consumed') = Len(consumed) /\ Cardinality(lost') = Cardinality(lost)
              /\ consumed' \in Seq(Events) /\ IsFiniteSet(lost')
          BY <3>0, <4>1
        <5>2. Len(items') = Len(items) + 1
          BY <4>2
        <5>3. Len(consumed) + (Len(items) + 1) + Cardinality(lost) = Len(events) + 1
          BY <3>0, <3>1
        <5>4. Len(consumed') + Len(items') + Cardinality(lost') = Len(events) + 1
          BY <5>1, <5>2, <5>3
        <5> QED BY <3>1, <5>1, <5>4
      <4> QED BY <2>3, <4>2, <4>3, <4>4 DEF QueueInv
    <3>4. CASE EmplaceThrows
      <4>1. lost' = lost \cup {Event} /\ UNCHANGED <<items, consumed>>
        BY <3>4 DEF EmplaceThrows
      <4>2. Event \notin lost
        BY <2>1, <3>0 DEF Kept
      <4>3. IsFiniteSet(lost') /\ Cardinality(lost') = Cardinality(lost) + 1
        BY <3>0, <4>1, <4>2, FS_AddElement
      <4>4. Kept(consumed' \o items', lost', events')
        BY <3>2, <4>1
      <4> QED BY <2>3, <3>0, <3>1, <4>1, <4>3, <4>4 DEF QueueInv
    <3> QED BY <1>3, <3>3, <3>4
  <2>6. \A name : Named(name, events) \subseteq Named(name, events')
    <3>1. events \in Seq(Kinds \X Ids) /\ Event \in Kinds \X Ids
      BY <2>1, EventsAre
    <3>2. events' = Append(events, Event)
      BY <2>0
    <3> QED BY <3>1, <3>2, NamedAppend
  <2>7. CallInv'
    BY <2>3, <2>4, <2>5, <2>6 DEF HostInv, CallInv, Working, Asking, Heard
  <2>8. AskInv'
    BY <2>4, <2>6 DEF HostInv, AskInv, Working, Asking, Heard
  <2> QED BY <2>0, <2>5, <2>7, <2>8 DEF HostInv
<1>4. CASE /\ Begin \/ End \/ WriteLock \/ Change \/ WriteUnlock
           /\ UNCHANGED <<queueVars, loopVars>>
  <2>1. Next
    BY <1>4 DEF Next, HostNext
  <2>2. UNCHANGED <<events, readerVars>>
    BY <1>4 DEF Begin, End, WriteLock, Change, WriteUnlock
  <2>3. IInv'
    BY <2>1, IInvStep DEF HostInv
  <2> QED BY <1>4, <2>1, <2>2, <2>3, StoreOnly
<1> QED BY <1>1, <1>2, <1>3, <1>4 DEF Modify

\* Steps of the main thread in the queue.
LEMMA QueueSteps ==
  ASSUME HostInv, EmptyCall \/ EmptyReturn \/ PopCall \/ Pop \/ PopReturn
  PROVE  UNCHANGED storeVars /\ HostInv'
<1>1. UNCHANGED storeVars
  BY DEF EmptyCall, EmptyReturn, PopCall, Pop, PopReturn
<1>2. IInv'
  BY <1>1, IInvStep DEF HostInv
<1>3. UNCHANGED <<events, reader, query, answer>>
  BY <1>1 DEF storeVars
<1>4. CASE EmptyCall \/ PopCall
  <2>1. PICK k : Queue!Become("main", k, <<>>)
    BY <1>4 DEF EmptyCall, PopCall, Ask, Queue!Invoke
  <2>2. DOMAIN call' = {"main", "modifier"} /\ DOMAIN result' = {"main", "modifier"}
    BY <2>1, Becoming DEF HostInv
  <2>3. UNCHANGED <<items, main, msg, submits, consumed, lost, warned>>
    BY <1>4 DEF EmptyCall, PopCall, Ask, Queue!Invoke, loopVars
  <2>4. \/ main = "empty" /\ call'["main"] = <<"size">>
        \/ main = "pop" /\ call'["main"] = <<"get">> /\ call["main"] = <<"none">>
    BY <1>4 DEF EmptyCall, PopCall, Ask, Queue!Invoke
  <2>5. QueueInv'
    BY <1>3, <2>2, <2>3 DEF HostInv, QueueInv
  <2>6. CallInv'
    BY <1>3, <2>3, <2>4 DEF HostInv, CallInv, Working, Asking
  <2>7. AskInv'
    BY <1>3, <2>3 DEF HostInv, AskInv, Working, Asking, Heard
  <2> QED BY <1>1, <1>2, <2>5, <2>6, <2>7 DEF HostInv
<1>5. CASE EmptyReturn
  <2>1. Queue!Become("main", <<"none">>, <<"size", Len(items)>>)
    BY <1>5 DEF EmptyReturn, Queue!Size
  <2>2. /\ DOMAIN call' = {"main", "modifier"} /\ DOMAIN result' = {"main", "modifier"}
        /\ call'["main"] = <<"none">>
    BY <2>1, Becoming DEF HostInv
  <2>3. UNCHANGED <<items, msg, consumed, lost, warned>> /\ main = "empty"
    BY <1>5 DEF EmptyReturn, Queue!Size, GoMain
  <2>4. main' = "left" \/ (main' = "pop" /\ items # <<>>)
    BY <1>5 DEF EmptyReturn, GoMain
  <2>5. QueueInv'
    BY <1>3, <2>2, <2>3 DEF HostInv, QueueInv
  <2>6. CallInv'
    BY <2>2, <2>3, <2>4 DEF CallInv, Working, Asking
  <2>7. AskInv'
    BY <1>3, <2>3, <2>4 DEF HostInv, AskInv, Working, Asking
  <2> QED BY <1>1, <1>2, <2>5, <2>6, <2>7 DEF HostInv
<1>6. CASE Pop
  <2>1. /\ Queue!Become("main", <<"returning">>, <<"value", Head(items)>>)
        /\ items # <<>> /\ items' = Tail(items) /\ consumed' = Append(consumed, Head(items))
        /\ call["main"] = <<"get">> /\ UNCHANGED <<main, msg, warned>>
    BY <1>6 DEF Pop, Queue!Get
  <2>2. /\ DOMAIN call' = {"main", "modifier"} /\ DOMAIN result' = {"main", "modifier"}
        /\ call'["main"] = <<"returning">> /\ result'["main"] = <<"value", Head(items)>>
    BY <2>1, Becoming DEF HostInv
  <2>3. main = "pop"
    BY <2>1 DEF HostInv, CallInv
  <2>4. QueueInv'
    <3>1. /\ consumed' \o items' = consumed \o items
          /\ Len(consumed') + Len(items') = Len(consumed) + Len(items)
          /\ consumed' \in Seq(Events) /\ items' \in Seq(Events)
      BY <2>1, MoveHead DEF HostInv, QueueInv
    <3>2. lost' = lost
      BY <1>6 DEF Pop
    <3> QED BY <1>3, <2>2, <3>1, <3>2 DEF HostInv, QueueInv
  <2>5. Heard(Head(items))
    <3>1. PICK n \in DOMAIN events : events[n] = Head(items)
      <4>1. Head(items) \in In(consumed \o items)
        BY <2>1, MoveHead DEF HostInv, QueueInv, In
      <4> QED BY <4>1 DEF HostInv, QueueInv, Kept, In
    <3>2. Head(items) \in Events
      BY <2>1, MoveHead DEF HostInv, QueueInv
    <3> QED BY <3>1, <3>2 DEF Heard, Named
  <2>6. CallInv'
    BY <1>3, <2>1, <2>2, <2>3, <2>5 DEF CallInv, Working, Asking, Heard
  <2>7. AskInv'
    BY <1>3, <2>1 DEF HostInv, AskInv, Working, Asking, Heard
  <2> QED BY <1>1, <1>2, <2>4, <2>6, <2>7 DEF HostInv
<1>7. CASE PopReturn
  <2>1. /\ Queue!Become("main", <<"none">>, result["main"])
        /\ call["main"] = <<"returning">> /\ msg' = result["main"][2]
        /\ UNCHANGED <<items, consumed, lost, warned>>
    BY <1>7 DEF PopReturn, Queue!Return
  <2>2. /\ DOMAIN call' = {"main", "modifier"} /\ DOMAIN result' = {"main", "modifier"}
        /\ call'["main"] = <<"none">>
    BY <2>1, Becoming DEF HostInv
  <2>3. main = "pop"
    BY <2>1 DEF HostInv, CallInv
  <2>4. Heard(msg')
    <3>1. PICK e : Heard(e) /\ result["main"] = <<"value", e>>
      BY <2>1, <2>3 DEF HostInv, CallInv
    <3> QED BY <2>1, <3>1
  <2>5. msg'[1] \in {"add", "remove"}
    BY <2>4 DEF Heard, Events
  <2>6. /\ msg'[1] = "add" => main' = "describe"
        /\ msg'[1] = "remove" => main' = "empty"
    BY <1>7, Zenon DEF PopReturn
  <2>7. QueueInv'
    BY <1>3, <2>1, <2>2 DEF HostInv, QueueInv
  <2>8. CallInv'
    BY <2>2, <2>5, <2>6 DEF CallInv, Working, Asking
  <2>9. AskInv'
    BY <1>3, <2>1, <2>3, <2>4, <2>5, <2>6 DEF HostInv, AskInv, Working, Asking, Heard
  <2> QED BY <1>1, <1>2, <2>7, <2>8, <2>9 DEF HostInv
<1> QED BY <1>4, <1>5, <1>6, <1>7

\* Steps of the main thread in the plugin.
LEMMA PluginSteps ==
  ASSUME HostInv, Running, AskPlugin \/ LookUp \/ Described \/ Submitted
  PROVE  Next /\ HostInv'
<1>0. "main" \in Readers /\ reader \in [Readers -> {"idle", "look", "unlock"}]
      /\ query \in [Readers -> 0..Count] /\ answer \in [Readers -> {"none", "found", "noent"}]
  BY HostAssumption DEF HostInv, IInv, Reading
<1>1. UNCHANGED <<events, queueVars, msg, consumed, lost>>
  BY DEF AskPlugin, LookUp, Described, Submitted, ReadLock, Look, ReadUnlock, loopVars
<1>2. QueueInv'
  BY <1>1 DEF HostInv, QueueInv, queueVars
<1>3. CASE AskPlugin
  <2>1. msg[2] \in Ids /\ main \in {"describe", "submit"}
    BY <1>3 DEF AskPlugin, HostInv, AskInv, Working, Heard, Events
  <2>2. Next
    BY <1>0, <1>3, <2>1 DEF AskPlugin, Next
  <2>3. IInv'
    BY <2>2, IInvStep DEF HostInv
  <2>4. /\ main' \in {"described", "submitted"} /\ query'["main"] = msg[2]
        /\ reader'["main"] = "look" /\ UNCHANGED <<warned>>
    BY <1>0, <1>3 DEF AskPlugin, ReadLock
  <2>5. CallInv'
    BY <1>1, <2>1, <2>4 DEF HostInv, CallInv, Working, Asking, queueVars
  <2>6. AskInv'
    BY <1>1, <2>1, <2>4 DEF HostInv, AskInv, Working, Asking, Heard
  <2> QED BY <1>2, <2>2, <2>3, <2>5, <2>6 DEF HostInv
<1>4. CASE LookUp
  <2>1. Next
    BY <1>0, <1>4 DEF LookUp, Next
  <2>2. IInv'
    BY <2>1, IInvStep DEF HostInv
  <2>3. UNCHANGED <<main, warned, query>> /\ reader["main"] = "look" /\ reader'["main"] = "unlock"
    BY <1>0, <1>4 DEF LookUp, Look, loopVars
  <2>4. Asking /\ query["main"] = msg[2] /\ msg[2] \in Named("add", events)
    BY <2>3 DEF HostInv, AskInv, Working, Asking, Heard
  <2>5. actions_ = Named("add", events) \ Named("remove", events)
    <3>1. "main" \in sharers
      BY <1>0, <2>3 DEF HostInv, IInv, Reading
    <3> QED BY <3>1, ReadersMatch DEF HostInv, StoreMatchesEvents
  <2>6. answer'["main"] = "noent" => query["main"] \in Named("remove", events)
    BY <1>0, <1>4, <2>4, <2>5 DEF LookUp, Look
  <2>7. CallInv'
    BY <1>1, <2>3 DEF HostInv, CallInv, Working, Asking, Heard, queueVars
  <2>8. AskInv'
    BY <1>1, <2>3, <2>4, <2>6 DEF HostInv, AskInv, Working, Asking, Heard
  <2> QED BY <1>2, <2>1, <2>2, <2>7, <2>8 DEF HostInv
<1>5. CASE Described \/ Submitted
  <2>1. ReadUnlock("main")
    BY <1>5 DEF Described, Submitted
  <2>2. Next
    BY <1>0, <2>1 DEF Next
  <2>3. IInv'
    BY <2>2, IInvStep DEF HostInv
  <2>4. reader["main"] = "unlock" /\ reader'["main"] = "idle" /\ UNCHANGED <<query, answer>>
    BY <1>0, <2>1 DEF ReadUnlock
  <2>5. main \in {"described", "submitted"} /\ main' \in {"submit", "empty"}
    BY <1>5 DEF Described, Submitted, GoMain
  <2>6. warned' \subseteq Named("remove", events)
    <3>1. warned' = warned \/ (answer["main"] = "noent" /\ warned' = warned \cup {msg[2]})
      BY <1>5 DEF Described, Submitted
    <3> QED BY <2>4, <2>5, <3>1 DEF HostInv, AskInv, Asking
  <2>7. CallInv'
    BY <1>1, <2>5 DEF HostInv, CallInv, Working, Asking, queueVars
  <2>8. AskInv'
    BY <1>1, <2>4, <2>5, <2>6 DEF HostInv, AskInv, Working, Asking, Heard
  <2> QED BY <1>2, <2>2, <2>3, <2>7, <2>8 DEF HostInv
<1> QED BY <1>3, <1>4, <1>5

LEMMA HostInvStep == HostInv /\ [HostNext]_vars => [Next]_storeVars /\ HostInv'
<1> SUFFICES ASSUME HostInv, [HostNext]_vars PROVE [Next]_storeVars /\ HostInv'
  OBVIOUS
<1>1. CASE UNCHANGED vars
  <2>1. UNCHANGED storeVars /\ UNCHANGED <<events, queueVars, loopVars, readerVars>>
    BY <1>1 DEF vars, storeVars, readerVars
  <2>2. IInv'
    BY <2>1, IInvStep DEF HostInv
  <2> QED BY <2>1, <2>2, StoreOnly
<1>2. CASE HostNext /\ Modify
  BY <1>2, ModifierSteps
<1>3. CASE HostNext /\ Loop
  BY <1>3, QueueSteps, PluginSteps DEF HostNext, Loop
<1> QED BY <1>1, <1>2, <1>3 DEF HostNext

LEMMA HostInvAlways == HostSpec => []HostInv
BY HostInvInit, HostInvStep, PTL DEF HostSpec

\* What the sample program and the plugin's thread do together is what ActionStore says
\* of the plugin and any reader: the loop asks about announced actions only.
THEOREM HostImplementsStore == HostSpec => Spec
<1>1. HostInit => Init
  BY DEF HostInit
<1> QED BY <1>1, HostInvAlways, HostInvStep, PTL DEF HostSpec, Spec

\* Every event that the plugin announces is received by the loop or is in the queue,
\* once and in order, or was lost by an emplace that threw.
THEOREM EventsAreKept == HostSpec => []NothingLost
<1>1. HostInv => NothingLost
  BY DEF HostInv, QueueInv, Kept, NothingLost
<1> QED BY <1>1, HostInvAlways, PTL

\* When the loop calls pop there is a message: it has just seen one, and nobody else
\* takes any.
THEOREM PopFindsAMessage == HostSpec => []PopNeverBlocks
<1>1. HostInv => PopNeverBlocks
  BY DEF HostInv, CallInv, PopNeverBlocks
<1> QED BY <1>1, HostInvAlways, PTL

\* When the loop reports that an action does not exist its removed event was received,
\* or waits in the queue, or could not be queued: the plugin announced the removal
\* before it unlocked mtx_.
THEOREM RemovalIsAnnounced == HostSpec => []RemovedIsComing
<1>1. ASSUME HostInv, NEW id \in warned
      PROVE  <<"remove", id>> \in In(consumed \o items) \cup lost
  <2>1. PICK n \in DOMAIN events : events[n][1] = "remove" /\ events[n][2] = id
    BY <1>1 DEF HostInv, AskInv, Named
  <2>2. events \in Seq(Kinds \X Ids)
    BY <1>1 DEF HostInv, IInv, Logged
  <2>3. events[n] = <<"remove", id>>
    <3>1. events[n] \in Kinds \X Ids
      BY <2>1, <2>2, LenProperties, ElementOfSeq
    <3> QED BY <2>1, <3>1
  <2>4. <<"remove", id>> \in In(events)
    BY <2>1, <2>3 DEF In
  <2> QED BY <1>1, <2>4 DEF HostInv, QueueInv, Kept
<1>2. HostInv => RemovedIsComing
  BY <1>1 DEF RemovedIsComing
<1> QED BY <1>2, HostInvAlways, PTL

-----------------------------------------------------------------------------
\* Only modifier_ puts, and only between its change and its unlock.
Putting == call["modifier"][1] = "put" => modifier = "announce"

LEMMA AnnouncingHasRoom ==
  ASSUME HostInv, Counted, modifier = "announce"
  PROVE  Room
<1>1. Len(events) = step - 1 /\ step \in Nat /\ step <= Total
  BY TotalFacts DEF HostInv, IInv, Shape, Counted, Announced
<1>2. /\ Len(consumed) \in Nat /\ Len(items) \in Nat /\ Cardinality(lost) \in Nat
      /\ Len(consumed) + Len(items) + Cardinality(lost) = Len(events)
  BY LenProperties, FS_CardinalityType DEF HostInv, QueueInv
<1> QED BY <1>1, <1>2, HostAssumption, TotalFacts DEF Room

\* The event callback never waits for room in the queue, which has a slot for every
\* event, the lost ones included: modifier_ keeps mtx_ while it is in the callback, and the loop, which alone
\* makes room, may be waiting for mtx_.
THEOREM CallbackHasRoom == HostSpec => []EmplaceHasRoom
<1>1. HostInit => Putting
  BY DEF HostInit, Queue!Init, Putting
<1>2. ASSUME HostInv, Putting, [HostNext]_vars PROVE Putting'
  <2>1. CASE UNCHANGED vars
    BY <1>2, <2>1 DEF vars, storeVars, queueVars, Putting
  <2>2. CASE EmplaceCall
    BY <2>2 DEF EmplaceCall, Putting, storeVars
  <2>3. CASE Emplace \/ EmplaceThrows \/ EmplaceReturn
    <3>1. PICK k, r : k \in {<<"returning">>, <<"none">>} /\ Queue!Become("modifier", k, r)
      BY <2>3 DEF Emplace, EmplaceThrows, EmplaceReturn, Queue!Put, Queue!Return
    <3>2. call'["modifier"][1] # "put"
      BY <1>2, <3>1, Becoming DEF HostInv
    <3> QED BY <3>2 DEF Putting
  <2>4. CASE /\ call["modifier"] = <<"none">>
             /\ UNCHANGED queueVars
    BY <2>4 DEF Putting, queueVars
  <2>5. CASE Loop
    <3>1. call'["modifier"] = call["modifier"]
      <4>1. CASE AskPlugin \/ LookUp \/ Described \/ Submitted
        BY <4>1 DEF AskPlugin, LookUp, Described, Submitted, queueVars
      <4>2. CASE EmptyCall \/ EmptyReturn \/ PopCall \/ Pop \/ PopReturn
        <5>1. \E k, r : Queue!Become("main", k, r)
          BY <4>2 DEF EmptyCall, EmptyReturn, PopCall, Pop, PopReturn, Ask, Queue!Invoke,
             Queue!Size, Queue!Get, Queue!Return
        <5> QED BY <1>2, <5>1, Becoming DEF HostInv
      <4> QED BY <2>5, <4>1, <4>2 DEF Loop
    <3>2. modifier' = modifier
      BY <2>5 DEF Loop, EmptyCall, EmptyReturn, PopCall, Pop, PopReturn, AskPlugin, LookUp,
         Described, Submitted, storeVars, ReadLock, Look, ReadUnlock
    <3> QED BY <1>2, <3>1, <3>2 DEF Putting
  <2> QED BY <1>2, <2>1, <2>2, <2>3, <2>4, <2>5 DEF HostNext, Modify
<1>3. HostInv /\ Counted /\ Putting => EmplaceHasRoom
  BY AnnouncingHasRoom DEF Putting, EmplaceHasRoom
<1>4. HostSpec => []Counted
  BY HostImplementsStore, CountedAlways, PTL
<1> QED BY <1>1, <1>2, <1>3, <1>4, HostInvAlways, PTL DEF HostSpec
=============================================================================
