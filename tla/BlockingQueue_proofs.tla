------------------------ MODULE BlockingQueue_proofs ------------------------
(***************************************************************************)
(* Proofs about BlockingQueue, for any finite set of threads, any values   *)
(* and any capacity.  The inductive invariant is the permit accounting:    *)
(* what the two semaphores hold, plus one for every call between its       *)
(* acquire and its release, always adds up.                                *)
(***************************************************************************)
EXTENDS BlockingQueue, FiniteSetTheorems, SequenceTheorems, TLAPS

\* The accounting identities, with the mutex discipline that lets each
\* critical section be seen as one step.  EveryPermitBacked and NeverPopsEmpty
\* need elements that do not throw; the total of the permits does not.
IInv ==
  /\ TypeOK
  /\ QueueRaceFree
  /\ PermitsNeverExceedMax
  /\ ~ElementsThrow => EveryPermitBacked /\ NeverPopsEmpty

Bit(b) == IF b THEN 1 ELSE 0

\* How many threads are in G: it changes by the one thread that moves.
LEMMA CountAfterMove ==
  ASSUME NEW f \in [Threads -> Labels], NEW t \in Threads, NEW l \in Labels, NEW G
  PROVE  LET C == {s \in Threads : f[s] \in G}
             D == {s \in Threads : [f EXCEPT ![t] = l][s] \in G}
         IN  /\ Cardinality(C) \in Nat
             /\ Cardinality(D) = Cardinality(C) + Bit(l \in G) - Bit(f[t] \in G)
<1> DEFINE C == {s \in Threads : f[s] \in G}
           D == {s \in Threads : [f EXCEPT ![t] = l][s] \in G}
           R == C \ {t}
<1>1. IsFiniteSet(C) /\ IsFiniteSet(R)
  BY FS_Subset, BlockingQueueAssumption
<1>2. Cardinality(R) \in Nat /\ t \notin R
  BY <1>1, FS_CardinalityType
<1>3. Cardinality(R \cup {t}) = Cardinality(R) + 1
  BY <1>1, <1>2, FS_AddElement
<1>4. C = IF f[t] \in G THEN R \cup {t} ELSE R
  OBVIOUS
<1>5. D = IF l \in G THEN R \cup {t} ELSE R
  OBVIOUS
<1> HIDE DEF C, D, R
<1>6. Cardinality(C) = Cardinality(R) + Bit(f[t] \in G)
  BY <1>2, <1>3, <1>4 DEF Bit
<1>7. Cardinality(D) = Cardinality(R) + Bit(l \in G)
  BY <1>2, <1>3, <1>5 DEF Bit
<1>8. /\ Cardinality(C) \in Nat
      /\ Cardinality(D) = Cardinality(C) + Bit(l \in G) - Bit(f[t] \in G)
  BY <1>2, <1>6, <1>7 DEF Bit
<1>9. QED
  BY <1>8 DEF C, D

\* The same for the two claims the accounting counts.
LEMMA ClaimsAfterGoto ==
  ASSUME pc \in [Threads -> Labels], NEW t \in Threads, NEW l \in Labels, Goto(t, l)
  PROVE  /\ Cardinality(ItemClaims) \in Nat
         /\ Cardinality(SlotClaims) \in Nat
         /\ Cardinality(ItemClaims)' =
              Cardinality(ItemClaims) + Bit(l \in ItemLabels) - Bit(pc[t] \in ItemLabels)
         /\ Cardinality(SlotClaims)' =
              Cardinality(SlotClaims) + Bit(l \in SlotLabels) - Bit(pc[t] \in SlotLabels)
<1>1. ASSUME NEW CONSTANT G
      PROVE  /\ Cardinality(At(G)) \in Nat
             /\ Cardinality(At(G))' =
                  Cardinality(At(G)) + Bit(l \in G) - Bit(pc[t] \in G)
  <2>1. /\ At(G) = {s \in Threads : pc[s] \in G}
        /\ At(G)' = {s \in Threads : [pc EXCEPT ![t] = l][s] \in G}
    BY DEF At, Goto
  <2>2. QED
    BY <2>1, CountAfterMove
<1>2. QED
  BY <1>1 DEF ItemClaims, SlotClaims

\* A claim that is held is counted.
LEMMA HeldClaimsCount ==
  ASSUME pc \in [Threads -> Labels]
  PROVE  /\ Cardinality(ItemClaims) \in Nat
         /\ Cardinality(SlotClaims) \in Nat
         /\ \A t \in Threads : pc[t] \in ItemLabels => Cardinality(ItemClaims) > 0
         /\ \A t \in Threads : pc[t] \in SlotLabels => Cardinality(SlotClaims) > 0
         /\ ItemClaims = {} => Cardinality(ItemClaims) = 0
         /\ SlotClaims = {} => Cardinality(SlotClaims) = 0
<1>1. ASSUME NEW G
      PROVE  /\ Cardinality(At(G)) \in Nat
             /\ \A t \in Threads : pc[t] \in G => Cardinality(At(G)) > 0
             /\ At(G) = {} => Cardinality(At(G)) = 0
  <2>1. IsFiniteSet(At(G))
    BY FS_Subset, BlockingQueueAssumption DEF At
  <2>2. Cardinality(At(G)) \in Nat /\ (Cardinality(At(G)) = 0 <=> At(G) = {})
    BY <2>1, FS_CardinalityType, FS_EmptySet
  <2>3. \A t \in Threads : pc[t] \in G => t \in At(G)
    BY DEF At
  <2>4. \A t \in Threads : pc[t] \in G => Cardinality(At(G)) > 0
    BY <2>2, <2>3
  <2>5. QED
    BY <2>2, <2>4
<1>2. QED
  BY <1>1 DEF ItemClaims, SlotClaims, At

-----------------------------------------------------------------------------
\* Type correctness, on its own: each step keeps every variable in its range.
LEMMA TypeStep ==
  ASSUME TypeOK, NEW t \in Threads, Call(t) \/ Continue(t)
  PROVE  TypeOK'
<1> USE DEF TypeOK, Goto, Labels, PushLabels, PopLabels, SizeLabels, Results, At
<1>1. ASSUME NEW v \in Values, CallPush(t, v)
      PROVE  TypeOK'
  BY <1>1 DEF CallPush
<1>2. ASSUME NEW v \in Values, CallTryPush(t, v)
      PROVE  TypeOK'
  BY <1>2 DEF CallTryPush
<1>3. CASE CallPop(t)
  BY <1>3 DEF CallPop
<1>4. CASE CallTryPop(t)
  BY <1>4 DEF CallTryPop
<1>5. CASE CallSize(t)
  BY <1>5 DEF CallSize
<1>6. CASE PushAcquire(t)
  BY <1>6 DEF PushAcquire
<1>7. CASE PopAcquire(t)
  BY <1>7 DEF PopAcquire
<1>8. CASE Lock(t)
  BY <1>8 DEF Lock, BodyOf
<1>9. CASE PushBody(t)
  BY <1>9 DEF PushBody
<1>10. CASE PopBody(t)
  BY <1>10 DEF PopBody
<1>11. CASE PopUndefined(t)
  BY <1>11 DEF PopUndefined
<1>12. CASE BodyThrows(t)
  <2>1. queue_ # <<>> => Tail(queue_) \in Seq(Values)
    BY HeadTailProperties
  <2>2. queue_' \in Seq(Values)
    BY <1>12, <2>1 DEF BodyThrows
  <2>3. CASE pc[t] = "push_body" /\ Goto(t, "push_release")
    BY <1>12, <2>2, <2>3 DEF BodyThrows
  <2>4. CASE pc[t] = "pop_body" /\ Goto(t, "pop_release")
    BY <1>12, <2>2, <2>4 DEF BodyThrows
  <2> QED BY <1>12, <2>3, <2>4 DEF BodyThrows
<1>13. CASE SizeBody(t)
  BY <1>13 DEF SizeBody
<1>14. CASE PushRelease(t)
  BY <1>14 DEF PushRelease
<1>15. CASE PopRelease(t)
  BY <1>15 DEF PopRelease
<1>16. QED
  BY <1>1, <1>2, <1>3, <1>4, <1>5, <1>6, <1>7, <1>8, <1>9, <1>10, <1>11,
     <1>12, <1>13, <1>14, <1>15 DEF Call, Continue
\* The accounting: acquire and release trade a permit for a claim, the critical
\* sections trade a claim on an element for a claim on a slot and back.
LEMMA AccountingStep ==
  ASSUME TypeOK, PermitsNeverExceedMax, ~ElementsThrow => EveryPermitBacked,
         NEW t \in Threads, Call(t) \/ Continue(t)
  PROVE  PermitsNeverExceedMax' /\ (~ElementsThrow => EveryPermitBacked')
<1> DEFINE Goal == PermitsNeverExceedMax' /\ (~ElementsThrow => EveryPermitBacked')
<1>0. /\ pc \in [Threads -> Labels] /\ queue_ \in Seq(Values) /\ Len(queue_) \in Nat
      /\ empty_count_ \in Nat /\ queued_count_ \in Nat /\ MaxSize \in Nat
      /\ Cardinality(ItemClaims) \in Nat /\ Cardinality(SlotClaims) \in Nat
      /\ \A u \in Threads : pc[u] \in PushLabels => arg[u] \in Values
  BY BlockingQueueAssumption, HeldClaimsCount DEF TypeOK, At
<1>1. ASSUME NEW v \in Values, CallPush(t, v)
      PROVE  Goal
  <2>1. Goto(t, "push_acquire")
    BY <1>1 DEF CallPush
  <2>2. /\ Cardinality(ItemClaims)' = Cardinality(ItemClaims)
        /\ Cardinality(SlotClaims)' = Cardinality(SlotClaims)
    BY <1>0, <1>1, <2>1, ClaimsAfterGoto
    DEF CallPush, Bit, ItemLabels, SlotLabels, Labels, PushLabels, PopLabels, SizeLabels
  <2>3. /\ empty_count_' = empty_count_
        /\ queued_count_' = queued_count_
        /\ Len(queue_)' = Len(queue_)
    BY <1>0, <1>1, <2>1 DEF CallPush
  <2>4. PermitsNeverExceedMax'
    BY <1>0, <2>2, <2>3 DEF PermitsNeverExceedMax
  <2>5. ~ElementsThrow => ItemsBacked'
    BY <1>0, <2>2, <2>3 DEF EveryPermitBacked, ItemsBacked
  <2>6. ~ElementsThrow => SlotsBacked'
    BY <1>0, <2>2, <2>3 DEF EveryPermitBacked, SlotsBacked
  <2>7. QED
    BY <2>4, <2>5, <2>6 DEF EveryPermitBacked
<1>2. ASSUME NEW v \in Values, CallTryPush(t, v)
      PROVE  Goal
  <2>1. CASE empty_count_ > 0 /\ empty_count_' = empty_count_ - 1 /\ Goto(t, "push_lock")
    <3>1. /\ Cardinality(ItemClaims)' = Cardinality(ItemClaims)
          /\ Cardinality(SlotClaims)' = Cardinality(SlotClaims) + 1
      BY <1>0, <1>2, <2>1, ClaimsAfterGoto
      DEF CallTryPush, Bit, ItemLabels, SlotLabels, Labels, PushLabels, PopLabels, SizeLabels
    <3>2. /\ empty_count_' = empty_count_ - 1
          /\ queued_count_' = queued_count_
          /\ Len(queue_)' = Len(queue_)
      BY <1>0, <1>2, <2>1 DEF CallTryPush
    <3>3. PermitsNeverExceedMax'
      BY <1>0, <3>1, <3>2 DEF PermitsNeverExceedMax
    <3>4. ~ElementsThrow => ItemsBacked'
      BY <1>0, <3>1, <3>2 DEF EveryPermitBacked, ItemsBacked
    <3>5. ~ElementsThrow => SlotsBacked'
      BY <1>0, <3>1, <3>2 DEF EveryPermitBacked, SlotsBacked
    <3>6. QED
      BY <3>3, <3>4, <3>5 DEF EveryPermitBacked
  <2>2. CASE UNCHANGED <<empty_count_, pc, arg>>
    <3>1. UNCHANGED <<ItemClaims, SlotClaims>>
      BY <2>2 DEF ItemClaims, SlotClaims, At
    <3>2. /\ empty_count_' = empty_count_
          /\ queued_count_' = queued_count_
          /\ Len(queue_)' = Len(queue_)
      BY <1>0, <1>2, <2>2 DEF CallTryPush
    <3>3. PermitsNeverExceedMax'
      BY <1>0, <3>1, <3>2 DEF PermitsNeverExceedMax
    <3>4. ~ElementsThrow => ItemsBacked'
      BY <1>0, <3>1, <3>2 DEF EveryPermitBacked, ItemsBacked
    <3>5. ~ElementsThrow => SlotsBacked'
      BY <1>0, <3>1, <3>2 DEF EveryPermitBacked, SlotsBacked
    <3>6. QED
      BY <3>3, <3>4, <3>5 DEF EveryPermitBacked
  <2>3. QED
    BY <1>2, <2>1, <2>2 DEF CallTryPush
<1>3. CASE CallPop(t)
  <2>1. Goto(t, "pop_acquire")
    BY <1>3 DEF CallPop
  <2>2. /\ Cardinality(ItemClaims)' = Cardinality(ItemClaims)
        /\ Cardinality(SlotClaims)' = Cardinality(SlotClaims)
    BY <1>0, <1>3, <2>1, ClaimsAfterGoto
    DEF CallPop, Bit, ItemLabels, SlotLabels, Labels, PushLabels, PopLabels, SizeLabels
  <2>3. /\ empty_count_' = empty_count_
        /\ queued_count_' = queued_count_
        /\ Len(queue_)' = Len(queue_)
    BY <1>0, <1>3, <2>1 DEF CallPop
  <2>4. PermitsNeverExceedMax'
    BY <1>0, <2>2, <2>3 DEF PermitsNeverExceedMax
  <2>5. ~ElementsThrow => ItemsBacked'
    BY <1>0, <2>2, <2>3 DEF EveryPermitBacked, ItemsBacked
  <2>6. ~ElementsThrow => SlotsBacked'
    BY <1>0, <2>2, <2>3 DEF EveryPermitBacked, SlotsBacked
  <2>7. QED
    BY <2>4, <2>5, <2>6 DEF EveryPermitBacked
<1>4. CASE CallTryPop(t)
  <2>1. CASE queued_count_ > 0 /\ queued_count_' = queued_count_ - 1 /\ Goto(t, "pop_lock")
    <3>1. /\ Cardinality(ItemClaims)' = Cardinality(ItemClaims) + 1
          /\ Cardinality(SlotClaims)' = Cardinality(SlotClaims)
      BY <1>0, <1>4, <2>1, ClaimsAfterGoto
      DEF CallTryPop, Bit, ItemLabels, SlotLabels, Labels, PushLabels, PopLabels, SizeLabels
    <3>2. /\ empty_count_' = empty_count_
          /\ queued_count_' = queued_count_ - 1
          /\ Len(queue_)' = Len(queue_)
      BY <1>0, <1>4, <2>1 DEF CallTryPop
    <3>3. PermitsNeverExceedMax'
      BY <1>0, <3>1, <3>2 DEF PermitsNeverExceedMax
    <3>4. ~ElementsThrow => ItemsBacked'
      BY <1>0, <3>1, <3>2 DEF EveryPermitBacked, ItemsBacked
    <3>5. ~ElementsThrow => SlotsBacked'
      BY <1>0, <3>1, <3>2 DEF EveryPermitBacked, SlotsBacked
    <3>6. QED
      BY <3>3, <3>4, <3>5 DEF EveryPermitBacked
  <2>2. CASE UNCHANGED <<queued_count_, pc>>
    <3>1. UNCHANGED <<ItemClaims, SlotClaims>>
      BY <2>2 DEF ItemClaims, SlotClaims, At
    <3>2. /\ empty_count_' = empty_count_
          /\ queued_count_' = queued_count_
          /\ Len(queue_)' = Len(queue_)
      BY <1>0, <1>4, <2>2 DEF CallTryPop
    <3>3. PermitsNeverExceedMax'
      BY <1>0, <3>1, <3>2 DEF PermitsNeverExceedMax
    <3>4. ~ElementsThrow => ItemsBacked'
      BY <1>0, <3>1, <3>2 DEF EveryPermitBacked, ItemsBacked
    <3>5. ~ElementsThrow => SlotsBacked'
      BY <1>0, <3>1, <3>2 DEF EveryPermitBacked, SlotsBacked
    <3>6. QED
      BY <3>3, <3>4, <3>5 DEF EveryPermitBacked
  <2>3. QED
    BY <1>4, <2>1, <2>2 DEF CallTryPop
<1>5. CASE CallSize(t)
  <2>1. Goto(t, "size_lock")
    BY <1>5 DEF CallSize
  <2>2. /\ Cardinality(ItemClaims)' = Cardinality(ItemClaims)
        /\ Cardinality(SlotClaims)' = Cardinality(SlotClaims)
    BY <1>0, <1>5, <2>1, ClaimsAfterGoto
    DEF CallSize, Bit, ItemLabels, SlotLabels, Labels, PushLabels, PopLabels, SizeLabels
  <2>3. /\ empty_count_' = empty_count_
        /\ queued_count_' = queued_count_
        /\ Len(queue_)' = Len(queue_)
    BY <1>0, <1>5, <2>1 DEF CallSize
  <2>4. PermitsNeverExceedMax'
    BY <1>0, <2>2, <2>3 DEF PermitsNeverExceedMax
  <2>5. ~ElementsThrow => ItemsBacked'
    BY <1>0, <2>2, <2>3 DEF EveryPermitBacked, ItemsBacked
  <2>6. ~ElementsThrow => SlotsBacked'
    BY <1>0, <2>2, <2>3 DEF EveryPermitBacked, SlotsBacked
  <2>7. QED
    BY <2>4, <2>5, <2>6 DEF EveryPermitBacked
<1>6. CASE PushAcquire(t)
  <2>1. Goto(t, "push_lock")
    BY <1>6 DEF PushAcquire
  <2>2. /\ Cardinality(ItemClaims)' = Cardinality(ItemClaims)
        /\ Cardinality(SlotClaims)' = Cardinality(SlotClaims) + 1
    BY <1>0, <1>6, <2>1, ClaimsAfterGoto
    DEF PushAcquire, Bit, ItemLabels, SlotLabels, Labels, PushLabels, PopLabels, SizeLabels
  <2>3. /\ empty_count_' = empty_count_ - 1
        /\ queued_count_' = queued_count_
        /\ Len(queue_)' = Len(queue_)
    BY <1>0, <1>6, <2>1 DEF PushAcquire
  <2>4. PermitsNeverExceedMax'
    BY <1>0, <2>2, <2>3 DEF PermitsNeverExceedMax
  <2>5. ~ElementsThrow => ItemsBacked'
    BY <1>0, <2>2, <2>3 DEF EveryPermitBacked, ItemsBacked
  <2>6. ~ElementsThrow => SlotsBacked'
    BY <1>0, <2>2, <2>3 DEF EveryPermitBacked, SlotsBacked
  <2>7. QED
    BY <2>4, <2>5, <2>6 DEF EveryPermitBacked
<1>7. CASE PopAcquire(t)
  <2>1. Goto(t, "pop_lock")
    BY <1>7 DEF PopAcquire
  <2>2. /\ Cardinality(ItemClaims)' = Cardinality(ItemClaims) + 1
        /\ Cardinality(SlotClaims)' = Cardinality(SlotClaims)
    BY <1>0, <1>7, <2>1, ClaimsAfterGoto
    DEF PopAcquire, Bit, ItemLabels, SlotLabels, Labels, PushLabels, PopLabels, SizeLabels
  <2>3. /\ empty_count_' = empty_count_
        /\ queued_count_' = queued_count_ - 1
        /\ Len(queue_)' = Len(queue_)
    BY <1>0, <1>7, <2>1 DEF PopAcquire
  <2>4. PermitsNeverExceedMax'
    BY <1>0, <2>2, <2>3 DEF PermitsNeverExceedMax
  <2>5. ~ElementsThrow => ItemsBacked'
    BY <1>0, <2>2, <2>3 DEF EveryPermitBacked, ItemsBacked
  <2>6. ~ElementsThrow => SlotsBacked'
    BY <1>0, <2>2, <2>3 DEF EveryPermitBacked, SlotsBacked
  <2>7. QED
    BY <2>4, <2>5, <2>6 DEF EveryPermitBacked
<1>8. CASE Lock(t)
  <2>1. CASE pc[t] = "push_lock" /\ Goto(t, "push_body")
    <3>1. /\ Cardinality(ItemClaims)' = Cardinality(ItemClaims)
          /\ Cardinality(SlotClaims)' = Cardinality(SlotClaims)
      BY <1>0, <1>8, <2>1, ClaimsAfterGoto
      DEF Lock, BodyOf, Bit, ItemLabels, SlotLabels, Labels, PushLabels, PopLabels, SizeLabels
    <3>2. /\ empty_count_' = empty_count_
          /\ queued_count_' = queued_count_
          /\ Len(queue_)' = Len(queue_)
      BY <1>0, <1>8, <2>1 DEF Lock, BodyOf
    <3>3. PermitsNeverExceedMax'
      BY <1>0, <3>1, <3>2 DEF PermitsNeverExceedMax
    <3>4. ~ElementsThrow => ItemsBacked'
      BY <1>0, <3>1, <3>2 DEF EveryPermitBacked, ItemsBacked
    <3>5. ~ElementsThrow => SlotsBacked'
      BY <1>0, <3>1, <3>2 DEF EveryPermitBacked, SlotsBacked
    <3>6. QED
      BY <3>3, <3>4, <3>5 DEF EveryPermitBacked
  <2>2. CASE pc[t] = "pop_lock" /\ Goto(t, "pop_body")
    <3>1. /\ Cardinality(ItemClaims)' = Cardinality(ItemClaims)
          /\ Cardinality(SlotClaims)' = Cardinality(SlotClaims)
      BY <1>0, <1>8, <2>2, ClaimsAfterGoto
      DEF Lock, BodyOf, Bit, ItemLabels, SlotLabels, Labels, PushLabels, PopLabels, SizeLabels
    <3>2. /\ empty_count_' = empty_count_
          /\ queued_count_' = queued_count_
          /\ Len(queue_)' = Len(queue_)
      BY <1>0, <1>8, <2>2 DEF Lock, BodyOf
    <3>3. PermitsNeverExceedMax'
      BY <1>0, <3>1, <3>2 DEF PermitsNeverExceedMax
    <3>4. ~ElementsThrow => ItemsBacked'
      BY <1>0, <3>1, <3>2 DEF EveryPermitBacked, ItemsBacked
    <3>5. ~ElementsThrow => SlotsBacked'
      BY <1>0, <3>1, <3>2 DEF EveryPermitBacked, SlotsBacked
    <3>6. QED
      BY <3>3, <3>4, <3>5 DEF EveryPermitBacked
  <2>3. CASE pc[t] = "size_lock" /\ Goto(t, "size_body")
    <3>1. /\ Cardinality(ItemClaims)' = Cardinality(ItemClaims)
          /\ Cardinality(SlotClaims)' = Cardinality(SlotClaims)
      BY <1>0, <1>8, <2>3, ClaimsAfterGoto
      DEF Lock, BodyOf, Bit, ItemLabels, SlotLabels, Labels, PushLabels, PopLabels, SizeLabels
    <3>2. /\ empty_count_' = empty_count_
          /\ queued_count_' = queued_count_
          /\ Len(queue_)' = Len(queue_)
      BY <1>0, <1>8, <2>3 DEF Lock, BodyOf
    <3>3. PermitsNeverExceedMax'
      BY <1>0, <3>1, <3>2 DEF PermitsNeverExceedMax
    <3>4. ~ElementsThrow => ItemsBacked'
      BY <1>0, <3>1, <3>2 DEF EveryPermitBacked, ItemsBacked
    <3>5. ~ElementsThrow => SlotsBacked'
      BY <1>0, <3>1, <3>2 DEF EveryPermitBacked, SlotsBacked
    <3>6. QED
      BY <3>3, <3>4, <3>5 DEF EveryPermitBacked
  <2>4. QED
    BY <1>8, <2>1, <2>2, <2>3 DEF Lock, BodyOf
<1>9. CASE PushBody(t)
  <2>1. Goto(t, "push_release")
    BY <1>9 DEF PushBody
  <2>2. /\ Cardinality(ItemClaims)' = Cardinality(ItemClaims) + 1
        /\ Cardinality(SlotClaims)' = Cardinality(SlotClaims) - 1
    BY <1>0, <1>9, <2>1, ClaimsAfterGoto
    DEF PushBody, Bit, ItemLabels, SlotLabels, Labels, PushLabels, PopLabels, SizeLabels
  <2>3. /\ empty_count_' = empty_count_
        /\ queued_count_' = queued_count_
        /\ Len(queue_)' = Len(queue_) + 1
    BY <1>0, <1>9, AppendProperties, <2>1 DEF PushBody
  <2>4. PermitsNeverExceedMax'
    BY <1>0, <2>2, <2>3 DEF PermitsNeverExceedMax
  <2>5. ~ElementsThrow => ItemsBacked'
    BY <1>0, <2>2, <2>3 DEF EveryPermitBacked, ItemsBacked
  <2>6. ~ElementsThrow => SlotsBacked'
    BY <1>0, <2>2, <2>3 DEF EveryPermitBacked, SlotsBacked
  <2>7. QED
    BY <2>4, <2>5, <2>6 DEF EveryPermitBacked
<1>10. CASE PopBody(t)
  <2>1. Goto(t, "pop_release")
    BY <1>10 DEF PopBody
  <2>2. /\ Cardinality(ItemClaims)' = Cardinality(ItemClaims) - 1
        /\ Cardinality(SlotClaims)' = Cardinality(SlotClaims) + 1
    BY <1>0, <1>10, <2>1, ClaimsAfterGoto
    DEF PopBody, Bit, ItemLabels, SlotLabels, Labels, PushLabels, PopLabels, SizeLabels
  <2>3. /\ empty_count_' = empty_count_
        /\ queued_count_' = queued_count_
        /\ Len(queue_)' = Len(queue_) - 1
    BY <1>0, <1>10, HeadTailProperties, <2>1 DEF PopBody
  <2>4. PermitsNeverExceedMax'
    BY <1>0, <2>2, <2>3 DEF PermitsNeverExceedMax
  <2>5. ~ElementsThrow => ItemsBacked'
    BY <1>0, <2>2, <2>3 DEF EveryPermitBacked, ItemsBacked
  <2>6. ~ElementsThrow => SlotsBacked'
    BY <1>0, <2>2, <2>3 DEF EveryPermitBacked, SlotsBacked
  <2>7. QED
    BY <2>4, <2>5, <2>6 DEF EveryPermitBacked
<1>11. CASE PopUndefined(t)
  <2>1. Goto(t, "undefined")
    BY <1>11 DEF PopUndefined
  <2>2. /\ Cardinality(ItemClaims)' = Cardinality(ItemClaims)
        /\ Cardinality(SlotClaims)' = Cardinality(SlotClaims)
    BY <1>0, <1>11, <2>1, ClaimsAfterGoto
    DEF PopUndefined, Bit, ItemLabels, SlotLabels, Labels, PushLabels, PopLabels, SizeLabels
  <2>3. /\ empty_count_' = empty_count_
        /\ queued_count_' = queued_count_
        /\ Len(queue_)' = Len(queue_)
    BY <1>0, <1>11, <2>1 DEF PopUndefined
  <2>4. PermitsNeverExceedMax'
    BY <1>0, <2>2, <2>3 DEF PermitsNeverExceedMax
  <2>5. ~ElementsThrow => ItemsBacked'
    BY <1>0, <2>2, <2>3 DEF EveryPermitBacked, ItemsBacked
  <2>6. ~ElementsThrow => SlotsBacked'
    BY <1>0, <2>2, <2>3 DEF EveryPermitBacked, SlotsBacked
  <2>7. QED
    BY <2>4, <2>5, <2>6 DEF EveryPermitBacked
<1>12. CASE BodyThrows(t)
  <2>1. CASE pc[t] = "push_body" /\ Goto(t, "push_release")
    <3>1. /\ Cardinality(ItemClaims)' = Cardinality(ItemClaims) + 1
          /\ Cardinality(SlotClaims)' = Cardinality(SlotClaims) - 1
      BY <1>0, <2>1, ClaimsAfterGoto
      DEF Bit, ItemLabels, SlotLabels, Labels, PushLabels, PopLabels, SizeLabels
    <3>2. ElementsThrow /\ UNCHANGED <<empty_count_, queued_count_>>
      BY <1>12 DEF BodyThrows
    <3>3. QED
      BY <1>0, <3>1, <3>2 DEF PermitsNeverExceedMax
  <2>2. CASE pc[t] = "pop_body" /\ Goto(t, "pop_release")
    <3>1. /\ Cardinality(ItemClaims)' = Cardinality(ItemClaims) - 1
          /\ Cardinality(SlotClaims)' = Cardinality(SlotClaims) + 1
      BY <1>0, <2>2, ClaimsAfterGoto
      DEF Bit, ItemLabels, SlotLabels, Labels, PushLabels, PopLabels, SizeLabels
    <3>2. ElementsThrow /\ UNCHANGED <<empty_count_, queued_count_>>
      BY <1>12 DEF BodyThrows
    <3>3. QED
      BY <1>0, <3>1, <3>2 DEF PermitsNeverExceedMax
  <2>3. QED
    BY <1>12, <2>1, <2>2 DEF BodyThrows
<1>13. CASE SizeBody(t)
  <2>1. Goto(t, "idle")
    BY <1>13 DEF SizeBody
  <2>2. /\ Cardinality(ItemClaims)' = Cardinality(ItemClaims)
        /\ Cardinality(SlotClaims)' = Cardinality(SlotClaims)
    BY <1>0, <1>13, <2>1, ClaimsAfterGoto
    DEF SizeBody, Bit, ItemLabels, SlotLabels, Labels, PushLabels, PopLabels, SizeLabels
  <2>3. /\ empty_count_' = empty_count_
        /\ queued_count_' = queued_count_
        /\ Len(queue_)' = Len(queue_)
    BY <1>0, <1>13, <2>1 DEF SizeBody
  <2>4. PermitsNeverExceedMax'
    BY <1>0, <2>2, <2>3 DEF PermitsNeverExceedMax
  <2>5. ~ElementsThrow => ItemsBacked'
    BY <1>0, <2>2, <2>3 DEF EveryPermitBacked, ItemsBacked
  <2>6. ~ElementsThrow => SlotsBacked'
    BY <1>0, <2>2, <2>3 DEF EveryPermitBacked, SlotsBacked
  <2>7. QED
    BY <2>4, <2>5, <2>6 DEF EveryPermitBacked
<1>14. CASE PushRelease(t)
  <2>1. Goto(t, "idle")
    BY <1>14 DEF PushRelease
  <2>2. /\ Cardinality(ItemClaims)' = Cardinality(ItemClaims) - 1
        /\ Cardinality(SlotClaims)' = Cardinality(SlotClaims)
    BY <1>0, <1>14, <2>1, ClaimsAfterGoto
    DEF PushRelease, Bit, ItemLabels, SlotLabels, Labels, PushLabels, PopLabels, SizeLabels
  <2>3. /\ empty_count_' = empty_count_
        /\ queued_count_' = queued_count_ + 1
        /\ Len(queue_)' = Len(queue_)
    BY <1>0, <1>14, <2>1 DEF PushRelease
  <2>4. PermitsNeverExceedMax'
    BY <1>0, <2>2, <2>3 DEF PermitsNeverExceedMax
  <2>5. ~ElementsThrow => ItemsBacked'
    BY <1>0, <2>2, <2>3 DEF EveryPermitBacked, ItemsBacked
  <2>6. ~ElementsThrow => SlotsBacked'
    BY <1>0, <2>2, <2>3 DEF EveryPermitBacked, SlotsBacked
  <2>7. QED
    BY <2>4, <2>5, <2>6 DEF EveryPermitBacked
<1>15. CASE PopRelease(t)
  <2>1. Goto(t, "idle")
    BY <1>15 DEF PopRelease
  <2>2. /\ Cardinality(ItemClaims)' = Cardinality(ItemClaims)
        /\ Cardinality(SlotClaims)' = Cardinality(SlotClaims) - 1
    BY <1>0, <1>15, <2>1, ClaimsAfterGoto
    DEF PopRelease, Bit, ItemLabels, SlotLabels, Labels, PushLabels, PopLabels, SizeLabels
  <2>3. /\ empty_count_' = empty_count_ + 1
        /\ queued_count_' = queued_count_
        /\ Len(queue_)' = Len(queue_)
    BY <1>0, <1>15, <2>1 DEF PopRelease
  <2>4. PermitsNeverExceedMax'
    BY <1>0, <2>2, <2>3 DEF PermitsNeverExceedMax
  <2>5. ~ElementsThrow => ItemsBacked'
    BY <1>0, <2>2, <2>3 DEF EveryPermitBacked, ItemsBacked
  <2>6. ~ElementsThrow => SlotsBacked'
    BY <1>0, <2>2, <2>3 DEF EveryPermitBacked, SlotsBacked
  <2>7. QED
    BY <2>4, <2>5, <2>6 DEF EveryPermitBacked
<1>16. QED
  BY <1>1, <1>2, <1>3, <1>4, <1>5, <1>6, <1>7, <1>8, <1>9, <1>10, <1>11,
     <1>12, <1>13, <1>14, <1>15 DEF Call, Continue

\* The mutex: a thread enters a critical section only by locking a free mutex,
\* and frees it only by leaving.
LEMMA MutexStep ==
  ASSUME TypeOK, QueueRaceFree, NEW t \in Threads, Call(t) \/ Continue(t)
  PROVE  QueueRaceFree'
<1>1. CASE Lock(t)
  BY <1>1, BlockingQueueAssumption DEF Lock, BodyOf, Goto, TypeOK, QueueRaceFree, Critical, Labels
<1>2. CASE PushBody(t) \/ PopBody(t) \/ SizeBody(t) \/ BodyThrows(t)
  BY <1>2 DEF PushBody, PopBody, SizeBody, BodyThrows, Goto, TypeOK, QueueRaceFree, Critical
<1>3. CASE PopUndefined(t)
  BY <1>3 DEF PopUndefined, Goto, TypeOK, QueueRaceFree, Critical
<1>4. CASE PushAcquire(t) \/ PopAcquire(t) \/ PushRelease(t) \/ PopRelease(t)
  BY <1>4 DEF PushAcquire, PopAcquire, PushRelease, PopRelease, Goto, TypeOK, QueueRaceFree, Critical
<1>5. CASE Call(t)
  BY <1>5 DEF Call, CallPush, CallTryPush, CallPop, CallTryPop, CallSize, Goto, TypeOK,
              QueueRaceFree, Critical
<1>6. QED
  BY <1>1, <1>2, <1>3, <1>4, <1>5 DEF Continue

\* A pop inside its critical section holds a claim on an element, so there is one.
PopHasElement == \A t \in Threads : pc[t] = "pop_body" => queue_ # <<>>

LEMMA PopFindsAnElement == TypeOK /\ EveryPermitBacked => PopHasElement
<1> SUFFICES ASSUME TypeOK, EveryPermitBacked PROVE PopHasElement
  OBVIOUS
<1>1. pc \in [Threads -> Labels] /\ queued_count_ \in Nat
  BY DEF TypeOK
<1>2. ASSUME NEW t \in Threads, pc[t] = "pop_body"
      PROVE  queue_ # <<>>
  <2>1. Cardinality(ItemClaims) \in Nat /\ Cardinality(ItemClaims) > 0
    BY <1>1, <1>2, HeldClaimsCount DEF ItemLabels
  <2>2. Len(queue_) > 0
    BY <1>1, <2>1 DEF EveryPermitBacked, ItemsBacked
  <2>3. QED
    BY <2>2, EmptySeq
<1>3. QED
  BY <1>2 DEF PopHasElement

\* A thread gets to "undefined" only by popping an empty queue.
LEMMA NeverUndefinedStep ==
  ASSUME TypeOK, NeverPopsEmpty, NEW t \in Threads, Call(t) \/ Continue(t)
  PROVE  \A u \in Threads : pc'[u] # "undefined"
<1> USE DEF TypeOK, NeverPopsEmpty, Goto
<1>1. CASE Lock(t)
  BY <1>1 DEF Lock, BodyOf
<1>2. CASE PushBody(t) \/ PopBody(t) \/ SizeBody(t) \/ BodyThrows(t) \/ PopUndefined(t)
  BY <1>2 DEF PushBody, PopBody, SizeBody, BodyThrows, PopUndefined
<1>3. CASE PushAcquire(t) \/ PopAcquire(t) \/ PushRelease(t) \/ PopRelease(t)
  BY <1>3 DEF PushAcquire, PopAcquire, PushRelease, PopRelease
<1>4. CASE Call(t)
  BY <1>4 DEF Call, CallPush, CallTryPush, CallPop, CallTryPop, CallSize
<1>5. QED
  BY <1>1, <1>2, <1>3, <1>4 DEF Continue

-----------------------------------------------------------------------------
LEMMA IInvInit == Init => IInv
<1> SUFFICES ASSUME Init PROVE IInv
  OBVIOUS
<1>1. TypeOK
  BY BlockingQueueAssumption
  DEF Init, TypeOK, Labels, PushLabels, Results, At
<1>2. ItemClaims = {} /\ SlotClaims = {}
  BY DEF Init, ItemClaims, SlotClaims, At, ItemLabels, SlotLabels
<1>3. Cardinality(ItemClaims) = 0 /\ Cardinality(SlotClaims) = 0
  BY <1>1, <1>2, HeldClaimsCount DEF TypeOK
<1>4. QueueRaceFree /\ NeverPopsEmpty
  BY DEF Init, QueueRaceFree, NeverPopsEmpty, Critical
<1>5. PermitsNeverExceedMax /\ EveryPermitBacked
  BY <1>3, BlockingQueueAssumption
  DEF Init, PermitsNeverExceedMax, EveryPermitBacked, ItemsBacked, SlotsBacked
<1>6. QED
  BY <1>1, <1>4, <1>5 DEF IInv

LEMMA IInvStep == IInv /\ [Next]_bqVars => IInv'
<1> SUFFICES ASSUME IInv, [Next]_bqVars PROVE IInv'
  OBVIOUS
<1>1. ASSUME NEW t \in Threads, Call(t) \/ Continue(t)
      PROVE  IInv'
  <2>1. TypeOK'
    BY <1>1, TypeStep DEF IInv
  <2>2. QueueRaceFree'
    BY <1>1, MutexStep DEF IInv
  <2>3. PermitsNeverExceedMax' /\ (~ElementsThrow => EveryPermitBacked')
    BY <1>1, AccountingStep DEF IInv
  <2>4. ASSUME ~ElementsThrow
        PROVE  NeverPopsEmpty'
    <3>0. EveryPermitBacked'
      BY <2>3, <2>4
    <3>1. PopHasElement'
      BY <2>1, <3>0, PopFindsAnElement, PTL
    <3>2. \A u \in Threads : pc'[u] # "undefined"
      BY <1>1, <2>4, NeverUndefinedStep DEF IInv
    <3>3. QED
      BY <3>1, <3>2 DEF NeverPopsEmpty, PopHasElement
  <2>5. QED
    BY <2>1, <2>2, <2>3, <2>4 DEF IInv
<1>2. CASE UNCHANGED bqVars
  BY <1>2 DEF bqVars, IInv, TypeOK, QueueRaceFree, PermitsNeverExceedMax, EveryPermitBacked,
              ItemsBacked, SlotsBacked, NeverPopsEmpty, ItemClaims, SlotClaims, At
<1>3. QED
  BY <1>1, <1>2 DEF Next
LEMMA IInvAlways == Spec => []IInv
BY IInvInit, IInvStep, PTL DEF Spec

\* Every variable stays in its range, whatever the elements do.
THEOREM TypeCorrect == Spec => []TypeOK
<1>1. IInv => TypeOK
  BY DEF IInv
<1>2. QED
  BY <1>1, IInvAlways, PTL

\* pop, push, try_pop, try_push, size and empty never touch queue_ together.
THEOREM NoRaceOnQueue == Spec => []QueueRaceFree
<1>1. IInv => QueueRaceFree
  BY DEF IInv
<1>2. QED
  BY <1>1, IInvAlways, PTL

\* No release takes a semaphore past max_size, also when elements throw.
THEOREM SemaphoresBounded == Spec => []PermitsNeverExceedMax
<1>1. IInv => PermitsNeverExceedMax
  BY DEF IInv
<1>2. QED
  BY <1>1, IInvAlways, PTL

\* If elements do not throw, front() and pop() never meet an empty std::queue.
THEOREM NoEmptyPop ==
  ASSUME ~ElementsThrow
  PROVE  Spec => []NeverPopsEmpty
<1>1. IInv => NeverPopsEmpty
  BY DEF IInv
<1>2. QED
  BY <1>1, IInvAlways, PTL

\* If elements do not throw, semaphores and calls in progress account for each
\* element and each free slot exactly once; the queue is never over max_size.
THEOREM PermitsBacked ==
  ASSUME ~ElementsThrow
  PROVE  Spec => []EveryPermitBacked
<1>1. IInv => EveryPermitBacked
  BY DEF IInv
<1>2. QED
  BY <1>1, IInvAlways, PTL

\* What a step that changes a thread's answer to a refusal is: the thread's own call
\* of try_pop or try_push that found no permit.
LEMMA RefusalFoundNoPermit ==
  ASSUME TypeOK, [Next]_bqVars, NEW t \in Threads, ret'[t] # ret[t]
  PROVE  /\ ret'[t] = <<"refused", "get">> => queued_count_ = 0
         /\ ret'[t] = <<"refused", "put">> => empty_count_ = 0
<1>1. ret # ret' /\ ret \in [Threads -> Results]
  BY DEF TypeOK
<1>2. PICK u \in Threads : Call(u) \/ Continue(u)
  BY <1>1 DEF Next, bqVars
<1>3. ASSUME NEW r, ret' = [ret EXCEPT ![u] = r] PROVE ret'[t] = r
  BY <1>1, <1>3
<1>4. ASSUME NEW r, ret' = [ret EXCEPT ![u] = r],
             r # <<"refused", "get">>, r # <<"refused", "put">>
      PROVE  ret'[t] \notin {<<"refused", "get">>, <<"refused", "put">>}
  BY <1>3, <1>4
<1>5. ASSUME NEW v \in Values, CallTryPush(u, v)
      PROVE  /\ ret'[t] # <<"refused", "get">>
             /\ ret'[t] = <<"refused", "put">> => empty_count_ = 0
  <2>1. CASE ret' = [ret EXCEPT ![u] = <<>>]
    BY <1>4, <2>1
  <2>2. CASE empty_count_ = 0 /\ ret' = [ret EXCEPT ![u] = <<"refused", "put">>]
    <3>1. ret'[t] = <<"refused", "put">>
      BY <1>3, <2>2
    <3>2. QED
      BY <2>2, <3>1
  <2>3. QED
    BY <1>5, <2>1, <2>2 DEF CallTryPush
<1>6. CASE CallTryPop(u)
  <2>1. CASE ret' = [ret EXCEPT ![u] = <<>>]
    BY <1>4, <2>1
  <2>2. CASE queued_count_ = 0 /\ ret' = [ret EXCEPT ![u] = <<"refused", "get">>]
    <3>1. ret'[t] = <<"refused", "get">>
      BY <1>3, <2>2
    <3>2. QED
      BY <2>2, <3>1
  <2>3. QED
    BY <1>6, <2>1, <2>2 DEF CallTryPop
<1>7. CASE (\E v \in Values : CallPush(u, v)) \/ CallPop(u) \/ CallSize(u)
  <2>1. ret' = [ret EXCEPT ![u] = <<>>]
    BY <1>7 DEF CallPush, CallPop, CallSize
  <2>2. QED
    BY <1>4, <2>1
<1>8. CASE Continue(u)
  <2>1. \E r : /\ ret' = [ret EXCEPT ![u] = r]
              /\ \/ r \in {<<"done">>, <<"threw">>}
                 \/ \E v : r = <<"value", v>> \/ r = <<"size", v>>
    BY <1>1, <1>8 DEF Continue, PushAcquire, PopAcquire, Lock, PushBody, PopBody,
       PopUndefined, BodyThrows, SizeBody, PushRelease, PopRelease
  <2>2. QED
    BY <1>4, <2>1
<1>9. QED
  BY <1>2, <1>5, <1>6, <1>7, <1>8 DEF Call

\* If elements do not throw, try_pop gives up only if every queued element is
\* already another call's, and try_push only if every free slot is.
THEOREM RefusalsAreJustified ==
  ASSUME ~ElementsThrow
  PROVE  Spec => RefusalIsJustified
<1> DEFINE Justified ==
      \A t \in Threads :
        ret'[t] # ret[t] =>
          /\ ret'[t] = <<"refused", "get">> => Len(queue_) = Cardinality(ItemClaims)
          /\ ret'[t] = <<"refused", "put">> => MaxSize - Len(queue_) = Cardinality(SlotClaims)
<1>1. ASSUME IInv, [Next]_bqVars, NEW t \in Threads, ret'[t] # ret[t]
      PROVE  /\ ret'[t] = <<"refused", "get">> => Len(queue_) = Cardinality(ItemClaims)
             /\ ret'[t] = <<"refused", "put">> => MaxSize - Len(queue_) = Cardinality(SlotClaims)
  <2>1. TypeOK /\ ItemsBacked /\ SlotsBacked
    BY <1>1 DEF IInv, EveryPermitBacked
  <2>2. Cardinality(ItemClaims) \in Nat /\ Cardinality(SlotClaims) \in Nat
    BY BlockingQueueAssumption, FS_Subset, FS_CardinalityType
       DEF ItemClaims, SlotClaims, At
  <2>3. queued_count_ = 0 => Len(queue_) = Cardinality(ItemClaims)
    BY <2>1, <2>2 DEF ItemsBacked
  <2>4. empty_count_ = 0 => MaxSize - Len(queue_) = Cardinality(SlotClaims)
    BY <2>1, <2>2 DEF SlotsBacked
  <2>5. QED
    BY <1>1, <2>1, <2>3, <2>4, RefusalFoundNoPermit
<1>2. IInv /\ [Next]_bqVars => [Justified]_bqVars
  BY <1>1
<1>3. Spec => [][Justified]_bqVars
  BY <1>2, IInvAlways, PTL DEF Spec
<1>4. QED
  BY <1>3 DEF RefusalIsJustified

\* If elements do not throw, no wake-up is lost: with every thread parked, a
\* parked pop means an empty queue and a parked push a full one.
THEOREM NoLostWakeup ==
  ASSUME ~ElementsThrow
  PROVE  Spec => []ParkedOnlyWhenUseless
<1>1. ASSUME TypeOK, EveryPermitBacked, At({"push_acquire", "pop_acquire"}) = Threads
      PROVE  Len(queue_) = queued_count_ /\ Len(queue_) = MaxSize - empty_count_
  <2>1. ItemClaims = {} /\ SlotClaims = {}
    BY <1>1 DEF ItemClaims, SlotClaims, At, ItemLabels, SlotLabels
  <2>2. Cardinality(ItemClaims) = 0 /\ Cardinality(SlotClaims) = 0
    BY <1>1, <2>1, HeldClaimsCount DEF TypeOK
  <2>3. /\ queued_count_ \in Nat /\ empty_count_ \in Nat /\ MaxSize \in Nat
        /\ Len(queue_) \in Nat
    BY <1>1, BlockingQueueAssumption DEF TypeOK
  <2>4. QED
    BY <1>1, <2>2, <2>3 DEF EveryPermitBacked, ItemsBacked, SlotsBacked
<1>2. IInv => ParkedOnlyWhenUseless
  BY <1>1, BlockingQueueAssumption, EmptySeq DEF IInv, ParkedOnlyWhenUseless, TypeOK
<1>3. QED
  BY <1>2, IInvAlways, PTL
-----------------------------------------------------------------------------
(***************************************************************************)
(* BlockingQueue implements BoundedFifo when elements do not throw.  Only  *)
(* four kinds of step are visible to the callers: making a call, the       *)
(* critical section (where the element moves), being refused, and          *)
(* returning; all others stutter.  The guards of Put and Get, that there   *)
(* is room and that there is an item, come from the accounting.            *)
(***************************************************************************)
MappedCall == [t \in Threads |-> PendingCall(t)]

\* A step of t changes only t's entry of the mapped state.
LEMMA MappedCallAfterGoto ==
  ASSUME pc \in [Threads -> Labels], NEW t \in Threads, NEW l, Goto(t, l),
         \A u \in Threads \ {t} : arg'[u] = arg[u]
  PROVE  MappedCall' = [MappedCall EXCEPT ![t] = PendingCall(t)']
<1>1. pc' = [pc EXCEPT ![t] = l]
  BY DEF Goto
<1>2. \A u \in Threads \ {t} : PendingCall(u)' = PendingCall(u)
  BY <1>1 DEF PendingCall
<1>3. QED
  BY <1>2 DEF MappedCall

LEMMA InitRefines == Init => Fifo!Init
BY DEF Init, Fifo!Init, PendingCall

\* A step that moves t between labels at which the same call is pending.
LEMMA SilentStep ==
  ASSUME TypeOK, NEW t \in Threads,
         UNCHANGED <<queue_, ret>>, MappedCall' = [MappedCall EXCEPT ![t] = PendingCall(t)],
         MappedCall[t] = PendingCall(t)
  PROVE  UNCHANGED Fifo!vars
<1>1. MappedCall' = MappedCall
  BY DEF MappedCall
<1>2. QED
  BY <1>1 DEF Fifo!vars, MappedCall

\* A step that replaces t's pending call by k and its result by r.
LEMMA VisibleStep ==
  ASSUME NEW t \in Threads, NEW k, NEW r, MappedCall' = [MappedCall EXCEPT ![t] = k],
         ret' = [ret EXCEPT ![t] = r]
  PROVE  Fifo!Become(t, k, r)
BY DEF Fifo!Become, MappedCall
-----------------------------------------------------------------------------
\* Each step of t is a step of BoundedFifo or a stutter.
LEMMA CallRefines ==
  ASSUME TypeOK, NEW t \in Threads, Call(t)
  PROVE  Fifo!Invoke(t) \/ Fifo!Refuse(t)
<1>0. pc \in [Threads -> Labels] /\ MappedCall[t] = PendingCall(t)
  BY DEF TypeOK, MappedCall
<1>1. ASSUME NEW v \in Values, CallPush(t, v)
      PROVE  Fifo!Invoke(t) \/ Fifo!Refuse(t)
  <2>1. Goto(t, "push_acquire") /\ pc[t] = "idle" /\ pc'[t] = "push_acquire"
    BY <1>0, <1>1 DEF CallPush, Goto
  <2>2. PendingCall(t) = <<"none">> /\ PendingCall(t)' = <<"put", v>>
    BY <1>1, <2>1 DEF CallPush, PendingCall, TypeOK
  <2>3. MappedCall' = [MappedCall EXCEPT ![t] = <<"put", v>>]
    BY <1>0, <1>1, <2>1, <2>2, MappedCallAfterGoto DEF CallPush, TypeOK
  <2>4. Fifo!Become(t, <<"put", v>>, <<>>)
    BY <1>1, <2>3, VisibleStep DEF CallPush
  <2>5. QED
    BY <1>0, <1>1, <2>2, <2>4 DEF CallPush, Fifo!Invoke, MappedCall
<1>2. ASSUME NEW v \in Values, CallTryPush(t, v)
      PROVE  Fifo!Invoke(t) \/ Fifo!Refuse(t)
  <2>1. CASE /\ Goto(t, "push_lock") /\ ret' = [ret EXCEPT ![t] = <<>>]
             /\ arg' = [arg EXCEPT ![t] = v]
    <3>1. Goto(t, "push_lock") /\ pc[t] = "idle" /\ pc'[t] = "push_lock"
      BY <1>0, <1>2, <2>1 DEF CallTryPush, Goto
    <3>2. PendingCall(t) = <<"none">> /\ PendingCall(t)' = <<"put", v>>
      BY <1>2, <2>1, <3>1 DEF CallTryPush, PendingCall, TypeOK
    <3>3. MappedCall' = [MappedCall EXCEPT ![t] = <<"put", v>>]
      BY <1>0, <1>2, <2>1, <3>1, <3>2, MappedCallAfterGoto DEF CallTryPush, TypeOK
    <3>4. Fifo!Become(t, <<"put", v>>, <<>>)
      BY <1>2, <2>1, <3>3, VisibleStep DEF CallTryPush
    <3>5. QED
      BY <1>0, <1>2, <2>1, <3>2, <3>4 DEF CallTryPush, Fifo!Invoke, MappedCall
  <2>2. CASE /\ UNCHANGED <<pc, arg>> /\ ret' = [ret EXCEPT ![t] = <<"refused", "put">>]
    <3>1. PendingCall(t) = <<"none">>
      BY <1>2 DEF CallTryPush, PendingCall
    <3>2. MappedCall' = [MappedCall EXCEPT ![t] = <<"none">>]
      BY <2>2, <3>1 DEF MappedCall, PendingCall
    <3>3. Fifo!Become(t, <<"none">>, <<"refused", "put">>)
      BY <1>2, <2>2, <3>2, VisibleStep DEF CallTryPush
    <3>4. QED
      BY <1>2, <3>1, <3>3 DEF CallTryPush, Fifo!Refuse
  <2>3. QED
    BY <1>2, <2>1, <2>2 DEF CallTryPush
<1>3. CASE CallPop(t)
  <2>1. Goto(t, "pop_acquire") /\ pc[t] = "idle" /\ pc'[t] = "pop_acquire"
    BY <1>0, <1>3 DEF CallPop, Goto
  <2>2. PendingCall(t) = <<"none">> /\ PendingCall(t)' = <<"get">>
    BY <1>3, <2>1 DEF CallPop, PendingCall, TypeOK
  <2>3. MappedCall' = [MappedCall EXCEPT ![t] = <<"get">>]
    BY <1>0, <1>3, <2>1, <2>2, MappedCallAfterGoto DEF CallPop, TypeOK
  <2>4. Fifo!Become(t, <<"get">>, <<>>)
    BY <1>3, <2>3, VisibleStep DEF CallPop
  <2>5. QED
    BY <1>0, <1>3, <2>2, <2>4 DEF CallPop, Fifo!Invoke, MappedCall
<1>4. CASE CallTryPop(t)
  <2>1. CASE Goto(t, "pop_lock") /\ ret' = [ret EXCEPT ![t] = <<>>]
    <3>1. Goto(t, "pop_lock") /\ pc[t] = "idle" /\ pc'[t] = "pop_lock"
      BY <1>0, <1>4, <2>1 DEF CallTryPop, Goto
    <3>2. PendingCall(t) = <<"none">> /\ PendingCall(t)' = <<"get">>
      BY <1>4, <2>1, <3>1 DEF CallTryPop, PendingCall, TypeOK
    <3>3. MappedCall' = [MappedCall EXCEPT ![t] = <<"get">>]
      BY <1>0, <1>4, <2>1, <3>1, <3>2, MappedCallAfterGoto DEF CallTryPop, TypeOK
    <3>4. Fifo!Become(t, <<"get">>, <<>>)
      BY <1>4, <2>1, <3>3, VisibleStep DEF CallTryPop
    <3>5. QED
      BY <1>0, <1>4, <2>1, <3>2, <3>4 DEF CallTryPop, Fifo!Invoke, MappedCall
  <2>2. CASE UNCHANGED <<pc, arg>> /\ ret' = [ret EXCEPT ![t] = <<"refused", "get">>]
    <3>1. PendingCall(t) = <<"none">>
      BY <1>4 DEF CallTryPop, PendingCall
    <3>2. MappedCall' = [MappedCall EXCEPT ![t] = <<"none">>]
      BY <2>2, <3>1 DEF MappedCall, PendingCall
    <3>3. Fifo!Become(t, <<"none">>, <<"refused", "get">>)
      BY <1>4, <2>2, <3>2, VisibleStep DEF CallTryPop
    <3>4. QED
      BY <1>4, <3>1, <3>3 DEF CallTryPop, Fifo!Refuse
  <2>3. QED
    BY <1>4, <2>1, <2>2 DEF CallTryPop
<1>5. CASE CallSize(t)
  <2>1. Goto(t, "size_lock") /\ pc[t] = "idle" /\ pc'[t] = "size_lock"
    BY <1>0, <1>5 DEF CallSize, Goto
  <2>2. PendingCall(t) = <<"none">> /\ PendingCall(t)' = <<"size">>
    BY <1>5, <2>1 DEF CallSize, PendingCall, TypeOK
  <2>3. MappedCall' = [MappedCall EXCEPT ![t] = <<"size">>]
    BY <1>0, <1>5, <2>1, <2>2, MappedCallAfterGoto DEF CallSize, TypeOK
  <2>4. Fifo!Become(t, <<"size">>, <<>>)
    BY <1>5, <2>3, VisibleStep DEF CallSize
  <2>5. QED
    BY <1>0, <1>5, <2>2, <2>4 DEF CallSize, Fifo!Invoke, MappedCall
<1>6. QED
  BY <1>1, <1>2, <1>3, <1>4, <1>5 DEF Call

\* Acquiring a permit and locking the mutex are invisible to the callers.
LEMMA EntryStutters ==
  ASSUME TypeOK, NEW t \in Threads, PushAcquire(t) \/ PopAcquire(t) \/ Lock(t)
  PROVE  UNCHANGED Fifo!vars
<1>1. pc \in [Threads -> Labels] /\ MappedCall[t] = PendingCall(t)
  BY DEF TypeOK, MappedCall
<1>2. UNCHANGED <<queue_, ret, arg>>
  BY DEF PushAcquire, PopAcquire, Lock
<1>3. PICK l : Goto(t, l) /\ PendingCall(t)' = PendingCall(t)
  <2>1. CASE PushAcquire(t)
    BY <1>1, <2>1 DEF PushAcquire, Goto, PendingCall
  <2>2. CASE PopAcquire(t)
    BY <1>1, <2>2 DEF PopAcquire, Goto, PendingCall
  <2>3. CASE Lock(t)
    <3>1. Goto(t, BodyOf[pc[t]]) /\ pc'[t] = BodyOf[pc[t]]
      BY <1>1, <2>3 DEF Lock, Goto
    <3>2. pc[t] \in {"push_lock", "pop_lock", "size_lock"}
      BY <2>3 DEF Lock, BodyOf
    <3>3. PendingCall(t)' = PendingCall(t)
      BY <1>2, <3>1, <3>2 DEF BodyOf, PendingCall
    <3>4. QED
      BY <3>1, <3>3
  <2>4. QED
    BY <2>1, <2>2, <2>3
<1>4. MappedCall' = [MappedCall EXCEPT ![t] = PendingCall(t)]
  BY <1>1, <1>2, <1>3, MappedCallAfterGoto
<1>5. QED
  BY <1>1, <1>2, <1>4, SilentStep

\* There is room for the element a push is about to add: its claim on a slot.
LEMMA RoomForPush ==
  ASSUME TypeOK, EveryPermitBacked, NEW t \in Threads, pc[t] = "push_body"
  PROVE  Len(queue_) < MaxSize
<1>1. /\ pc \in [Threads -> Labels] /\ empty_count_ \in Nat /\ Len(queue_) \in Nat
      /\ MaxSize \in Nat
  BY BlockingQueueAssumption DEF TypeOK
<1>2. Cardinality(SlotClaims) \in Nat /\ Cardinality(SlotClaims) > 0
  BY <1>1, HeldClaimsCount DEF SlotLabels
<1>3. QED
  BY <1>1, <1>2 DEF EveryPermitBacked, SlotsBacked

\* The critical sections and the returns are steps of BoundedFifo.
LEMMA BodyAndReturnRefine ==
  ASSUME TypeOK, EveryPermitBacked, NEW t \in Threads,
         PushBody(t) \/ PopBody(t) \/ SizeBody(t) \/ PushRelease(t) \/ PopRelease(t)
  PROVE  \/ \E v \in Values : Fifo!Put(t, v)
         \/ Fifo!Get(t) \/ Fifo!Size(t) \/ Fifo!Return(t)
<1>0. /\ pc \in [Threads -> Labels] /\ arg \in [Threads -> Values \cup {NoValue}]
      /\ MappedCall[t] = PendingCall(t)
  BY DEF TypeOK, MappedCall
<1>1. CASE PushBody(t)
  <2>1. Goto(t, "push_release") /\ pc'[t] = "push_release"
    BY <1>0, <1>1 DEF PushBody, Goto
  <2>2. PendingCall(t) = <<"put", arg[t]>> /\ PendingCall(t)' = <<"returning">>
    BY <1>1, <2>1 DEF PushBody, PendingCall
  <2>3. MappedCall' = [MappedCall EXCEPT ![t] = <<"returning">>]
    BY <1>0, <1>1, <2>1, <2>2, MappedCallAfterGoto DEF PushBody, Labels, PushLabels, PopLabels
  <2>4. Fifo!Become(t, <<"returning">>, <<"done">>)
    BY <1>1, <2>3, VisibleStep DEF PushBody
  <2>5. arg[t] \in Values /\ Len(queue_) < MaxSize
    BY <1>0, <1>1, RoomForPush DEF PushBody, TypeOK, At, PushLabels
  <2>6. Fifo!Put(t, arg[t])
    BY <1>0, <1>1, <2>2, <2>4, <2>5 DEF PushBody, Fifo!Put, MappedCall
  <2>7. QED
    BY <2>5, <2>6
<1>2. CASE PopBody(t)
  <2>1. Goto(t, "pop_release") /\ pc'[t] = "pop_release"
    BY <1>0, <1>2 DEF PopBody, Goto
  <2>2. PendingCall(t) = <<"get">> /\ PendingCall(t)' = <<"returning">>
    BY <1>2, <2>1 DEF PopBody, PendingCall
  <2>3. MappedCall' = [MappedCall EXCEPT ![t] = <<"returning">>]
    BY <1>0, <1>2, <2>1, <2>2, MappedCallAfterGoto DEF PopBody, Labels, PushLabels, PopLabels
  <2>4. Fifo!Become(t, <<"returning">>, <<"value", Head(queue_)>>)
    BY <1>2, <2>3, VisibleStep DEF PopBody
  <2>5. Fifo!Get(t)
    BY <1>0, <1>2, <2>2, <2>4 DEF PopBody, Fifo!Get, MappedCall
  <2>6. QED
    BY <2>5
<1>3. CASE SizeBody(t)
  <2>1. Goto(t, "idle") /\ pc'[t] = "idle"
    BY <1>0, <1>3 DEF SizeBody, Goto
  <2>2. PendingCall(t) = <<"size">> /\ PendingCall(t)' = <<"none">>
    BY <1>3, <2>1 DEF SizeBody, PendingCall
  <2>3. MappedCall' = [MappedCall EXCEPT ![t] = <<"none">>]
    BY <1>0, <1>3, <2>1, <2>2, MappedCallAfterGoto DEF SizeBody, Labels, PushLabels, PopLabels
  <2>4. Fifo!Become(t, <<"none">>, <<"size", Len(queue_)>>)
    BY <1>3, <2>3, VisibleStep DEF SizeBody
  <2>5. Fifo!Size(t)
    BY <1>0, <1>3, <2>2, <2>4 DEF SizeBody, Fifo!Size, MappedCall
  <2>6. QED
    BY <2>5
<1>4. CASE PushRelease(t)
  <2>1. Goto(t, "idle") /\ pc'[t] = "idle"
    BY <1>0, <1>4 DEF PushRelease, Goto
  <2>2. PendingCall(t) = <<"returning">> /\ PendingCall(t)' = <<"none">>
    BY <1>4, <2>1 DEF PushRelease, PendingCall
  <2>3. MappedCall' = [MappedCall EXCEPT ![t] = <<"none">>]
    BY <1>0, <1>4, <2>1, <2>2, MappedCallAfterGoto DEF PushRelease, Labels, PushLabels, PopLabels
  <2>4. Fifo!Become(t, <<"none">>, ret[t])
    BY <1>4, <2>3, VisibleStep DEF PushRelease, TypeOK
  <2>5. Fifo!Return(t)
    BY <1>0, <1>4, <2>2, <2>4 DEF PushRelease, Fifo!Return, MappedCall
  <2>6. QED
    BY <2>5
<1>5. CASE PopRelease(t)
  <2>1. Goto(t, "idle") /\ pc'[t] = "idle"
    BY <1>0, <1>5 DEF PopRelease, Goto
  <2>2. PendingCall(t) = <<"returning">> /\ PendingCall(t)' = <<"none">>
    BY <1>5, <2>1 DEF PopRelease, PendingCall
  <2>3. MappedCall' = [MappedCall EXCEPT ![t] = <<"none">>]
    BY <1>0, <1>5, <2>1, <2>2, MappedCallAfterGoto DEF PopRelease, Labels, PushLabels, PopLabels
  <2>4. Fifo!Become(t, <<"none">>, ret[t])
    BY <1>5, <2>3, VisibleStep DEF PopRelease, TypeOK
  <2>5. Fifo!Return(t)
    BY <1>0, <1>5, <2>2, <2>4 DEF PopRelease, Fifo!Return, MappedCall
  <2>6. QED
    BY <2>5
<1>6. QED
  BY <1>1, <1>2, <1>3, <1>4, <1>5

\* If elements do not throw, the semaphores, the mutex and the std::queue
\* together behave as a bounded FIFO with atomic operations.
THEOREM ImplementsBoundedFifo ==
  ASSUME ~ElementsThrow
  PROVE  Spec => FifoSpec
<1>1. Init => Fifo!Init
  BY InitRefines
<1>2. IInv /\ [Next]_bqVars => [Fifo!Next]_(Fifo!vars)
  <2> SUFFICES ASSUME IInv, [Next]_bqVars
               PROVE  [Fifo!Next]_(Fifo!vars)
    OBVIOUS
  <2>1. TypeOK /\ EveryPermitBacked /\ NeverPopsEmpty
    BY DEF IInv
  <2>2. ASSUME NEW t \in Threads, Call(t) \/ Continue(t)
        PROVE  [Fifo!Next]_(Fifo!vars)
    <3>1. CASE Call(t)
      BY <2>1, <3>1, CallRefines DEF Fifo!Next
    <3>2. CASE PushAcquire(t) \/ PopAcquire(t) \/ Lock(t)
      BY <2>1, <3>2, EntryStutters
    <3>3. CASE PushBody(t) \/ PopBody(t) \/ SizeBody(t) \/ PushRelease(t) \/ PopRelease(t)
      BY <2>1, <3>3, BodyAndReturnRefine DEF Fifo!Next
    <3>4. CASE PopUndefined(t) \/ BodyThrows(t)
      BY <2>1, <3>4 DEF PopUndefined, BodyThrows, NeverPopsEmpty
    <3>5. QED
      BY <2>2, <3>1, <3>2, <3>3, <3>4 DEF Continue
  <2>3. CASE UNCHANGED bqVars
    BY <2>3 DEF bqVars, Fifo!vars, PendingCall
  <2>4. QED
    BY <2>2, <2>3 DEF Next
<1>3. QED
  BY <1>1, <1>2, IInvAlways, PTL DEF Spec, FifoSpec, Fifo!Spec
=============================================================================
