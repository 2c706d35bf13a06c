---------------------------- MODULE BlockingQueue ----------------------------
(***************************************************************************)
(* q::blocking_queue<T, max_size> (src/src/blocking_queue.{hpp,inl}): a    *)
(* std::queue guarded by a mutex and by two counting semaphores.           *)
(* empty_count_ counts free slots, queued_count_ counts queued elements;   *)
(* every operation takes a permit from one, works on the queue under the   *)
(* mutex and, when its `releaser' is destroyed, returns a permit to the    *)
(* other.  Every step below is one access to a semaphore, to the mutex or  *)
(* to the queue, so threads interleave where the code lets them.           *)
(***************************************************************************)
EXTENDS Naturals, Sequences, FiniteSets

CONSTANTS
  Threads,        \* the threads that call the queue
  Values,         \* what T ranges over
  MaxSize,        \* the template parameter max_size
  ElementsThrow,  \* may copying or constructing a T throw?
  NoThread,       \* owner of an unlocked mutex
  NoValue         \* contents of a thread's element slot between calls

ASSUME BlockingQueueAssumption ==
  /\ IsFiniteSet(Threads)
  /\ MaxSize \in Nat \ {0}
  /\ ElementsThrow \in BOOLEAN
  /\ NoThread \notin Threads
  /\ NoValue \notin Values

VARIABLES
  queue_,         \* the std::queue, front first
  mtx_,           \* owner of the mutex
  empty_count_,   \* counting_semaphore<max_size>
  queued_count_,  \* counting_semaphore<max_size>
  pc,             \* where each thread is in its call
  arg,            \* the element a thread is pushing, or has popped
  ret             \* what a thread's last call returned

bqVars == <<queue_, mtx_, empty_count_, queued_count_, pc, arg, ret>>

PushLabels == {"push_acquire", "push_lock", "push_body", "push_release"}
PopLabels  == {"pop_acquire", "pop_lock", "pop_body", "pop_release"}
SizeLabels == {"size_lock", "size_body"}
Labels     == {"idle", "undefined"} \cup PushLabels \cup PopLabels \cup SizeLabels

\* Labels at which a thread owns the mutex and touches queue_.
Critical == {"push_body", "pop_body", "size_body"}

Results == {<<>>, <<"done">>, <<"refused", "put">>, <<"refused", "get">>, <<"threw">>}
             \cup ({"value"} \X Values) \cup ({"size"} \X Nat)

(***************************************************************************)
(* The constructor.                                                        *)
(***************************************************************************)
Init ==
  /\ queue_ = <<>>
  /\ mtx_ = NoThread
  /\ empty_count_ = MaxSize
  /\ queued_count_ = 0
  /\ pc = [t \in Threads |-> "idle"]
  /\ arg = [t \in Threads |-> NoValue]
  /\ ret = [t \in Threads |-> <<>>]

Goto(t, l) == pc' = [pc EXCEPT ![t] = l]

(***************************************************************************)
(* Calls.  push and emplace differ in how T is built, which only matters   *)
(* for whether it throws; pop(T &) and try_pop(T &) are pop() and          *)
(* try_pop() followed by an assignment.                                    *)
(***************************************************************************)
CallPush(t, v) ==
  /\ pc[t] = "idle"
  /\ Goto(t, "push_acquire")
  /\ arg' = [arg EXCEPT ![t] = v]
  /\ ret' = [ret EXCEPT ![t] = <<>>]
  /\ UNCHANGED <<queue_, mtx_, empty_count_, queued_count_>>

CallPop(t) ==
  /\ pc[t] = "idle"
  /\ Goto(t, "pop_acquire")
  /\ ret' = [ret EXCEPT ![t] = <<>>]
  /\ UNCHANGED <<queue_, mtx_, empty_count_, queued_count_, arg>>

\* Fault: try_push gives up as soon as another thread holds the mutex.
ContendedTryPush(t, v) ==
  /\ pc[t] = "idle"
  /\ mtx_ # NoThread
  /\ ret' = [ret EXCEPT ![t] = <<"refused", "put">>]
  /\ UNCHANGED <<queue_, mtx_, empty_count_, queued_count_, pc, arg>>

\* try_acquire succeeds iff a permit is there; the releaser exists only then.
CallTryPush(t, v) ==
  /\ pc[t] = "idle"
  /\ \/ /\ empty_count_ > 0
        /\ empty_count_' = empty_count_ - 1
        /\ Goto(t, "push_lock")
        /\ arg' = [arg EXCEPT ![t] = v]
        /\ ret' = [ret EXCEPT ![t] = <<>>]
     \/ /\ empty_count_ = 0
        /\ ret' = [ret EXCEPT ![t] = <<"refused", "put">>]
        /\ UNCHANGED <<empty_count_, pc, arg>>
  /\ UNCHANGED <<queue_, mtx_, queued_count_>>

\* Fault: the permit is taken without testing that there is one.
UncheckedTryPop(t) ==
  /\ pc[t] = "idle"
  /\ queued_count_' = queued_count_ - 1
  /\ Goto(t, "pop_lock")
  /\ ret' = [ret EXCEPT ![t] = <<>>]
  /\ UNCHANGED <<queue_, mtx_, empty_count_, arg>>

CallTryPop(t) ==
  /\ pc[t] = "idle"
  /\ \/ /\ queued_count_ > 0
        /\ queued_count_' = queued_count_ - 1
        /\ Goto(t, "pop_lock")
        /\ ret' = [ret EXCEPT ![t] = <<>>]
     \/ /\ queued_count_ = 0
        /\ ret' = [ret EXCEPT ![t] = <<"refused", "get">>]
        /\ UNCHANGED <<queued_count_, pc>>
  /\ UNCHANGED <<queue_, mtx_, empty_count_, arg>>

\* size() and empty(): empty() is size() = 0 read under the same lock.
CallSize(t) ==
  /\ pc[t] = "idle"
  /\ Goto(t, "size_lock")
  /\ ret' = [ret EXCEPT ![t] = <<>>]
  /\ UNCHANGED <<queue_, mtx_, empty_count_, queued_count_, arg>>

(***************************************************************************)
(* Steps inside a call.                                                    *)
(***************************************************************************)
PushAcquire(t) ==
  /\ pc[t] = "push_acquire"
  /\ empty_count_ > 0
  /\ empty_count_' = empty_count_ - 1
  /\ Goto(t, "push_lock")
  /\ UNCHANGED <<queue_, mtx_, queued_count_, arg, ret>>

PopAcquire(t) ==
  /\ pc[t] = "pop_acquire"
  /\ queued_count_ > 0
  /\ queued_count_' = queued_count_ - 1
  /\ Goto(t, "pop_lock")
  /\ UNCHANGED <<queue_, mtx_, empty_count_, arg, ret>>

BodyOf == [push_lock |-> "push_body", pop_lock |-> "pop_body", size_lock |-> "size_body"]

Lock(t) ==
  /\ pc[t] \in DOMAIN BodyOf
  /\ mtx_ = NoThread
  /\ mtx_' = t
  /\ Goto(t, BodyOf[pc[t]])
  /\ UNCHANGED <<queue_, empty_count_, queued_count_, arg, ret>>

\* The critical section and the unlock that ends it.
PushBody(t) ==
  /\ pc[t] = "push_body"
  /\ queue_' = Append(queue_, arg[t])
  /\ ret' = [ret EXCEPT ![t] = <<"done">>]
  /\ mtx_' = NoThread
  /\ Goto(t, "push_release")
  /\ UNCHANGED <<empty_count_, queued_count_, arg>>

\* Fault: the newest element is taken.
LifoPopBody(t) ==
  /\ pc[t] = "pop_body"
  /\ queue_ # <<>>
  /\ queue_' = SubSeq(queue_, 1, Len(queue_) - 1)
  /\ arg' = [arg EXCEPT ![t] = queue_[Len(queue_)]]
  /\ ret' = [ret EXCEPT ![t] = <<"value", queue_[Len(queue_)]>>]
  /\ mtx_' = NoThread
  /\ Goto(t, "pop_release")
  /\ UNCHANGED <<empty_count_, queued_count_>>

\* Fault: front() without pop().
PeekingPopBody(t) ==
  /\ pc[t] = "pop_body"
  /\ queue_ # <<>>
  /\ arg' = [arg EXCEPT ![t] = Head(queue_)]
  /\ ret' = [ret EXCEPT ![t] = <<"value", Head(queue_)>>]
  /\ mtx_' = NoThread
  /\ Goto(t, "pop_release")
  /\ UNCHANGED <<queue_, empty_count_, queued_count_>>

PopBody(t) ==
  /\ pc[t] = "pop_body"
  /\ queue_ # <<>>
  /\ queue_' = Tail(queue_)
  /\ arg' = [arg EXCEPT ![t] = Head(queue_)]
  /\ ret' = [ret EXCEPT ![t] = <<"value", Head(queue_)>>]
  /\ mtx_' = NoThread
  /\ Goto(t, "pop_release")
  /\ UNCHANGED <<empty_count_, queued_count_>>

\* front() of an empty std::queue is undefined: nothing is said of what follows.
PopUndefined(t) ==
  /\ pc[t] = "pop_body"
  /\ queue_ = <<>>
  /\ Goto(t, "undefined")
  /\ UNCHANGED <<queue_, mtx_, empty_count_, queued_count_, arg, ret>>

\* Fault: no releaser, so an exception leaves the permit behind.
LeakyBodyThrows(t) ==
  /\ ElementsThrow
  /\ pc[t] \in {"push_body", "pop_body"}
  /\ Goto(t, "idle")
  /\ ret' = [ret EXCEPT ![t] = <<"threw">>]
  /\ arg' = [arg EXCEPT ![t] = NoValue]
  /\ mtx_' = NoThread
  /\ UNCHANGED <<queue_, empty_count_, queued_count_>>

\* Building the pushed element, or copying the front one, throws and the queue is as
\* it was; or returning the copy throws, and the element is gone.  The scoped_lock and
\* the releaser unwind.
BodyThrows(t) ==
  /\ ElementsThrow
  /\ \/ pc[t] = "push_body" /\ Goto(t, "push_release") /\ UNCHANGED queue_
     \/ /\ pc[t] = "pop_body" /\ queue_ # <<>>
        /\ queue_' \in {queue_, Tail(queue_)}
        /\ Goto(t, "pop_release")
  /\ ret' = [ret EXCEPT ![t] = <<"threw">>]
  /\ mtx_' = NoThread
  /\ UNCHANGED <<empty_count_, queued_count_, arg>>

SizeBody(t) ==
  /\ pc[t] = "size_body"
  /\ ret' = [ret EXCEPT ![t] = <<"size", Len(queue_)>>]
  /\ mtx_' = NoThread
  /\ Goto(t, "idle")
  /\ UNCHANGED <<queue_, empty_count_, queued_count_, arg>>

\* Fault: push forgets to announce its element.
SilentPushRelease(t) ==
  /\ pc[t] = "push_release"
  /\ arg' = [arg EXCEPT ![t] = NoValue]
  /\ Goto(t, "idle")
  /\ UNCHANGED <<queue_, mtx_, empty_count_, queued_count_, ret>>

\* Fault: pop releases the semaphore it acquired.
SwappedPopRelease(t) ==
  /\ pc[t] = "pop_release"
  /\ queued_count_' = queued_count_ + 1
  /\ arg' = [arg EXCEPT ![t] = NoValue]
  /\ Goto(t, "idle")
  /\ UNCHANGED <<queue_, mtx_, empty_count_, ret>>

\* ~releaser(), after the mutex is unlocked; then the call returns.
PushRelease(t) ==
  /\ pc[t] = "push_release"
  /\ queued_count_' = queued_count_ + 1
  /\ arg' = [arg EXCEPT ![t] = NoValue]
  /\ Goto(t, "idle")
  /\ UNCHANGED <<queue_, mtx_, empty_count_, ret>>

PopRelease(t) ==
  /\ pc[t] = "pop_release"
  /\ empty_count_' = empty_count_ + 1
  /\ arg' = [arg EXCEPT ![t] = NoValue]
  /\ Goto(t, "idle")
  /\ UNCHANGED <<queue_, mtx_, queued_count_, ret>>

Call(t) ==
  \/ \E v \in Values : CallPush(t, v) \/ CallTryPush(t, v)
  \/ CallPop(t)
  \/ CallTryPop(t)
  \/ CallSize(t)

Continue(t) ==
  \/ PushAcquire(t) \/ PopAcquire(t)
  \/ Lock(t)
  \/ PushBody(t) \/ PopBody(t) \/ PopUndefined(t) \/ BodyThrows(t) \/ SizeBody(t)
  \/ PushRelease(t) \/ PopRelease(t)

Next == \E t \in Threads : Call(t) \/ Continue(t)

\* A thread inside a call keeps running; nobody has to make a call.
Fairness == \A t \in Threads : WF_bqVars(Continue(t))

Spec == Init /\ [][Next]_bqVars

FairSpec == Spec /\ Fairness

-----------------------------------------------------------------------------
At(G) == {t \in Threads : pc[t] \in G}

\* Between an acquire and the matching release a call holds a claim: on an
\* element of queue_ (a pop that has yet to take it, a push that has yet to
\* announce it) or on a free slot (a push yet to fill it, a pop yet to return it).
ItemLabels == {"pop_lock", "pop_body", "undefined", "push_release"}
SlotLabels == {"push_lock", "push_body", "pop_release"}
ItemClaims == At(ItemLabels)
SlotClaims == At(SlotLabels)

\* Type invariant.
TypeOK ==
  /\ queue_ \in Seq(Values)
  /\ mtx_ \in Threads \cup {NoThread}
  /\ empty_count_ \in Nat
  /\ queued_count_ \in Nat
  /\ pc \in [Threads -> Labels]
  /\ arg \in [Threads -> Values \cup {NoValue}]
  /\ \A t \in At(PushLabels) : arg[t] \in Values
  /\ ret \in [Threads -> Results]

\* No two threads are inside the sections that touch queue_, and whoever is
\* there owns mtx_: pop, push, try_*, size and empty never race on queue_.
QueueRaceFree ==
  \A t \in Threads : pc[t] \in Critical => mtx_ = t

\* pop and try_pop take front() and pop() of a queue the mutex alone does not
\* protect from being empty: only the permit of queued_count_ does (lines 30-33
\* and 51-54).  Nothing may reach that code with an empty queue.
NeverPopsEmpty ==
  \A t \in Threads : /\ pc[t] = "pop_body" => queue_ # <<>>
                     /\ pc[t] # "undefined"

\* counting_semaphore<max_size>::release may not take the counter past
\* max_size; neither the slots nor the elements can do that, also when T throws.
PermitsNeverExceedMax ==
  empty_count_ + queued_count_ + Cardinality(ItemClaims) + Cardinality(SlotClaims) = MaxSize

\* The queue never holds more than max_size elements, and a slot or an element
\* is counted once: by a semaphore, or by the one call that is handling it.
ItemsBacked == queued_count_ + Cardinality(ItemClaims) = Len(queue_)
SlotsBacked == empty_count_ + Cardinality(SlotClaims) = MaxSize - Len(queue_)

EveryPermitBacked == ItemsBacked /\ SlotsBacked

\* No lost wake-up: when every thread is parked in an acquire, those in pop
\* find nothing in the queue and those in push find it full.
ParkedOnlyWhenUseless ==
  At({"push_acquire", "pop_acquire"}) = Threads =>
    /\ (queued_count_ = 0 /\ At({"pop_acquire"}) # {}) => queue_ = <<>>
    /\ (empty_count_ = 0 /\ At({"push_acquire"}) # {}) => Len(queue_) = MaxSize

\* try_pop gives up only if each queued element is already another call's,
\* try_push only if each free slot is: the queue need not be empty, or full.
RefusalIsJustified ==
  [][\A t \in Threads :
       ret'[t] # ret[t] =>
         /\ ret'[t] = <<"refused", "get">> => Len(queue_) = Cardinality(ItemClaims)
         /\ ret'[t] = <<"refused", "put">> => MaxSize - Len(queue_) = Cardinality(SlotClaims)]_bqVars

\* size() and empty() take the same mutex, which need not be fair: a thread that
\* polls for ever can keep the others out for ever, so progress supposes none does.
PollingStops == <>[](At(SizeLabels) = {})

\* A waiting pop and a non-empty queue do not stay that way: the queue is
\* emptied or some pop takes an element (the semaphores are not fair either, so
\* which pop is not promised).
PoppersServed ==
  PollingStops =>
    ((At({"pop_acquire"}) # {} /\ queue_ # <<>>)
       ~> (queue_ = <<>> \/ At({"pop_release"}) # {}))

\* Likewise for a waiting push and a queue with room.
PushersServed ==
  PollingStops =>
    ((At({"push_acquire"}) # {} /\ Len(queue_) < MaxSize)
       ~> (Len(queue_) = MaxSize \/ At({"push_release"}) # {}))

-----------------------------------------------------------------------------
(***************************************************************************)
(* What the queue promises its callers (BoundedFifo), and the state of that *)
(* promise: a call is pending until its element enters or leaves queue_.   *)
(***************************************************************************)
PendingCall(t) ==
  CASE pc[t] \in {"push_acquire", "push_lock", "push_body"} -> <<"put", arg[t]>>
    [] pc[t] \in {"pop_acquire", "pop_lock", "pop_body"}    -> <<"get">>
    [] pc[t] \in {"size_lock", "size_body"}                 -> <<"size">>
    [] pc[t] \in {"push_release", "pop_release"}            -> <<"returning">>
    [] OTHER                                                -> <<"none">>

Fifo == INSTANCE BoundedFifo WITH
  Callers  <- Threads,
  Capacity <- MaxSize,
  items    <- queue_,
  call     <- [t \in Threads |-> PendingCall(t)],
  result   <- ret

\* The queue is a bounded FIFO: whatever the interleaving, elements enter and
\* leave one at a time between call and return of the operation that moves
\* them, in order, never lost, duplicated or more than max_size.
FifoSpec == Fifo!Spec
=============================================================================
