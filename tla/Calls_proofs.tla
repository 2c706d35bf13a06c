----------------------------- MODULE Calls_proofs -----------------------------
(***************************************************************************)
(* What holds of the wrapper's operations whatever the number of handles,  *)
(* of failed executions and of texts that fit into the descriptor.         *)
(***************************************************************************)
EXTENDS Calls, FiniteSetTheorems, SequenceTheorems, TLAPS

\* The steps that change neither a handle nor an operation, unless they end it for good.
Quiet == ClearDescriptor \/ Hang \/ \E o \in DOMAIN Calls, i \in Slots : UseMoved(o, i)

LEMMA QuietIs ==
  ASSUME Quiet
  PROVE  /\ UNCHANGED <<hostVars, pos, locals, live, last>>
         /\ \/ op' = op
            \/ op' \in {"hung", "crashed"} /\ ~(op \in DOMAIN Calls /\ pos = 0)
<1>1. CASE ClearDescriptor
  BY <1>1 DEF ClearDescriptor, opVars
<1>2. CASE Hang
  BY <1>2 DEF Hang, InCall, edVars
<1>3. ASSUME NEW o \in DOMAIN Calls, NEW i \in Slots, UseMoved(o, i)
      PROVE  /\ UNCHANGED <<hostVars, pos, locals, live, last>>
             /\ op' = "crashed" /\ op \notin DOMAIN Calls
  <2>1. "idle" \notin DOMAIN Calls
    BY DEF Calls
  <2> QED BY <1>3, <2>1 DEF UseMoved, edVars
<1> QED BY <1>1, <1>2, <1>3 DEF Quiet

\* A refused payload is the one failure of an execution that the executor's callback
\* is not called for; it is not counted either.
LEMMA PayloadFails == ErrorCode(Answer("action_execute_async", "payload")[2]) # NoError
<1>1. "payload" \notin Throws("action_execute_async")
  BY DEF Throws
<1>2. Answer("action_execute_async", "payload") = <<"payload", "ERROR_PAYLOAD_INVALID", TRUE>>
  BY <1>1 DEF Answer, EarlyReturn
<1>3. ErrorCode("ERROR_PAYLOAD_INVALID") = <<"action", "invalid_payload">>
  BY DEF ErrorCode
<1> QED BY <1>2, <1>3 DEF NoError

\* The callback has already been there when an execution is counted.
Counting ==
  /\ submitctr_ \in Int
  /\ op = "submit" => pos \in {0, 1}
  /\ submitctr_ <= 0
  /\ (op = "submit" /\ pos = 0 /\ last.code = NoError) => submitctr_ < 0

LEMMA CountingInit == Init => Counting
BY DEF Init, Counting

\* A call that succeeds for submit has taken one off the count.
LEMMA CallCounts ==
  ASSUME Counting, NEW cause, op \in DOMAIN Calls, pos > 0, Call(cause)
  PROVE  Counting'
<1>0. ASSUME op = "submit"
      PROVE  Calls[op][pos] = "action_execute_async" /\ pos' = 0
  <2>1. Calls["submit"] = <<"action_execute_async">>
    BY DEF Calls
  <2>2. pos = 1 /\ Len(Calls[op]) = 1
    BY <1>0, <2>1 DEF Counting
  <2>3. Calls[op][pos] = "action_execute_async"
    BY <1>0, <2>1, <2>2
  <2> QED BY <2>2, <2>3 DEF Call
<1>1. CASE op = "submit" /\ cause # "payload"
  <2>1. submitctr_' = submitctr_ - 1
    BY <1>1 DEF Call
  <2> QED BY <1>0, <1>1, <2>1 DEF Counting
<1>2. CASE op = "submit" /\ cause = "payload"
  <2>1. submitctr_' = submitctr_
    BY <1>2 DEF Call
  <2>2. Calls[op][pos] = "action_execute_async" /\ pos' = 0
    BY <1>0, <1>2
  <2>3. last'.code = ErrorCode(Answer(Calls[op][pos], cause)[2])
    BY DEF Call
  <2> QED BY <1>2, <2>1, <2>2, <2>3, PayloadFails DEF Counting
<1>3. CASE op # "submit"
  <2>1. op' # "submit" /\ submitctr_' = submitctr_
    BY <1>3 DEF Call
  <2> QED BY <2>1 DEF Counting
<1> QED BY <1>1, <1>2, <1>3

LEMMA CountingStep == Counting /\ [Next]_vars => Counting'
<1> SUFFICES ASSUME Counting, [Next]_vars PROVE Counting'
  OBVIOUS
<1>1. CASE UNCHANGED vars
  BY <1>1 DEF Counting, vars, hostVars, opVars, edVars
<1>2. ASSUME NEW l \in Libraries, Load(l) PROVE Counting'
  BY <1>2 DEF Counting, Load, opVars, edVars
<1>3. ASSUME NEW o \in DOMAIN Calls, NEW i \in Slots, Begin(o, i) PROVE Counting'
  BY <1>3 DEF Counting, Begin, hostVars
<1>4. ASSUME op \in DOMAIN Calls, pos > 0, NEW cause \in Causes(Calls[op][pos]), Call(cause)
      PROVE  Counting'
  BY <1>4, CallCounts
<1>5. CASE Fail
  BY <1>5 DEF Counting, Fail, End, hostVars
<1>6. CASE SubmitEnds
  <2>1. op = "submit" /\ pos = 0 /\ op' = "idle" /\ submitctr_' = Counted(last.code)
    BY <1>6 DEF SubmitEnds, End
  <2>2. CASE last.code = NoError
    BY <2>1, <2>2 DEF Counting, Counted
  <2>3. CASE last.code # NoError
    BY <2>1, <2>3 DEF Counting, Counted
  <2> QED BY <2>2, <2>3
<1>7. CASE Succeed
  <2>1. op' = "idle" /\ (submitctr_' = 0 \/ submitctr_' = submitctr_)
    BY <1>7 DEF Succeed, End
  <2> QED BY <2>1 DEF Counting
<1>8. ASSUME NEW i \in Slots, Receive(i) \/ Destroy(i) \/ (\E j \in Slots : Move(i, j))
      PROVE  Counting'
  BY <1>8 DEF Counting, Receive, Destroy, Move, opVars, edVars
<1>9. CASE DestroyExecutor
  BY <1>9 DEF Counting, DestroyExecutor, opVars, edVars
<1>10. CASE Quiet
  BY <1>10, QuietIs DEF Counting, hostVars
<1> QED
  BY <1>1, <1>2, <1>3, <1>4, <1>5, <1>6, <1>7, <1>8, <1>9, <1>10 DEF Next, InCall, Quiet

\* ~action_executor and await return at once: an execution is counted after the
\* executor's callback has taken it off, however many were refused or failed.
THEOREM NothingOutstanding == Spec => []AwaitNeverBlocks
<1>1. Counting => AwaitNeverBlocks
  BY DEF Counting, AwaitNeverBlocks
<1> QED
  BY <1>1, CountingInit, CountingStep, PTL DEF Spec

-----------------------------------------------------------------------------
\* What each call creates, by the operation and the place of the call in it.
Deserializing == {"from_text", "copy", "assign", "executor"}
Creating ==
  [plugin_version    |-> "version",
   plugin_descriptor |-> "plugin_descriptor",
   plugin            |-> "attr",
   action_descriptor |-> "action_descriptor",
   list              |-> "collection"]
Simple == {"version", "plugin_descriptor", "action_descriptor", "attr", "collection"}

LEMMA CreatesIs ==
  /\ Creates("version_create") = "version"
  /\ Creates("plugin_descriptor_create") = "plugin_descriptor"
  /\ Creates("action_descriptor_create") = "action_descriptor"
  /\ Creates("plugin_attr_create") = "attr"
  /\ Creates("action_collection_create") = "collection"
  /\ Creates("plugin_create") = "plugin"
  /\ Creates("action_deserialize") = "action"
  /\ \A f \in {"plugin_attr_on_action_add", "plugin_attr_on_action_mod",
               "plugin_attr_on_action_rm", "plugin_attr_persistence_path",
               "action_serialize", "action_execute_async", "plugin_configure_cli",
               "plugin_configure_gui", "action_execute", "plugin_actions",
               "action_collection_at"} : Creates(f) = "nothing"
BY Zenon DEF Creates

\* The first call of an operation creates what its local object destroys, if there is
\* such an object; plugin_create and action_deserialize are the last of theirs.
LEMMA CallTable ==
  ASSUME op \in DOMAIN Calls, pos \in 1..Len(Calls[op])
  PROVE  LET f == Calls[op][pos]
         IN  /\ pos = 1 /\ op \in DOMAIN Creating => Creates(f) = Creating[op]
             /\ Creates(f) = "plugin" <=> op = "plugin" /\ pos = 6
             /\ f = "plugin_create" <=> op = "plugin" /\ pos = 6
             /\ Creates(f) = "action" <=> op \in Deserializing /\ pos = Len(Calls[op])
             /\ ~(pos = 1 /\ op \in DOMAIN Creating) /\ Creates(f) \notin {"plugin", "action"}
                  => Creates(f) = "nothing"
             /\ op = "plugin" => Len(Calls[op]) = 6
<1> DEFINE f == Calls[op][pos]
<1>1. CASE op = "plugin"
  <2>1. Len(Calls[op]) = 6 /\ pos \in 1..6
    BY <1>1 DEF Calls, PluginCalls
  <2>2. /\ pos = 1 => f = "plugin_attr_create"
        /\ pos \in 2..5 => f \in {"plugin_attr_on_action_add", "plugin_attr_on_action_mod",
                                  "plugin_attr_on_action_rm", "plugin_attr_persistence_path"}
        /\ pos = 6 => f = "plugin_create"
    BY <1>1, <2>1 DEF Calls, PluginCalls
  <2> HIDE DEF f
  <2>3. Creating["plugin"] = "attr" /\ "plugin" \in DOMAIN Creating /\ "plugin" \notin Deserializing
    BY DEF Creating, Deserializing
  <2>4. pos = 1 \/ pos \in 2..5 \/ pos = 6
    BY <2>1
  <2> QED BY <1>1, <2>1, <2>2, <2>3, <2>4, CreatesIs DEF f
<1>2. CASE op \in {"copy", "assign", "executor"}
  <2>0. Calls[op] = CopyCalls
    BY <1>2 DEF Calls
  <2>1. Len(Calls[op]) = 3 /\ pos \in 1..3
    BY <2>0 DEF CopyCalls
  <2>2. (pos \in 1..2 => f = "action_serialize") /\ (pos = 3 => f = "action_deserialize")
    BY <2>0, <2>1 DEF CopyCalls
  <2> HIDE DEF f
  <2>3. op \notin DOMAIN Creating /\ op \in Deserializing /\ op # "plugin"
    BY <1>2 DEF Creating, Deserializing
  <2> QED BY <2>1, <2>2, <2>3, CreatesIs DEF f
<1>3. CASE op = "list"
  <2>1. Len(Calls[op]) = 3 /\ pos \in 1..3
    BY <1>3 DEF Calls
  <2>2. /\ pos = 1 => f = "action_collection_create"
        /\ pos \in 2..3 => f \in {"plugin_actions", "action_collection_at"}
    BY <1>3, <2>1 DEF Calls
  <2> HIDE DEF f
  <2>3. Creating[op] = "collection" /\ op \in DOMAIN Creating /\ op \notin Deserializing
    BY <1>3 DEF Creating, Deserializing
  <2> QED BY <1>3, <2>1, <2>2, <2>3, CreatesIs DEF f
<1>4. CASE op = "serialize"
  <2>1. Len(Calls[op]) = 2 /\ f = "action_serialize"
    BY <1>4 DEF Calls
  <2> HIDE DEF f
  <2>2. op \notin DOMAIN Creating /\ op \notin Deserializing
    BY <1>4 DEF Creating, Deserializing
  <2> QED BY <1>4, <2>1, <2>2, CreatesIs DEF f
<1>5. CASE op \in {"plugin_version", "plugin_descriptor", "action_descriptor"}
  <2>1. /\ Len(Calls[op]) = 1 /\ pos = 1
        /\ op = "plugin_version" => f = "version_create"
        /\ op = "plugin_descriptor" => f = "plugin_descriptor_create"
        /\ op = "action_descriptor" => f = "action_descriptor_create"
    BY <1>5 DEF Calls
  <2> HIDE DEF f
  <2>2. /\ op \in DOMAIN Creating /\ op \notin Deserializing
        /\ op = "plugin_version" => Creating[op] = "version"
        /\ op = "plugin_descriptor" => Creating[op] = "plugin_descriptor"
        /\ op = "action_descriptor" => Creating[op] = "action_descriptor"
    BY <1>5 DEF Creating, Deserializing
  <2> QED BY <1>5, <2>1, <2>2, CreatesIs DEF f
<1>6. CASE op \in {"from_text", "submit", "configure_cli", "configure_gui", "execute"}
  <2>1. /\ Len(Calls[op]) = 1 /\ pos = 1
        /\ op = "from_text" => f = "action_deserialize"
        /\ op # "from_text" => f \in {"action_execute_async", "plugin_configure_cli",
                                      "plugin_configure_gui", "action_execute"}
    BY <1>6 DEF Calls
  <2> HIDE DEF f
  <2>2. op \notin DOMAIN Creating /\ (op \in Deserializing <=> op = "from_text")
    BY <1>6 DEF Creating, Deserializing
  <2> QED BY <1>6, <2>1, <2>2, CreatesIs DEF f
<1> QED BY <1>1, <1>2, <1>3, <1>4, <1>5, <1>6 DEF Calls

At(s, k) == {i \in DOMAIN s : s[i] = k}

\* A first call that creates something leaves it to a local object; plugin_create
\* has its attributes moved on to it.
LEMMA Contents ==
  /\ \A k : At(<<>>, k) = {}
  /\ \A k, c : At(<<c>>, k) = IF k = c THEN {1} ELSE {}
  /\ \A k \in Simple \cup {"plugin", "action"} :
       At(Moved(Append(<<"attr">>, "free"), 1, 2), k) = IF k = "attr" THEN {2} ELSE {}
<1>1. \A k : At(<<>>, k) = {}
  BY DEF At
<1>2. \A k, c : At(<<c>>, k) = IF k = c THEN {1} ELSE {}
  BY DEF At
<1> DEFINE s == Moved(Append(<<"attr">>, "free"), 1, 2)
<1>3. DOMAIN s = 1..2 /\ s[1] = "null" /\ s[2] = "attr"
  BY DEF Moved
<1>4. \A k : At(s, k) = {i \in 1..2 : s[i] = k}
  BY <1>3 DEF At
<1> HIDE DEF s
<1>5. ASSUME NEW k \in Simple \cup {"plugin", "action"}
      PROVE  At(s, k) = IF k = "attr" THEN {2} ELSE {}
  BY <1>3, <1>4 DEF Simple
<1> QED BY <1>1, <1>2, <1>5 DEF s

\* Where an operation is, and what its local objects have.
Progress ==
  /\ live \in [Kinds -> Int]
  /\ op \in DOMAIN Calls \cup {"idle", "terminated", "hung", "crashed"}
  /\ op = "idle" => locals = <<>>
  /\ op \in DOMAIN Calls =>
       /\ pos \in 0..Len(Calls[op])
       /\ pos = 1 => locals = <<>>
       /\ pos > 1 => locals = IF op \in DOMAIN Creating THEN <<Creating[op]>> ELSE <<>>

\* Every handle but an action's or the plugin's is a local object's.
LocalsOwn ==
  /\ \A k \in Simple : live[k] = Cardinality(At(locals, k))
  /\ At(locals, "plugin") = {} /\ At(locals, "action") = {}

\* A call either obtains what a local object takes, or leaves the local objects as
\* they were, or moves the plugin's attributes.
LEMMA LocalsOfCall ==
  ASSUME Progress, NEW cause, Call(cause), op \in DOMAIN Calls, pos > 0
  PROVE  \/ /\ pos = 1 /\ op \in DOMAIN Creating /\ last'.code = NoError
            /\ locals' = <<Creating[op]>> /\ live' = Obtain(Creating[op])
         \/ /\ op = "plugin" /\ pos = 6 /\ pos' = 0 /\ op' = op
            /\ locals' = Moved(Append(<<"attr">>, "free"), 1, 2) /\ locals = <<"attr">>
            /\ live' = IF last'.code = NoError THEN Obtain("plugin") ELSE live
         \/ /\ locals' = locals /\ ~(op = "plugin" /\ pos = 6)
            /\ (pos = 1 /\ op \in DOMAIN Creating) => last'.code # NoError
            /\ live' = IF /\ last'.code = NoError
                          /\ op \in Deserializing /\ pos = Len(Calls[op])
                       THEN Obtain("action") ELSE live
<1> DEFINE f == Calls[op][pos]
<1>1. op \in DOMAIN Calls /\ pos \in 1..Len(Calls[op])
  BY DEF Progress
<1>2. /\ locals' = Locals(f, last'.code = NoError)
      /\ live' = IF last'.code = NoError THEN Obtain(Creates(f)) ELSE live
      /\ pos' = IF last'.code # NoError \/ pos = Len(Calls[op]) THEN 0 ELSE pos + 1
      /\ op' = IF op = "plugin_version" /\ last'.code # NoError THEN "terminated" ELSE op
  BY DEF Call
<1>3. /\ pos = 1 /\ op \in DOMAIN Creating => Creates(f) = Creating[op]
      /\ Creates(f) = "plugin" <=> op = "plugin" /\ pos = 6
      /\ f = "plugin_create" <=> op = "plugin" /\ pos = 6
      /\ Creates(f) = "action" <=> op \in Deserializing /\ pos = Len(Calls[op])
      /\ ~(pos = 1 /\ op \in DOMAIN Creating) /\ Creates(f) \notin {"plugin", "action"}
           => Creates(f) = "nothing"
      /\ op = "plugin" => Len(Calls[op]) = 6
  BY <1>1, CallTable
<1>4. Obtain("nothing") = live
  BY DEF Obtain
<1>5. \A o \in DOMAIN Creating : Creating[o] \in Simple
  BY DEF Creating, Simple
<1>6. /\ "nothing" \notin Simple /\ "action" \notin Simple /\ "plugin" \notin Simple
      /\ "plugin" \in DOMAIN Creating /\ Creating["plugin"] = "attr"
      /\ "plugin" \notin Deserializing /\ DOMAIN Creating \cap Deserializing = {}
  BY DEF Creating, Simple, Deserializing
<1> HIDE DEF f
<1>7. CASE op = "plugin" /\ pos = 6
  <2>1. locals = <<"attr">>
    BY <1>1, <1>6, <1>7 DEF Progress
  <2>2. locals' = Moved(Append(<<"attr">>, "free"), 1, 2)
    BY <1>2, <1>3, <1>7, <2>1 DEF Locals
  <2>3. pos' = 0 /\ op' = op
    BY <1>2, <1>3, <1>7
  <2>4. live' = IF last'.code = NoError THEN Obtain("plugin") ELSE live
    BY <1>2, <1>3, <1>7
  <2> QED BY <1>7, <2>1, <2>2, <2>3, <2>4
<1>8. CASE pos = 1 /\ op \in DOMAIN Creating /\ last'.code = NoError
  <2>1. Creates(f) = Creating[op] /\ Creating[op] \in Simple /\ f # "plugin_create"
    BY <1>3, <1>5, <1>8
  <2>2. locals = <<>>
    BY <1>1, <1>8 DEF Progress
  <2>3. locals' = Append(<<>>, Creating[op])
    BY <1>2, <1>6, <1>8, <2>1, <2>2 DEF Locals
  <2>4. live' = Obtain(Creating[op])
    BY <1>2, <1>8, <2>1
  <2>5. Append(<<>>, Creating[op]) = <<Creating[op]>>
    OBVIOUS
  <2> QED BY <1>8, <2>3, <2>4, <2>5
<1>9. CASE ~(op = "plugin" /\ pos = 6) /\ ~(pos = 1 /\ op \in DOMAIN Creating /\ last'.code = NoError)
  <2>1. locals' = locals
    BY <1>2, <1>3, <1>9 DEF Locals
  <2>2. live' = IF /\ last'.code = NoError
                   /\ op \in Deserializing /\ pos = Len(Calls[op])
                THEN Obtain("action") ELSE live
    BY <1>2, <1>3, <1>4, <1>9
  <2> QED BY <1>9, <2>1, <2>2
<1> QED BY <1>7, <1>8, <1>9

LEMMA LengthsPositive == \A o \in DOMAIN Calls : Len(Calls[o]) \in Nat /\ Len(Calls[o]) >= 1
<1>1. \A o \in {"copy", "assign", "executor"} : Calls[o] = CopyCalls
  BY DEF Calls
<1>2. Len(CopyCalls) = 3
  BY DEF CopyCalls
<1>3. Len(Calls["plugin"]) = 6
  BY DEF Calls, PluginCalls
<1>4. \A o \in DOMAIN Calls \ {"copy", "assign", "executor", "plugin"} :
        Len(Calls[o]) \in 1..3
  BY DEF Calls
<1>5. ASSUME NEW o \in DOMAIN Calls PROVE Len(Calls[o]) \in Nat /\ Len(Calls[o]) >= 1
  <2>1. CASE o \in {"copy", "assign", "executor"}
    <3>1. Calls[o] = CopyCalls
      BY <1>1, <2>1
    <3>2. Len(Calls[o]) = 3
      BY <1>2, <3>1
    <3> QED BY <3>2
  <2>2. CASE o = "plugin"
    BY <1>3, <2>2
  <2>3. CASE o \notin {"copy", "assign", "executor", "plugin"}
    <3>1. Len(Calls[o]) \in 1..3
      BY <1>4, <2>3
    <3>2. \A n \in 1..3 : n \in Nat /\ n >= 1
      OBVIOUS
    <3> QED BY <3>1, <3>2
  <2> QED BY <2>1, <2>2, <2>3
<1> QED BY <1>5

LEMMA KindsAre == Kinds = Simple \cup {"plugin", "action"} /\ Simple \cap {"plugin", "action"} = {}
BY DEF Kinds, Simple

\* When an operation is over its local objects have destroyed what they had.
LEMMA GivenBack ==
  ASSUME Progress, LocalsOwn
  PROVE  /\ GiveBack = [k \in Kinds |-> IF k \in Simple THEN 0 ELSE live[k]]
         /\ GiveBack \in [Kinds -> Int]
<1>1. \A k \in Simple : live[k] - Cardinality(At(locals, k)) = 0
  BY KindsAre DEF LocalsOwn, Progress
<1>2. \A k \in {"plugin", "action"} : live[k] - Cardinality(At(locals, k)) = live[k]
  <2>1. Cardinality(At(locals, "plugin")) = 0 /\ Cardinality(At(locals, "action")) = 0
    BY FS_EmptySet DEF LocalsOwn
  <2>2. live["plugin"] \in Int /\ live["action"] \in Int
    BY KindsAre DEF Progress
  <2>3. live["plugin"] - 0 = live["plugin"] /\ live["action"] - 0 = live["action"]
    BY <2>2
  <2> QED BY <2>1, <2>3
<1>3. GiveBack = [k \in Kinds |-> live[k] - Cardinality(At(locals, k))]
  BY DEF GiveBack, At
<1>4. \A k \in Kinds : live[k] \in Int
  BY DEF Progress
<1> QED BY <1>1, <1>2, <1>3, <1>4, KindsAre

LEMMA LocalsOwnEmpty == At(<<>>, "plugin") = {} /\ At(<<>>, "action") = {}
                          /\ \A k : Cardinality(At(<<>>, k)) = 0
BY Contents, FS_EmptySet

LEMMA HandlesInit == Init => Progress /\ LocalsOwn
<1> SUFFICES ASSUME Init PROVE Progress /\ LocalsOwn
  OBVIOUS
<1>1. live = [k \in Kinds |-> 0] /\ op = "idle" /\ locals = <<>>
  BY DEF Init
<1>2. "idle" \notin DOMAIN Calls
  BY DEF Calls
<1>3. Progress
  BY <1>1, <1>2 DEF Progress
<1>4. LocalsOwn
  BY <1>1, LocalsOwnEmpty, KindsAre DEF LocalsOwn
<1> QED BY <1>3, <1>4

\* The steps that change no operation leave the local objects and what they have.
Outside == \/ \E l \in Libraries : Load(l)
           \/ \E i \in Slots : Receive(i) \/ Destroy(i) \/ \E j \in Slots : Move(i, j)
           \/ DestroyExecutor

LEMMA OutsideChanges ==
  ASSUME Outside PROVE UNCHANGED opVars /\ op = "idle"
BY DEF Outside, Load, Receive, Destroy, Move, DestroyExecutor

LEMMA StepsAre ==
  ASSUME Next
  PROVE  \/ Outside
         \/ \E o \in DOMAIN Calls, i \in Slots : Begin(o, i)
         \/ op \in DOMAIN Calls /\ pos > 0 /\ \E cause : Call(cause)
         \/ End /\ (Fail \/ SubmitEnds \/ Succeed)
         \/ Quiet
BY DEF Next, InCall, Outside, Quiet, Fail, SubmitEnds, Succeed

LEMMA OutsideLive ==
  ASSUME Outside, Progress
  PROVE  live' \in [Kinds -> Int] /\ \A k \in Kinds \ {"action"} : live'[k] = live[k]
<1>1. "action" \in Kinds /\ live \in [Kinds -> Int]
  BY KindsAre DEF Progress
<1>2. CASE live' = live
  BY <1>1, <1>2
<1>3. CASE live' = [live EXCEPT !["action"] = @ + 1]
  BY <1>1, <1>3
<1>4. CASE live' = [live EXCEPT !["action"] = @ - 1]
  BY <1>1, <1>4
<1>5. live' = live \/ live' = [live EXCEPT !["action"] = @ + 1]
        \/ live' = [live EXCEPT !["action"] = @ - 1]
  <2>1. Obtain("action") = [live EXCEPT !["action"] = @ + 1]
    BY DEF Obtain
  <2> QED BY <2>1 DEF Outside, Load, Receive, Destroy, Move, DestroyExecutor, Release
<1> QED BY <1>2, <1>3, <1>4, <1>5

LEMMA ProgressStep ==
  ASSUME Progress, LocalsOwn, [Next]_vars PROVE Progress'
<1> USE DEF Progress
<1>0. {"idle", "terminated", "hung", "crashed"} \cap DOMAIN Calls = {}
  BY DEF Calls
<1>1. CASE UNCHANGED vars
  BY <1>1 DEF vars, opVars
<1>2. CASE Outside
  BY <1>2, OutsideLive, OutsideChanges DEF opVars
<1>3. ASSUME NEW o \in DOMAIN Calls, NEW i \in Slots, Begin(o, i) PROVE Progress'
  <2>1. op' = o /\ pos' = 1 /\ locals' = <<>> /\ live' = live
    BY <1>3 DEF Begin
  <2> QED BY <1>0, <2>1, LengthsPositive
<1>4. ASSUME NEW cause, Call(cause), op \in DOMAIN Calls, pos > 0 PROVE Progress'
  <2>1. /\ pos' = IF last'.code # NoError \/ pos = Len(Calls[op]) THEN 0 ELSE pos + 1
        /\ op' = IF op = "plugin_version" /\ last'.code # NoError THEN "terminated" ELSE op
    BY <1>4 DEF Call
  <2>2. pos \in 1..Len(Calls[op]) /\ Len(Calls[op]) \in Nat
    BY <1>4, LengthsPositive
  <2>3. pos' \in 0..Len(Calls[op]) /\ pos' # 1
    BY <2>1, <2>2
  <2>4. op' = op \/ op' = "terminated"
    BY <2>1
  <2>5. live' \in [Kinds -> Int]
    <3>1. live' = live \/ \E k : live' = [live EXCEPT ![k] = @ + 1]
      BY <1>4 DEF Call, Obtain
    <3> QED BY <3>1
  <2>6. ASSUME pos' > 1
        PROVE  locals' = IF op \in DOMAIN Creating THEN <<Creating[op]>> ELSE <<>>
    <3>1. last'.code = NoError
      BY <2>1, <2>2, <2>6
    <3>2. CASE locals' = <<Creating[op]>> /\ op \in DOMAIN Creating
      BY <3>2
    <3>3. CASE locals' = locals /\ ~(pos = 1 /\ op \in DOMAIN Creating)
      BY <1>4, <2>2, <3>3
    <3> QED BY <1>4, <2>6, <3>1, <3>2, <3>3, LocalsOfCall
  <2>7. op' = "terminated" => op' \notin DOMAIN Calls /\ op' # "idle"
    BY <1>0
  <2>8. CASE op' = "terminated"
    BY <2>5, <2>7, <2>8
  <2>9. CASE op' = op
    BY <1>0, <1>4, <2>3, <2>5, <2>6, <2>9
  <2> QED BY <2>4, <2>8, <2>9
<1>5. CASE End
  <2>1. op' = "idle" /\ locals' = <<>> /\ live' = GiveBack
    BY <1>5 DEF End
  <2> QED BY <1>0, <2>1, GivenBack
<1>6. CASE Quiet
  BY <1>0, <1>6, QuietIs
<1> QED BY <1>1, <1>2, <1>3, <1>4, <1>5, <1>6, StepsAre

LEMMA LocalsOwnStep ==
  ASSUME Progress, LocalsOwn, [Next]_vars PROVE LocalsOwn'
<1>1. CASE UNCHANGED vars
  BY <1>1 DEF vars, opVars, LocalsOwn
<1>2. CASE Outside
  BY <1>2, OutsideLive, OutsideChanges, KindsAre DEF opVars, LocalsOwn
<1>3. ASSUME NEW o \in DOMAIN Calls, NEW i \in Slots, Begin(o, i) PROVE LocalsOwn'
  <2>1. op = "idle" /\ locals' = <<>> /\ live' = live
    BY <1>3 DEF Begin
  <2>2. locals = <<>>
    BY <2>1 DEF Progress
  <2> QED BY <2>1, <2>2 DEF LocalsOwn
<1>4. ASSUME NEW cause, Call(cause), op \in DOMAIN Calls, pos > 0 PROVE LocalsOwn'
  <2>0. live \in [Kinds -> Int] /\ \A k : Cardinality(At(<<>>, k)) = 0
    BY LocalsOwnEmpty DEF Progress
  <2>1. CASE /\ pos = 1 /\ op \in DOMAIN Creating
             /\ locals' = <<Creating[op]>> /\ live' = Obtain(Creating[op])
    <3>1. Creating[op] \in Simple
      BY <2>1 DEF Creating, Simple
    <3>2. locals = <<>>
      BY <1>4, <2>1 DEF Progress
    <3>3. \A k \in Simple : live[k] = 0
      BY <2>0, <3>2 DEF LocalsOwn
    <3>4. \A k \in Simple : live'[k] = IF k = Creating[op] THEN 1 ELSE 0
      <4>1. Creating[op] # "nothing"
        BY <3>1 DEF Simple
      <4> DEFINE c == Creating[op]
      <4>2. live' = [live EXCEPT ![c] = @ + 1]
        BY <2>1, <4>1 DEF Obtain
      <4> HIDE DEF c
      <4> QED BY <2>0, <3>3, <4>2, KindsAre DEF c
    <3>5. \A k : At(locals', k) = IF k = Creating[op] THEN {1} ELSE {}
      BY <2>1, Contents
    <3>6. Cardinality({1}) = 1 /\ Cardinality({}) = 0
      BY FS_EmptySet, FS_Singleton
    <3>7. At(locals', "plugin") = {} /\ At(locals', "action") = {}
      BY <3>1, <3>5, KindsAre
    <3> QED BY <3>4, <3>5, <3>6, <3>7 DEF LocalsOwn
  <2>2. CASE /\ locals' = Moved(Append(<<"attr">>, "free"), 1, 2) /\ locals = <<"attr">>
             /\ live' = IF last'.code = NoError THEN Obtain("plugin") ELSE live
    <3>1. \A k \in Simple : live'[k] = live[k]
      BY <2>0, <2>2, KindsAre DEF Obtain
    <3>2. \A k : At(locals, k) = IF k = "attr" THEN {1} ELSE {}
      BY <2>2, Contents
    <3>3. \A k \in Simple \cup {"plugin", "action"} :
            At(locals', k) = IF k = "attr" THEN {2} ELSE {}
      BY <2>2, Contents
    <3>4. Cardinality({1}) = 1 /\ Cardinality({2}) = 1
      BY FS_Singleton
    <3>5. \A k \in Simple : Cardinality(At(locals', k)) = Cardinality(At(locals, k))
      BY <3>2, <3>3, <3>4
    <3>6. At(locals', "plugin") = {} /\ At(locals', "action") = {}
      BY <3>3
    <3> QED BY <3>1, <3>5, <3>6 DEF LocalsOwn
  <2>3. CASE locals' = locals /\ (live' = Obtain("action") \/ live' = live)
    <3>1. \A k \in Simple : live'[k] = live[k]
      BY <2>0, <2>3, KindsAre DEF Obtain
    <3> QED BY <2>3, <3>1 DEF LocalsOwn
  <2> QED BY <1>4, <2>1, <2>2, <2>3, LocalsOfCall
<1>5. CASE End
  <2>1. op' = "idle" /\ locals' = <<>> /\ live' = GiveBack
    BY <1>5 DEF End
  <2>2. \A k \in Simple : live'[k] = 0
    BY <2>1, GivenBack, KindsAre
  <2> QED BY <2>1, <2>2, LocalsOwnEmpty DEF LocalsOwn
<1>6. CASE Quiet
  BY <1>6, QuietIs DEF LocalsOwn
<1> QED BY <1>1, <1>2, <1>3, <1>4, <1>5, <1>6, StepsAre

-----------------------------------------------------------------------------
Ready(o) == op = o /\ pos = 0 /\ last.code = NoError

\* The plugin's handle is in a wrap::plugin or about to be.
PluginOwned ==
  /\ plugin \in BOOLEAN /\ (op = "plugin" => ~plugin)
  /\ live["plugin"] = IF plugin \/ Ready("plugin") THEN 1 ELSE 0

LEMMA PluginOwnedInit == Init => PluginOwned
<1>1. "plugin" \in Kinds
  BY KindsAre
<1> QED BY <1>1 DEF Init, PluginOwned, Ready

LEMMA PluginOwnedStep ==
  ASSUME Progress, LocalsOwn, PluginOwned, [Next]_vars PROVE PluginOwned'
<1>0. "plugin" \in Kinds /\ "plugin" \notin Simple \cup {"action"} /\ live \in [Kinds -> Int]
  BY KindsAre DEF Progress
<1>1. CASE UNCHANGED vars
  BY <1>1 DEF vars, hostVars, opVars, edVars, PluginOwned, Ready
<1>2. CASE Outside
  <2>1. op' = "idle" /\ op = "idle"
    BY <1>2, OutsideChanges DEF opVars
  <2>2. plugin' = plugin
    BY <1>2 DEF Outside, Load, Receive, Destroy, Move, DestroyExecutor
  <2>3. live'["plugin"] = live["plugin"]
    BY <1>0, <1>2, OutsideLive
  <2> QED BY <2>1, <2>2, <2>3 DEF PluginOwned, Ready
<1>3. ASSUME NEW o \in DOMAIN Calls, NEW i \in Slots, Begin(o, i) PROVE PluginOwned'
  <2>1. /\ op = "idle" /\ op' = o /\ pos' = 1 /\ live' = live /\ plugin' = plugin
        /\ o = "plugin" => ~plugin
    BY <1>3 DEF Begin, CanBegin, hostVars
  <2> QED BY <2>1 DEF PluginOwned, Ready
<1>4. ASSUME NEW cause, Call(cause), op \in DOMAIN Calls, pos > 0 PROVE PluginOwned'
  <2>1. /\ pos' = IF last'.code # NoError \/ pos = Len(Calls[op]) THEN 0 ELSE pos + 1
        /\ op' = IF op = "plugin_version" /\ last'.code # NoError THEN "terminated" ELSE op
        /\ plugin' = plugin
    BY <1>4 DEF Call
  <2>2. pos \in 1..Len(Calls[op]) /\ Len(Calls[op]) \in Nat
    BY <1>4, LengthsPositive DEF Progress
  <2>3. Len(Calls["plugin"]) = 6
    BY DEF Calls, PluginCalls
  <2>4. op' = "plugin" => op = "plugin"
    BY <2>1
  <2>5. live["plugin"] = IF plugin THEN 1 ELSE 0
    BY <1>4 DEF PluginOwned, Ready
  <2>6. CASE /\ op = "plugin" /\ pos = 6 /\ pos' = 0 /\ op' = op
             /\ live' = IF last'.code = NoError THEN Obtain("plugin") ELSE live
    <3>1. live'["plugin"] = IF last'.code = NoError THEN live["plugin"] + 1 ELSE live["plugin"]
      BY <1>0, <2>6 DEF Obtain
    <3>2. live["plugin"] = 0 /\ ~plugin
      BY <2>5, <2>6 DEF PluginOwned
    <3> QED BY <2>1, <2>6, <3>1, <3>2 DEF PluginOwned, Ready
  <2>7. CASE ~(op = "plugin" /\ pos = 6) /\ live'["plugin"] = live["plugin"]
    <3>1. ~(op' = "plugin" /\ pos' = 0 /\ last'.code = NoError)
      <4> SUFFICES ASSUME op' = "plugin", pos' = 0, last'.code = NoError PROVE FALSE
        OBVIOUS
      <4>1. pos + 1 # 0
        BY <2>2
      <4>2. pos = Len(Calls[op])
        BY <2>1, <4>1
      <4> QED BY <2>3, <2>4, <2>7, <4>2
    <3> QED BY <2>1, <2>4, <2>5, <2>7, <3>1 DEF PluginOwned, Ready
  <2>8. CASE /\ pos = 1 /\ op \in DOMAIN Creating /\ live' = Obtain(Creating[op])
    <3>1. Creating[op] \in Simple
      BY <2>8 DEF Creating, Simple
    <3>2. live'["plugin"] = live["plugin"]
      BY <1>0, <2>8, <3>1 DEF Obtain
    <3>3. ~(op = "plugin" /\ pos = 6)
      BY <2>8
    <3> QED BY <2>7, <3>2, <3>3
  <2>9. CASE ~(op = "plugin" /\ pos = 6) /\ (live' = Obtain("action") \/ live' = live)
    <3>1. live'["plugin"] = live["plugin"]
      BY <1>0, <2>9 DEF Obtain
    <3> QED BY <2>7, <2>9, <3>1
  <2> QED BY <1>4, <2>6, <2>8, <2>9, LocalsOfCall
<1>5. CASE End /\ (Fail \/ SubmitEnds \/ Succeed)
  <2>1. op' = "idle" /\ live' = GiveBack /\ pos = 0
    BY <1>5 DEF End
  <2>2. live'["plugin"] = live["plugin"]
    BY <1>0, <2>1, GivenBack
  <2>3. plugin' = (plugin \/ Ready("plugin"))
    <3>1. CASE Fail
      BY <3>1 DEF Fail, hostVars, Ready, PluginOwned
    <3>2. CASE SubmitEnds
      BY <3>2 DEF SubmitEnds, Ready, PluginOwned
    <3>3. CASE Succeed
      BY <2>1, <3>3 DEF Succeed, Ready
    <3> QED BY <1>5, <3>1, <3>2, <3>3
  <2>4. plugin' \in BOOLEAN
    BY <2>3
  <2>5. live'["plugin"] = IF plugin' THEN 1 ELSE 0
    BY <2>2, <2>3 DEF PluginOwned
  <2> QED BY <2>1, <2>4, <2>5 DEF PluginOwned, Ready
<1>6. CASE Quiet
  <2>1. Ready("plugin")' <=> Ready("plugin")
    BY <1>6, QuietIs DEF Ready, Calls
  <2>2. op' = "plugin" => op = "plugin"
    BY <1>6, QuietIs
  <2> QED BY <1>6, <2>1, <2>2, QuietIs DEF PluginOwned, hostVars
<1> QED BY <1>1, <1>2, <1>3, <1>4, <1>5, <1>6, StepsAre

\* There are at least as many action handles as objects that have one.
Holding == {i \in Slots : slot[i] = "action"}
InExec  == IF exec THEN 1 ELSE 0
InHand  == IF op \in Deserializing /\ Ready(op) THEN 1 ELSE 0

ActionsOwned ==
  /\ slot \in [Slots -> {"free", "action", "null"}]
  /\ exec \in BOOLEAN
  /\ live["action"] >= Cardinality(Holding) + InExec + InHand

LEMMA HoldingFinite == Holding \in SUBSET Slots /\ IsFiniteSet(Holding) /\ Cardinality(Holding) \in Nat
<1>0. IsFiniteSet(Slots)
  BY CallsAssumption
<1>1. Holding \in SUBSET Slots
  BY DEF Holding
<1>2. IsFiniteSet(Holding)
  BY <1>0, <1>1, FS_Subset
<1> QED BY <1>1, <1>2, FS_CardinalityType

LEMMA HoldingFiniteNext == IsFiniteSet(Holding') /\ Cardinality(Holding') \in Nat
<1>0. IsFiniteSet(Slots)
  BY CallsAssumption
<1>1. Holding' \in SUBSET Slots
  BY DEF Holding
<1>2. IsFiniteSet(Holding')
  BY <1>0, <1>1, FS_Subset
<1> QED BY <1>2, FS_CardinalityType

LEMMA InTypes == InExec \in {0, 1} /\ InHand \in {0, 1}
BY DEF InExec, InHand

LEMMA ActionsOwnedInit == Init => ActionsOwned
<1> SUFFICES ASSUME Init PROVE ActionsOwned
  OBVIOUS
<1>1. slot = [i \in Slots |-> "free"] /\ exec = FALSE /\ op = "idle" /\ live["action"] = 0
  BY KindsAre DEF Init
<1>2. Holding = {}
  BY <1>1 DEF Holding
<1>3. Cardinality(Holding) = 0
  BY <1>2, FS_EmptySet
<1>4. InExec = 0 /\ InHand = 0
  BY <1>1 DEF InExec, InHand, Deserializing
<1>5. live["action"] >= Cardinality(Holding) + InExec + InHand
  BY <1>1, <1>3, <1>4
<1> QED BY <1>1, <1>5 DEF ActionsOwned

\* Putting a handle into a place, or a null pointer.
LEMMA PutAction ==
  ASSUME ActionsOwned, NEW j \in Slots, slot' = [slot EXCEPT ![j] = "action"]
  PROVE  /\ Cardinality(Holding') \in Nat /\ Cardinality(Holding') <= Cardinality(Holding) + 1
         /\ slot' \in [Slots -> {"free", "action", "null"}]
<1>1. Holding' = Holding \cup {j}
  BY DEF ActionsOwned, Holding
<1>2. Cardinality(Holding') = Cardinality(Holding) \/ Cardinality(Holding') = Cardinality(Holding) + 1
  BY <1>1, HoldingFinite, FS_AddElement
<1>3. Cardinality(Holding) \in Nat
  BY HoldingFinite
<1> QED BY <1>2, <1>3 DEF ActionsOwned

LEMMA TakeAction ==
  ASSUME ActionsOwned, NEW i \in Slots, NEW v \in {"free", "null"}, slot' = [slot EXCEPT ![i] = v]
  PROVE  /\ Cardinality(Holding') \in Nat
         /\ Cardinality(Holding') = IF slot[i] = "action" THEN Cardinality(Holding) - 1
                                    ELSE Cardinality(Holding)
         /\ slot' \in [Slots -> {"free", "action", "null"}]
<1>1. Holding' = Holding \ {i}
  BY DEF ActionsOwned, Holding
<1>2. i \in Holding <=> slot[i] = "action"
  BY DEF Holding
<1>3. Cardinality(Holding') = IF slot[i] = "action" THEN Cardinality(Holding) - 1
                              ELSE Cardinality(Holding)
  BY <1>1, <1>2, HoldingFinite, FS_RemoveElement
<1>4. IsFiniteSet(Holding') /\ Cardinality(Holding') \in Nat
  BY <1>1, HoldingFinite, FS_RemoveElement, FS_CardinalityType
<1> QED BY <1>3, <1>4 DEF ActionsOwned

\* Moving a handle creates none.
LEMMA MoveAction ==
  ASSUME ActionsOwned, NEW i \in Slots, NEW j \in Slots, i # j, slot' = Moved(slot, i, j)
  PROVE  /\ Cardinality(Holding') \in Nat /\ Cardinality(Holding') <= Cardinality(Holding)
         /\ slot' \in [Slots -> {"free", "action", "null"}]
<1>0. /\ slot' \in [Slots -> {"free", "action", "null"}]
      /\ \A k \in Slots : slot'[k] = IF k = i THEN "null" ELSE IF k = j THEN slot[i] ELSE slot[k]
  BY DEF ActionsOwned, Moved
<1>1. CASE slot[i] = "action"
  <2>1. Holding' = (Holding \ {i}) \cup {j}
    BY <1>0, <1>1 DEF Holding
  <2>2. i \in Holding
    BY <1>1 DEF Holding
  <2>3. IsFiniteSet(Holding \ {i}) /\ Cardinality(Holding \ {i}) = Cardinality(Holding) - 1
    BY <2>2, HoldingFinite, FS_RemoveElement
  <2>4. /\ IsFiniteSet(Holding')
        /\ Cardinality(Holding') = Cardinality(Holding) - 1
             \/ Cardinality(Holding') = (Cardinality(Holding) - 1) + 1
    BY <2>1, <2>3, FS_AddElement
  <2>5. Cardinality(Holding') \in Nat /\ Cardinality(Holding) \in Nat
    BY <2>4, HoldingFinite, FS_CardinalityType
  <2> QED BY <1>0, <2>4, <2>5
<1>2. CASE slot[i] # "action"
  <2>1. Holding' \in SUBSET Holding
    BY <1>0, <1>2 DEF Holding
  <2>2. IsFiniteSet(Holding') /\ Cardinality(Holding') <= Cardinality(Holding)
    BY <2>1, HoldingFinite, FS_Subset
  <2> QED BY <1>0, <2>2, FS_CardinalityType
<1> QED BY <1>1, <1>2

LEMMA ActionsOwnedOutside ==
  ASSUME Progress, ActionsOwned, Outside PROVE ActionsOwned'
<1> DEFINE H == Cardinality(Holding)
           L == live["action"]
<1>1. op = "idle" /\ op' = "idle"
  BY OutsideChanges DEF opVars
<1>2. InHand = 0 /\ InHand' = 0
  BY <1>1 DEF InHand, Deserializing
<1>3. H \in Nat /\ InExec \in {0, 1} /\ L \in Int /\ L >= H + InExec
  BY <1>2, HoldingFinite, InTypes, KindsAre DEF Progress, ActionsOwned
<1>4. /\ "action" \in Kinds /\ live \in [Kinds -> Int]
      /\ Obtain("action")["action"] = L + 1
      /\ [live EXCEPT !["action"] = @ - 1]["action"] = L - 1
  BY KindsAre DEF Progress, Obtain
<1>5. SUFFICES /\ slot' \in [Slots -> {"free", "action", "null"}] /\ exec' \in BOOLEAN
               /\ L' >= H' + InExec'
  <2>1. H' \in Nat /\ InExec' \in {0, 1}
    BY HoldingFiniteNext DEF InExec
  <2> HIDE DEF H, L
  <2>2. ASSUME L' >= H' + InExec' PROVE L' >= H' + InExec' + InHand'
    BY <1>2, <2>1, <2>2
  <2> QED BY <2>2 DEF ActionsOwned, H, L
<1>6. exec' = exec => InExec' = InExec
  BY DEF InExec
<1>7. slot' = slot => H' = H
  BY DEF Holding
<1> HIDE DEF H, L
<1>8. ASSUME NEW l \in Libraries, Load(l)
      PROVE  slot' = slot /\ exec' = exec /\ L' = L
  BY <1>8 DEF Load, L
<1>9. ASSUME NEW i \in Slots, Receive(i)
      PROVE  /\ slot' \in [Slots -> {"free", "action", "null"}] /\ exec' \in BOOLEAN
             /\ L' >= H' + InExec'
  <2>1. exec' = exec /\ L' = L + 1 /\ slot' = [slot EXCEPT ![i] = "action"]
    BY <1>4, <1>9 DEF Receive, L
  <2>2. H' \in Nat /\ H' <= H + 1 /\ slot' \in [Slots -> {"free", "action", "null"}]
    BY <2>1, PutAction DEF H
  <2>3. L' >= H' + InExec'
    <3>1. InExec' = InExec
      BY <1>6, <2>1
    <3>2. ASSUME NEW h \in Nat, h <= H + 1 PROVE L + 1 >= h + InExec
      BY <1>3, <3>2
    <3> QED BY <2>1, <2>2, <3>1, <3>2
  <2> QED BY <2>1, <2>2, <2>3 DEF ActionsOwned
<1>10. ASSUME NEW i \in Slots, Destroy(i)
       PROVE  /\ slot' \in [Slots -> {"free", "action", "null"}] /\ exec' \in BOOLEAN
              /\ L' >= H' + InExec'
  <2>1. /\ exec' = exec /\ slot' = [slot EXCEPT ![i] = "free"]
        /\ L' = IF slot[i] = "action" THEN L - 1 ELSE L
    BY <1>4, <1>10 DEF Destroy, Release, L
  <2>2. /\ H' \in Nat /\ slot' \in [Slots -> {"free", "action", "null"}]
        /\ H' = IF slot[i] = "action" THEN H - 1 ELSE H
    BY <2>1, TakeAction DEF H
  <2>3. CASE slot[i] = "action"
    <3>1. L' = L - 1 /\ H' = H - 1
      BY <2>1, <2>2, <2>3
    <3>2. L' >= H' + InExec'
      BY <1>3, <1>6, <2>1, <3>1
    <3> QED BY <2>1, <2>2, <3>2 DEF ActionsOwned
  <2>4. CASE slot[i] # "action"
    <3>1. L' = L /\ H' = H
      BY <2>1, <2>2, <2>4
    <3>2. L' >= H' + InExec'
      BY <1>3, <1>6, <2>1, <3>1
    <3> QED BY <2>1, <2>2, <3>2 DEF ActionsOwned
  <2> QED BY <2>3, <2>4
<1>11. ASSUME NEW i \in Slots, NEW j \in Slots, Move(i, j)
       PROVE  /\ slot' \in [Slots -> {"free", "action", "null"}] /\ exec' \in BOOLEAN
              /\ L' >= H' + InExec'
  <2>1. exec' = exec /\ L' = L /\ slot' = Moved(slot, i, j) /\ i # j
    BY <1>11 DEF Move, L
  <2>2. H' \in Nat /\ H' <= H /\ slot' \in [Slots -> {"free", "action", "null"}]
    BY <2>1, MoveAction DEF H
  <2>3. L' >= H' + InExec'
    <3>1. InExec' = InExec
      BY <1>6, <2>1
    <3>2. ASSUME NEW h \in Nat, h <= H PROVE L >= h + InExec
      BY <1>3, <3>2
    <3> QED BY <2>1, <2>2, <3>1, <3>2
  <2> QED BY <2>1, <2>2, <2>3 DEF ActionsOwned
<1>12. ASSUME DestroyExecutor
       PROVE  /\ slot' \in [Slots -> {"free", "action", "null"}] /\ exec' \in BOOLEAN
              /\ L' >= H' + InExec'
  <2>1. exec /\ exec' = FALSE /\ L' = L - 1 /\ slot' = slot
    BY <1>4, <1>12 DEF DestroyExecutor, Release, L
  <2>2. InExec = 1 /\ InExec' = 0
    BY <2>1 DEF InExec
  <2>3. L' >= H' + InExec'
    BY <1>3, <1>7, <2>1, <2>2
  <2> QED BY <2>1, <2>3 DEF ActionsOwned
<1>13. CASE slot' = slot /\ exec' = exec /\ L' = L
  <2>1. L' >= H' + InExec'
    BY <1>3, <1>6, <1>7, <1>13
  <2> QED BY <1>13, <2>1 DEF ActionsOwned
<1> QED BY <1>8, <1>9, <1>10, <1>11, <1>12, <1>13 DEF Outside

LEMMA ExecStays == exec' = exec => InExec' = InExec
BY DEF InExec

LEMMA ActionsOwnedCall ==
  ASSUME Progress, ActionsOwned, NEW cause, Call(cause), op \in DOMAIN Calls, pos > 0
  PROVE  ActionsOwned'
<1> DEFINE H == Cardinality(Holding)
           L == live["action"]
<1>0. slot' = slot /\ exec' = exec
  BY DEF Call
<1>1. H' = H /\ InExec' = InExec
  BY <1>0 DEF Holding, InExec
<1>2. InHand = 0
  BY DEF InHand, Ready
<1>3. H \in Nat /\ InExec \in {0, 1} /\ L \in Int /\ L >= H + InExec
  BY <1>2, HoldingFinite, InTypes, KindsAre DEF Progress, ActionsOwned
<1>4. /\ pos' = IF last'.code # NoError \/ pos = Len(Calls[op]) THEN 0 ELSE pos + 1
      /\ op' = IF op = "plugin_version" /\ last'.code # NoError THEN "terminated" ELSE op
  BY DEF Call
<1>5. pos \in 1..Len(Calls[op]) /\ Len(Calls[op]) \in Nat
  BY LengthsPositive DEF Progress
<1>6. "action" \in Kinds /\ "action" \notin Simple \cup {"plugin"} /\ live \in [Kinds -> Int]
  BY KindsAre DEF Progress
<1>7. InHand' = 1 => op \in Deserializing /\ last'.code = NoError /\ pos = Len(Calls[op])
  <2> SUFFICES ASSUME op' \in Deserializing, pos' = 0, last'.code = NoError
               PROVE  op \in Deserializing /\ last'.code = NoError /\ pos = Len(Calls[op])
    BY DEF InHand, Ready
  <2>1. pos + 1 # 0
    BY <1>5
  <2>2. "terminated" \notin Deserializing
    BY DEF Deserializing
  <2> QED BY <1>4, <2>1, <2>2
<1>8. InHand' \in {0, 1}
  BY DEF InHand
<1>9. L' = L \/ L' = L + 1
  BY <1>6 DEF Call, Obtain
<1>10. InHand' = 1 => L' = L + 1
  <2>1. ASSUME op \in Deserializing, last'.code = NoError, pos = Len(Calls[op])
        PROVE  live' = Obtain("action")
    <3>1. op \notin DOMAIN Creating /\ op # "plugin"
      BY <2>1 DEF Creating, Deserializing
    <3> QED BY <2>1, <3>1, LocalsOfCall
  <2>2. Obtain("action")["action"] = L + 1
    BY <1>6 DEF Obtain
  <2> QED BY <1>7, <2>1, <2>2
<1> HIDE DEF H, L
<1>11. L' >= H' + InExec' + InHand'
  <2>1. CASE InHand' = 0
    BY <1>1, <1>3, <1>9, <2>1
  <2>2. CASE InHand' = 1
    BY <1>1, <1>3, <1>10, <2>2
  <2> QED BY <1>8, <2>1, <2>2
<1> QED BY <1>0, <1>11 DEF ActionsOwned, H, L

LEMMA ActionsOwnedEnd ==
  ASSUME Progress, LocalsOwn, ActionsOwned, End, Fail \/ SubmitEnds \/ Succeed
  PROVE  ActionsOwned'
<1> DEFINE H == Cardinality(Holding)
           L == live["action"]
<1>1. op' = "idle" /\ live' = GiveBack /\ pos = 0
  BY DEF End
<1>2. InHand' = 0
  BY <1>1 DEF InHand, Deserializing
<1>3. L' = L
  BY <1>1, GivenBack, KindsAre
<1>4. H \in Nat /\ InExec \in {0, 1} /\ InHand \in {0, 1} /\ L \in Int
        /\ L >= H + InExec + InHand
  BY HoldingFinite, InTypes, KindsAre DEF Progress, ActionsOwned
<1>5. H' \in Nat /\ InExec' \in {0, 1}
  BY HoldingFiniteNext DEF InExec
<1>6. slot' = slot => H' = H
  BY DEF Holding
<1>7. ASSUME op \in Deserializing, Succeed PROVE InHand = 1
  BY <1>1, <1>7 DEF InHand, Ready, Succeed
<1>8. CASE slot' = slot /\ exec' = exec
  <2> HIDE DEF H, L
  <2>1. H' = H /\ InExec' = InExec
    BY <1>6, <1>8, ExecStays
  <2>2. L' >= H' + InExec' + InHand'
    BY <1>2, <1>3, <1>4, <2>1
  <2> QED BY <1>8, <2>2 DEF ActionsOwned, H, L
<1>9. CASE Succeed /\ op = "executor"
  <2>1. slot' = slot /\ exec' \in BOOLEAN
    BY <1>9 DEF Succeed
  <2>2. InHand = 1
    BY <1>7, <1>9 DEF Deserializing
  <2>3. H' = H
    BY <1>6, <2>1
  <2> HIDE DEF H, L
  <2>4. L' >= H' + InExec' + InHand'
    <3>1. L >= H + 1
      BY <1>4, <2>2
    <3>2. H' + InExec' + InHand' = H + InExec'
      BY <1>2, <1>4, <1>5, <2>3
    <3>3. ASSUME NEW e \in Int, e = 0 \/ e = 1 PROVE L >= H + e
      BY <1>4, <3>1, <3>3
    <3>4. L >= H + InExec'
      BY <1>5, <3>3
    <3> QED BY <1>3, <3>2, <3>4
  <2> QED BY <2>1, <2>4 DEF ActionsOwned, H, L
<1>10. CASE Succeed /\ op \in {"from_text", "copy", "assign"}
  <2>1. PICK j \in Slots : slot' = [slot EXCEPT ![j] = "action"]
    BY <1>10 DEF Succeed
  <2>2. exec' = exec
    BY <1>10 DEF Succeed, ActionsOwned
  <2>3. InExec' = InExec
    BY <2>2, ExecStays
  <2>4. InHand = 1
    BY <1>7, <1>10 DEF Deserializing
  <2>5. H' <= H + 1 /\ slot' \in [Slots -> {"free", "action", "null"}]
    BY <2>1, PutAction
  <2> HIDE DEF H, L
  <2>6. L' >= H' + InExec' + InHand'
    <3>1. L >= H + InExec + 1
      BY <1>4, <2>4
    <3>2. H' + InExec' + InHand' = H' + InExec
      BY <1>2, <1>4, <1>5, <2>3
    <3>3. ASSUME NEW h \in Nat, h <= H + 1 PROVE L >= h + InExec
      BY <1>4, <3>1, <3>3
    <3>4. L >= H' + InExec
      BY <1>5, <2>5, <3>3
    <3> QED BY <1>3, <3>2, <3>4
  <2>7. exec' \in BOOLEAN
    BY <2>2 DEF ActionsOwned
  <2> QED BY <2>5, <2>6, <2>7 DEF ActionsOwned, H, L
<1>11. CASE Succeed /\ op \notin {"executor", "from_text", "copy", "assign"}
  <2>1. slot' = slot
    BY <1>11 DEF Succeed
  <2>2. exec' = exec
    BY <1>11 DEF Succeed, ActionsOwned
  <2> QED BY <1>8, <2>1, <2>2
<1>12. CASE Fail \/ SubmitEnds
  BY <1>8, <1>12 DEF Fail, SubmitEnds, hostVars
<1> QED BY <1>9, <1>10, <1>11, <1>12

LEMMA ActionsOwnedStep ==
  ASSUME Progress, LocalsOwn, ActionsOwned, [Next]_vars PROVE ActionsOwned'
<1>1. CASE UNCHANGED vars
  BY <1>1 DEF vars, hostVars, opVars, edVars, ActionsOwned, Holding, InExec, InHand, Ready
<1>2. ASSUME NEW o \in DOMAIN Calls, NEW i \in Slots, Begin(o, i) PROVE ActionsOwned'
  <2>1. op = "idle" /\ pos' = 1 /\ live' = live /\ slot' = slot /\ exec' = exec
    BY <1>2 DEF Begin, hostVars
  <2>2. Cardinality(Holding') = Cardinality(Holding) /\ InExec' = InExec
    BY <2>1 DEF Holding, InExec
  <2>3. InHand = 0 /\ InHand' = 0
    BY <2>1 DEF InHand, Ready, Deserializing
  <2> QED BY <2>1, <2>2, <2>3 DEF ActionsOwned
<1>3. CASE Quiet
  <2>1. slot' = slot /\ exec' = exec /\ live' = live
    BY <1>3, QuietIs DEF hostVars
  <2>2. Deserializing \subseteq DOMAIN Calls
    BY DEF Deserializing, Calls
  <2>3. InHand' = InHand
    BY <1>3, <2>2, QuietIs DEF InHand, Ready, Deserializing
  <2> QED BY <2>1, <2>3 DEF ActionsOwned, Holding, InExec
<1> QED BY <1>1, <1>2, <1>3, StepsAre, ActionsOwnedOutside, ActionsOwnedCall, ActionsOwnedEnd

\* Between two operations no handle of a local object is left, whichever call failed;
\* the plugin has one handle, and every object with an action has its own.
THEOREM HandlesBalance == Spec => []HandlesOwnedOnce
<1> DEFINE IInv == Progress /\ LocalsOwn /\ PluginOwned /\ ActionsOwned
<1>1. Init => IInv
  BY HandlesInit, PluginOwnedInit, ActionsOwnedInit
<1>2. IInv /\ [Next]_vars => IInv'
  BY ProgressStep, LocalsOwnStep, PluginOwnedStep, ActionsOwnedStep
<1>3. IInv => HandlesOwnedOnce
  <2> SUFFICES ASSUME IInv, op = "idle" PROVE
        /\ \A k \in Kinds \ {"action", "plugin"} : live[k] = 0
        /\ live["plugin"] = IF plugin THEN 1 ELSE 0
        /\ live["action"] >=
             Cardinality({i \in Slots : slot[i] = "action"}) + IF exec THEN 1 ELSE 0
    BY DEF HandlesOwnedOnce
  <2>1. \A k \in Simple : live[k] = 0
    BY LocalsOwnEmpty DEF Progress, LocalsOwn
  <2>2. live["plugin"] = IF plugin THEN 1 ELSE 0
    BY DEF PluginOwned, Ready
  <2>3. InHand = 0 /\ InExec \in {0, 1} /\ Cardinality(Holding) \in Nat
    BY HoldingFinite, InTypes DEF InHand, Deserializing
  <2>4. Cardinality(Holding) + InExec + InHand = Cardinality(Holding) + InExec
    BY <2>3
  <2>5. live["action"] >= Cardinality(Holding) + InExec
    BY <2>4 DEF ActionsOwned
  <2> QED BY <2>1, <2>2, <2>5, KindsAre DEF Holding, InExec
<1> HIDE DEF IInv
<1> QED BY <1>1, <1>2, <1>3, PTL DEF Spec

-----------------------------------------------------------------------------
(***************************************************************************)
(* What an exception becomes: the first clause that matches, its status,   *)
(* and the code of that.                                                   *)
(***************************************************************************)
Exceptions == {"action_does_not_exist", "execution_exception", "bad_alloc", "system_error"}

\* A set of at most five clauses has a first one.
LEMMA FirstOfFive ==
  ASSUME NEW S \in SUBSET (1..5), S # {}
  PROVE  \E i \in S : \A j \in S : i <= j
<1>1. CASE 1 \in S
  BY <1>1
<1>2. CASE 1 \notin S /\ 2 \in S
  BY <1>2
<1>3. CASE 1 \notin S /\ 2 \notin S /\ 3 \in S
  BY <1>3
<1>4. CASE 1 \notin S /\ 2 \notin S /\ 3 \notin S /\ 4 \in S
  BY <1>4
<1>5. CASE 1 \notin S /\ 2 \notin S /\ 3 \notin S /\ 4 \notin S
  <2>1. \A k \in 1..5 : k = 1 \/ k = 2 \/ k = 3 \/ k = 4 \/ k = 5
    OBVIOUS
  <2>2. \A k \in S : k = 5
    BY <1>5, <2>1
  <2>3. 5 \in S /\ 5 <= 5
    <3>1. PICK k \in S : TRUE
      OBVIOUS
    <3> QED BY <2>2, <3>1
  <2> QED BY <2>2, <2>3
<1> QED BY <1>1, <1>2, <1>3, <1>4, <1>5

Matches(f, e, i) == Clauses(f)[i][1] \in Is(e) \cup {"any"}

\* Where the last clause catches everything, the first that matches is taken.
LEMMA CatchTakesFirst ==
  ASSUME NEW f, NEW e, NEW n \in 1..5, DOMAIN Clauses(f) = 1..n, Matches(f, e, n)
  PROVE  \E i \in 1..n : /\ Catch(f, e) = Clauses(f)[i]
                         /\ Matches(f, e, i)
                         /\ \A j \in 1..n : Matches(f, e, j) => i <= j
<1> DEFINE matching == {i \in DOMAIN Clauses(f) : Clauses(f)[i][1] \in Is(e) \cup {"any"}}
           i == CHOOSE i \in matching : \A j \in matching : i <= j
<1>1. matching = {j \in 1..n : Matches(f, e, j)}
  BY DEF Matches
<1>2. matching \in SUBSET (1..5) /\ matching # {}
  BY <1>1
<1>3. Catch(f, e) = Clauses(f)[i]
  BY DEF Catch
<1> HIDE DEF matching
<1>4. \E j \in matching : \A k \in matching : j <= k
  BY <1>2, FirstOfFive
<1>5. i \in matching /\ \A j \in matching : i <= j
  BY <1>4
<1> QED BY <1>1, <1>3, <1>5

LEMMA TwoMore ==
  ASSUME NEW S, NEW s \in Seq(S), NEW c \in S, NEW d \in S
  PROVE  /\ s \o <<c, d>> \in Seq(S) /\ Len(s \o <<c, d>>) = Len(s) + 2
         /\ \A i \in 1..Len(s) : (s \o <<c, d>>)[i] = s[i]
         /\ (s \o <<c, d>>)[Len(s) + 1] = c /\ (s \o <<c, d>>)[Len(s) + 2] = d
<1>1. <<c, d>> \in Seq(S) /\ Len(<<c, d>>) = 2 /\ Len(s) \in Nat
  OBVIOUS
<1>2. \A i \in 1..(Len(s) + 2) :
        (s \o <<c, d>>)[i] = IF i <= Len(s) THEN s[i] ELSE <<c, d>>[i - Len(s)]
  BY <1>1, ConcatProperties
<1>3. s \o <<c, d>> \in Seq(S) /\ Len(s \o <<c, d>>) = Len(s) + 2
  BY <1>1, ConcatProperties
<1>4. (Len(s) + 1) - Len(s) = 1 /\ (Len(s) + 2) - Len(s) = 2
  BY <1>1
<1> QED BY <1>1, <1>2, <1>3, <1>4

\* One, two or three clauses and then the two that are the same for all.
LEMMA OtherwiseIs ==
  ASSUME NEW a, NEW b, NEW c, NEW status
  PROVE  LET any == Told("exception", status)
             unknown == Silent("any", "UNKNOWN")
         IN  /\ <<a>> \o Otherwise(status) = <<a, any, unknown>>
             /\ <<a, b>> \o Otherwise(status) = <<a, b, any, unknown>>
             /\ <<a, b, c>> \o Otherwise(status) = <<a, b, c, any, unknown>>
<1> DEFINE y == Told("exception", status)
           z == Silent("any", "UNKNOWN")
           S == {a, b, c, y, z}
<1>1. Otherwise(status) = <<y, z>>
  BY DEF Otherwise
<1> HIDE DEF y, z
<1>2. /\ <<a>> \in Seq(S) /\ <<a, b>> \in Seq(S) /\ <<a, b, c>> \in Seq(S)
      /\ <<a, y, z>> \in Seq(S) /\ <<a, b, y, z>> \in Seq(S) /\ <<a, b, c, y, z>> \in Seq(S)
      /\ y \in S /\ z \in S
  OBVIOUS
<1> HIDE DEF S
<1>3. <<a>> \o <<y, z>> = <<a, y, z>>
  <2>1. Len(<<a>>) = 1 /\ Len(<<a, y, z>>) = 3
    OBVIOUS
  <2>2. /\ <<a>> \o <<y, z>> \in Seq(S) /\ Len(<<a>> \o <<y, z>>) = 3
        /\ (<<a>> \o <<y, z>>)[1] = a /\ (<<a>> \o <<y, z>>)[2] = y
        /\ (<<a>> \o <<y, z>>)[3] = z
    BY <1>2, <2>1, TwoMore
  <2>3. \A i \in 1..3 : (<<a>> \o <<y, z>>)[i] = <<a, y, z>>[i]
    BY <2>2
  <2> QED BY <1>2, <2>1, <2>2, <2>3, SeqEqual
<1>4. <<a, b>> \o <<y, z>> = <<a, b, y, z>>
  <2>1. Len(<<a, b>>) = 2 /\ Len(<<a, b, y, z>>) = 4
    OBVIOUS
  <2>2. /\ <<a, b>> \o <<y, z>> \in Seq(S) /\ Len(<<a, b>> \o <<y, z>>) = 4
        /\ (<<a, b>> \o <<y, z>>)[1] = a /\ (<<a, b>> \o <<y, z>>)[2] = b
        /\ (<<a, b>> \o <<y, z>>)[3] = y /\ (<<a, b>> \o <<y, z>>)[4] = z
    BY <1>2, <2>1, TwoMore
  <2>3. \A i \in 1..4 : (<<a, b>> \o <<y, z>>)[i] = <<a, b, y, z>>[i]
    BY <2>2
  <2> QED BY <1>2, <2>1, <2>2, <2>3, SeqEqual
<1>5. <<a, b, c>> \o <<y, z>> = <<a, b, c, y, z>>
  <2>1. Len(<<a, b, c>>) = 3 /\ Len(<<a, b, c, y, z>>) = 5
    OBVIOUS
  <2>2. /\ <<a, b, c>> \o <<y, z>> \in Seq(S) /\ Len(<<a, b, c>> \o <<y, z>>) = 5
        /\ (<<a, b, c>> \o <<y, z>>)[1] = a /\ (<<a, b, c>> \o <<y, z>>)[2] = b
        /\ (<<a, b, c>> \o <<y, z>>)[3] = c /\ (<<a, b, c>> \o <<y, z>>)[4] = y
        /\ (<<a, b, c>> \o <<y, z>>)[5] = z
    BY <1>2, <2>1, TwoMore
  <2>3. \A i \in 1..5 : (<<a, b, c>> \o <<y, z>>)[i] = <<a, b, c, y, z>>[i]
    BY <2>2
  <2> QED BY <1>2, <2>1, <2>2, <2>3, SeqEqual
<1> QED BY <1>1, <1>3, <1>4, <1>5 DEF y, z

\* The clauses of the four kinds of function, in order.
LEMMA ClausesAre ==
  ASSUME NEW f
  PROVE  /\ f = "plugin_create" => Clauses(f) =
              <<Told("invalid_path", "ERROR_PERSISTENCE_PATH"), AllocError,
                Told("exception", "ERROR_PLUGIN"), Silent("any", "UNKNOWN")>>
         /\ f = "plugin_actions" => Clauses(f) =
              <<AllocError, Told("exception", "ERROR_PLUGIN"), Silent("any", "UNKNOWN")>>
         /\ f = "plugin_configure_cli" => Clauses(f) =
              <<AllocError, Told("logic_error", "ERROR_FATAL"),
                Told("system_error", "ERROR_SYSTEM"), Told("exception", "ERROR_PLUGIN"),
                Silent("any", "UNKNOWN")>>
         /\ f \in {"plugin_attr_on_action_mod", "plugin_attr_on_action_add"} => Clauses(f) =
              <<Told("exception", "ERROR_PLUGIN"), Silent("any", "UNKNOWN")>>
         /\ f \in {"plugin_attr_on_action_rm", "plugin_attr_persistence_path"} => Clauses(f) =
              <<AllocError, Told("exception", "ERROR_PLUGIN"), Silent("any", "UNKNOWN")>>
         /\ f = "action_descriptor_create" => Clauses(f) =
              <<NoEnt, AllocError, Told("exception", "ERROR_ACTION_OTHER"),
                Silent("any", "UNKNOWN")>>
         /\ f \in {"action_execute", "action_execute_async"} => Clauses(f) =
              <<NoEnt, Told("action_error", "ERROR_ACTION_EXEC"),
                Told("exception", "ERROR_ACTION_OTHER"), Silent("any", "UNKNOWN")>>
         /\ f \notin {"plugin_create", "plugin_actions", "plugin_configure_cli",
                      "plugin_attr_on_action_mod", "plugin_attr_on_action_add",
                      "plugin_attr_on_action_rm", "plugin_attr_persistence_path",
                      "action_descriptor_create", "action_execute",
                      "action_execute_async"} => Clauses(f) = OnlyAlloc
<1>1. CASE f = "plugin_create"
  <2>1. Clauses(f) = <<Told("invalid_path", "ERROR_PERSISTENCE_PATH"), AllocError>>
                       \o Otherwise("ERROR_PLUGIN")
    BY <1>1, Zenon DEF Clauses, PluginClauses
  <2> QED BY <1>1, <2>1, OtherwiseIs
<1>2. CASE f = "plugin_actions"
  <2>1. Clauses(f) = <<AllocError>> \o Otherwise("ERROR_PLUGIN")
    BY <1>2, Zenon DEF Clauses, PluginClauses
  <2> QED BY <1>2, <2>1, OtherwiseIs
<1>3. CASE f = "plugin_configure_cli"
  <2>1. Clauses(f) = ConfigureClauses
    BY <1>3, Zenon DEF Clauses
  <2>2. ConfigureClauses =
          <<AllocError, Told("logic_error", "ERROR_FATAL"), Told("system_error", "ERROR_SYSTEM"),
            Told("exception", "ERROR_PLUGIN"), Silent("any", "UNKNOWN")>>
    BY OtherwiseIs DEF ConfigureClauses
  <2> QED BY <1>3, <2>1, <2>2
<1>4. CASE f \in {"plugin_attr_on_action_mod", "plugin_attr_on_action_add"}
  <2>1. Clauses(f) = AttrClauses(f)
    BY <1>4, Zenon DEF Clauses
  <2>2. AttrClauses(f) = Otherwise("ERROR_PLUGIN")
    BY <1>4 DEF AttrClauses
  <2> QED BY <1>4, <2>1, <2>2 DEF Otherwise
<1>5. CASE f \in {"plugin_attr_on_action_rm", "plugin_attr_persistence_path"}
  <2>1. Clauses(f) = AttrClauses(f)
    BY <1>5, Zenon DEF Clauses
  <2>2. AttrClauses(f) = <<AllocError>> \o Otherwise("ERROR_PLUGIN")
    BY <1>5 DEF AttrClauses
  <2> QED BY <1>5, <2>1, <2>2, OtherwiseIs
<1>6. CASE f = "action_descriptor_create"
  <2>1. Clauses(f) = ActionClauses(f)
    BY <1>6, Zenon DEF Clauses
  <2>2. ActionClauses(f) = <<NoEnt, AllocError>> \o Otherwise("ERROR_ACTION_OTHER")
    BY <1>6 DEF ActionClauses
  <2> QED BY <1>6, <2>1, <2>2, OtherwiseIs
<1>7. CASE f \in {"action_execute", "action_execute_async"}
  <2>1. Clauses(f) = ActionClauses(f)
    BY <1>7, Zenon DEF Clauses
  <2>2. ActionClauses(f) = <<NoEnt, Told("action_error", "ERROR_ACTION_EXEC")>>
                             \o Otherwise("ERROR_ACTION_OTHER")
    BY <1>7 DEF ActionClauses
  <2> QED BY <1>7, <2>1, <2>2, OtherwiseIs
<1>8. CASE f \notin {"plugin_create", "plugin_actions", "plugin_configure_cli",
                     "plugin_attr_on_action_mod", "plugin_attr_on_action_add",
                     "plugin_attr_on_action_rm", "plugin_attr_persistence_path",
                     "action_descriptor_create", "action_execute", "action_execute_async"}
  <2>1. Clauses(f) = OnlyAlloc
    BY <1>8, Zenon DEF Clauses
  <2> QED BY <1>8, <2>1
<1> QED BY <1>1, <1>2, <1>3, <1>4, <1>5, <1>6, <1>7, <1>8

\* The statuses of the clauses that are not about one exception.
PlainStatuses == {"ERROR_ALLOC", "ERROR_SYSTEM", "ERROR_PLUGIN", "ERROR_ACTION_OTHER", "UNKNOWN"}
PlainTypes    == {"bad_alloc", "system_error", "exception", "any"}

LEMMA ClauseLists ==
  ASSUME NEW f
  PROVE  \E n \in 1..5 :
           /\ DOMAIN Clauses(f) = 1..n
           /\ Clauses(f)[n][1] = "any"
           /\ \A i \in 1..n : Clauses(f)[i][1] \in PlainTypes =>
                                Clauses(f)[i][2] \in PlainStatuses
<1> USE DEF Told, Silent, AllocError, NoEnt, OnlyAlloc, PlainStatuses, PlainTypes
<1>1. CASE Clauses(f) = <<Told("invalid_path", "ERROR_PERSISTENCE_PATH"), AllocError,
                          Told("exception", "ERROR_PLUGIN"), Silent("any", "UNKNOWN")>>
  BY <1>1
<1>2. CASE Clauses(f) = <<AllocError, Told("exception", "ERROR_PLUGIN"), Silent("any", "UNKNOWN")>>
  BY <1>2
<1>3. CASE Clauses(f) = <<AllocError, Told("logic_error", "ERROR_FATAL"),
                          Told("system_error", "ERROR_SYSTEM"),
                          Told("exception", "ERROR_PLUGIN"), Silent("any", "UNKNOWN")>>
  BY <1>3
<1>4. CASE Clauses(f) = <<Told("exception", "ERROR_PLUGIN"), Silent("any", "UNKNOWN")>>
  BY <1>4
<1>5. CASE Clauses(f) = <<NoEnt, AllocError, Told("exception", "ERROR_ACTION_OTHER"),
                          Silent("any", "UNKNOWN")>>
  BY <1>5
<1>6. CASE Clauses(f) = <<NoEnt, Told("action_error", "ERROR_ACTION_EXEC"),
                          Told("exception", "ERROR_ACTION_OTHER"), Silent("any", "UNKNOWN")>>
  BY <1>6
<1>7. CASE Clauses(f) = OnlyAlloc
  BY <1>7
<1> HIDE DEF Told, Silent, AllocError, NoEnt, OnlyAlloc, PlainStatuses, PlainTypes
<1> QED BY <1>1, <1>2, <1>3, <1>4, <1>5, <1>6, <1>7, ClausesAre

LEMMA IsA ==
  /\ Is("action_does_not_exist") = {"action_does_not_exist", "action_error", "exception"}
  /\ Is("execution_exception") = {"execution_exception", "action_error", "exception"}
  /\ Is("invalid_path") = {"invalid_path", "system_error", "exception"}
  /\ Is("bad_alloc") = {"bad_alloc", "exception"}
  /\ Is("system_error") = {"system_error", "exception"}
BY Zenon DEF Is

\* Which functions may meet the exceptions of the plugin's own.
LEMMA ThrowsAre ==
  ASSUME NEW f
  PROVE  /\ Throws(f) \subseteq Exceptions
         /\ "action_does_not_exist" \in Throws(f) =>
              f \in {"action_descriptor_create", "action_execute", "action_execute_async"}
         /\ "execution_exception" \in Throws(f) => f \in {"action_execute", "action_execute_async"}
<1>2. CASE f \in {"plugin_create", "plugin_actions", "plugin_configure_cli",
                  "plugin_attr_persistence_path"}
  <2>1. Throws(f) = {"bad_alloc", "system_error"}
    BY <1>2, Zenon DEF Throws
  <2> QED BY <1>2, <2>1 DEF Exceptions
<1>3. CASE f = "action_descriptor_create"
  <2>1. Throws(f) = {"action_does_not_exist", "bad_alloc", "system_error"}
    BY <1>3, Zenon DEF Throws
  <2> QED BY <1>3, <2>1 DEF Exceptions
<1>4. CASE f \in {"action_execute", "action_execute_async"}
  <2>1. Throws(f) = {"action_does_not_exist", "execution_exception", "bad_alloc", "system_error"}
    BY <1>4, Zenon DEF Throws
  <2> QED BY <1>4, <2>1 DEF Exceptions
<1>5. CASE f \in {"action_serialize", "action_deserialize", "action_collection_at",
                  "plugin_configure_gui"}
  <2>1. Throws(f) = {}
    BY <1>5, Zenon DEF Throws
  <2> QED BY <1>5, <2>1 DEF Exceptions
<1>6. CASE f \notin {"plugin_create", "plugin_actions", "plugin_configure_cli",
                     "plugin_attr_persistence_path", "action_descriptor_create",
                     "action_execute", "action_execute_async", "action_serialize",
                     "action_deserialize", "action_collection_at", "plugin_configure_gui"}
  <2>1. Throws(f) = {"bad_alloc"}
    BY <1>6, Zenon DEF Throws
  <2> QED BY <2>1 DEF Exceptions
<1> QED BY <1>2, <1>3, <1>4, <1>5, <1>6

\* The status that each exception ends as.
LEMMA CaughtAs ==
  ASSUME NEW f, NEW e \in Throws(f)
  PROVE  /\ e = "action_does_not_exist" => Catch(f, e)[2] = "ERROR_ACTION_NOENT"
         /\ e = "execution_exception" => Catch(f, e)[2] = "ERROR_ACTION_EXEC"
         /\ e \in {"bad_alloc", "system_error"} => Catch(f, e)[2] \in PlainStatuses
<1>1. PICK n \in 1..5 :
        /\ DOMAIN Clauses(f) = 1..n
        /\ Clauses(f)[n][1] = "any"
        /\ \A i \in 1..n : Clauses(f)[i][1] \in PlainTypes => Clauses(f)[i][2] \in PlainStatuses
  BY ClauseLists
<1>2. Matches(f, e, n)
  BY <1>1 DEF Matches
<1>3. PICK i \in 1..n : /\ Catch(f, e) = Clauses(f)[i]
                        /\ Matches(f, e, i)
                        /\ \A j \in 1..n : Matches(f, e, j) => i <= j
  BY <1>1, <1>2, CatchTakesFirst
<1>4. CASE e \in {"bad_alloc", "system_error"}
  <2>1. Clauses(f)[i][1] \in PlainTypes
    BY <1>3, <1>4, IsA DEF Matches, PlainTypes
  <2> QED BY <1>1, <1>3, <1>4, <2>1
<1>5. ASSUME Matches(f, e, 1) PROVE Catch(f, e) = Clauses(f)[1]
  <2>1. 1 \in 1..n /\ i \in Nat /\ 1 <= i
    BY <1>3
  <2>2. i <= 1
    BY <1>3, <1>5, <2>1
  <2>3. i = 1
    BY <2>1, <2>2
  <2> QED BY <1>3, <2>3
<1>6. CASE e = "action_does_not_exist"
  <2>1. Clauses(f)[1] = NoEnt
    BY <1>6, ThrowsAre, ClausesAre
  <2>2. Matches(f, e, 1)
    BY <1>6, <2>1, IsA DEF Matches, NoEnt, Silent
  <2> QED BY <1>5, <1>6, <2>1, <2>2 DEF NoEnt, Silent
<1>7. CASE e = "execution_exception"
  <2>0. Clauses(f) = <<NoEnt, Told("action_error", "ERROR_ACTION_EXEC"),
                       Told("exception", "ERROR_ACTION_OTHER"), Silent("any", "UNKNOWN")>>
    BY <1>7, ThrowsAre, ClausesAre
  <2>1. /\ Clauses(f)[1] = NoEnt /\ Clauses(f)[2] = Told("action_error", "ERROR_ACTION_EXEC")
        /\ DOMAIN Clauses(f) = 1..4
    BY <2>0
  <2>2. ~Matches(f, e, 1) /\ Matches(f, e, 2)
    BY <1>7, <2>1, IsA DEF Matches, NoEnt, Silent, Told
  <2>3. 2 \in 1..n /\ i \in 1..4
    <3>1. 1..n = 1..4
      BY <1>1, <2>1
    <3>2. 2 \in 1..4
      OBVIOUS
    <3> QED BY <1>3, <3>1, <3>2, Zenon
  <2>4. i <= 2 /\ i # 1
    BY <1>3, <2>2, <2>3
  <2>5. i = 2
    BY <2>3, <2>4
  <2> QED BY <1>3, <1>7, <2>1, <2>5 DEF Told
<1> QED BY <1>4, <1>6, <1>7

Early == {"none", "null", "busy", "gui", "garbage", "payload"}

OtherCodes ==
  {<<"generic", "alloc">>, <<"generic", "system">>, <<"plugin", "other">>,
   <<"action", "other">>, <<"logic", "unknown">>, <<"generic", "not_implemented">>,
   <<"action", "serialization">>, <<"action", "invalid_payload">>}

\* The code of each cause: the ones that a host can act upon have one of their own.
OwnCode(cause, code) ==
  CASE cause = "none"                  -> code = NoError
    [] cause = "action_does_not_exist" -> code = <<"plugin", "action_not_found">>
    [] cause = "execution_exception"   -> code = <<"action", "execution">>
    [] cause = "busy"                  -> code = <<"plugin", "unavailable">>
    [] cause = "null"                  -> code = <<"logic", "invalid_argument">>
    [] OTHER -> code \in OtherCodes

LEMMA OwnCodeIs ==
  ASSUME NEW code
  PROVE  /\ OwnCode("none", code) <=> code = NoError
         /\ OwnCode("action_does_not_exist", code) <=> code = <<"plugin", "action_not_found">>
         /\ OwnCode("execution_exception", code) <=> code = <<"action", "execution">>
         /\ OwnCode("busy", code) <=> code = <<"plugin", "unavailable">>
         /\ OwnCode("null", code) <=> code = <<"logic", "invalid_argument">>
         /\ \A cause \in {"bad_alloc", "system_error", "gui", "garbage", "payload"} :
              OwnCode(cause, code) <=> code \in OtherCodes
<1>1. ASSUME NEW cause \in {"bad_alloc", "system_error", "gui", "garbage", "payload"}
      PROVE  OwnCode(cause, code) <=> code \in OtherCodes
  BY <1>1, Zenon DEF OwnCode
<1>2. /\ OwnCode("none", code) <=> code = NoError
      /\ OwnCode("action_does_not_exist", code) <=> code = <<"plugin", "action_not_found">>
      /\ OwnCode("execution_exception", code) <=> code = <<"action", "execution">>
      /\ OwnCode("busy", code) <=> code = <<"plugin", "unavailable">>
      /\ OwnCode("null", code) <=> code = <<"logic", "invalid_argument">>
  BY Zenon DEF OwnCode
<1> QED BY <1>1, <1>2

LEMMA CodesAre ==
  /\ ErrorCode("SUCCESS") = NoError
  /\ ErrorCode("INVALID_ARGUMENT") = <<"logic", "invalid_argument">>
  /\ ErrorCode("UNAVAILABLE") = <<"plugin", "unavailable">>
  /\ ErrorCode("NOT_IMPLEMENTED") = <<"generic", "not_implemented">>
  /\ ErrorCode("ERROR_ACTION_SERIAL") = <<"action", "serialization">>
  /\ ErrorCode("ERROR_PAYLOAD_INVALID") = <<"action", "invalid_payload">>
  /\ ErrorCode("ERROR_ACTION_NOENT") = <<"plugin", "action_not_found">>
  /\ ErrorCode("ERROR_ACTION_EXEC") = <<"action", "execution">>
  /\ ErrorCode("ERROR_ALLOC") = <<"generic", "alloc">>
  /\ ErrorCode("ERROR_SYSTEM") = <<"generic", "system">>
  /\ ErrorCode("ERROR_PLUGIN") = <<"plugin", "other">>
  /\ ErrorCode("ERROR_ACTION_OTHER") = <<"action", "other">>
  /\ ErrorCode("UNKNOWN") = <<"logic", "unknown">>
BY Zenon DEF ErrorCode

LEMMA EarlyIs ==
  ASSUME NEW f
  PROVE  /\ EarlyReturn(f, "none")[2] = "SUCCESS"
         /\ EarlyReturn(f, "null")[2] = "INVALID_ARGUMENT"
         /\ EarlyReturn(f, "busy")[2] = "UNAVAILABLE"
         /\ EarlyReturn(f, "gui")[2] = "NOT_IMPLEMENTED"
         /\ EarlyReturn(f, "garbage")[2] = "ERROR_ACTION_SERIAL"
         /\ EarlyReturn(f, "payload")[2] = "ERROR_PAYLOAD_INVALID"
<1>1. /\ EarlyReturn(f, "none") = Silent("none", "SUCCESS")
      /\ EarlyReturn(f, "null") = Silent("null", "INVALID_ARGUMENT")
      /\ EarlyReturn(f, "busy") = Silent("busy", "UNAVAILABLE")
      /\ EarlyReturn(f, "gui") = Told("gui", "NOT_IMPLEMENTED")
      /\ EarlyReturn(f, "garbage") = Told("garbage", "ERROR_ACTION_SERIAL")
      /\ EarlyReturn(f, "payload") =
           <<"payload", "ERROR_PAYLOAD_INVALID", f = "action_execute_async">>
  BY Zenon DEF EarlyReturn
<1> QED BY <1>1 DEF Silent, Told

\* Through exception, clause, status and translation.
LEMMA CauseHasItsCode ==
  ASSUME NEW f, NEW cause \in Throws(f) \cup Early
  PROVE  OwnCode(cause, ErrorCode(Answer(f, cause)[2]))
<1> DEFINE code == ErrorCode(Answer(f, cause)[2])
<1>1. CASE cause \in Throws(f)
  <2>1. cause \in Exceptions /\ Answer(f, cause) = Catch(f, cause)
    BY <1>1, ThrowsAre DEF Answer
  <2>2. CASE cause = "action_does_not_exist"
    <3>1. code = <<"plugin", "action_not_found">>
      BY <1>1, <2>1, <2>2, CaughtAs, CodesAre
    <3> QED BY <2>2, <3>1, OwnCodeIs
  <2>3. CASE cause = "execution_exception"
    <3>1. code = <<"action", "execution">>
      BY <1>1, <2>1, <2>3, CaughtAs, CodesAre
    <3> QED BY <2>3, <3>1, OwnCodeIs
  <2>5. CASE cause \in {"bad_alloc", "system_error"}
    <3>1. Catch(f, cause)[2] \in PlainStatuses
      BY <1>1, <2>5, CaughtAs
    <3>2. code \in OtherCodes
      BY <2>1, <3>1, CodesAre DEF PlainStatuses, OtherCodes
    <3> QED BY <2>5, <3>2, OwnCodeIs
  <2> QED BY <2>1, <2>2, <2>3, <2>5 DEF Exceptions
<1>2. CASE cause \notin Throws(f)
  <2>1. cause \in Early /\ Answer(f, cause) = EarlyReturn(f, cause)
    BY <1>2 DEF Answer
  <2>2. /\ cause = "none" => code = NoError
        /\ cause = "null" => code = <<"logic", "invalid_argument">>
        /\ cause = "busy" => code = <<"plugin", "unavailable">>
        /\ cause = "gui" => code = <<"generic", "not_implemented">>
        /\ cause = "garbage" => code = <<"action", "serialization">>
        /\ cause = "payload" => code = <<"action", "invalid_payload">>
    BY <2>1, EarlyIs, CodesAre
  <2> QED BY <2>1, <2>2, OwnCodeIs DEF Early, OtherCodes
<1> QED BY <1>1, <1>2

\* What a call may meet is an exception of its function or an early return.
LEMMA CausesAre ==
  ASSUME NEW f
  PROVE  Causes(f) \subseteq Throws(f) \cup Early
BY DEF Causes, Early

\* Only a call sets last, and the end of the operation what it says.
LastShape == DOMAIN last = {"op", "f", "cause", "code", "says", "fields"}

LEMMA LastChanges ==
  ASSUME LastShape, [Next]_vars
  PROVE  /\ LastShape'
         /\ \/ last' = last
            \/ InCall /\ \E cause : Call(cause)
            \/ /\ End
               /\ last'.op = last.op /\ last'.f = last.f /\ last'.cause = last.cause
               /\ last'.code = last.code /\ last'.fields = last.fields
               /\ last'.says = IF last.code = NoError THEN <<>> ELSE View(ed[Which(op)])
<1>1. CASE last' = last
  BY <1>1 DEF LastShape
<1>2. ASSUME InCall, NEW cause, Call(cause) PROVE LastShape'
  BY <1>2 DEF LastShape, Call
<1>3. CASE End
  BY <1>3 DEF End, LastShape
<1>4. last' = last \/ (InCall /\ \E cause : Call(cause)) \/ End
  <2>1. Quiet => last' = last
    BY QuietIs
  <2> QED BY <2>1 DEF Next, Quiet, vars, hostVars, opVars, edVars, Load, Begin, Fail, SubmitEnds,
                   Succeed, Receive, Destroy, Move, DestroyExecutor
<1> QED BY <1>1, <1>2, <1>3, <1>4

LEMMA LastShapeInit == Init => LastShape
BY DEF Init, Nothing, LastShape

\* Every error code says what happened, and the codes that a host acts upon come from
\* one cause only, whichever function fails and in whichever of its ways.
THEOREM CodesTellTheCause == Spec => []ErrorsTellTheCause
<1> DEFINE Coded == /\ LastShape
                    /\ \E f : /\ last.cause \in Throws(f) \cup Early
                              /\ OwnCode(last.cause, last.code)
<1>1. Init => Coded
  BY OwnCodeIs, LastShapeInit DEF Init, Nothing, Early
<1>2. ASSUME Coded, [Next]_vars PROVE Coded'
  <2>0. LastShape'
    BY <1>2, LastChanges
  <2>1. CASE last'.cause = last.cause /\ last'.code = last.code
    BY <1>2, <2>0, <2>1
  <2>2. ASSUME NEW cause, Call(cause) PROVE Coded'
    <3> DEFINE f == Calls[op][pos]
    <3>1. cause \in Throws(f) \cup Early
      BY <2>2, CausesAre DEF Call
    <3>2. last'.cause = cause /\ last'.code = ErrorCode(Answer(f, cause)[2])
      BY <2>2 DEF Call
    <3>3. OwnCode(last'.cause, last'.code)
      BY <3>1, <3>2, CauseHasItsCode
    <3> QED BY <2>0, <3>1, <3>2, <3>3
  <2> QED BY <1>2, <2>1, <2>2, LastChanges
<1>3. Coded => ErrorsTellTheCause
  <2> SUFFICES ASSUME Coded PROVE ErrorsTellTheCause
    OBVIOUS
  <2>1. last.cause \in Exceptions \cup Early
    BY ThrowsAre
  <2>2. OwnCode(last.cause, last.code)
    OBVIOUS
  <2>3. /\ last.cause = "none" => last.code = NoError
        /\ last.cause = "action_does_not_exist" => last.code = <<"plugin", "action_not_found">>
        /\ last.cause = "execution_exception" => last.code = <<"action", "execution">>
        /\ last.cause = "busy" => last.code = <<"plugin", "unavailable">>
        /\ last.cause = "null" => last.code = <<"logic", "invalid_argument">>
        /\ last.cause \in {"bad_alloc", "system_error", "gui", "garbage", "payload"} =>
             last.code \in OtherCodes
    BY <2>2, OwnCodeIs
  <2>4. last.code # NoError => ExceptionClass(last.code) # "assert"
    BY <2>1, <2>3 DEF Exceptions, Early, OtherCodes, ExceptionClass, Described, NoError
  <2> QED
    BY <2>1, <2>3, <2>4 DEF Exceptions, Early, OtherCodes, NoError, ErrorsTellTheCause
<1> QED BY <1>1, <1>2, <1>3, PTL DEF Spec

-----------------------------------------------------------------------------
\* A function for plugins that is given an action reads it at the plugin's offsets,
\* which are the same.
LEMMA LayoutsAre ==
  ASSUME NEW type
  PROVE  Layout(type) = <<"name", "description">>
BY DEF Layout

LEMMA ReadsAre ==
  ASSUME NEW type, NEW symbol, NEW of, NEW member \in {"name", "description"},
         Reads(symbol) = <<of, member>>
  PROVE  Read(symbol, type) = member
<1> DEFINE layout == <<"name", "description">>
           at == CHOOSE i \in DOMAIN layout : layout[i] = member
<1>1. DOMAIN layout = {1, 2} /\ layout[1] = "name" /\ layout[2] = "description"
  OBVIOUS
<1>2. at \in DOMAIN layout /\ layout[at] = member
  <2>1. \E i \in DOMAIN layout : layout[i] = member
    BY <1>1
  <2> HIDE DEF layout
  <2> QED BY <2>1
<1>3. Reads(symbol)[1] = of /\ Reads(symbol)[2] = member
  OBVIOUS
<1>4. Read(symbol, type) = layout[at]
  BY <1>3, LayoutsAre DEF Read
<1> QED BY <1>2, <1>4

LEMMA FieldsAre ==
  /\ Fields("plugin_descriptor_t", "plugin_name", "plugin_description")
       = <<"name", "", "description", "">>
  /\ Fields("action_descriptor_t", "action_name", "action_description")
       = <<"name", "", "description", "">>
<1>1. /\ Reads("plugin_name") = <<"plugin_descriptor_t", "name">>
      /\ Reads("plugin_description") = <<"plugin_descriptor_t", "description">>
      /\ Reads("action_name") = <<"action_descriptor_t", "name">>
  BY Zenon DEF Reads
<1>2. ASSUME NEW type
      PROVE  /\ Read("plugin_name", type) = "name" /\ Read("action_name", type) = "name"
             /\ Read("plugin_description", type) = "description"
  BY <1>1, ReadsAre
<1>3. /\ SymbolOf("plugin_name") = "plugin_name" /\ SymbolOf("action_name") = "action_name"
      /\ SymbolOf("plugin_description") = "plugin_description"
      /\ SymbolOf("action_description") = "plugin_description"
  BY DEF SymbolOf
<1> QED BY <1>2, <1>3 DEF Fields

\* The loader binds action_description to the function for plugins; since both
\* descriptors have the description at the same place, the right one is read.
THEOREM DescriptorsRead == Spec => []DescriptorIsItsOwn
<1>1. Init => LastShape /\ DescriptorIsItsOwn
  BY LastShapeInit DEF Init, Nothing, DescriptorIsItsOwn
<1>2. ASSUME LastShape, DescriptorIsItsOwn, [Next]_vars
      PROVE  LastShape' /\ DescriptorIsItsOwn'
  <2>1. CASE last'.fields = last.fields
    BY <1>2, <2>1, LastChanges DEF DescriptorIsItsOwn
  <2>2. ASSUME NEW cause, Call(cause) PROVE DescriptorIsItsOwn'
    <3>1. DescriptorFields \in {<<>>, <<"name", "", "description", "">>}
      <4>1. CASE op = "plugin_descriptor"
        BY <4>1, FieldsAre DEF DescriptorFields
      <4>2. CASE op = "action_descriptor"
        BY <4>2, FieldsAre DEF DescriptorFields
      <4>3. CASE op \notin {"plugin_descriptor", "action_descriptor"}
        <5>1. DescriptorFields = <<>>
          BY <4>3, Zenon DEF DescriptorFields
        <5> QED BY <5>1
      <4> QED BY <4>1, <4>2, <4>3
    <3>2. last'.fields = IF cause # "none" THEN <<>> ELSE DescriptorFields
      BY <2>2 DEF Call
    <3> QED BY <3>1, <3>2 DEF DescriptorIsItsOwn
  <2> QED BY <1>2, <2>1, <2>2, LastChanges
<1> QED BY <1>1, <1>2, PTL DEF Spec

-----------------------------------------------------------------------------
\* Every call of the wrapper comes after a clear.
InWrapper(o) == o \in DOMAIN Calls \ {"execute", "list"}

LEMMA EveryCallCleared ==
  ASSUME InWrapper(op), pos \in 1..Len(Calls[op])
  PROVE  pos \in ClearedCalls[op]
<1>1. CASE op = "plugin"
  BY <1>1 DEF Calls, PluginCalls, ClearedCalls
<1>2. CASE op \in {"copy", "assign", "executor"}
  <2>1. Calls[op] = CopyCalls /\ ClearedCalls[op] = 1..3
    BY <1>2 DEF Calls, ClearedCalls
  <2> QED BY <2>1 DEF CopyCalls
<1>3. CASE op = "serialize"
  BY <1>3 DEF Calls, ClearedCalls
<1>4. CASE op = "submit"
  BY <1>4 DEF Calls, ClearedCalls, ClearedBySubmit
<1>5. CASE op \in {"plugin_version", "plugin_descriptor", "action_descriptor", "from_text",
                  "configure_cli", "configure_gui"}
  <2>1. Len(Calls[op]) = 1 /\ ClearedCalls[op] = {1}
    BY <1>5 DEF Calls, ClearedCalls
  <2> QED BY <2>1
<1> QED BY <1>1, <1>2, <1>3, <1>4, <1>5 DEF InWrapper, Calls

\* What an error should say.
OwnText == IF Answer(last.f, last.cause)[3] /\ RoomOf(last.op) > 0
           THEN <<<<last.f, last.cause>>, 1>> ELSE <<>>

EdShape ==
  /\ DOMAIN ed = {"host", "own"}
  /\ \A w \in {"host", "own"} : DOMAIN ed[w] = {"what", "used"}

\* A cleared descriptor is empty when the call comes, and has only the text of the call
\* that ended the operation.
ClearedAndFilled ==
  /\ op = "idle" \/ (op \in DOMAIN Calls /\ pos = 0) => ~cleared
  /\ InCall /\ InWrapper(op) /\ cleared => ed[Which(op)].used = 0
  /\ op \in DOMAIN Calls /\ pos = 0 => last.op = op
  /\ InWrapper(op) /\ pos = 0 /\ last.code # NoError => View(ed[Which(op)]) = OwnText

Descriptions == LastShape /\ EdShape /\ ClearedAndFilled /\ DescriptionIsOfThisError

LEMMA DescriptionsInit == Init => Descriptions
<1> SUFFICES ASSUME Init PROVE Descriptions
  OBVIOUS
<1>1. op = "idle" /\ "idle" \notin DOMAIN Calls
  BY DEF Init, Calls
<1>2. EdShape
  BY DEF Init, EdShape, Empty
<1>3. last.code = NoError /\ ~cleared
  BY DEF Init, Nothing
<1> QED
  BY <1>1, <1>2, <1>3, LastShapeInit
  DEF Descriptions, ClearedAndFilled, DescriptionIsOfThisError, InCall, InWrapper

LEMMA DescriptionsStep ==
  ASSUME Progress, Descriptions, [Next]_vars PROVE Descriptions'
<1>0. /\ LastShape /\ LastShape' /\ EdShape /\ ClearedAndFilled /\ DescriptionIsOfThisError
      /\ Which(op) \in {"host", "own"}
  BY LastChanges DEF Descriptions, Which
<1>n. {"idle", "terminated", "hung", "crashed"} \cap DOMAIN Calls = {}
  BY DEF Calls
<1>1. CASE UNCHANGED <<op, pos, cleared, ed, last>>
  BY <1>0, <1>1 DEF Descriptions, EdShape, ClearedAndFilled, DescriptionIsOfThisError, InCall,
                    InWrapper, OwnText
<1>2. ASSUME NEW o \in DOMAIN Calls, NEW i \in Slots, Begin(o, i) PROVE Descriptions'
  <2>1. op' = o /\ pos' = 1 /\ UNCHANGED <<ed, cleared, last>>
    BY <1>2 DEF Begin, edVars
  <2>2. ~cleared /\ op' # "idle" /\ pos' # 0
    BY <1>0, <1>n, <1>2, <2>1 DEF Begin, ClearedAndFilled
  <2>3. EdShape'
    BY <1>0, <2>1 DEF EdShape
  <2>4. ClearedAndFilled' /\ DescriptionIsOfThisError'
    BY <2>1, <2>2 DEF ClearedAndFilled, DescriptionIsOfThisError
  <2> QED BY <1>0, <2>3, <2>4 DEF Descriptions
<1>3. CASE op' \in {"hung", "crashed"} /\ ed' = ed
  <2>1. op' # "idle" /\ op' \notin DOMAIN Calls
    BY <1>n, <1>3
  <2>2. EdShape'
    BY <1>0, <1>3 DEF EdShape
  <2>3. ClearedAndFilled' /\ DescriptionIsOfThisError'
    BY <2>1 DEF ClearedAndFilled, DescriptionIsOfThisError, InCall, InWrapper
  <2> QED BY <1>0, <2>2, <2>3 DEF Descriptions
<1>4. CASE ClearDescriptor
  <2> DEFINE w == Which(op)
  <2>1. /\ op' = op /\ pos' = pos /\ last' = last /\ op \in DOMAIN Calls /\ pos > 0
        /\ ed' = [ed EXCEPT ![w] = [@ EXCEPT !.used = 0]]
    BY <1>4 DEF ClearDescriptor, InCall, opVars, Clear
  <2>2. op # "idle" /\ pos # 0
    BY <1>n, <2>1
  <2>3. w \in {"host", "own"}
    BY <1>0
  <2> HIDE DEF w
  <2>4. EdShape' /\ ed'[w].used = 0
    BY <1>0, <2>1, <2>3 DEF EdShape
  <2>5. Which(op)' = w
    BY <2>1 DEF w, Which
  <2>6. ClearedAndFilled' /\ DescriptionIsOfThisError'
    BY <2>1, <2>2, <2>4, <2>5 DEF ClearedAndFilled, DescriptionIsOfThisError, w, Which
  <2> QED BY <1>0, <2>4, <2>6 DEF Descriptions
<1>5. ASSUME InCall, NEW cause, Call(cause) PROVE Descriptions'
  <2> DEFINE w == Which(op)
             f == Calls[op][pos]
             text == <<f, cause>>
             told == Answer(f, cause)[3]
             room == RoomOf(op)
  <2>1. /\ ed' = IF told THEN [ed EXCEPT ![w] = Fill(@, room, text)] ELSE ed
        /\ pos \in ClearedCalls[op] => cleared
        /\ cleared' = FALSE
        /\ last'.op = op /\ last'.f = f /\ last'.cause = cause
        /\ op' = IF op = "plugin_version" /\ last'.code # NoError THEN "terminated" ELSE op
    BY <1>5 DEF Call
  <2>2. op \in DOMAIN Calls /\ pos \in 1..Len(Calls[op])
    BY <1>5 DEF InCall, Progress
  <2>3. w \in {"host", "own"} /\ op' # "idle"
    BY <1>0, <1>n, <2>1, <2>2
  <2>4. room \in Nat
    BY CallsAssumption DEF RoomOf
  <2>5. InWrapper(op) => ed[w].used = 0
    BY <1>0, <1>5, <2>1, <2>2, EveryCallCleared DEF ClearedAndFilled
  <2> HIDE DEF w, f, text, told, room
  <2>6. EdShape'
    BY <1>0, <2>1, <2>3 DEF EdShape, Fill
  <2>7. ASSUME InWrapper(op)
        PROVE  View(ed'[w]) = IF told /\ room > 0 THEN <<text, 1>> ELSE <<>>
    <3>1. CASE told /\ room > 0
      <4>1. ed'[w] = [what |-> text, used |-> 1]
        BY <1>0, <2>1, <2>3, <2>4, <2>5, <2>7, <3>1 DEF EdShape, Fill
      <4> QED BY <3>1, <4>1 DEF View
    <3>2. CASE ~(told /\ room > 0)
      <4>1. ed'[w] = ed[w]
        BY <1>0, <2>1, <2>3, <2>4, <2>5, <2>7, <3>2 DEF EdShape, Fill
      <4> QED BY <2>5, <2>7, <3>2, <4>1 DEF View
    <3> QED BY <3>1, <3>2
  <2>8. ASSUME op' \in DOMAIN Calls
        PROVE  op' = op /\ (InWrapper(op) => View(ed'[Which(op')]) = OwnText')
    <3>1. op' = op
      BY <1>n, <2>1, <2>8
    <3>2. OwnText' = IF told /\ room > 0 THEN <<text, 1>> ELSE <<>>
      BY <2>1, <3>1 DEF OwnText, told, room, text
    <3> QED BY <2>7, <3>1, <3>2 DEF w
  <2>9. ClearedAndFilled'
    BY <2>1, <2>8 DEF ClearedAndFilled, InWrapper
  <2>10. DescriptionIsOfThisError'
    BY <2>3 DEF DescriptionIsOfThisError
  <2> QED BY <1>0, <2>6, <2>9, <2>10 DEF Descriptions
<1>6. CASE End
  <2>1. /\ op \in DOMAIN Calls /\ pos = 0 /\ op' = "idle"
        /\ ed' = [ed EXCEPT !.own = Empty] /\ cleared' = cleared /\ pos' = pos
        /\ last'.op = last.op /\ last'.f = last.f /\ last'.cause = last.cause
        /\ last'.code = last.code
        /\ last'.says = IF last.code = NoError THEN <<>> ELSE View(ed[Which(op)])
    <3>1. last' = [last EXCEPT !.says = IF last.code = NoError THEN <<>>
                                       ELSE View(ed[Which(op)])]
      BY <1>6 DEF End
    <3>2. DOMAIN last = {"op", "f", "cause", "code", "says", "fields"}
      BY <1>0 DEF LastShape
    <3> HIDE DEF View, Which
    <3>3. /\ last'.op = last.op /\ last'.f = last.f /\ last'.cause = last.cause
          /\ last'.code = last.code
          /\ last'.says = IF last.code = NoError THEN <<>> ELSE View(ed[Which(op)])
      BY <3>1, <3>2
    <3> QED BY <1>6, <3>3 DEF End
  <2>2. last.op = op /\ ~cleared
    BY <1>0, <2>1 DEF ClearedAndFilled
  <2>3. EdShape'
    BY <1>0, <2>1 DEF EdShape, Empty
  <2>4. ClearedAndFilled'
    BY <1>n, <2>1, <2>2 DEF ClearedAndFilled, InCall, InWrapper
  <2>5. ASSUME last'.op \notin {"execute", "list"}, last'.code # NoError
        PROVE  last'.says = IF Answer(last'.f, last'.cause)[3] /\ RoomOf(last'.op) > 0
                            THEN <<<<last'.f, last'.cause>>, 1>> ELSE <<>>
    <3>1. InWrapper(op)
      BY <2>1, <2>2, <2>5 DEF InWrapper
    <3>2. View(ed[Which(op)]) = OwnText
      BY <1>0, <2>1, <2>5, <3>1 DEF ClearedAndFilled
    <3> QED BY <2>1, <2>5, <3>2 DEF OwnText
  <2>6. DescriptionIsOfThisError'
    <3>1. \A o : RoomOf(o)' = RoomOf(o)
      BY DEF RoomOf
    <3> QED BY <2>5, <3>1 DEF DescriptionIsOfThisError
  <2> QED BY <1>0, <2>3, <2>4, <2>6 DEF Descriptions
<1>7. CASE Outside
  <2>1. UNCHANGED <<op, pos, cleared, ed, last>>
    BY <1>7 DEF Outside, Load, Receive, Destroy, Move, DestroyExecutor, opVars, edVars
  <2> QED BY <1>1, <2>1
<1>8. CASE Quiet
  BY <1>3, <1>4, <1>8 DEF Quiet, Hang, UseMoved, edVars
<1>9. CASE UNCHANGED vars
  BY <1>1, <1>9 DEF vars, opVars, edVars
<1> QED BY <1>2, <1>5, <1>6, <1>7, <1>8, <1>9, StepsAre DEF InCall

\* What the wrapper says of an error is that error's own text, whatever the calls of
\* the C interface that are not in the wrapper have left in the host's descriptor, and
\* whatever room it has.
THEOREM DescriptionsAreFresh == Spec => []DescriptionIsOfThisError
<1> DEFINE IInv == Progress /\ LocalsOwn /\ Descriptions
<1>1. Init => IInv
  BY HandlesInit, DescriptionsInit
<1>2. IInv /\ [Next]_vars => IInv'
  BY ProgressStep, LocalsOwnStep, DescriptionsStep
<1>3. IInv => DescriptionIsOfThisError
  BY DEF Descriptions
<1> HIDE DEF IInv
<1> QED BY <1>1, <1>2, <1>3, PTL DEF Spec
=============================================================================
