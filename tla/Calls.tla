--------------------------------- MODULE Calls ---------------------------------
(***************************************************************************)
(* The operations of the wrapper (src/wrapper/src) as sequences of calls   *)
(* of C functions, any of which may fail.  A failure becomes an error code *)
(* or exception with a text out of the error descriptor that the host      *)
(* passes to all of them, and the handles obtained so far are given back.  *)
(* One thread; what is shared by several is in the other modules.          *)
(***************************************************************************)
EXTENDS StatusCodes, ModuleLoader, Integers, FiniteSets

CONSTANTS
  Slots,       \* places for the host's wrap::action objects
  MaxHandles,  \* bound: action handles obtained
  MaxFailures, \* bound: failed executions per action_executor
  Room,        \* error texts that fit into the descriptor; 0 for a null descriptor,
               \* which PASMP_action_execute_async must not be given
  Libraries    \* what there is to load

ASSUME CallsAssumption ==
  /\ IsFiniteSet(Slots)
  /\ MaxHandles \in Nat /\ MaxFailures \in Nat /\ Room \in Nat
  /\ \A l \in Libraries :
       l.opens \in BOOLEAN /\ l.major \in Nat /\ l.missing \subseteq STRING

VARIABLES
  lib,        \* is a library loaded?
  plugin,     \* is there a wrap::plugin?
  slot,       \* per place: free, an action with a handle, or one moved from (null),
              \* which has lost the pointer to its plugin as well
  exec,       \* is there an action_executor?
  submitctr_, \* its count of outstanding executions
  ed,         \* the error descriptors: the host's, and the local one of action::copy
  cleared,    \* has the descriptor been cleared for the next call?
  op, arg,    \* the operation in progress, and the place it is about
  pos,        \* the index of its next call, or 0 when it is over
  locals,     \* handles that its local objects will destroy
  live,       \* per kind, handles created less handles destroyed
  last        \* how the last call ended, and what its error says

edVars == <<ed, cleared, last>>
hostVars == <<lib, plugin, slot, exec, submitctr_>>
opVars == <<op, arg, pos, locals>>
vars == <<hostVars, opVars, live, edVars>>

Kinds == {"version", "plugin_descriptor", "action_descriptor", "attr", "collection",
          "plugin", "action"}

\* impl::init: the attributes are set up one by one.
PluginCalls ==
  <<"plugin_attr_create", "plugin_attr_on_action_add", "plugin_attr_on_action_mod",
    "plugin_attr_on_action_rm", "plugin_attr_persistence_path", "plugin_create">>

\* action::copy serializes twice, first to learn the size.
CopyCalls == <<"action_serialize", "action_serialize", "action_deserialize">>

\* The calls of each operation.  wrap::plugin::actions is left out: it uses its
\* member plugin_ before it is constructed.  The last two are not in the wrapper,
\* but in the C interface for other hosts.
Calls ==
  [plugin_version    |-> <<"version_create">>,
   plugin_descriptor |-> <<"plugin_descriptor_create">>,
   plugin            |-> PluginCalls,
   action_descriptor |-> <<"action_descriptor_create">>,
   from_text         |-> <<"action_deserialize">>,
   serialize         |-> <<"action_serialize", "action_serialize">>,
   copy              |-> CopyCalls,
   assign            |-> CopyCalls,
   executor          |-> CopyCalls,
   submit            |-> <<"action_execute_async">>,
   configure_cli     |-> <<"plugin_configure_cli">>,
   configure_gui     |-> <<"plugin_configure_gui">>,
   execute           |-> <<"action_execute">>,
   list              |-> <<"action_collection_create", "plugin_actions",
                           "action_collection_at">>]

Creates(f) ==
  CASE f = "version_create"           -> "version"
    [] f = "plugin_descriptor_create" -> "plugin_descriptor"
    [] f = "action_descriptor_create" -> "action_descriptor"
    [] f = "plugin_attr_create"       -> "attr"
    [] f = "action_collection_create" -> "collection"
    [] f = "plugin_create"            -> "plugin"
    [] f = "action_deserialize"       -> "action"
    [] OTHER -> "nothing"

\* Fault: the call finds the descriptor as an earlier one left it.
NeverCleared == {}

ClearedBySubmit == {1}

\* The calls of each operation that have an ed.clear() of their own before them.
ClearedCalls ==
  [plugin_version    |-> {1},
   plugin_descriptor |-> {1},
   plugin            |-> 1..6,
   action_descriptor |-> {1},
   from_text         |-> {1},
   serialize         |-> {1, 2},
   copy              |-> 1..3,
   assign            |-> 1..3,
   executor          |-> 1..3,
   submit            |-> ClearedBySubmit,
   configure_cli     |-> {1},
   configure_gui     |-> {1},
   execute           |-> {},
   list              |-> {}]

OnPlugin == DOMAIN Calls \ {"plugin_version", "plugin_descriptor", "plugin"}
OnAction == {"action_descriptor", "serialize", "copy", "assign", "executor", "execute"}
Copies   == {"copy", "assign", "executor"}

\* What uses the action's plugin; PASMP_action_execute is given the two handles.
Dereferencing == OnAction \ {"execute"}

Nothing == [op |-> "none", f |-> "none", cause |-> "none", code |-> NoError,
            says |-> <<>>, fields |-> <<>>]

\* An error descriptor: the text at its beginning, and how many texts its size has
\* shrunk by.
Empty == [what |-> <<>>, used |-> 0]

Init ==
  /\ lib = FALSE /\ plugin = FALSE /\ exec = FALSE /\ submitctr_ = 0
  /\ slot = [i \in Slots |-> "free"]
  /\ ed = [host |-> Empty, own |-> Empty] /\ cleared = FALSE /\ last = Nothing
  /\ op = "idle" /\ arg \in Slots /\ pos = 0 /\ locals = <<>>
  /\ live = [k \in Kinds |-> 0]

(***************************************************************************)
(* loaded_module, for a host compiled with major version 0.  A library     *)
(* that is refused stays mapped: module_ has no destructor of its own.     *)
(***************************************************************************)
Load(l) ==
  /\ op = "idle" /\ ~lib
  /\ lib' = (LoadError(l, 0) = <<"none">>)
  /\ UNCHANGED <<plugin, slot, exec, submitctr_, opVars, live, edVars>>

(***************************************************************************)
(* The error descriptor.                                                   *)
(***************************************************************************)
\* error_descriptor::clear resets the size; the text stays where it is.
Clear(d) == [d EXCEPT !.used = 0]

\* fill_error_descriptor writes to the beginning, whatever is there, and takes from
\* the size; it does nothing when no room is left, or when there is no descriptor.
Fill(d, room, text) == IF d.used < room THEN [what |-> text, used |-> d.used + 1] ELSE d

\* error_descriptor::view: all that the size has shrunk by.
View(d) == IF d.used = 0 THEN <<>> ELSE <<d.what, d.used>>

\* The descriptor that an operation's calls are given; 128 bytes of its own for a copy.
Which(o) == IF o \in Copies THEN "own" ELSE "host"
RoomOf(o) == IF o \in Copies THEN 1 ELSE Room

(***************************************************************************)
(* Operations.                                                             *)
(***************************************************************************)
CanBegin(o, i) ==
  /\ lib
  /\ o \in OnPlugin => plugin
  /\ o = "plugin" => ~plugin
  /\ o \in OnAction => slot[i] # "free"
  /\ o \in {"from_text", "copy"} => \E j \in Slots : slot[j] = "free"
  /\ o = "assign" => \E j \in Slots \ {i} : slot[j] # "free"
  /\ o = "executor" => ~exec
  /\ o = "submit" => exec /\ submitctr_ > -MaxFailures /\ Room > 0
  /\ o \in Copies \cup {"from_text"} => live["action"] < MaxHandles

Begin(o, i) ==
  /\ op = "idle" /\ CanBegin(o, i)
  /\ o \in Dereferencing => slot[i] = "action"
  /\ op' = o /\ arg' = i /\ pos' = 1 /\ locals' = <<>>
  /\ UNCHANGED <<hostVars, live, edVars>>

\* An action that was moved from has no plugin to ask for the module.
UseMoved(o, i) ==
  /\ op = "idle" /\ CanBegin(o, i)
  /\ o \in Dereferencing /\ slot[i] = "null"
  /\ op' = "crashed"
  /\ UNCHANGED <<hostVars, arg, pos, locals, live, edVars>>

InCall == op \in DOMAIN Calls /\ pos > 0

ClearDescriptor ==
  /\ InCall /\ pos \in ClearedCalls[op] /\ ~cleared
  /\ ed' = [ed EXCEPT ![Which(op)] = Clear(@)]
  /\ cleared' = TRUE
  /\ UNCHANGED <<hostVars, opVars, live, last>>

\* What may become of the next call.
Causes(f) ==
  IF op = "execute" /\ slot[arg] = "null" THEN {"null"}
  ELSE IF f = "plugin_configure_gui" THEN {"gui"}
  ELSE {"none"} \cup Throws(f)
         \cup (IF f = "plugin_attr_persistence_path" THEN {"null"} ELSE {})
         \cup (IF f = "plugin_configure_cli" THEN {"busy"} ELSE {})
         \cup (IF op \in {"submit", "execute"} /\ \E t \in DOMAIN Tag : Tag[t] # "INT32"
               THEN {"payload"} ELSE {})
         \cup (IF op = "from_text" THEN {"null", "garbage"} ELSE {})

\* Fault: the object that is moved from keeps its handle.
CopyingMoved(s, i, j) == [s EXCEPT ![j] = s[i]]

\* std::exchange(x.attr_, nullptr), and the same for wrap::action's value_, with
\* which the shared pointer in plugin_ goes.
Moved(s, i, j) == [s EXCEPT ![j] = s[i], ![i] = "null"]

\* init_attr returns its local helper, which is moved into create_plugin's parameter.
Locals(f, succeeds) ==
  IF f = "plugin_create" THEN Moved(Append(locals, "free"), 1, 2)
  ELSE IF succeeds /\ Creates(f) \notin {"nothing", "action"}
       THEN Append(locals, Creates(f))
  ELSE locals

Obtain(k) == IF k = "nothing" THEN live ELSE [live EXCEPT ![k] = @ + 1]

\* What the wrapper's descriptor reads through the functions it was given.
DescriptorFields ==
  CASE op = "plugin_descriptor" ->
         Fields("plugin_descriptor_t", "plugin_name", "plugin_description")
    [] op = "action_descriptor" ->
         Fields("action_descriptor_t", "action_name", "action_description")
    [] OTHER -> <<>>

Call(cause) ==
  LET f == Calls[op][pos]
      answer == Answer(f, cause)
      code == ErrorCode(answer[2])
      over == code # NoError \/ pos = Len(Calls[op])
  IN  /\ cause \in Causes(f)
      /\ pos \in ClearedCalls[op] => cleared
      /\ ed' = IF answer[3]
               THEN [ed EXCEPT ![Which(op)] = Fill(@, RoomOf(op), <<f, cause>>)] ELSE ed
      /\ cleared' = FALSE
      /\ last' = [op |-> op, f |-> f, cause |-> cause, code |-> code, says |-> <<>>,
                  fields |-> IF cause # "none" THEN <<>>
                             ELSE DescriptorFields]
      /\ live' = IF code = NoError THEN Obtain(Creates(f)) ELSE live
      /\ locals' = Locals(f, code = NoError)
      /\ pos' = IF over THEN 0 ELSE pos + 1
      /\ op' = IF op = "plugin_version" /\ code # NoError THEN "terminated" ELSE op
      \* The plugin executes, and calls the executor back, before it answers.
      /\ submitctr_' = IF op = "submit" /\ cause # "payload" THEN submitctr_ - 1
                       ELSE submitctr_
      /\ UNCHANGED <<lib, plugin, slot, exec, arg>>

\* An invalid path is found when the plugin's threads run, which the constructor's
\* unwinding joins: the exception never comes out of PASMP_plugin_create.
Hang ==
  /\ InCall /\ Calls[op][pos] = "plugin_create" /\ cleared
  /\ op' = "hung"
  /\ UNCHANGED <<hostVars, arg, pos, locals, live, edVars>>

\* The local objects are destroyed, also by an exception.
GiveBack ==
  [k \in Kinds |-> live[k] - Cardinality({i \in DOMAIN locals : locals[i] = k})]

\* The error is handed to the host with what the descriptor says then, as the
\* exception's text or in the descriptor itself.
End ==
  /\ op \in DOMAIN Calls /\ pos = 0
  /\ op' = "idle" /\ locals' = <<>>
  /\ live' = GiveBack
  /\ last' = [last EXCEPT !.says = IF last.code = NoError THEN <<>> ELSE View(ed[Which(op)])]
  /\ ed' = [ed EXCEPT !.own = Empty]
  /\ UNCHANGED <<arg, pos, cleared>>

\* An assignment has set its target's plugin by then; but a copy does not fail, as the
\* handles that it is made of are the plugin's.
Fail ==
  /\ End
  /\ last.code # NoError
  /\ UNCHANGED hostVars

\* action_executor::submit counts the execution once it was accepted.
Counted(code) == IF code = NoError THEN submitctr_ + 1 ELSE submitctr_

SubmitEnds ==
  /\ op = "submit" /\ End
  /\ submitctr_' = Counted(last.code)
  /\ UNCHANGED <<lib, plugin, slot, exec>>

\* The handle goes to a new object, or into one whose own handle is forgotten.
Succeed ==
  /\ End
  /\ op # "submit" /\ last.code = NoError
  /\ plugin' = (plugin \/ op = "plugin")
  /\ exec' = (exec \/ op = "executor")
  /\ submitctr_' = IF op = "executor" THEN 0 ELSE submitctr_
  /\ IF op \in {"from_text", "copy", "assign"}
     THEN \E j \in Slots :
            /\ IF op = "assign" THEN j # arg /\ slot[j] # "free" ELSE slot[j] = "free"
            /\ slot' = [slot EXCEPT ![j] = "action"]
     ELSE UNCHANGED slot
  /\ UNCHANGED lib

(***************************************************************************)
(* What makes no call that can fail.                                       *)
(***************************************************************************)
\* An event brings an action.
Receive(i) ==
  /\ op = "idle" /\ plugin /\ slot[i] = "free" /\ live["action"] < MaxHandles
  /\ slot' = [slot EXCEPT ![i] = "action"]
  /\ live' = Obtain("action")
  /\ UNCHANGED <<lib, plugin, exec, submitctr_, opVars, edVars>>

\* Moving into a new object or into an old one, whose handle is forgotten.
Move(i, j) ==
  /\ op = "idle" /\ i # j /\ slot[i] # "free"
  /\ slot' = Moved(slot, i, j)
  /\ UNCHANGED <<lib, plugin, exec, submitctr_, opVars, live, edVars>>

Release == live' = [live EXCEPT !["action"] = @ - 1]

Destroy(i) ==
  /\ op = "idle" /\ slot[i] # "free"
  /\ slot' = [slot EXCEPT ![i] = "free"]
  /\ IF slot[i] = "action" THEN Release ELSE UNCHANGED live
  /\ UNCHANGED <<lib, plugin, exec, submitctr_, opVars, edVars>>

\* ~action_executor: await, and then its own action.
DestroyExecutor ==
  /\ op = "idle" /\ exec /\ submitctr_ <= 0
  /\ exec' = FALSE
  /\ Release
  /\ UNCHANGED <<lib, plugin, slot, submitctr_, opVars, edVars>>

Next ==
  \/ \E l \in Libraries : Load(l)
  \/ \E o \in DOMAIN Calls, i \in Slots : Begin(o, i) \/ UseMoved(o, i)
  \/ ClearDescriptor
  \/ InCall /\ \E cause \in Causes(Calls[op][pos]) : Call(cause)
  \/ Hang
  \/ Fail \/ SubmitEnds \/ Succeed
  \/ \E i \in Slots : Receive(i) \/ Destroy(i) \/ \E j \in Slots : Move(i, j)
  \/ DestroyExecutor

Spec == Init /\ [][Next]_vars

-----------------------------------------------------------------------------
\* The error code tells what happened, through the plugin's exception, the clause
\* that catches it, the status and its translation; the sample program tells a
\* removed action by it.  A code without a class or a message of its own never comes.
\* (That a path is invalid is never told: see Hang.)
ErrorsTellTheCause ==
  LET Means(cause, code) == last.cause = cause <=> last.code = code
  IN  /\ Means("none", NoError)
      /\ Means("action_does_not_exist", <<"plugin", "action_not_found">>)
      /\ Means("execution_exception", <<"action", "execution">>)
      /\ Means("busy", <<"plugin", "unavailable">>)
      /\ Means("null", <<"logic", "invalid_argument">>)
      /\ last.code # NoError => ExceptionClass(last.code) # "assert"

\* What the wrapper says of an error is the text of that error if the function had one,
\* neither an earlier text of the host's descriptor, which other calls of the C
\* interface may have filled up, nor one followed by the rest of another.
DescriptionIsOfThisError ==
  LET told == Answer(last.f, last.cause)[3] /\ RoomOf(last.op) > 0
  IN  op = "idle" /\ last.op \notin {"execute", "list"} /\ last.code # NoError =>
        last.says = IF told THEN <<<<last.f, last.cause>>, 1>> ELSE <<>>

\* Every handle is given back once, whichever call of an operation fails.  Action
\* handles may be forgotten (assignments do), but no two objects have the same.
HandlesOwnedOnce ==
  op = "idle" =>
    /\ \A k \in Kinds \ {"action", "plugin"} : live[k] = 0
    /\ live["plugin"] = IF plugin THEN 1 ELSE 0
    /\ live["action"] >=
         Cardinality({i \in Slots : slot[i] = "action"}) + IF exec THEN 1 ELSE 0

\* await finds nothing outstanding and does not wait, so the notification that
\* could fall between its test and its wait is never needed.
AwaitNeverBlocks == submitctr_ <= 0

\* A descriptor has the name and the description of its own object, although the
\* loader binds action_description to the function for plugins.
DescriptorIsItsOwn == last.fields \in {<<>>, <<"name", "", "description", "">>}
=============================================================================
