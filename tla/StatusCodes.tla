------------------------------ MODULE StatusCodes ------------------------------
(***************************************************************************)
(* What a C function of the plugin answers when something goes wrong       *)
(* (src/plugin/plugin_interface.cpp), and the error code that the wrapper  *)
(* makes of it (src/wrapper/src/status_utils.cpp and error.cpp), as pure   *)
(* definitions.  Texts are left out but for the question whether one was   *)
(* put into the caller's error descriptor.                                 *)
(***************************************************************************)
EXTENDS Naturals, Sequences

\* What an exception is caught as, most derived first: plugin_impl.hpp and std.
Is(e) ==
  CASE e = "action_does_not_exist" -> {e, "action_error", "exception"}
    [] e = "execution_exception"   -> {e, "action_error", "exception"}
    [] e = "invalid_path"          -> {e, "system_error", "exception"}
    [] e \in {"bad_alloc", "system_error"} -> {e, "exception"}

(***************************************************************************)
(* The catch clauses of each function, in order: <<type, status, told?>>,  *)
(* the last saying whether fill_error_descriptor is called.                *)
(***************************************************************************)
Told(type, status)   == <<type, status, TRUE>>
Silent(type, status) == <<type, status, FALSE>>

AllocError == Told("bad_alloc", "ERROR_ALLOC")

\* Fault: the clause names a sibling of the exception.
WrongNoEnt == Silent("action_already_exists", "ERROR_ACTION_NOENT")

NoEnt == Silent("action_does_not_exist", "ERROR_ACTION_NOENT")

OnlyAlloc == <<Told("any", "ERROR_ALLOC")>>

\* generic_error<T> and unknown_error.
Otherwise(status) == <<Told("exception", status), Silent("any", "UNKNOWN")>>

PluginClauses(f) ==
  CASE f = "plugin_actions" -> <<AllocError>> \o Otherwise("ERROR_PLUGIN")
    [] f = "plugin_create" ->
         <<Told("invalid_path", "ERROR_PERSISTENCE_PATH"), AllocError>>
           \o Otherwise("ERROR_PLUGIN")

ConfigureClauses ==
  <<AllocError, Told("logic_error", "ERROR_FATAL"), Told("system_error", "ERROR_SYSTEM")>>
    \o Otherwise("ERROR_PLUGIN")

\* Setting a callback, or the path: two of the four know bad_alloc.
AttrClauses(f) ==
  IF f \in {"plugin_attr_on_action_mod", "plugin_attr_on_action_add"}
  THEN Otherwise("ERROR_PLUGIN")
  ELSE <<AllocError>> \o Otherwise("ERROR_PLUGIN")

ActionClauses(f) ==
  IF f = "action_descriptor_create"
  THEN <<NoEnt, AllocError>> \o Otherwise("ERROR_ACTION_OTHER")
  ELSE <<NoEnt, Told("action_error", "ERROR_ACTION_EXEC")>> \o Otherwise("ERROR_ACTION_OTHER")

Clauses(f) ==
  CASE f \in {"plugin_actions", "plugin_create"} -> PluginClauses(f)
    [] f = "plugin_configure_cli" -> ConfigureClauses
    [] f \in {"plugin_attr_on_action_mod", "plugin_attr_on_action_add",
              "plugin_attr_on_action_rm", "plugin_attr_persistence_path"} -> AttrClauses(f)
    [] f \in {"action_descriptor_create", "action_execute", "action_execute_async"} ->
         ActionClauses(f)
    [] OTHER -> OnlyAlloc

\* The first clause that matches.
Catch(f, e) ==
  LET matching == {i \in DOMAIN Clauses(f) : Clauses(f)[i][1] \in Is(e) \cup {"any"}}
  IN  Clauses(f)[CHOOSE i \in matching : \A j \in matching : i <= j]

(***************************************************************************)
(* What can go wrong in a call, and the answer to it.                      *)
(***************************************************************************)
\* The exceptions that come out of each function's body; my_plugin's constructor
\* also throws invalid_path, but its unwinding does not end.
Throws(f) ==
  CASE f \in {"plugin_create", "plugin_actions", "plugin_configure_cli", "plugin_attr_persistence_path"} ->
         {"bad_alloc", "system_error"}
    [] f = "action_descriptor_create" -> {"action_does_not_exist", "bad_alloc", "system_error"}
    [] f \in {"action_execute", "action_execute_async"} ->
         {"action_does_not_exist", "execution_exception", "bad_alloc", "system_error"}
    [] f \in {"action_serialize", "action_deserialize", "action_collection_at",
              "plugin_configure_gui"} -> {}
    [] OTHER -> {"bad_alloc"}

\* The tag of a wrap::payload, by what it is made of; executions take "INT32" only.
Tag == [nothing  |-> "NONE",   int32_t |-> "INT32", int64_t |-> "INT64",
        uint32_t |-> "UINT32", uint64_t |-> "UINT64", float |-> "FLOAT",
        double   |-> "DOUBLE", string |-> "STRING"]

\* Answers without an exception, early returns most of them.
EarlyReturn(f, cause) ==
  CASE cause = "none"    -> Silent(cause, "SUCCESS")
    [] cause = "null"    -> Silent(cause, "INVALID_ARGUMENT")
    [] cause = "busy"    -> Silent(cause, "UNAVAILABLE")
    [] cause = "gui"     -> Told(cause, "NOT_IMPLEMENTED")
    [] cause = "garbage" -> Told(cause, "ERROR_ACTION_SERIAL")
    [] cause = "payload" -> <<cause, "ERROR_PAYLOAD_INVALID", f = "action_execute_async">>

Answer(f, cause) == IF cause \in Throws(f) THEN Catch(f, cause) ELSE EarlyReturn(f, cause)

-----------------------------------------------------------------------------
(***************************************************************************)
(* The wrapper's error codes: <<category, enumerator>>.                    *)
(***************************************************************************)
NoError == <<"none", "none">>

\* make_error_code(PASMP_status_t).
ErrorCode(status) ==
  CASE status = "SUCCESS"          -> NoError
    [] status = "UNKNOWN"          -> <<"logic", "unknown">>
    [] status = "NOT_IMPLEMENTED"  -> <<"generic", "not_implemented">>
    [] status = "UNAVAILABLE"      -> <<"plugin", "unavailable">>
    [] status = "INVALID_ARGUMENT" -> <<"logic", "invalid_argument">>
    [] status = "ERROR_ALLOC"      -> <<"generic", "alloc">>
    [] status = "ERROR_FATAL"      -> <<"logic", "fatal">>
    [] status = "ERROR_SYSTEM"     -> <<"generic", "system">>
    [] status = "ERROR_TRUNCATED"  -> <<"generic", "truncated">>
    [] status = "ERROR_OTHER"      -> <<"generic", "other">>
    [] status = "ERROR_PERSISTENCE_PATH" -> <<"plugin", "bad_persistence_path">>
    [] status = "ERROR_PLUGIN"     -> <<"plugin", "other">>
    [] status = "ERROR_ACTION_NOENT"  -> <<"plugin", "action_not_found">>
    [] status = "ERROR_ACTION_EXEC"   -> <<"action", "execution">>
    [] status = "ERROR_ACTION_OTHER"  -> <<"action", "other">>
    [] status = "ERROR_ACTION_SERIAL" -> <<"action", "serialization">>
    [] status = "ERROR_PAYLOAD_INVALID" -> <<"action", "invalid_payload">>
    [] OTHER -> <<"logic", "invalid_status">>

\* The codes that the categories' message functions know.
Described ==
  ({"logic"} \X {"invalid_status", "invalid_argument", "unknown", "fatal",
                 "callback_exception"})
    \cup ({"generic"} \X {"not_implemented", "alloc", "system", "truncated", "other"})
    \cup ({"plugin"} \X {"action_not_found", "unavailable", "other",
                         "bad_persistence_path"})
    \cup ({"action"} \X {"execution", "serialization", "invalid_payload", "other"})

\* error_code_as_exception: a class per category; an assert trips for any other code.
ExceptionClass(code) == IF code \in Described THEN code[1] ELSE "assert"
=============================================================================
