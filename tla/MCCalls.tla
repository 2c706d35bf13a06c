------------------------------- MODULE MCCalls -------------------------------
(***************************************************************************)
(* Libraries to load: the right one, one of another major version, files   *)
(* that are no library, and ones that lack a function.                     *)
(***************************************************************************)
EXTENDS Calls

Library(opens, major, missing) == [opens |-> opens, major |-> major, missing |-> missing]

MCLibraries ==
  {Library(TRUE, 0, {}), Library(TRUE, 1, {}), Library(FALSE, 0, {}),
   Library(TRUE, 0, {"action_equal", "version_create"}),
   Library(TRUE, 0, {"action_description"})}
=============================================================================
