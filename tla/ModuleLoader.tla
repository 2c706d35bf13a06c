----------------------------- MODULE ModuleLoader -----------------------------
(***************************************************************************)
(* How loaded_module binds the functions of a library                      *)
(* (src/module_load/src/module.cpp and types.hpp), and what the functions  *)
(* that read a descriptor return (src/plugin/plugin_interface.cpp).        *)
(***************************************************************************)
EXTENDS Naturals, Sequences

\* loaded_module::functions, in the order in which they are bound.
Functions == <<
  "version_create", "version_destroy", "version_major", "version_minor",
  "version_patch", "version_pre", "version_build",
  "plugin_attr_create", "plugin_attr_destroy", "plugin_attr_on_action_mod",
  "plugin_attr_on_action_add", "plugin_attr_on_action_rm",
  "plugin_attr_persistence_path", "plugin_create", "plugin_addref", "plugin_release",
  "plugin_descriptor_create", "plugin_descriptor_destroy", "plugin_name",
  "plugin_description", "action_collection_create", "action_collection_destroy",
  "action_collection_size", "action_collection_at", "plugin_actions",
  "plugin_configure_gui", "plugin_configure_cli", "action_serialize",
  "action_deserialize", "action_destroy", "action_descriptor_create",
  "action_descriptor_destroy", "action_name", "action_description", "action_execute",
  "action_execute_async", "action_hash", "action_equal" >>

\* The symbol that a function is bound to, less its prefix PASMP_: its own name,
\* but for one.
SymbolOf(f) == IF f = "action_description" THEN "plugin_description" ELSE f

\* PASMP_VERSION_MAJOR, which the library that answers was compiled with.
Compatible(lib, major) == lib.major = major

\* What the constructor throws first, or "none".
LoadError(lib, major) ==
  LET missing == {i \in DOMAIN Functions : SymbolOf(Functions[i]) \in lib.missing}
  IN  IF ~lib.opens THEN <<"system_error">>
      ELSE IF "version" \in lib.missing THEN <<"function_load_error", "version">>
      ELSE IF "is_library_compatible" \in lib.missing
           THEN <<"function_load_error", "is_library_compatible">>
      ELSE IF ~Compatible(lib, major) THEN <<"module_incompatible">>
      ELSE IF missing # {}
           THEN <<"function_load_error",
                  SymbolOf(Functions[CHOOSE i \in missing : \A j \in missing : i <= j])>>
      ELSE <<"none">>

-----------------------------------------------------------------------------
\* Fault: the members of the plugin's descriptor in another order.
SwappedLayout(type) ==
  IF type = "plugin_descriptor_t" THEN <<"description", "name">> ELSE <<"name", "description">>

\* The strings of plugin_descriptor_t and of action_descriptor_t, in memory order.
Layout(type) ==
  IF type = "plugin_descriptor_t" THEN <<"name", "description">> ELSE <<"name", "description">>

\* The member that an exported function reads, and of what type it takes the object
\* to be, whatever it is.
Reads(symbol) ==
  CASE symbol = "plugin_name"        -> <<"plugin_descriptor_t", "name">>
    [] symbol = "plugin_description" -> <<"plugin_descriptor_t", "description">>
    [] symbol = "action_name"        -> <<"action_descriptor_t", "name">>
    [] symbol = "action_description" -> <<"action_descriptor_t", "description">>

Read(symbol, type) ==
  LET seen == Reads(symbol)
      at   == CHOOSE i \in DOMAIN Layout(seen[1]) : Layout(seen[1])[i] = seen[2]
  IN  Layout(type)[at]

\* The four strings of a wrapper's descriptor, an object of this type, by its two
\* functions: the short variants are empty.
Fields(type, name, description) ==
  <<Read(SymbolOf(name), type), "", Read(SymbolOf(description), type), "">>
=============================================================================
