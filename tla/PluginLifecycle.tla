---------------------------- MODULE PluginLifecycle ----------------------------
(***************************************************************************)
(* The life of the one my_plugin of a library (src/plugin/plugin_impl.hpp  *)
(* and .cpp), of the wrap::plugin::impl objects that share it              *)
(* (src/wrapper/src/plugin.cpp), of the queue that its events go to, and   *)
(* of the library itself (src/module_load/src/module.cpp).  An impl is     *)
(* shared by copies of wrap::plugin, by the messages in the queue, and,    *)
(* during an event, by the plugin's modifier_ thread, which finds it       *)
(* through the bare pointer that the first impl gave to the plugin.        *)
(***************************************************************************)
EXTENDS Naturals, FiniteSets

CONSTANTS
  Impls,     \* the wrap::plugin::impl objects that the host's threads create
  NoImpl,
  MaxRefs,   \* bound: copies of wrap::plugin per impl
  Changes,   \* how many events modifier_ announces
  Rules      \* what the host takes care of, see the rules below

AllRules == {"first_last", "no_return", "queue_outlives"}

ASSUME LifecycleAssumption ==
  /\ IsFiniteSet(Impls)
  /\ NoImpl \notin Impls
  /\ MaxRefs \in Nat \ {0}
  /\ Changes \in Nat
  /\ Rules \subseteq AllRules

VARIABLES
  path,          \* is the persistence path a writable directory?
  mod,           \* does the host hold the loaded_module?
  impl,          \* where each impl is in its life
  refs,          \* copies of wrap::plugin that share it
  queue,         \* the host's queue: alive, or being destroyed
  queued,        \* messages in it, each with an action that shares the first impl
  plugin,        \* the object behind create's static ptr
  count_,        \* its std::atomic reference count
  owner,         \* the impl that the event callbacks point to
  modifier,      \* where modifier_ is
  left,          \* events that it has still to announce
  configurator,  \* configurator_ waits in acquire, or has finished
  sem_to_cfg_,
  undefined      \* has freed memory been used?

hostVars == <<path, mod, impl, refs, queue, queued>>
pluginVars == <<plugin, count_, owner, modifier, left, configurator, sem_to_cfg_>>
vars == <<hostVars, pluginVars, undefined>>

Init ==
  /\ path \in {"good", "bad"}
  /\ mod = TRUE
  /\ impl = [i \in Impls |-> "none"]
  /\ refs = [i \in Impls |-> 0]
  /\ queue = "alive" /\ queued = 0
  /\ plugin = "none" /\ count_ = 0 /\ owner = NoImpl
  /\ modifier = "none" /\ left = 0
  /\ configurator = "none" /\ sem_to_cfg_ = 0
  /\ undefined = FALSE

\* loaded_module is a shared_ptr, of which each impl (a plugin_object) has a copy.
Loaded == mod \/ \E i \in Impls : impl[i] \notin {"none", "gone"}

\* shared_ptrs to impl i.
Holders(i) ==
  refs[i] + IF i # owner THEN 0 ELSE queued + IF modifier = "callback" THEN 1 ELSE 0

(***************************************************************************)
(* The rules.  The code leaves them to the host and the sample program     *)
(* keeps them: it has one impl, on one thread, and its queue is declared   *)
(* before the plugin and destroyed long after the last event.              *)
(***************************************************************************)
\* The impl that the callbacks point to is released after the others; so it is the
\* one whose release finds 0, and no two releases do.
FirstLast(i) ==
  i = owner => \A j \in Impls \ {i} : impl[j] \in {"none", "gone"}

\* create is called before there is a plugin, or while somebody holds it.
NoReturn == plugin # "none" => \E j \in Impls : impl[j] \in {"create", "live"}

MayRelease(i) == "first_last" \in Rules => FirstLast(i)

MayCreate ==
  /\ "no_return" \in Rules => NoReturn
  /\ "queue_outlives" \in Rules => queue = "alive"

MayDestroyQueue ==
  "queue_outlives" \in Rules => modifier \in {"none", "finished"}

(***************************************************************************)
(* Creation: impl::create, then PASMP_plugin_create and my_plugin::create, *)
(* whose mutex keeps other callers out.  The constructor starts both       *)
(* threads before it looks at the path.  Later callers get the same        *)
(* object, and their attributes, callbacks included, are ignored.          *)
(***************************************************************************)
\* Fault: the object is handed out without a reference of its own.
UncountedCreate(i) ==
  /\ mod /\ impl[i] = "none" /\ plugin \in {"live", "deleting", "deleted"} /\ MayCreate
  /\ impl' = [impl EXCEPT ![i] = "create"]
  /\ refs' = [refs EXCEPT ![i] = 1]
  /\ UNCHANGED <<path, mod, queue, queued, pluginVars, undefined>>

CreateFirst(i) ==
  /\ mod /\ impl[i] = "none" /\ plugin = "none" /\ MayCreate
  /\ impl' = [impl EXCEPT ![i] = "create"]
  /\ refs' = [refs EXCEPT ![i] = 1]
  /\ plugin' = IF path = "good" THEN "live" ELSE "unwinding"
  /\ count_' = 1
  /\ owner' = i
  /\ modifier' = "work" /\ left' = Changes
  /\ configurator' = "acquire" /\ sem_to_cfg_' = 0
  /\ UNCHANGED <<path, mod, queue, queued, undefined>>

CreateAgain(i) ==
  /\ mod /\ impl[i] = "none" /\ plugin \in {"live", "deleting", "deleted"} /\ MayCreate
  /\ impl' = [impl EXCEPT ![i] = "create"]
  /\ refs' = [refs EXCEPT ![i] = 1]
  /\ count_' = count_ + 1
  /\ undefined' = (undefined \/ plugin # "live")
  /\ UNCHANGED <<path, mod, queue, queued, plugin, owner, modifier, left,
                 configurator, sem_to_cfg_>>

\* impl::init stores the handle; events may have come before.
CreateReturns(i) ==
  /\ impl[i] = "create" /\ plugin # "unwinding"
  /\ impl' = [impl EXCEPT ![i] = "live"]
  /\ UNCHANGED <<path, mod, refs, queue, queued, pluginVars, undefined>>

(***************************************************************************)
(* Sharing, by the host's threads.                                         *)
(***************************************************************************)
Copy(i) ==
  /\ impl[i] = "live" /\ refs[i] \in 1..(MaxRefs - 1)
  /\ refs' = [refs EXCEPT ![i] = @ + 1]
  /\ UNCHANGED <<path, mod, impl, queue, queued, pluginVars, undefined>>

\* The last holder of i runs ~impl.
LoseHolder(i) ==
  IF Holders(i) = 1
  THEN MayRelease(i) /\ impl' = [impl EXCEPT ![i] = "release"]
  ELSE UNCHANGED impl

Drop(i) ==
  /\ impl[i] = "live" /\ refs[i] > 0
  /\ LoseHolder(i)
  /\ refs' = [refs EXCEPT ![i] = @ - 1]
  /\ UNCHANGED <<path, mod, queue, queued, pluginVars, undefined>>

\* The main loop, or the queue's destructor, destroys a message.
DropMessage ==
  /\ queued > 0
  /\ LoseHolder(owner)
  /\ queued' = queued - 1
  /\ UNCHANGED <<path, mod, refs, queue, pluginVars, undefined>>

\* The end of main.
DestroyQueue ==
  /\ queue = "alive" /\ MayDestroyQueue
  /\ queue' = "destroying"
  /\ UNCHANGED <<path, mod, impl, refs, queued, pluginVars, undefined>>

DropModule ==
  /\ mod
  /\ mod' = FALSE
  /\ UNCHANGED <<path, impl, refs, queue, queued, pluginVars, undefined>>

\* A library loaded again has a fresh static ptr.
LoadAgain ==
  /\ ~Loaded
  /\ mod' = TRUE
  /\ plugin' = "none" /\ count_' = 0 /\ owner' = NoImpl
  /\ modifier' = "none" /\ configurator' = "none" /\ sem_to_cfg_' = 0
  /\ UNCHANGED <<path, impl, refs, queue, queued, left, undefined>>

(***************************************************************************)
(* ~impl: my_plugin::release decrements and then reads the count again;    *)
(* ~my_plugin wakes up configurator_, and its members are joined.          *)
(***************************************************************************)
Release(i) ==
  /\ impl[i] = "release"
  /\ count_' = count_ - 1
  /\ impl' = [impl EXCEPT ![i] = "check"]
  /\ undefined' = (undefined \/ plugin # "live")
  /\ UNCHANGED <<path, mod, refs, queue, queued, plugin, owner, modifier, left,
                 configurator, sem_to_cfg_>>

\* Fault: the destructor does not wake up configurator_.
SilentCheck(i) ==
  /\ impl[i] = "check"
  /\ impl' = [impl EXCEPT ![i] = IF count_ = 0 THEN "delete" ELSE "gone"]
  /\ plugin' = IF count_ = 0 THEN "deleting" ELSE plugin
  /\ undefined' = (undefined \/ plugin # "live")
  /\ UNCHANGED <<path, mod, refs, queue, queued, count_, owner, modifier, left,
                 configurator, sem_to_cfg_>>

\* Fault: the count that the decrement found is compared, one too high.
EarlyCheck(i) ==
  /\ impl[i] = "check"
  /\ impl' = [impl EXCEPT ![i] = IF count_ <= 1 THEN "delete" ELSE "gone"]
  /\ plugin' = IF count_ <= 1 THEN "deleting" ELSE plugin
  /\ sem_to_cfg_' = IF count_ <= 1 THEN 1 ELSE sem_to_cfg_
  /\ undefined' = (undefined \/ plugin # "live")
  /\ UNCHANGED <<path, mod, refs, queue, queued, count_, owner, modifier, left, configurator>>

Check(i) ==
  /\ impl[i] = "check"
  /\ impl' = [impl EXCEPT ![i] = IF count_ = 0 THEN "delete" ELSE "gone"]
  /\ plugin' = IF count_ = 0 THEN "deleting" ELSE plugin
  /\ sem_to_cfg_' = IF count_ = 0 THEN 1 ELSE sem_to_cfg_
  /\ undefined' = (undefined \/ plugin # "live")
  /\ UNCHANGED <<path, mod, refs, queue, queued, count_, owner, modifier, left, configurator>>

\* Fault: the threads are left to themselves.
DetachingJoin(i) ==
  /\ plugin = "deleting" /\ impl[i] = "delete"
  /\ plugin' = "deleted"
  /\ impl' = [impl EXCEPT ![i] = "gone"]
  /\ UNCHANGED <<path, mod, refs, queue, queued, count_, owner, modifier, left,
                 configurator, sem_to_cfg_, undefined>>

\* The destructors of configurator_ and modifier_, for ~my_plugin and for a
\* constructor that throws: they are the same, but the constructor has released
\* no semaphore, so it does not get past the first.
Join(i) ==
  /\ \/ plugin = "deleting" /\ impl[i] = "delete"
     \/ plugin = "unwinding" /\ impl[i] = "create"
  /\ configurator = "finished" /\ modifier = "finished"
  /\ plugin' = IF plugin = "deleting" THEN "deleted" ELSE "none"
  /\ impl' = [impl EXCEPT ![i] = "gone"]
  /\ UNCHANGED <<path, mod, refs, queue, queued, count_, owner, modifier, left,
                 configurator, sem_to_cfg_, undefined>>

(***************************************************************************)
(* The plugin's threads.                                                   *)
(***************************************************************************)
FinishConfigurator ==
  /\ configurator = "acquire" /\ sem_to_cfg_ = 1
  /\ configurator' = "finished" /\ sem_to_cfg_' = 0
  /\ UNCHANGED <<hostVars, plugin, count_, owner, modifier, left, undefined>>

\* wrap_callback, through the pointer to the first impl: shared_from_this makes
\* a copy, or throws when the impl has no holder any more; then on_error is
\* called and the event is lost.
Announce ==
  /\ modifier = "work" /\ left > 0
  /\ undefined' = (undefined \/ impl[owner] = "gone")
  /\ IF Holders(owner) > 0
     THEN modifier' = "callback" /\ UNCHANGED left
     ELSE left' = left - 1 /\ UNCHANGED modifier
  /\ UNCHANGED <<hostVars, plugin, count_, owner, configurator, sem_to_cfg_>>

\* The host's callback moves the action into its queue.
Deliver ==
  /\ modifier = "callback"
  /\ undefined' = (undefined \/ queue # "alive")
  /\ queued' = queued + 1
  /\ modifier' = "work" /\ left' = left - 1
  /\ UNCHANGED <<path, mod, impl, refs, queue, plugin, count_, owner,
                 configurator, sem_to_cfg_>>

FinishModifier ==
  /\ modifier = "work" /\ left = 0
  /\ modifier' = "finished"
  /\ UNCHANGED <<hostVars, plugin, count_, owner, left, configurator, sem_to_cfg_, undefined>>

Threads == FinishConfigurator \/ Announce \/ Deliver \/ FinishModifier

InCall(i) == CreateReturns(i) \/ Release(i) \/ Check(i) \/ Join(i)

Next ==
  \/ \E i \in Impls :
       CreateFirst(i) \/ CreateAgain(i) \/ Copy(i) \/ Drop(i) \/ InCall(i)
  \/ DropMessage \/ DestroyQueue \/ DropModule \/ LoadAgain
  \/ Threads

Spec == Init /\ [][Next]_vars

\* The plugin's threads, and whoever is inside a function, keep running.
FairSpec ==
  /\ Spec
  /\ WF_vars(FinishConfigurator)
  /\ WF_vars(Announce \/ Deliver \/ FinishModifier)
  /\ \A i \in Impls : WF_vars(InCall(i))

-----------------------------------------------------------------------------
\* A host that keeps the rules never makes the program use freed memory: the
\* plugin and the impl that its callbacks point to are there when they are used,
\* and the queue when an event is delivered.
NothingDangles == ~undefined

\* The count is the number of impls that hold the plugin: it is 0 only when the
\* last one has let go, and then the object is on its way to deletion.
CountIsOwners ==
  plugin \in {"live", "deleting"} =>
    count_ = Cardinality({i \in Impls : impl[i] \in {"create", "live", "release"}})

\* The library stays loaded while its object, or a thread that runs its code, is
\* there: the impl's copy of the loaded_module is destroyed after ~impl's body.
LibraryOutlivesPlugin ==
  (plugin \in {"live", "unwinding", "deleting"} \/ modifier \in {"work", "callback"}
     \/ configurator = "acquire") => Loaded

\* Once no impl has a holder left the plugin is deleted and its threads joined,
\* late events and all.
ReleasedForGood ==
  (plugin \in {"live", "deleting"} /\ \A i \in Impls : Holders(i) = 0) ~> plugin = "deleted"

\* What error.cpp says of a bad path, that there is an error for it: create returns.
CreationEnds == \A i \in Impls : impl[i] = "create" ~> impl[i] # "create"
=============================================================================
