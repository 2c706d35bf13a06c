--------------------------- MODULE WrapConfigurator ---------------------------
(***************************************************************************)
(* The configurators of the C++ wrapper (src/wrapper/src/                  *)
(* plugin_configurator.cpp) on top of the plugin's handshake.  A           *)
(* configurator hands its own address to the plugin as callback data; the  *)
(* plugin's thread stores the answer in result_ and releases resultsem_,   *)
(* and await, called by the user or by the destructor, takes it.           *)
(***************************************************************************)
EXTENDS Naturals, Sequences

CONSTANTS
  SyncConfigurators,   \* objects of plugin_configurator
  AsyncConfigurators,  \* objects of plugin_configurator_async
  UserOutcomes,        \* how the callback_ of the async ones may end
  AwaitsEach,          \* do users await a configuration before they ask for the
                       \* next one, as the sample program does?
  AwaitsLast,          \* and before they destroy the object?
  NoClient

Configurators == SyncConfigurators \cup AsyncConfigurators

ASSUME ConfiguratorAssumption ==
  /\ SyncConfigurators \cap AsyncConfigurators = {}
  /\ NoClient \notin Configurators
  /\ UserOutcomes \subseteq {"returns", "throws"}
  /\ AwaitsEach \in BOOLEAN
  /\ AwaitsLast \in BOOLEAN

VARIABLES
  sem_from_cfg_, sem_to_cfg_, cfgcallback_, stop_requested, thread,
  caller, answer, reports, dtor,   \* the plugin's
  driver,             \* where the user of each configurator is
  being_configured_,  \* std::atomic<bool>
  resultsem_,         \* std::binary_semaphore, initially 0
  result_,            \* what the plugin's thread stored last
  returned,           \* what the last await returned
  callback_,          \* does the member callback_ still exist?
  cb                  \* where the plugin's thread is in wrap_callback

cfgVars == <<sem_from_cfg_, sem_to_cfg_, cfgcallback_, stop_requested, thread,
             caller, answer, reports, dtor>>
objVars == <<driver, being_configured_, resultsem_, result_, returned, callback_, cb>>
vars == <<cfgVars, objVars>>

\* wrap_callback lets no exception out.
Plugin == INSTANCE PluginConfiguration WITH
  Clients        <- Configurators,
  Throwing       <- {}

DriverLabels == {"idle", "prime", "mark", "await", "take", "read",
                 "dtor_await", "dtor_take", "gone"}
Results      == {"none", "success", "callback_exception", "unavailable"}

Init ==
  /\ Plugin!Init
  /\ driver = [o \in Configurators |-> "idle"]
  /\ being_configured_ = [o \in Configurators |-> FALSE]
  /\ resultsem_ = [o \in Configurators |-> 0]
  /\ result_ = [o \in Configurators |-> "none"]
  /\ returned = [o \in Configurators |-> "none"]
  /\ callback_ = [o \in Configurators |-> TRUE]
  /\ cb = "none"

Move(o, from, to) ==
  /\ driver[o] = from
  /\ driver' = [driver EXCEPT ![o] = to]

(***************************************************************************)
(* configurator_impl_base, run by the user of the object.  In mode gui the *)
(* plugin answers PASMP_NOT_IMPLEMENTED and nothing changes.               *)
(***************************************************************************)
\* prime_configure: PASMP_plugin_configure_cli with the object as cb's data.
Prime(o) ==
  /\ driver[o] = "idle"
  /\ AwaitsEach => ~being_configured_[o]
  /\ Plugin!TryAcquire(o)
  /\ driver' = [driver EXCEPT ![o] = IF answer'[o] = "unavailable" THEN "idle" ELSE "prime"]
  /\ UNCHANGED <<being_configured_, resultsem_, result_, returned, callback_, cb>>

Assign(o) ==
  /\ Plugin!AssignCallback(o)
  /\ UNCHANGED objVars

Publish(o) ==
  /\ Move(o, "prime", "mark")
  /\ Plugin!Publish(o)
  /\ UNCHANGED <<being_configured_, resultsem_, result_, returned, callback_, cb>>

\* Fault: the flag is not set.
ForgetfulMark(o) ==
  /\ Move(o, "mark", IF o \in SyncConfigurators THEN "await" ELSE "idle")
  /\ UNCHANGED <<cfgVars, being_configured_, resultsem_, result_, returned, callback_, cb>>

\* The answer may have arrived before the flag is set.  The synchronous
\* configure goes on to await.
Mark(o) ==
  /\ Move(o, "mark", IF o \in SyncConfigurators THEN "await" ELSE "idle")
  /\ being_configured_' = [being_configured_ EXCEPT ![o] = TRUE]
  /\ UNCHANGED <<cfgVars, resultsem_, result_, returned, callback_, cb>>

\* await of an asynchronous configurator may be called at any time.
CallAwait(o) ==
  /\ o \in AsyncConfigurators
  /\ Move(o, "idle", "await")
  /\ UNCHANGED <<cfgVars, being_configured_, resultsem_, result_, returned, callback_, cb>>

\* compare_exchange_strong, in await or in the destructor's await.
Exchange(o, from, to) ==
  /\ driver[o] = from
  /\ IF being_configured_[o]
     THEN /\ being_configured_' = [being_configured_ EXCEPT ![o] = FALSE]
          /\ driver' = [driver EXCEPT ![o] = to]
          /\ UNCHANGED returned
     ELSE /\ driver' = [driver EXCEPT ![o] = IF from = "dtor_await" THEN "gone" ELSE "idle"]
          /\ returned' = [returned EXCEPT ![o] = "unavailable"]
          /\ UNCHANGED being_configured_
  /\ UNCHANGED <<cfgVars, resultsem_, result_, callback_, cb>>

\* Fault: await does not wait for the permit.
HastyTake(o, from, to) ==
  /\ Move(o, from, to)
  /\ UNCHANGED <<cfgVars, being_configured_, resultsem_, result_, returned, callback_, cb>>

Take(o, from, to) ==
  /\ Move(o, from, to)
  /\ resultsem_[o] > 0
  /\ resultsem_' = [resultsem_ EXCEPT ![o] = @ - 1]
  /\ UNCHANGED <<cfgVars, being_configured_, result_, returned, callback_, cb>>

Read(o) ==
  /\ Move(o, "read", "idle")
  /\ returned' = [returned EXCEPT ![o] = result_[o]]
  /\ UNCHANGED <<cfgVars, being_configured_, resultsem_, result_, callback_, cb>>

\* The members of the derived impl are destroyed before the destructor of the
\* base awaits.
DestroyMembers(o) ==
  /\ AwaitsLast => ~being_configured_[o]
  /\ Move(o, "idle", "dtor_await")
  /\ callback_' = [callback_ EXCEPT ![o] = FALSE]
  /\ UNCHANGED <<cfgVars, being_configured_, resultsem_, result_, returned, cb>>

(***************************************************************************)
(* wrap_callback, run by the plugin's thread for the object cfgcallback_.  *)
(***************************************************************************)
\* Entering the asynchronous one: assert(imp.callback_), then call it.
CallUser ==
  /\ thread = "callback"
  /\ cb = "none"
  /\ cfgcallback_ \in AsyncConfigurators
  /\ cb' = "user"
  /\ UNCHANGED <<cfgVars, driver, being_configured_, resultsem_, result_, returned, callback_>>

Store(result) == result_' = [result_ EXCEPT ![cfgcallback_] = result]

UserReturns ==
  /\ cb = "user"
  /\ "returns" \in UserOutcomes
  /\ Store("success")
  /\ cb' = "none"
  /\ Plugin!RunCallback(FALSE)
  /\ UNCHANGED <<driver, being_configured_, resultsem_, returned, callback_>>

\* The handler also calls on_error_, whose exceptions it swallows.
UserThrows ==
  /\ cb = "user"
  /\ "throws" \in UserOutcomes
  /\ Store("callback_exception")
  /\ cb' = "signal"
  /\ UNCHANGED <<cfgVars, driver, being_configured_, resultsem_, returned, callback_>>

StoreSync ==
  /\ thread = "callback"
  /\ cb = "none"
  /\ cfgcallback_ \in SyncConfigurators
  /\ Store("success")
  /\ cb' = "signal"
  /\ UNCHANGED <<cfgVars, driver, being_configured_, resultsem_, returned, callback_>>

\* Fault: the waiter is not told.
SilentSignal ==
  /\ cb = "signal"
  /\ cb' = "none"
  /\ Plugin!RunCallback(FALSE)
  /\ UNCHANGED <<driver, being_configured_, resultsem_, result_, returned, callback_>>

Signal ==
  /\ cb = "signal"
  /\ resultsem_' = [resultsem_ EXCEPT ![cfgcallback_] = @ + 1]
  /\ cb' = "none"
  /\ Plugin!RunCallback(FALSE)
  /\ UNCHANGED <<driver, being_configured_, result_, returned, callback_>>

\* The rest of the plugin.  Every configurator holds it, so ~my_plugin follows
\* their destructors.
PluginWorks ==
  /\ \/ Plugin!Acquire \/ Plugin!CheckStop \/ Plugin!Release
     \/ Plugin!DtorRelease \/ Plugin!Join
  /\ UNCHANGED objVars

DropPlugin ==
  /\ \A o \in Configurators : driver[o] = "gone"
  /\ Plugin!RequestStop
  /\ UNCHANGED objVars

Working(o) ==
  \/ Assign(o) \/ Publish(o) \/ Mark(o) \/ Read(o)
  \/ Exchange(o, "await", "take") \/ Take(o, "take", "read")
  \/ Exchange(o, "dtor_await", "dtor_take") \/ Take(o, "dtor_take", "gone")

Callback == CallUser \/ UserReturns \/ UserThrows \/ StoreSync \/ Signal

Next ==
  \/ \E o \in Configurators :
       Prime(o) \/ CallAwait(o) \/ DestroyMembers(o) \/ Working(o)
  \/ Callback
  \/ PluginWorks
  \/ DropPlugin

\* Whoever is inside a member function, and the plugin's thread, keep running;
\* a user's callback_ ends.
Fairness ==
  /\ \A o \in Configurators : WF_vars(Working(o))
  /\ WF_vars(Callback)
  /\ WF_vars(PluginWorks)

Spec == Init /\ [][Next]_vars

FairSpec == Spec /\ Fairness

-----------------------------------------------------------------------------
\* Type invariant: resultsem_ is binary, so it must not be released at 1.
TypeOK ==
  /\ Plugin!TypeOK
  /\ driver \in [Configurators -> DriverLabels]
  /\ being_configured_ \in [Configurators -> BOOLEAN]
  /\ resultsem_ \in [Configurators -> {0, 1}]
  /\ result_ \in [Configurators -> Results]
  /\ returned \in [Configurators -> Results]
  /\ callback_ \in [Configurators -> BOOLEAN]
  /\ cb \in {"none", "user", "signal"}

\* The plugin is going to call wrap_callback for o, or is inside it.
WillCall(o) ==
  /\ cfgcallback_ = o
  /\ thread = "callback" \/ (dtor = "alive" /\ (sem_to_cfg_ = 1 \/ thread = "check"))

\* The plugin holds a bare pointer to the object: await, in the user's code or
\* in the destructor, keeps the object until the plugin is done with it.
CalledObjectExists ==
  \A o \in Configurators : WillCall(o) => driver[o] # "gone"

\* await never takes the permit, and so the result, of an earlier request: when
\* there is one to take, or one was taken, the last request has been answered.
ResultIsFresh ==
  \A o \in Configurators :
    (resultsem_[o] > 0 \/ driver[o] = "read") => (reports[o] # <<>> /\ result_[o] # "none")

\* result_ is a plain member: nobody reads it while the plugin's thread stores it.
ResultNotTorn ==
  \A o \in Configurators : driver[o] = "read" => ~(thread = "callback" /\ cfgcallback_ = o)

\* No answer is lost: whoever waits for resultsem_, in await or in the destructor,
\* finds a permit, or the plugin is yet to call, or the user's callback has returned.
NoAnswerLost ==
  \A o \in Configurators :
    driver[o] \in {"take", "dtor_take"} =>
      \/ resultsem_[o] = 1
      \/ WillCall(o)
      \/ o \in AsyncConfigurators /\ reports[o] # <<>> /\ result_[o] = "success"

\* What plugin_configurator.cpp asserts when the plugin calls: callback_ is there.
CallbackAsserted == [][CallUser => callback_[cfgcallback_]]_vars

\* An await that found a configuration to wait for returns, and the destructor,
\* which awaits, ends.
AwaitReturns ==
  \A o \in Configurators :
    /\ driver[o] = "take" ~> driver[o] = "idle"
    /\ driver[o] = "dtor_take" ~> driver[o] = "gone"

\* The code's promise, without what AwaitReturns says of a user's callback that
\* returned: every other await, also that of the destructor, is woken up, whichever
\* of the objects has the plugin and whenever the answer comes.
AwaitReturnsUnlessCallbackDid ==
  \A o \in Configurators :
    driver[o] \in {"take", "dtor_take"} ~>
      \/ driver[o] \in {"idle", "gone"}
      \/ o \in AsyncConfigurators /\ reports[o] # <<>> /\ result_[o] = "success"
=============================================================================
