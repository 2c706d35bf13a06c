-------------------------------- MODULE MidiIn --------------------------------
(***************************************************************************)
(* A MIDI input device (src/midi/src/midi_in.cpp): the object's life, its  *)
(* heartbeat thread, which polls the list of devices to see whether the    *)
(* object's is still there, and the driver's thread, which calls it with   *)
(* messages, while devices are plugged in and out.  The driver and the     *)
(* list of devices are external: any call may be refused, opening and      *)
(* closing are reported inside the calls, and a close that succeeds has    *)
(* waited for a callback that was running.                                 *)
(***************************************************************************)
EXTENDS MidiMessages, Sequences

CONSTANTS
  Devices,     \* what can be plugged in
  Twins,       \* devices that differ in nothing a descriptor tells
  MaxChanges,  \* bound: how often something is plugged in or out
  Bytes,       \* first bytes of messages
  DriverErrors \* what midiInOpen, -Start, -Stop and -Close may fail with

ASSUME MidiInAssumption ==
  /\ Twins \subseteq Devices
  /\ MaxChanges \in Nat
  /\ Bytes \subseteq 0..255
  /\ DriverErrors \subseteq Nat \ {NoError}

VARIABLES
  ports,     \* the system's list of devices
  changes,   \* how often it has changed
  attrs,     \* which of the midiin_attributes is bad, if any
  obj,       \* where midiin::impl is in its life
  descr,     \* its midiin_descriptor_t
  handle,    \* HMIDIIN: the device, and whether it is open, dead or closed
  started,
  failure,   \* the last MMRESULT of a driver call
  hb,        \* where the heartbeat's checker_ is
  count, next, found,   \* its enumeration
  told,      \* what it, and destroy, have reported
  cb,        \* where the driver's thread is in wrap_callback
  heard,     \* the status in the message that it has
  missing    \* was the descriptor absent at a moment of this enumeration? (history)

envVars == <<ports, changes>>
objVars == <<attrs, obj, descr, handle, started, failure>>
hbVars == <<hb, count, next, found, told>>
cbVars == <<cb, heard>>
vars == <<envVars, objVars, hbVars, cbVars, missing>>

NoDescr  == [port |-> 0, looks |-> "none"]
NoHandle == [device |-> "none", state |-> "none"]

\* What a descriptor tells of a device: manufacturer, product, version and name.
Looks(d) == IF d \in Twins THEN "twin" ELSE d

Descriptor(p) == [port |-> p, looks |-> Looks(ports[p])]

\* The comparison of descriptors includes the port.
PresentIn(list) ==
  descr.port \in DOMAIN list /\ descr.looks = Looks(list[descr.port])

Present == PresentIn(ports)

Init ==
  /\ ports \in {s \in [1..1 -> Devices] \cup [1..2 -> Devices] :
                  \A p, q \in DOMAIN s : s[p] = s[q] => p = q}
  /\ changes = 0
  /\ attrs \in {"good", "bad_interval", "bad_on_message", "bad_on_disconnect"}
  /\ obj = "none" /\ descr = NoDescr /\ handle = NoHandle
  /\ started = FALSE /\ failure = NoError
  /\ hb = "none" /\ count = 0 /\ next = 0 /\ found = FALSE /\ told = {}
  /\ cb = "none" /\ heard = NoStatus
  /\ missing = FALSE

(***************************************************************************)
(* The system.  Ports above one that goes away move down by one.           *)
(***************************************************************************)
Plug(d) ==
  /\ changes < MaxChanges
  /\ \A p \in DOMAIN ports : ports[p] # d
  /\ ports' = Append(ports, d)
  /\ changes' = changes + 1
  /\ UNCHANGED <<objVars, hbVars, cbVars, missing>>

Unplug(p) ==
  /\ changes < MaxChanges
  /\ ports' = SubSeq(ports, 1, p - 1) \o SubSeq(ports, p + 1, Len(ports))
  /\ changes' = changes + 1
  /\ handle' = IF handle.device = ports[p] /\ handle.state = "open"
               THEN [handle EXCEPT !.state = "dead"] ELSE handle
  /\ missing' = (missing \/ (hb = "enumerate" /\ ~PresentIn(ports')))
  /\ UNCHANGED <<attrs, obj, descr, started, failure, hbVars, cbVars>>

(***************************************************************************)
(* Construction: a descriptor, taken earlier, midiInOpen on its port, the  *)
(* heartbeat, and only then the attributes, whose errors unwind the object *)
(* with the handle open.                                                   *)
(***************************************************************************)
Describe(p) ==
  /\ obj = "none"
  /\ descr' = Descriptor(p)
  /\ obj' = "described"
  /\ UNCHANGED <<envVars, attrs, handle, started, failure, hbVars, cbVars, missing>>

Open ==
  /\ obj = "described"
  /\ \/ /\ descr.port \in DOMAIN ports
        /\ handle' = [device |-> ports[descr.port], state |-> "open"]
        /\ obj' = "opened" /\ failure' = NoError
     \/ /\ failure' \in IF descr.port \in DOMAIN ports THEN DriverErrors ELSE {BadDeviceId}
        /\ obj' = "failed" /\ UNCHANGED handle
  /\ UNCHANGED <<envVars, attrs, descr, started, hbVars, cbVars, missing>>

StartHeartbeat ==
  /\ obj = "opened"
  /\ obj' = "validate" /\ hb' = "wait"
  /\ UNCHANGED <<envVars, attrs, descr, handle, started, failure, count, next, found,
                 told, cbVars, missing>>

\* midiInStart, midiInStop.
DriverCall(running) ==
  \/ handle.state = "open" /\ failure' = NoError /\ started' = running
  \/ /\ failure' \in IF handle.state = "open" THEN DriverErrors ELSE {NoDriver}
     /\ UNCHANGED started

\* Fault: the device is started before the attributes are looked at.
EarlyStart(start) ==
  /\ obj = "validate"
  /\ IF start THEN DriverCall(TRUE) ELSE UNCHANGED <<started, failure>>
  /\ obj' = IF attrs = "good" /\ (start => failure' = NoError) THEN "live" ELSE "unwind"
  /\ UNCHANGED <<envVars, attrs, descr, handle, hbVars, cbVars, missing>>

Validate(start) ==
  /\ obj = "validate"
  /\ IF attrs = "good" /\ start THEN DriverCall(TRUE) ELSE UNCHANGED <<started, failure>>
  /\ obj' = IF attrs = "good" /\ (start => failure' = NoError) THEN "live" ELSE "unwind"
  /\ UNCHANGED <<envVars, attrs, descr, handle, hbVars, cbVars, missing>>

StartOrStop(running) ==
  /\ obj = "live"
  /\ DriverCall(running)
  /\ UNCHANGED <<envVars, attrs, obj, descr, handle, hbVars, cbVars, missing>>

(***************************************************************************)
(* Destruction: destroy stops and closes; if the driver refuses either,    *)
(* the default handler is told and the object goes all the same, and a     *)
(* handle that is still open keeps its address.  Then the members go, of   *)
(* which the heartbeat is the first: ~jthread requests a stop and joins.   *)
(***************************************************************************)
Destroy ==
  /\ obj = "live"
  /\ DriverCall(FALSE)
  /\ told' = IF failure' = NoError THEN told ELSE told \cup {"stop"}
  /\ obj' = "close"
  /\ UNCHANGED <<envVars, attrs, descr, handle, hb, count, next, found, cbVars, missing>>

Close ==
  /\ obj = "close"
  /\ \/ /\ cb = "none"
        /\ handle' = [handle EXCEPT !.state = "closed"]
        /\ started' = FALSE /\ failure' = NoError
        /\ UNCHANGED told
     \/ /\ failure' \in DriverErrors
        /\ told' = told \cup {"close"}
        /\ UNCHANGED <<handle, started>>
  /\ obj' = "join"
  /\ UNCHANGED <<envVars, attrs, descr, hb, count, next, found, cbVars, missing>>

StopRequested == obj \in {"join", "unwind"}

Join ==
  /\ StopRequested
  /\ hb = "finished"
  /\ hb' = "joined"
  /\ obj' = IF obj = "join" THEN "gone" ELSE "failed"
  /\ UNCHANGED <<envVars, attrs, descr, handle, started, failure, count, next, found,
                 told, cbVars, missing>>

(***************************************************************************)
(* The heartbeat.                                                          *)
(***************************************************************************)
\* Fault: the stop is not looked at.
HeedlessWake ==
  /\ hb = "wait"
  /\ hb' = "enumerate" /\ count' = Len(ports) /\ next' = 1 /\ found' = FALSE
  /\ missing' = ~Present
  /\ UNCHANGED <<envVars, objVars, told, cbVars>>

\* The interval has passed, or a stop is requested.
Wake ==
  /\ hb = "wait"
  /\ IF StopRequested
     THEN hb' = "finished" /\ UNCHANGED <<count, next, found, missing>>
     ELSE /\ hb' = "enumerate" /\ count' = Len(ports) /\ next' = 1 /\ found' = FALSE
          /\ missing' = ~Present
  /\ UNCHANGED <<envVars, objVars, told, cbVars>>

\* Fault: the last port is not asked.
ShortEnumerate ==
  /\ hb = "enumerate"
  /\ IF next >= count
     THEN hb' = (IF found THEN "wait" ELSE "disconnect") /\ UNCHANGED <<next, found>>
     ELSE IF next \in DOMAIN ports
     THEN /\ found' = (found \/ Descriptor(next) = descr)
          /\ next' = next + 1
          /\ UNCHANGED hb
     ELSE hb' = "error" /\ UNCHANGED <<next, found>>
  /\ UNCHANGED <<envVars, objVars, count, told, cbVars, missing>>

\* midiin_descriptors asks one port after the other, and throws when a device
\* has gone since they were counted; then the result is compared.
Enumerate ==
  /\ hb = "enumerate"
  /\ IF next > count
     THEN hb' = (IF found THEN "wait" ELSE "disconnect") /\ UNCHANGED <<next, found>>
     ELSE IF next \in DOMAIN ports
     THEN /\ found' = (found \/ Descriptor(next) = descr)
          /\ next' = next + 1
          /\ UNCHANGED hb
     ELSE hb' = "error" /\ UNCHANGED <<next, found>>
  /\ UNCHANGED <<envVars, objVars, count, told, cbVars, missing>>

\* on_disconnect, which may be empty and then throws; the loop is left.
Disconnect(threw) ==
  /\ hb = "disconnect"
  /\ attrs = "bad_on_disconnect" => threw
  /\ hb' = IF threw THEN "error" ELSE "finished"
  /\ told' = told \cup {"disconnect"}
  /\ UNCHANGED <<envVars, objVars, count, next, found, cbVars, missing>>

\* Fault: an error ends the heartbeat and is told to nobody.
SilentError ==
  /\ hb = "error"
  /\ hb' = "finished"
  /\ UNCHANGED <<envVars, objVars, count, next, found, told, cbVars, missing>>

\* on_error, or the default handler; the loop is left.
Error ==
  /\ hb = "error"
  /\ hb' = "finished"
  /\ told' = told \cup {"error"}
  /\ UNCHANGED <<envVars, objVars, count, next, found, cbVars, missing>>

(***************************************************************************)
(* wrap_callback, which hands the message on to on_message.  The sample's  *)
(* throws on the two kinds of errors; any exception goes to on_error or to *)
(* the default handler, and the driver never sees it.                      *)
(***************************************************************************)
WithData == {"MIM_DATA", "MIM_ERROR", "MIM_MOREDATA"}
WithoutData == {"MIM_LONGDATA", "MIM_LONGERROR"}

Message(msg, byte) ==
  /\ handle.state = "open" /\ started /\ cb = "none"
  /\ cb' = "message"
  /\ heard' = IF msg \in WithData THEN MakeStatus(byte) ELSE NoStatus
  /\ UNCHANGED <<envVars, objVars, hbVars, missing>>

MessageHandled ==
  /\ cb = "message"
  /\ cb' = "none" /\ heard' = NoStatus
  /\ UNCHANGED <<envVars, objVars, hbVars, missing>>

Environment ==
  \/ \E d \in Devices : Plug(d)
  \/ \E p \in DOMAIN ports : Unplug(p)

User ==
  \/ \E p \in DOMAIN ports : Describe(p)
  \/ \E running \in BOOLEAN : StartOrStop(running)
  \/ Destroy

InCall == Open \/ StartHeartbeat \/ (\E start \in BOOLEAN : Validate(start)) \/ Close \/ Join

Checker == Wake \/ Enumerate \/ (\E threw \in BOOLEAN : Disconnect(threw)) \/ Error

Driver == \E msg \in WithData \cup WithoutData, byte \in Bytes : Message(msg, byte)

Next == Environment \/ User \/ InCall \/ Checker \/ Driver \/ MessageHandled

Spec == Init /\ [][Next]_vars

\* Whoever is inside a member function or a callback, and the heartbeat, whose
\* interval passes, keep running.
FairSpec == Spec /\ WF_vars(InCall) /\ WF_vars(Checker) /\ WF_vars(MessageHandled)

-----------------------------------------------------------------------------
\* A disconnection is only reported if the device was away from its port at some
\* moment since the poll began, though the list is not read at one moment.  The
\* comparison includes the port: a device that only moved down, when one below it
\* went, counts as away.
DisconnectJustified ==
  [][\A threw \in BOOLEAN : Disconnect(threw) => missing]_vars

\* A device that stays away is noticed: the heartbeat reports it, or has reported
\* an error before it stopped polling, unless the object is destroyed first.
DisconnectIsReported ==
  (obj = "live" /\ ~Present) ~> (Present \/ told # {} \/ obj # "live")

\* The destructor, and a constructor that throws, end, whatever the heartbeat and
\* the driver are doing.
DestructionEnds == obj \in {"close", "join", "unwind"} ~> obj \in {"gone", "failed"}

\* The status that on_message gets, compared with any other: == and <=> agree,
\* wherever the categories lie in memory, and statuses are equal exactly when they
\* are the same message, channels aside.
StatusesAgree ==
  cb = "message" =>
    \A x \in Bytes, at \in Addresses :
      LET s == heard
          t == MakeStatus(x)
      IN  /\ Equal(s, t) <=> Compare(s, t, at) = 0
          /\ Compare(s, t, at) = -Compare(t, s, at)
          /\ Equal(s, t) => Descr(s) = Descr(t)
          /\ (Descr(s) = Descr(t) /\ Descr(s) # Unrecognized) => Equal(s, t)

\* The driver's thread is not in a callback of an object that has gone, whether it
\* was destroyed or its constructor threw, unless the driver had refused to close
\* the handle and that was told.
CalledWhileThere ==
  (cb = "message" /\ obj \in {"gone", "failed"}) => "close" \in told

\* A failed driver call compares equal to the cause that the code's own category
\* names and to no second one, but for "other", which takes all codes up to the last
\* of the system's; the causes' table says the same of those, and does not know the
\* codes of MIDI, which are invalid_errc by default.
FailuresHaveOneCause ==
  failure # NoError =>
    /\ \A c \in Causes :
         Matches(failure, c) <=>
           c = DefaultCause(failure) \/ (c = "other" /\ failure <= LastError)
    /\ Equivalent(failure, DefaultCause(failure)) <=> failure <= LastError
=============================================================================
