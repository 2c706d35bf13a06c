----------------------------- MODULE MidiIn_proofs -----------------------------
(***************************************************************************)
(* Theorems about MidiIn, for every set of devices, however they come and  *)
(* go, and for messages of every byte.                                     *)
(***************************************************************************)
EXTENDS MidiIn, SequenceTheorems, TLAPS

\* The descriptor is fixed before the heartbeat begins.
Fixed ==
  /\ ports \in Seq(Devices)
  /\ \E p, l : descr = [port |-> p, looks |-> l]
  /\ obj = "none" => hb = "none"
  /\ found \in BOOLEAN /\ missing \in BOOLEAN

\* As long as the device was always there, its port is still to be asked, or it has
\* been found.
Polling ==
  /\ hb = "enumerate" => count \in Nat /\ next \in Nat
  /\ hb = "enumerate" /\ ~found /\ ~missing =>
       Present /\ next <= descr.port /\ descr.port <= count
  /\ hb = "disconnect" => missing

PollInv == Fixed /\ Polling

\* Devices before a port that is freed keep their places; what is left is a list.
LEMMA Shortened ==
  ASSUME NEW s \in Seq(Devices), NEW p \in DOMAIN s
  PROVE  SubSeq(s, 1, p - 1) \o SubSeq(s, p + 1, Len(s)) \in Seq(Devices)
<1>1. Len(s) \in Nat /\ DOMAIN s = 1..Len(s)
  BY LenProperties
<1>2. p \in 1..Len(s)
  BY <1>1
<1>3. SubSeq(s, 1, p - 1) \in Seq(Devices)
  <2>1. \A i \in 1..(p - 1) : s[i] \in Devices
    BY <1>1, <1>2, ElementOfSeq
  <2> QED BY <1>2, <2>1, SubSeqProperties
<1>4. SubSeq(s, p + 1, Len(s)) \in Seq(Devices)
  <2>1. \A i \in (p + 1)..Len(s) : s[i] \in Devices
    BY <1>1, <1>2, ElementOfSeq
  <2> QED BY <1>1, <1>2, <2>1, SubSeqProperties
<1> QED BY <1>3, <1>4, ConcatProperties

LEMMA PollInvInit == Init => PollInv
<1> SUFFICES ASSUME Init PROVE PollInv
  OBVIOUS
<1>1. ports \in Seq(Devices)
  BY DEF Init
<1> QED BY <1>1 DEF Init, PollInv, Fixed, Polling, NoDescr

LEMMA PlugKeeps == ASSUME PollInv, NEW d \in Devices, Plug(d) PROVE PollInv'
<1>1. ports' = Append(ports, d) /\ UNCHANGED <<objVars, hbVars, missing>>
  BY DEF Plug
<1>2. ports' \in Seq(Devices) /\ Len(ports') = Len(ports) + 1 /\ Len(ports) \in Nat
      /\ \A i \in 1..Len(ports) : ports'[i] = ports[i]
  BY <1>1, AppendProperties, LenProperties DEF PollInv, Fixed
<1>3. DOMAIN ports = 1..Len(ports) /\ DOMAIN ports' = 1..(Len(ports) + 1)
  BY <1>2, LenProperties DEF PollInv, Fixed
<1>4. Present => Present'
  BY <1>1, <1>2, <1>3 DEF Present, PresentIn, objVars
<1> QED BY <1>1, <1>2, <1>4 DEF PollInv, Fixed, Polling, objVars, hbVars

LEMMA UnplugKeeps == ASSUME PollInv, NEW p \in DOMAIN ports, Unplug(p) PROVE PollInv'
<1>1. ports' \in Seq(Devices)
  BY Shortened DEF Unplug, PollInv, Fixed
<1>2. UNCHANGED <<obj, descr, hbVars>> /\ (missing' <=> (missing \/ (hb = "enumerate" /\ ~Present')))
  BY DEF Unplug, Present, PresentIn
<1> QED BY <1>1, <1>2 DEF PollInv, Fixed, Polling, hbVars

LEMMA CheckerKeeps == ASSUME PollInv, Checker PROVE PollInv'
<1>1. UNCHANGED <<envVars, objVars>>
  BY DEF Checker, Wake, Enumerate, Disconnect, Error
<1>2. Fixed'
  BY <1>1 DEF PollInv, Fixed, Checker, Wake, Enumerate, Disconnect, Error, envVars, objVars
<1>3. Present' <=> Present
  BY <1>1 DEF Present, PresentIn, envVars, objVars
<1>4. DOMAIN ports = 1..Len(ports) /\ Len(ports) \in Nat
  BY LenProperties DEF PollInv, Fixed
<1>5. Present => descr.port \in Nat /\ 1 <= descr.port /\ descr.port <= Len(ports)
  BY <1>4 DEF Present, PresentIn
<1>6. CASE Wake
  <2>1. CASE StopRequested
    <3>1. hb' = "finished"
      BY <1>6, <2>1 DEF Wake
    <3> QED BY <1>2, <3>1 DEF PollInv, Polling
  <2>2. CASE ~StopRequested
    <3>1. hb' = "enumerate" /\ count' = Len(ports) /\ next' = 1 /\ missing' = ~Present
      BY <1>6, <2>2 DEF Wake
    <3>2. descr' = descr
      BY <1>1 DEF objVars
    <3>3. ~missing' => Present' /\ 1 <= descr.port /\ descr.port <= Len(ports)
      BY <1>3, <1>5, <3>1, Zenon
    <3>4. Polling'
      BY <1>4, <3>1, <3>2, <3>3 DEF Polling
    <3> QED BY <1>2, <3>4 DEF PollInv
  <2> QED BY <2>1, <2>2
<1>7. CASE Enumerate
  <2>0. hb = "enumerate" /\ count' = count /\ missing' = missing /\ descr' = descr
    BY <1>1, <1>7 DEF Enumerate, objVars
  <2>1. CASE next > count
    <3>1. hb' = (IF found THEN "wait" ELSE "disconnect") /\ next' = next /\ found' = found
      BY <1>7, <2>1 DEF Enumerate
    <3>2. ~found => missing
      BY <1>4, <1>5, <2>0, <2>1 DEF PollInv, Polling
    <3> QED BY <1>2, <2>0, <3>1, <3>2 DEF PollInv, Polling
  <2>2. CASE ~(next > count) /\ next \in DOMAIN ports
    <3>1. hb' = hb /\ found' = (found \/ Descriptor(next) = descr) /\ next' = next + 1
      BY <1>7, <2>2 DEF Enumerate
    <3>2. (Present /\ next = descr.port) => Descriptor(next) = descr
      <4> SUFFICES ASSUME Present, next = descr.port PROVE Descriptor(next) = descr
        OBVIOUS
      <4>1. PICK p, l : descr = [port |-> p, looks |-> l]
        BY DEF PollInv, Fixed
      <4>2. p = next /\ l = Looks(ports[next])
        BY <4>1 DEF Present, PresentIn
      <4> QED BY <4>1, <4>2 DEF Descriptor
    <3>3. /\ count \in Nat /\ next \in Nat
          /\ ~found /\ ~missing => Present /\ next <= descr.port /\ descr.port <= count
      BY <2>0 DEF PollInv, Polling
    <3>4. ~found' /\ ~missing' => Present' /\ next # descr.port /\ descr.port \in Nat
                                     /\ next <= descr.port /\ descr.port <= count
      BY <1>3, <1>5, <2>0, <3>1, <3>2, <3>3, Zenon
    <3>5. Polling'
      BY <2>0, <3>1, <3>3, <3>4 DEF Polling
    <3> QED BY <1>2, <3>5 DEF PollInv
  <2>3. CASE ~(next > count) /\ next \notin DOMAIN ports
    <3>1. hb' = "error"
      BY <1>7, <2>3 DEF Enumerate
    <3> QED BY <1>2, <3>1 DEF PollInv, Polling
  <2> QED BY <2>1, <2>2, <2>3
<1>8. CASE (\E threw \in BOOLEAN : Disconnect(threw)) \/ Error
  BY <1>2, <1>8 DEF Disconnect, Error, PollInv, Polling
<1> QED BY <1>6, <1>7, <1>8 DEF Checker

LEMMA PollInvStep == PollInv /\ [Next]_vars => PollInv'
<1> SUFFICES ASSUME PollInv, [Next]_vars PROVE PollInv'
  OBVIOUS
<1>1. CASE Environment
  BY <1>1, PlugKeeps, UnplugKeeps DEF Environment
<1>2. CASE Checker
  BY <1>2, CheckerKeeps
<1>3. ASSUME NEW p \in DOMAIN ports, Describe(p) PROVE PollInv'
  BY <1>3 DEF Describe, Descriptor, PollInv, Fixed, Polling, envVars, hbVars
<1>4. CASE StartHeartbeat
  BY <1>4 DEF StartHeartbeat, PollInv, Fixed, Polling, envVars
<1>5. CASE Join
  BY <1>5 DEF Join, PollInv, Fixed, Polling, envVars
<1>6. CASE \/ Open \/ Close \/ Destroy \/ Driver \/ MessageHandled \/ UNCHANGED vars
           \/ (\E start \in BOOLEAN : Validate(start))
           \/ (\E running \in BOOLEAN : StartOrStop(running))
  <2>1. /\ UNCHANGED <<ports, descr, hb, count, next, found, missing>>
        /\ obj' = "none" => obj = "none"
    <3>1. CASE Destroy \/ Close
      BY <3>1 DEF Close, Destroy, envVars
    <3>2. CASE \/ Open \/ Driver \/ MessageHandled \/ UNCHANGED vars
               \/ (\E running \in BOOLEAN : StartOrStop(running))
      BY <3>2 DEF Open, Driver, Message, MessageHandled, StartOrStop, vars, envVars, objVars,
                  hbVars
    <3>3. CASE \E start \in BOOLEAN : Validate(start)
      BY <3>3 DEF Validate, envVars, hbVars
    <3> QED BY <1>6, <3>1, <3>2, <3>3
  <2>2. Present' <=> Present
    BY <2>1 DEF Present, PresentIn
  <2> QED BY <2>1, <2>2 DEF PollInv, Fixed, Polling
<1> QED BY <1>1, <1>2, <1>3, <1>4, <1>5, <1>6 DEF Next, User, InCall

LEMMA PollInvAlways == Spec => []PollInv
BY PollInvInit, PollInvStep, PTL DEF Spec

\* The heartbeat reports a disconnection only if the device was missing, at its port,
\* at some moment of the poll, whatever was plugged in and out between two ports.
THEOREM DisconnectsAreReal == Spec => DisconnectJustified
<1>1. PollInv /\ [Next]_vars =>
        [\A threw \in BOOLEAN : Disconnect(threw) => missing]_vars
  BY DEF PollInv, Polling, Disconnect
<1> QED BY <1>1, PollInvAlways, PTL DEF Spec, DisconnectJustified

-----------------------------------------------------------------------------
Statuses == [value : Int, cat : Categories]

LEMMA HighIsInt == ASSUME NEW x \in Int PROVE High(x) \in Int
BY DEF High

LEMMA MadeStatus == ASSUME NEW x \in 0..255 PROVE MakeStatus(x) \in Statuses
BY DEF MakeStatus, Status, NoStatus, Statuses, Categories

LEMMA DescrIs ==
  ASSUME NEW s \in Statuses
  PROVE  /\ s.cat = "voice" => Descr(s) = ChannelVoiceDescr(s.value)
         /\ s.cat = "common" => Descr(s) = SystemCommonDescr(s.value)
         /\ s.cat = "realtime" => Descr(s) = SystemRealtimeDescr(s.value)
<1>1. s.cat = "voice" => Descr(s) = ChannelVoiceDescr(s.value)
  BY Zenon DEF Descr
<1>2. s.cat = "common" => Descr(s) = SystemCommonDescr(s.value)
  BY Zenon DEF Descr
<1>3. s.cat = "realtime" => Descr(s) = SystemRealtimeDescr(s.value)
  BY Zenon DEF Descr
<1> QED BY <1>1, <1>2, <1>3

\* == and <=> are the same order of the messages, channels aside.
LEMMA Agreement ==
  ASSUME NEW s \in Statuses, NEW t \in Statuses, NEW at \in Addresses
  PROVE  /\ Equal(s, t) <=> Compare(s, t, at) = 0
         /\ Compare(s, t, at) = -Compare(t, s, at)
         /\ Equal(s, t) => Descr(s) = Descr(t)
         /\ (Descr(s) = Descr(t) /\ Descr(s) # Unrecognized) => Equal(s, t)
<1> DEFINE hs == High(s.value)
           ht == High(t.value)
<1>0. /\ s.cat \in Categories /\ t.cat \in Categories
      /\ s.value \in Int /\ t.value \in Int /\ hs \in Int /\ ht \in Int
  BY HighIsInt DEF Statuses
<1>1. CASE s.cat # t.cat
  <2>1. at[s.cat] \in Int /\ at[t.cat] \in Int /\ at[s.cat] # at[t.cat]
    BY <1>0, <1>1 DEF Addresses
  <2>2. Compare(s, t, at) = Sign(at[s.cat] - at[t.cat])
        /\ Compare(t, s, at) = Sign(at[t.cat] - at[s.cat])
    BY <1>1 DEF Compare
  <2>3. ~Equal(s, t)
    BY <1>1 DEF Equal
  <2>4. ~(Descr(s) = Descr(t) /\ Descr(s) # Unrecognized)
    <3>1. /\ s.cat = "voice" => Descr(s) \in ChannelVoice \cup {Unrecognized}
          /\ s.cat = "common" => Descr(s) \in SystemCommon \cup {Unrecognized}
          /\ s.cat = "realtime" => Descr(s) \in SystemRealtime \cup {Unrecognized}
      BY DescrIs DEF ChannelVoiceDescr, SystemCommonDescr, SystemRealtimeDescr
    <3>2. /\ t.cat = "voice" => Descr(t) \in ChannelVoice \cup {Unrecognized}
          /\ t.cat = "common" => Descr(t) \in SystemCommon \cup {Unrecognized}
          /\ t.cat = "realtime" => Descr(t) \in SystemRealtime \cup {Unrecognized}
      BY DescrIs DEF ChannelVoiceDescr, SystemCommonDescr, SystemRealtimeDescr
    <3> QED
      BY <1>0, <1>1, <3>1, <3>2 DEF Categories, ChannelVoice, SystemCommon, SystemRealtime
  <2> QED BY <2>1, <2>2, <2>3, <2>4 DEF Sign
<1>2. CASE s.cat = t.cat /\ s.cat = "voice"
  <2>1. /\ Equal(s, t) <=> hs = ht
        /\ Compare(s, t, at) = Sign(hs - ht) /\ Compare(t, s, at) = Sign(ht - hs)
    BY <1>2 DEF Equal, Compare
  <2>2. /\ Descr(s) = IF hs \in ChannelVoice THEN hs ELSE Unrecognized
        /\ Descr(t) = IF ht \in ChannelVoice THEN ht ELSE Unrecognized
    BY <1>2, DescrIs DEF ChannelVoiceDescr
  <2> HIDE DEF hs, ht
  <2> QED BY <1>0, <2>1, <2>2 DEF Sign
<1>3. CASE s.cat = t.cat /\ s.cat # "voice"
  <2>1. /\ Equal(s, t) <=> s.value = t.value
        /\ Compare(s, t, at) = Sign(s.value - t.value)
        /\ Compare(t, s, at) = Sign(t.value - s.value)
    BY <1>3 DEF Equal, Compare
  <2>2. \/ /\ Descr(s) = SystemCommonDescr(s.value)
           /\ Descr(t) = SystemCommonDescr(t.value)
        \/ /\ Descr(s) = SystemRealtimeDescr(s.value)
           /\ Descr(t) = SystemRealtimeDescr(t.value)
    BY <1>0, <1>3, DescrIs DEF Categories
  <2> QED
    BY <1>0, <2>1, <2>2 DEF Sign, SystemCommonDescr, SystemRealtimeDescr
<1> QED BY <1>1, <1>2, <1>3

\* Of whatever byte a message's status was made, == and <=> agree on it, and statuses
\* have the same text exactly when they are the same message.
THEOREM StatusesCompare == Spec => []StatusesAgree
<1> DEFINE HeardInv == heard \in Statuses
<1>1. Init => HeardInv
  BY DEF Init, NoStatus, Status, Statuses, Categories
<1>2. ASSUME HeardInv, [Next]_vars PROVE HeardInv'
  <2>1. ASSUME NEW msg, NEW byte \in Bytes, Message(msg, byte) PROVE HeardInv'
    <3>1. heard' = MakeStatus(byte) \/ heard' = NoStatus
      BY <2>1 DEF Message
    <3>2. MakeStatus(byte) \in Statuses
      BY MadeStatus, MidiInAssumption
    <3>3. NoStatus \in Statuses
      BY DEF NoStatus, Status, Statuses, Categories
    <3> QED BY <3>1, <3>2, <3>3
  <2>2. CASE MessageHandled
    BY <2>2 DEF MessageHandled, NoStatus, Status, Statuses, Categories
  <2>3. CASE heard' = heard
    BY <1>2, <2>3
  <2>4. \/ \E msg : \E byte \in Bytes : Message(msg, byte)
        \/ MessageHandled \/ heard' = heard
    BY <1>2 DEF Next, Environment, User, InCall, Checker, Driver, Plug, Unplug, Describe,
                StartOrStop, Destroy, Open, StartHeartbeat, Validate, Close, Join, Wake,
                Enumerate, Disconnect, Error, vars, cbVars
  <2> QED BY <2>1, <2>2, <2>3, <2>4
<1>3. HeardInv => StatusesAgree
  <2> SUFFICES ASSUME HeardInv, NEW x \in Bytes, NEW at \in Addresses
               PROVE  LET s == heard
                          t == MakeStatus(x)
                      IN  /\ Equal(s, t) <=> Compare(s, t, at) = 0
                          /\ Compare(s, t, at) = -Compare(t, s, at)
                          /\ Equal(s, t) => Descr(s) = Descr(t)
                          /\ (Descr(s) = Descr(t) /\ Descr(s) # Unrecognized) => Equal(s, t)
    BY DEF StatusesAgree
  <2> QED BY Agreement, MadeStatus, MidiInAssumption
<1> QED BY <1>1, <1>2, <1>3, PTL DEF Spec

-----------------------------------------------------------------------------
\* Of every error code there is: the cause it has by default is the only one it
\* compares equal to, but for "other" up to LastError; above, the causes' own table does
\* not know it.
LEMMA OneCause ==
  ASSUME NEW ev \in Nat \ {NoError}
  PROVE  /\ \A c \in Causes :
              Matches(ev, c) <=> c = DefaultCause(ev) \/ (c = "other" /\ ev <= LastError)
         /\ Equivalent(ev, DefaultCause(ev)) <=> ev <= LastError
<1> USE DEF NoError, LastError, BadDeviceId, NotEnabled, Allocated, NoDriver, BadErrNum,
            NoDriverCb
<1>1. /\ Equivalent(ev, "bad_device_id") <=> ev = BadDeviceId
      /\ Equivalent(ev, "driver_error") <=> ev \in {NotEnabled, NoDriver, NoDriverCb}
      /\ Equivalent(ev, "already_in_use") <=> ev = Allocated
      /\ Equivalent(ev, "invalid_errc") <=> ev = BadErrNum
      /\ Equivalent(ev, "other") <=> ev \in 1..LastError
  BY Zenon DEF Equivalent
<1>2. CASE ev = BadDeviceId
  <2>1. DefaultCause(ev) = "bad_device_id"
    BY <1>2 DEF DefaultCause
  <2> QED BY <1>1, <1>2, <2>1 DEF Causes, Matches
<1>3. CASE ev \in {NotEnabled, NoDriver, NoDriverCb}
  <2>1. DefaultCause(ev) = "driver_error"
    BY <1>3 DEF DefaultCause
  <2> QED BY <1>1, <1>3, <2>1 DEF Causes, Matches
<1>4. CASE ev = Allocated
  <2>1. DefaultCause(ev) = "already_in_use"
    BY <1>4 DEF DefaultCause
  <2> QED BY <1>1, <1>4, <2>1 DEF Causes, Matches
<1>5. CASE ev = BadErrNum
  <2>1. DefaultCause(ev) = "invalid_errc"
    BY <1>5 DEF DefaultCause
  <2> QED BY <1>1, <1>5, <2>1 DEF Causes, Matches
<1>6. CASE ev \notin {BadDeviceId, NotEnabled, NoDriver, NoDriverCb, Allocated, BadErrNum}
  <2>1. CASE ev <= LastError
    <3>1. DefaultCause(ev) = "other"
      BY <1>6, <2>1 DEF DefaultCause
    <3> QED BY <1>1, <1>6, <2>1, <3>1 DEF Causes, Matches
  <2>2. CASE ~(ev <= LastError)
    <3>1. DefaultCause(ev) = "invalid_errc"
      BY <1>6, <2>2 DEF DefaultCause
    <3> QED BY <1>1, <1>6, <2>2, <3>1 DEF Causes, Matches
  <2> QED BY <2>1, <2>2
<1> QED BY <1>2, <1>3, <1>4, <1>5, <1>6

\* Whatever code opening, starting, stopping or closing a device fails with, those of MIDI
\* included, it compares equal to one cause, but for "other" up to the last of the
\* system's codes; above it only the default says which.
THEOREM CausesAreTold == Spec => []FailuresHaveOneCause
<1> DEFINE Known == failure \in Nat
<1>1. Init => Known
  BY DEF Init, NoError
<1>2. ASSUME Known, [Next]_vars PROVE Known'
  <2>0. /\ DriverErrors \subseteq Nat /\ BadDeviceId \in Nat /\ NoDriver \in Nat
        /\ NoError \in Nat
    BY MidiInAssumption DEF BadDeviceId, NoDriver, NoError
  <2>1. CASE Open
    BY <2>0, <2>1 DEF Open
  <2>2. ASSUME NEW running \in BOOLEAN, DriverCall(running) PROVE Known'
    BY <2>0, <2>2 DEF DriverCall
  <2>3. ASSUME NEW start \in BOOLEAN, Validate(start) PROVE Known'
    BY <1>2, <2>2, <2>3 DEF Validate
  <2>4. ASSUME NEW running \in BOOLEAN, StartOrStop(running) PROVE Known'
    BY <2>2, <2>4 DEF StartOrStop
  <2>5. \/ Open \/ failure' = failure \/ Destroy \/ Close
        \/ (\E start \in BOOLEAN : Validate(start))
        \/ (\E running \in BOOLEAN : StartOrStop(running))
    BY <1>2 DEF Next, Environment, User, InCall, Checker, Driver, Plug, Unplug, Describe,
                StartHeartbeat, Join, Wake, Enumerate, Disconnect, Error, Message,
                MessageHandled, vars, objVars
  <2>6. CASE Destroy
    BY <2>2, <2>6 DEF Destroy
  <2>7. CASE Close
    BY <2>0, <2>7 DEF Close
  <2> QED BY <1>2, <2>1, <2>3, <2>4, <2>5, <2>6, <2>7
<1>3. Known => FailuresHaveOneCause
  BY OneCause DEF FailuresHaveOneCause
<1> QED BY <1>1, <1>2, <1>3, PTL DEF Spec

-----------------------------------------------------------------------------
\* The driver calls only what was started, and nothing is started before the attributes
\* are known to be good; past a close, only one that was refused leaves it running.
Quiet == ~started /\ cb = "none"

CallerInv ==
  /\ started \in BOOLEAN
  /\ obj \in {"none", "described", "opened", "validate", "unwind", "failed"} => Quiet
  /\ obj \in {"join", "gone"} => Quiet \/ "close" \in told

\* The driver's thread is in no callback of an object that has gone, unless closing its
\* handle was refused and the default handler was told so.
THEOREM CallsReachTheObject == Spec => []CalledWhileThere
<1>1. Init => CallerInv
  BY DEF Init, CallerInv, Quiet
<1>2. ASSUME CallerInv, [Next]_vars PROVE CallerInv'
  <2>1. CASE Environment \/ Checker \/ UNCHANGED vars
    <3>1. UNCHANGED <<started, obj, cb>> /\ ("close" \in told => "close" \in told')
      BY <2>1 DEF Environment, Checker, Plug, Unplug, Wake, Enumerate, Disconnect, Error, vars,
                  envVars, objVars, hbVars, cbVars
    <3> QED BY <1>2, <3>1 DEF CallerInv, Quiet
  <2>2. CASE (\E p \in DOMAIN ports : Describe(p)) \/ Open \/ StartHeartbeat
    BY <1>2, <2>2 DEF Describe, Open, StartHeartbeat, CallerInv, Quiet, hbVars, cbVars
  <2>3. ASSUME NEW start \in BOOLEAN, Validate(start) PROVE CallerInv'
    <3>1. CASE attrs = "good" /\ start
      BY <1>2, <2>3, <3>1 DEF Validate, DriverCall, CallerInv, Quiet, cbVars
    <3>2. CASE ~(attrs = "good" /\ start)
      BY <1>2, <2>3, <3>2 DEF Validate, CallerInv, Quiet, cbVars
    <3> QED BY <3>1, <3>2
  <2>4. ASSUME NEW running \in BOOLEAN, StartOrStop(running) PROVE CallerInv'
    BY <1>2, <2>4 DEF StartOrStop, DriverCall, CallerInv
  <2>5. CASE Destroy
    BY <1>2, <2>5 DEF Destroy, DriverCall, CallerInv
  <2>6. CASE Close
    BY <1>2, <2>6 DEF Close, CallerInv, Quiet, cbVars
  <2>7. CASE Join
    BY <1>2, <2>7 DEF Join, StopRequested, CallerInv, Quiet, cbVars
  <2>8. CASE Driver
    BY <1>2, <2>8 DEF Driver, Message, CallerInv, Quiet, objVars, hbVars
  <2>9. CASE MessageHandled
    BY <1>2, <2>9 DEF MessageHandled, CallerInv, Quiet, objVars, hbVars
  <2> QED BY <1>2, <2>1, <2>2, <2>3, <2>4, <2>5, <2>6, <2>7, <2>8, <2>9
          DEF Next, User, InCall
<1>3. CallerInv => CalledWhileThere
  BY DEF CallerInv, Quiet, CalledWhileThere
<1> QED BY <1>1, <1>2, <1>3, PTL DEF Spec
=============================================================================
