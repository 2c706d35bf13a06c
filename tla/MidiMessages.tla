----------------------------- MODULE MidiMessages -----------------------------
(***************************************************************************)
(* The status of a MIDI message (src/midi/src/message.cpp) and the causes  *)
(* of a failed driver call (src/midi/src/error.cpp), as pure definitions.  *)
(* Texts are left out: a status or cause has the text of its enumerator.   *)
(***************************************************************************)
EXTENDS Integers

ChannelVoice   == {128, 144, 160, 176, 192, 208, 224}
SystemCommon   == {240, 241, 242, 243, 246, 247}
SystemRealtime == {248, 250, 251, 252, 254, 255}

Categories == {"voice", "common", "realtime"}

High(x) == x - (x % 16)    \* x & 0xf0

Status(value, cat) == [value |-> value, cat |-> cat]

Unrecognized == -1   \* the text "(unrecognized status)"

NoStatus == Status(0, "voice")   \* message_status{}

MakeStatus(x) ==
  IF High(x) \in 128..224 THEN Status(x, "voice")
  ELSE IF x \in 240..247 THEN Status(x, "common")
  ELSE IF x \in 248..255 THEN Status(x, "realtime")
  ELSE NoStatus

\* message_category::descr, one override per category.
ChannelVoiceDescr(x) == IF High(x) \in ChannelVoice THEN High(x) ELSE Unrecognized
SystemCommonDescr(x) == IF x \in SystemCommon THEN x ELSE Unrecognized
SystemRealtimeDescr(x) == IF x \in SystemRealtime THEN x ELSE Unrecognized

Descr(s) ==
  CASE s.cat = "voice"    -> ChannelVoiceDescr(s.value)
    [] s.cat = "common"   -> SystemCommonDescr(s.value)
    [] s.cat = "realtime" -> SystemRealtimeDescr(s.value)

Equal(s, t) ==
  /\ s.cat = t.cat
  /\ IF s.cat = "voice" THEN High(s.value) = High(t.value) ELSE s.value = t.value

Sign(n) == IF n < 0 THEN -1 ELSE IF n > 0 THEN 1 ELSE 0

\* Where the three category objects may lie in memory.
Addresses ==
  {at \in [Categories -> 1..3] : \A c, d \in Categories : at[c] = at[d] => c = d}

\* Fault: channels count.
ChannelCompare(s, t, at) ==
  IF s.cat # t.cat THEN Sign(at[s.cat] - at[t.cat]) ELSE Sign(s.value - t.value)

\* <=>: by the addresses of the categories, then by value.
Compare(s, t, at) ==
  IF s.cat # t.cat THEN Sign(at[s.cat] - at[t.cat])
  ELSE IF s.cat = "voice" THEN Sign(High(s.value) - High(t.value))
  ELSE Sign(s.value - t.value)

-----------------------------------------------------------------------------
(***************************************************************************)
(* MMRESULT codes (external), and the conditions that users compare with.  *)
(* The codes of MIDI (MIDIERR_..., from 64) lie above LastError.           *)
(***************************************************************************)
NoError     == 0
LastError   == 21
BadDeviceId == 2
NotEnabled  == 3
Allocated   == 4
NoDriver    == 6
BadErrNum   == 9
NoDriverCb  == 20

Causes == {"bad_device_id", "driver_error", "already_in_use", "invalid_errc", "other"}

DefaultCause(ev) ==
  CASE ev = BadDeviceId -> "bad_device_id"
    [] ev \in {NotEnabled, NoDriver, NoDriverCb} -> "driver_error"
    [] ev = Allocated -> "already_in_use"
    [] ev = BadErrNum -> "invalid_errc"
    [] OTHER -> IF ev \in 1..LastError THEN "other" ELSE "invalid_errc"

\* Fault: the driver's errors are told by one of their codes only.
NarrowEquivalent(ev, cause) ==
  CASE cause = "bad_device_id"  -> ev = BadDeviceId
    [] cause = "driver_error"   -> ev = NotEnabled
    [] cause = "already_in_use" -> ev = Allocated
    [] cause = "invalid_errc"   -> ev = BadErrNum
    [] cause = "other"          -> ev \in 1..LastError

Equivalent(ev, cause) ==
  CASE cause = "bad_device_id"  -> ev = BadDeviceId
    [] cause = "driver_error"   -> ev \in {NotEnabled, NoDriver, NoDriverCb}
    [] cause = "already_in_use" -> ev = Allocated
    [] cause = "invalid_errc"   -> ev = BadErrNum
    [] cause = "other"          -> ev \in 1..LastError

\* == of a code and a condition asks the category of each.
Matches(ev, cause) == DefaultCause(ev) = cause \/ Equivalent(ev, cause)
=============================================================================
