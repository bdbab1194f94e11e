---------------------------- MODULE ControlConfig ----------------------------
(***************************************************************************)
(* The control calls of a host (make_set_control_mode, make_enable_*,      *)
(* make_set_*_interval and others) and what they become at a controller:   *)
(* parse_control_rpc turns the invoke into a ControlConfig whose fields    *)
(* are mostly absent, the C binding turns absent into -1 or null, and the  *)
(* controller's application takes over the fields that are there.          *)
(*                                                                         *)
(* An interval is passed as seconds, in f64.  It is modelled by its tenths *)
(* of a millisecond; `short` says that multiplying by 1000 gives less than *)
(* the whole millisecond it stands for, as 1.001 does.  NaN is left out.   *)
(*                                                                         *)
(* The calls travel on a reliable channel, so in order.  Applications and  *)
(* the connection are external.                                            *)
(***************************************************************************)
EXTENDS Integers, Sequences

CONSTANTS
  Seconds,        \* intervals: [tenths, short]
  Number,         \* modes and reliabilities
  Capability,     \* capability sets, as numbers
  Text,           \* ids and text contents
  IntMax,         \* i32::MAX
  CapModulus,     \* 2^32
  InC,            \* whether the controller's application reads ActionC
  MaxCalls        \* bound: calls of a session

VARIABLES
  known,    \* the host's engine has a record of the controller
  calls,    \* calls made in this session
  link,     \* invokes under way
  wanted,   \* what the host asked for, all calls together
  ahead,    \* wanted as it was after each call under way
  have      \* the controller's settings

(* A controller whose application reads ActionC is sent nothing that turns *)
(* into the sentinel -1.                                                   *)
ASSUME ConfigAssumption ==
  /\ IntMax \in Nat /\ IntMax >= 3
  /\ Number \subseteq -IntMax - 1 .. IntMax
  /\ \A sec \in Seconds : sec.tenths \in Int /\ sec.short \in BOOLEAN
  /\ InC \in BOOLEAN
  /\ InC => -1 \notin Number /\ \A sec \in Seconds : sec.tenths >= 0

vars == <<known, calls, link, wanted, ahead, have>>

EnabledField == {"touch_enabled", "accel_enabled", "gyro_enabled", "orientation_enabled"}
IntervalField == {"touch_interval_ms", "accel_interval_ms", "gyro_interval_ms",
                  "orientation_interval_ms"}
NumberField == {"touch_reliability", "control_reliability", "control_mode"}
TextField == {"portal_id", "return_app_id"}
Field == EnabledField \cup IntervalField \cup NumberField \cup TextField

(* Option<T>.                                                              *)
Option(S) == {<<>>} \cup {<<v>> : v \in S}
None == [f \in Field |-> <<>>]

(* `as i32` of an f64: towards zero, and no further than the ends.         *)
Saturated(n) == IF n > IntMax THEN IntMax ELSE IF n < -IntMax - 1 THEN -IntMax - 1 ELSE n

TowardsZero(t) == IF t >= 0 THEN t \div 10 ELSE -((-t) \div 10)

Intended(sec) == Saturated(TowardsZero(sec.tenths))

(* Mutation of Millis: whole seconds are cut off before the product.       *)
MillisOfWhole(sec) == Saturated((sec.tenths \div 10000) * 1000)

(* sec * 1000.0 as i32, which may be one less than what was meant.         *)
Millis(sec) ==
  Saturated(TowardsZero(sec.tenths) - (IF sec.short /\ sec.tenths > 0 /\ sec.tenths % 10 = 0 THEN 1 ELSE 0))

-----------------------------------------------------------------------------
(* Values of parameters, and what the host's engine puts in an invoke.     *)

Val(t, v) == <<t, v>>
TypeOf(p) == p[1]
ValueOf(p) == p[2]
WithOption(params, t, opt) == IF opt = <<>> THEN params ELSE Append(params, Val(t, opt[1]))

(* A call, its parameters, and which settings it asks for.                 *)
Call(method, params, wants) == [method |-> method, params |-> params, wants |-> wants]

SetControlMode(mode, text) ==
  Call("SetControlMode", WithOption(<<Val("I32", mode)>>, "String", text),
       [None EXCEPT !["control_mode"] = <<mode>>, !["return_app_id"] = text])

EnableAccelerometer(on, sec) ==
  Call("enableAccelerometer", WithOption(<<Val("Bool", on)>>, "F64", sec),
       [None EXCEPT !["accel_enabled"] = <<on>>,
                    !["accel_interval_ms"] = IF sec = <<>> THEN <<>> ELSE <<Intended(sec[1])>>])

(* enableTouch, enableGyro and enableOrientation.                          *)
Enable(method, field, on) ==
  Call(method, <<Val("Bool", on)>>, [None EXCEPT ![field] = <<on>>])

(* setTouchInterval, setGyroInterval and setOrientationInterval.           *)
SetInterval(method, field, sec) ==
  Call(method, <<Val("F64", sec)>>, [None EXCEPT ![field] = <<Intended(sec)>>])

SetReliabilityForTouch(touch, control) ==
  Call("setReliabilityForTouch", <<Val("I32", touch), Val("I32", control)>>,
       [None EXCEPT !["touch_reliability"] = <<touch>>, !["control_reliability"] = <<control>>])

(* The u64 loses its upper half; no setting comes of it.                   *)
SetCapabilities(caps) == Call("setCapabilities", <<Val("U32", caps % CapModulus)>>, None)

WaitForNewHost(host) ==
  Call("WaitForNewHost", <<Val("String", host)>>,
       [None EXCEPT !["portal_id"] = <<host>>, !["control_mode"] = <<3>>])

(* Sent with make_simple_invoke.                                           *)
OnPortalId(id) ==
  Call("onPortalId", <<Val("String", id)>>, [None EXCEPT !["return_app_id"] = <<id>>])

(* Those of peers with types of their own: whole numbers for flags, for    *)
(* seconds and, in other widths, for numbers, and texts where none belong. *)
EnableAs(t, n) == Call("enableTouch", <<Val(t, n)>>, [None EXCEPT !["touch_enabled"] = <<n # 0>>])
IntervalAs(t, n) ==
  Call("setGyroInterval", <<Val(t, n)>>, [None EXCEPT !["gyro_interval_ms"] = <<Saturated(1000 * n)>>])
ModeAs(t, n) == Call("SetControlMode", <<Val(t, n)>>, [None EXCEPT !["control_mode"] = <<n>>])
ModeTooLarge ==
  Call("SetControlMode", <<Val("U32", 2 * IntMax)>>, [None EXCEPT !["control_mode"] = <<-2>>])
ReliabilityMixed(s) ==
  Call("setReliabilityForTouch", <<Val("String", s), Val("I32", 1)>>,
       [None EXCEPT !["control_reliability"] = <<1>>])
NoMode(s) == Call("SetControlMode", <<Val("String", s)>>, None)

(* The C binding takes a negative number of seconds for none; the others   *)
(* take an Option.                                                         *)
SecondsFromC(sec) == IF sec.tenths < 0 THEN <<>> ELSE <<sec>>

-----------------------------------------------------------------------------
(* The controller's engine.                                                *)

Whole == {"I16", "I32", "U16", "U32"}

(* The parameter at index i (from 1) if there is one of a type in `types`. *)
Param(params, i, types) ==
  IF i \in DOMAIN params /\ TypeOf(params[i]) \in types THEN <<params[i]>> ELSE <<>>

ParamBool(params, i) ==
  LET p == Param(params, i, Whole \cup {"Bool"})
  IN  IF p = <<>> THEN <<>>
      ELSE IF TypeOf(p[1]) = "Bool" THEN <<ValueOf(p[1])>> ELSE <<ValueOf(p[1]) # 0>>

(* `as i32` of an integer wraps around.                                    *)
Wrapped(n) == IF n > IntMax THEN n - 2 * (IntMax + 1) ELSE n

ParamI32(params, i) ==
  LET p == Param(params, i, Whole) IN IF p = <<>> THEN <<>> ELSE <<Wrapped(ValueOf(p[1]))>>

ParamMillis(params, i) ==
  LET p == Param(params, i, Whole \cup {"F32", "F64"})
  IN  IF p = <<>> THEN <<>>
      ELSE IF TypeOf(p[1]) \in Whole THEN <<Saturated(1000 * ValueOf(p[1]))>> ELSE <<Millis(ValueOf(p[1]))>>

ParamString(params, i) ==
  LET p == Param(params, i, {"String"}) IN IF p = <<>> THEN <<>> ELSE <<ValueOf(p[1])>>

(* The fields of the ControlConfig an invoke gives rise to; none of them   *)
(* when its method is no control call.                                     *)
ParseControlRpc(method, params) ==
  CASE method = "enableAccelerometer" ->
         [None EXCEPT !["accel_enabled"] = ParamBool(params, 1),
                      !["accel_interval_ms"] = ParamMillis(params, 2)]
    [] method = "enableTouch" -> [None EXCEPT !["touch_enabled"] = ParamBool(params, 1)]
    [] method = "setTouchInterval" -> [None EXCEPT !["touch_interval_ms"] = ParamMillis(params, 1)]
    [] method = "enableGyro" -> [None EXCEPT !["gyro_enabled"] = ParamBool(params, 1)]
    [] method = "setGyroInterval" -> [None EXCEPT !["gyro_interval_ms"] = ParamMillis(params, 1)]
    [] method = "enableOrientation" -> [None EXCEPT !["orientation_enabled"] = ParamBool(params, 1)]
    [] method = "setOrientationInterval" ->
         [None EXCEPT !["orientation_interval_ms"] = ParamMillis(params, 1)]
    [] method = "setReliabilityForTouch" ->
         [None EXCEPT !["touch_reliability"] = ParamI32(params, 1),
                      !["control_reliability"] = ParamI32(params, 2)]
    [] method = "SetControlMode" ->
         [None EXCEPT !["control_mode"] = ParamI32(params, 1),
                      !["return_app_id"] = ParamString(params, 2)]
    [] method = "WaitForNewHost" ->
         [None EXCEPT !["portal_id"] = ParamString(params, 1), !["control_mode"] = <<3>>]
    [] method = "onPortalId" -> [None EXCEPT !["return_app_id"] = ParamString(params, 1)]
    [] OTHER -> None

(* Mutation of ToC: absent becomes 0, as in ActionC's other numbers.       *)
ToCZero(f, opt) ==
  IF f \in TextField THEN opt
  ELSE IF opt = <<>> THEN 0
  ELSE IF f \in EnabledField THEN (IF opt[1] THEN 1 ELSE 0) ELSE opt[1]

(* action_to_c: -1 stands for an absent number or flag, null (here <<>>)   *)
(* for an absent text.                                                     *)
ToC(f, opt) ==
  IF f \in TextField THEN opt
  ELSE IF opt = <<>> THEN -1
  ELSE IF f \in EnabledField THEN (IF opt[1] THEN 1 ELSE 0) ELSE opt[1]

(* What an application makes of a field of ActionC.                        *)
FromC(f, c) ==
  IF f \in TextField THEN c
  ELSE IF c = -1 THEN <<>>
  ELSE IF f \in EnabledField THEN <<c = 1>> ELSE <<c>>

Config(inv) ==
  LET cfg == ParseControlRpc(inv.method, inv.params)
  IN  IF InC THEN [f \in Field |-> FromC(f, ToC(f, cfg[f]))] ELSE cfg

(* The controller's application takes over what is there.                  *)
Take(settings, cfg) == [f \in Field |-> IF cfg[f] = <<>> THEN settings[f] ELSE cfg[f]]

-----------------------------------------------------------------------------
Init ==
  /\ known = FALSE /\ calls = 0
  /\ link = <<>> /\ ahead = <<>>
  /\ wanted = None /\ have = None

Connect == ~known /\ known' = TRUE /\ UNCHANGED <<calls, link, wanted, ahead, have>>

(* The connection ends: both sides start from nothing when there is a new  *)
(* one.                                                                    *)
Disconnect ==
  /\ known /\ known' = FALSE
  /\ calls' = 0 /\ link' = <<>> /\ ahead' = <<>>
  /\ wanted' = None /\ have' = None

(* A call for a controller without a record leads to a line of log only,   *)
(* so the application takes it for not made.                               *)
HostCall(call) ==
  /\ known /\ calls < MaxCalls
  /\ calls' = calls + 1
  /\ link' = Append(link, [method |-> call.method, params |-> call.params])
  /\ wanted' = Take(wanted, call.wants)
  /\ ahead' = Append(ahead, wanted')
  /\ UNCHANGED <<known, have>>

(* The calls of a host that uses this library.                             *)
HostCalls ==
  \/ \E mode \in Number, text \in Option(Text) : HostCall(SetControlMode(mode, text))
  \/ \E on \in BOOLEAN :
       \/ \E sec \in Option(Seconds) : HostCall(EnableAccelerometer(on, sec))
       \/ \E sec \in Seconds : HostCall(EnableAccelerometer(on, SecondsFromC(sec)))
       \/ HostCall(Enable("enableTouch", "touch_enabled", on))
       \/ HostCall(Enable("enableGyro", "gyro_enabled", on))
       \/ HostCall(Enable("enableOrientation", "orientation_enabled", on))
  \/ \E sec \in Seconds :
       \/ HostCall(SetInterval("setTouchInterval", "touch_interval_ms", sec))
       \/ HostCall(SetInterval("setGyroInterval", "gyro_interval_ms", sec))
       \/ HostCall(SetInterval("setOrientationInterval", "orientation_interval_ms", sec))
  \/ \E a, b \in Number : HostCall(SetReliabilityForTouch(a, b))
  \/ \E caps \in Capability : HostCall(SetCapabilities(caps))
  \/ \E id \in Text : HostCall(WaitForNewHost(id)) \/ HostCall(OnPortalId(id))

(* Calls of peers that write other types for the same thing, that leave a  *)
(* parameter out, or that send one of a type no one reads.                 *)
ForeignCalls ==
  \/ \E t \in Whole, n \in {0, 2} :
       HostCall(EnableAs(t, n)) \/ HostCall(IntervalAs(t, n)) \/ HostCall(ModeAs(t, n))
  \/ HostCall(ModeTooLarge)
  \/ \E s \in Text : HostCall(ReliabilityMixed(s)) \/ HostCall(NoMode(s))
  \/ \E method \in {"enableAccelerometer", "setTouchInterval", "onPortalId"} :
       HostCall(Call(method, <<>>, None))

Receive ==
  /\ link # <<>>
  /\ have' = Take(have, Config(Head(link)))
  /\ link' = Tail(link)
  /\ ahead' = Tail(ahead)
  /\ UNCHANGED <<known, calls, wanted>>

Next == Connect \/ Disconnect \/ HostCalls \/ ForeignCalls \/ Receive

Spec == Init /\ [][Next]_vars

(* The application reads what arrives.                                     *)
FairSpec == Spec /\ WF_vars(Receive)

-----------------------------------------------------------------------------
(* Properties.                                                             *)

Relay == INSTANCE SettingsRelay WITH Rounded <- IntervalField, Unset <- None

(* The controller goes through the settings the host asked for, one call   *)
(* at a time, an interval at most a millisecond short: what the builders   *)
(* of processing.rs write, parse_control_rpc and the sentinels of ActionC  *)
(* read back, whatever type a peer chose and whatever it left out.         *)
SettingsFollow == Relay!RelaySpec

(* A session in which the host has made its calls ends, or the controller  *)
(* has the settings asked for.                                             *)
SettingsArrive ==
  (known /\ calls = MaxCalls) ~> (~known \/ (ahead = <<>> /\ Relay!Agrees(have, wanted)))
=============================================================================
