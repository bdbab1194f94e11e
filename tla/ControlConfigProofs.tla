------------------------- MODULE ControlConfigProofs -------------------------
(***************************************************************************)
(* Control calls implement SettingsRelay, for any intervals, numbers,      *)
(* texts and number of calls.                                              *)
(***************************************************************************)
EXTENDS ControlConfig, SequenceTheorems, TLAPS

(* What a call leads to is what it asks for, an interval one short at      *)
(* most, and no -1 where the sentinels of ActionC could hide it.           *)
Match(f, got, asked) ==
  /\ f \notin IntervalField => got = asked
  /\ f \in IntervalField => Relay!Near(got, asked)
  /\ f \in EnabledField => got \in Option(BOOLEAN)
  /\ InC /\ f \in IntervalField \cup NumberField => got = <<>> \/ (got = <<got[1]>> /\ got[1] # -1)

Understood(call) ==
  \A f \in Field : Match(f, ParseControlRpc(call.method, call.params)[f], call.wants[f])

USE ConfigAssumption

(* An absent field matches an absent one.                                  *)
LEMMA AbsentMatches == \A f \in Field : Match(f, <<>>, <<>>)
  BY DEF Match, Relay!Near, Option

(* The milliseconds read are those meant or one less, and never -1 for a   *)
(* controller in C.                                                        *)
LEMMA MillisNear ==
  ASSUME NEW sec \in Seconds
  PROVE  /\ Millis(sec) = Intended(sec) \/ Millis(sec) = Intended(sec) - 1
         /\ InC => Millis(sec) # -1
<1> DEFINE t == sec.tenths
<1>1. t \in Int /\ TowardsZero(t) \in Int
  BY DEF TowardsZero
<1>2. CASE sec.short /\ t > 0 /\ t % 10 = 0
  <2>1. TowardsZero(t) >= 1
    BY <1>2, <1>1 DEF TowardsZero
  <2> QED BY <2>1, <1>1, <1>2 DEF Millis, Intended, Saturated
<1>3. CASE ~(sec.short /\ t > 0 /\ t % 10 = 0)
  <2>1. Millis(sec) = Intended(sec)
    BY <1>3, <1>1 DEF Millis, Intended, Saturated
  <2>2. InC => TowardsZero(t) >= 0
    BY <1>1 DEF TowardsZero
  <2> QED BY <2>1, <2>2, <1>1 DEF Intended, Saturated
<1> QED BY <1>2, <1>3

LEMMA IntervalMatches ==
  ASSUME NEW sec \in Seconds, NEW f \in IntervalField
  PROVE  Match(f, <<Millis(sec)>>, <<Intended(sec)>>)
<1>1. f \notin EnabledField
  BY DEF IntervalField, EnabledField
<1> QED BY MillisNear, <1>1 DEF Match, Relay!Near

LEMMA NumberMatches ==
  ASSUME NEW n \in Int, InC => n # -1, NEW f \in NumberField
  PROVE  Match(f, <<n>>, <<n>>)
<1>1. f \notin EnabledField /\ f \notin IntervalField
  BY DEF IntervalField, EnabledField, NumberField
<1> QED BY <1>1 DEF Match

LEMMA EnabledMatches ==
  ASSUME NEW on \in BOOLEAN, NEW f \in EnabledField
  PROVE  Match(f, <<on>>, <<on>>)
<1>1. f \notin NumberField /\ f \notin IntervalField
  BY DEF IntervalField, EnabledField, NumberField
<1> QED BY <1>1 DEF Match, Option

LEMMA TextMatches ==
  ASSUME NEW t, NEW f \in TextField
  PROVE  Match(f, t, t)
<1>1. f \notin NumberField /\ f \notin IntervalField /\ f \notin EnabledField
  BY DEF IntervalField, EnabledField, NumberField, TextField
<1> QED BY <1>1 DEF Match

(* SetControlMode.                                                         *)
LEMMA ModeUnderstood ==
  ASSUME NEW mode \in Number, NEW text \in Option(Text)
  PROVE  Understood(SetControlMode(mode, text))
<1> DEFINE call == SetControlMode(mode, text)
<1>1. ParamI32(call.params, 1) = <<mode>>
  <2>1. mode \in Int /\ Wrapped(mode) = mode
    BY DEF Wrapped
  <2>2. call.params = WithOption(<<Val("I32", mode)>>, "String", text)
    BY DEF SetControlMode, Call
  <2>3. 1 \in DOMAIN call.params /\ call.params[1] = <<"I32", mode>>
    BY <2>2 DEF WithOption, Val
  <2> QED BY <2>1, <2>3 DEF ParamI32, Param, Whole, TypeOf, ValueOf
<1>2. ParamString(call.params, 2) = text
  BY DEF SetControlMode, Call, WithOption, Val, ParamString, Param, TypeOf, ValueOf, Option
<1>3. call.method = "SetControlMode"
  BY DEF SetControlMode, Call
<1>4. call.wants = [None EXCEPT !["control_mode"] = <<mode>>, !["return_app_id"] = text]
  BY DEF SetControlMode, Call
<1>5. ParseControlRpc(call.method, call.params) = call.wants
  BY <1>1, <1>2, <1>3, <1>4 DEF ParseControlRpc
<1>6. mode \in Int /\ (InC => mode # -1)
  OBVIOUS
<1> QED
  BY <1>4, <1>5, <1>6, AbsentMatches, NumberMatches, TextMatches
     DEF Understood, None, Field, NumberField, TextField

LEMMA AccelerometerUnderstood ==
  ASSUME NEW on \in BOOLEAN, NEW sec \in Option(Seconds)
  PROVE  Understood(EnableAccelerometer(on, sec))
<1> DEFINE call == EnableAccelerometer(on, sec)
           millis == IF sec = <<>> THEN <<>> ELSE <<Millis(sec[1])>>
           asked == IF sec = <<>> THEN <<>> ELSE <<Intended(sec[1])>>
<1>1. ParamBool(call.params, 1) = <<on>>
  BY DEF EnableAccelerometer, Call, WithOption, Val, ParamBool, Param, TypeOf, ValueOf, Whole
<1>2. ParamMillis(call.params, 2) = millis
  BY DEF EnableAccelerometer, Call, WithOption, Val, ParamMillis, Param, TypeOf, ValueOf, Whole, Option
<1>3. ParseControlRpc(call.method, call.params)
        = [None EXCEPT !["accel_enabled"] = <<on>>, !["accel_interval_ms"] = millis]
  BY <1>1, <1>2 DEF ParseControlRpc, EnableAccelerometer, Call
<1>4. call.wants = [None EXCEPT !["accel_enabled"] = <<on>>, !["accel_interval_ms"] = asked]
  BY DEF EnableAccelerometer, Call
<1>5. Match("accel_interval_ms", millis, asked)
  BY AbsentMatches, IntervalMatches DEF Option, Field, IntervalField
<1>6. Match("accel_enabled", <<on>>, <<on>>)
  BY EnabledMatches DEF EnabledField
<1> HIDE DEF millis, asked, call
<1>7. ASSUME NEW f \in Field
      PROVE  Match(f, ParseControlRpc(call.method, call.params)[f], call.wants[f])
  BY <1>3, <1>4, <1>5, <1>6, AbsentMatches DEF None, Field, EnabledField, IntervalField
<1> QED BY <1>7 DEF Understood, call

LEMMA EnableUnderstood ==
  ASSUME NEW on \in BOOLEAN
  PROVE  /\ Understood(Enable("enableTouch", "touch_enabled", on))
         /\ Understood(Enable("enableGyro", "gyro_enabled", on))
         /\ Understood(Enable("enableOrientation", "orientation_enabled", on))
<1>1. ParamBool(<<Val("Bool", on)>>, 1) = <<on>>
  BY DEF Val, ParamBool, Param, TypeOf, ValueOf, Whole
<1>2. \A f \in EnabledField : Match(f, <<on>>, <<on>>)
  BY EnabledMatches
<1> QED
  BY <1>1, <1>2, AbsentMatches DEF Understood, Enable, Call, ParseControlRpc, None, Field, EnabledField

LEMMA IntervalUnderstood ==
  ASSUME NEW sec \in Seconds
  PROVE  /\ Understood(SetInterval("setTouchInterval", "touch_interval_ms", sec))
         /\ Understood(SetInterval("setGyroInterval", "gyro_interval_ms", sec))
         /\ Understood(SetInterval("setOrientationInterval", "orientation_interval_ms", sec))
<1>1. ParamMillis(<<Val("F64", sec)>>, 1) = <<Millis(sec)>>
  BY DEF Val, ParamMillis, Param, TypeOf, ValueOf, Whole
<1>2. \A f \in IntervalField : Match(f, <<Millis(sec)>>, <<Intended(sec)>>)
  BY IntervalMatches
<1> QED
  BY <1>1, <1>2, AbsentMatches DEF Understood, SetInterval, Call, ParseControlRpc, None, Field, IntervalField

LEMMA ReliabilityUnderstood ==
  ASSUME NEW a \in Number, NEW b \in Number
  PROVE  Understood(SetReliabilityForTouch(a, b))
<1>1. /\ a \in Int /\ Wrapped(a) = a /\ (InC => a # -1)
      /\ b \in Int /\ Wrapped(b) = b /\ (InC => b # -1)
  BY DEF Wrapped
<1>2. /\ ParamI32(<<Val("I32", a), Val("I32", b)>>, 1) = <<a>>
      /\ ParamI32(<<Val("I32", a), Val("I32", b)>>, 2) = <<b>>
  BY <1>1 DEF Val, ParamI32, Param, TypeOf, ValueOf, Whole
<1> QED
  BY <1>1, <1>2, AbsentMatches, NumberMatches
     DEF Understood, SetReliabilityForTouch, Call, ParseControlRpc, None, Field, NumberField

(* setCapabilities is no control call for parse_control_rpc.               *)
LEMMA CapabilitiesUnderstood ==
  ASSUME NEW caps PROVE Understood(SetCapabilities(caps))
  BY AbsentMatches DEF Understood, SetCapabilities, Call, ParseControlRpc, None

LEMMA HostUnderstood ==
  ASSUME NEW id \in Text
  PROVE  Understood(WaitForNewHost(id)) /\ Understood(OnPortalId(id))
<1>1. ParamString(<<Val("String", id)>>, 1) = <<id>>
  BY DEF Val, ParamString, Param, TypeOf, ValueOf
<1>2. Match("portal_id", <<id>>, <<id>>) /\ Match("return_app_id", <<id>>, <<id>>)
  BY TextMatches DEF TextField
<1>3. Match("control_mode", <<3>>, <<3>>)
  BY NumberMatches DEF NumberField
<1> QED
  BY <1>1, <1>2, <1>3, AbsentMatches
     DEF Understood, WaitForNewHost, OnPortalId, Call, ParseControlRpc, None, Field

(* The calls of other peers: a whole number of any width ...               *)
LEMMA WholeUnderstood ==
  ASSUME NEW t \in Whole, NEW n \in {0, 2}
  PROVE  Understood(EnableAs(t, n)) /\ Understood(IntervalAs(t, n)) /\ Understood(ModeAs(t, n))
<1>1. Wrapped(n) = n /\ n \in Int /\ Saturated(1000 * n) \in Int /\ Saturated(1000 * n) # -1
  BY DEF Wrapped, Saturated
<1>2. /\ ParamBool(<<Val(t, n)>>, 1) = <<n # 0>>
      /\ ParamMillis(<<Val(t, n)>>, 1) = <<Saturated(1000 * n)>>
      /\ ParamI32(<<Val(t, n)>>, 1) = <<n>>
      /\ ParamString(<<Val(t, n)>>, 2) = <<>>
  BY <1>1 DEF Val, ParamBool, ParamMillis, ParamI32, ParamString, Param, TypeOf, ValueOf, Whole
<1>3. Match("touch_enabled", <<n # 0>>, <<n # 0>>)
  BY EnabledMatches DEF EnabledField
<1>4. Match("gyro_interval_ms", <<Saturated(1000 * n)>>, <<Saturated(1000 * n)>>)
  BY <1>1 DEF Match, Relay!Near, EnabledField, IntervalField
<1>5. Match("control_mode", <<n>>, <<n>>)
  BY <1>1, NumberMatches DEF NumberField
<1> QED
  BY <1>2, <1>3, <1>4, <1>5, AbsentMatches
     DEF Understood, EnableAs, IntervalAs, ModeAs, Call, ParseControlRpc, None, Field

(* ... one that wraps, ones of a type no one reads, and ones left out.     *)
LEMMA WrapUnderstood == Understood(ModeTooLarge)
<1>1. /\ ParamI32(<<Val("U32", 2 * IntMax)>>, 1) = <<-2>>
      /\ ParamString(<<Val("U32", 2 * IntMax)>>, 2) = <<>>
  BY DEF Val, ParamI32, ParamString, Param, TypeOf, ValueOf, Whole, Wrapped
<1>2. Match("control_mode", <<-2>>, <<-2>>)
  BY NumberMatches DEF NumberField
<1> QED BY <1>1, <1>2, AbsentMatches DEF Understood, ModeTooLarge, Call, ParseControlRpc, None, Field

LEMMA MixedUnderstood ==
  ASSUME NEW s \in Text
  PROVE  Understood(ReliabilityMixed(s)) /\ Understood(NoMode(s))
<1>1. /\ ParamI32(<<Val("String", s), Val("I32", 1)>>, 1) = <<>>
      /\ ParamI32(<<Val("String", s), Val("I32", 1)>>, 2) = <<1>>
      /\ ParamI32(<<Val("String", s)>>, 1) = <<>>
      /\ ParamString(<<Val("String", s)>>, 2) = <<>>
  BY DEF Val, ParamI32, ParamString, Param, TypeOf, ValueOf, Whole, Wrapped
<1>2. Match("control_reliability", <<1>>, <<1>>)
  BY NumberMatches DEF NumberField
<1> QED
  BY <1>1, <1>2, AbsentMatches
     DEF Understood, ReliabilityMixed, NoMode, Call, ParseControlRpc, None, Field

LEMMA MissingUnderstood ==
  ASSUME NEW method \in {"enableAccelerometer", "setTouchInterval", "onPortalId"}
  PROVE  Understood(Call(method, <<>>, None))
<1>1. /\ ParamBool(<<>>, 1) = <<>> /\ ParamString(<<>>, 1) = <<>>
      /\ ParamMillis(<<>>, 1) = <<>> /\ ParamMillis(<<>>, 2) = <<>>
  BY DEF ParamBool, ParamMillis, ParamString, Param
<1>2. ParseControlRpc(method, <<>>) = None
  BY <1>1 DEF ParseControlRpc, None, Field, EnabledField, IntervalField
<1> QED BY <1>2, AbsentMatches DEF Understood, Call, None

(* The sentinels of ActionC lose nothing of what Understood allows.        *)
LEMMA SentinelRoundTrip ==
  ASSUME NEW call, Understood(call), NEW f \in Field
  PROVE  Config(call)[f] = ParseControlRpc(call.method, call.params)[f]
<1> DEFINE got == ParseControlRpc(call.method, call.params)[f]
<1>1. Match(f, got, call.wants[f])
  BY DEF Understood
<1>2. CASE ~InC
  BY <1>2 DEF Config
<1>3. CASE InC
  <2>1. Config(call)[f] = FromC(f, ToC(f, got))
    BY <1>3 DEF Config
  <2>2. CASE f \in TextField
    BY <2>1, <2>2 DEF FromC, ToC
  <2>3. CASE f \in EnabledField
    <3>1. got \in Option(BOOLEAN) /\ f \notin TextField
      BY <1>1, <2>3 DEF Match, EnabledField, TextField
    <3> QED BY <2>1, <2>3, <3>1 DEF FromC, ToC, Option
  <2>4. CASE f \in IntervalField \cup NumberField
    <3>1. (got = <<>> \/ (got = <<got[1]>> /\ got[1] # -1)) /\ f \notin TextField /\ f \notin EnabledField
      BY <1>1, <1>3, <2>4 DEF Match, EnabledField, TextField, IntervalField, NumberField
    <3> QED BY <2>1, <2>4, <3>1 DEF FromC, ToC
  <2> QED BY <2>2, <2>3, <2>4 DEF Field
<1> QED BY <1>2, <1>3

(* What a ControlConfig gives leads from one state of the host's wishes to *)
(* the next.                                                               *)
Leads(inv, before, after) ==
  \A s : Relay!Agrees(s, before) => Relay!Agrees(Take(s, Config(inv)), after)

LEMMA CallLeads ==
  ASSUME NEW call, Understood(call), NEW before
  PROVE  Leads([method |-> call.method, params |-> call.params], before, Take(before, call.wants))
<1> DEFINE inv == [method |-> call.method, params |-> call.params]
<1>1. Config(inv) = Config(call)
  BY DEF Config
<1>2. SUFFICES ASSUME NEW s, Relay!Agrees(s, before), NEW f \in Field
               PROVE  LET got == Take(s, Config(call))[f]
                          asked == Take(before, call.wants)[f]
                      IN  IF f \in IntervalField THEN Relay!Near(got, asked) ELSE got = asked
  BY <1>1 DEF Leads, Relay!Agrees
<1>3. Match(f, Config(call)[f], call.wants[f])
  BY SentinelRoundTrip DEF Understood
<1>4. IF f \in IntervalField THEN Relay!Near(s[f], before[f]) ELSE s[f] = before[f]
  BY <1>2 DEF Relay!Agrees
<1>5. Config(call)[f] = <<>> <=> call.wants[f] = <<>>
  BY <1>3 DEF Match, Relay!Near
<1> QED BY <1>3, <1>4, <1>5 DEF Take, Match

-----------------------------------------------------------------------------
(* Sequences of anything: what is in the calls matters only to Leads.      *)
IsSeq(q) == \E S : q \in Seq(S)

LEMMA AppendIsSeq ==
  ASSUME NEW q, IsSeq(q), NEW x
  PROVE  /\ IsSeq(Append(q, x)) /\ Len(q) \in Nat
         /\ Len(Append(q, x)) = Len(q) + 1
         /\ \A i \in 1 .. Len(q) : Append(q, x)[i] = q[i]
         /\ Append(q, x)[Len(q) + 1] = x
<1>1. PICK S : q \in Seq(S)
  BY DEF IsSeq
<1>2. q \in Seq(S \cup {x})
  BY <1>1, SeqDef
<1>3. Append(q, x) \in Seq(S \cup {x})
  BY <1>2
<1> QED BY <1>2, <1>3 DEF IsSeq

LEMMA TailIsSeq ==
  ASSUME NEW q, IsSeq(q), q # <<>>
  PROVE  /\ IsSeq(Tail(q)) /\ Len(q) \in Nat /\ Len(q) > 0
         /\ Len(Tail(q)) = Len(q) - 1 /\ Head(q) = q[1]
         /\ \A i \in 1 .. Len(Tail(q)) : Tail(q)[i] = q[i + 1]
<1>1. PICK S : q \in Seq(S)
  BY DEF IsSeq
<1>2. Tail(q) \in Seq(S)
  BY <1>1
<1> QED BY <1>1, <1>2 DEF IsSeq

(* The invariant: every call under way leads from the wishes before it to  *)
(* those after it, and the first one from what the controller has.         *)
RelayInv ==
  /\ IsSeq(link) /\ IsSeq(ahead) /\ Len(link) = Len(ahead)
  /\ \A i \in 1 .. Len(ahead) - 1 : Leads(link[i + 1], ahead[i], ahead[i + 1])
  /\ IF ahead = <<>> THEN Relay!Agrees(have, wanted)
     ELSE /\ Relay!Agrees(Take(have, Config(link[1])), ahead[1])
          /\ ahead[Len(ahead)] = wanted

LEMMA RelayInvInit == Init => RelayInv /\ Relay!RelayInit
<1> SUFFICES ASSUME Init PROVE RelayInv /\ Relay!RelayInit
  OBVIOUS
<1>1. Relay!Agrees(None, None)
  BY DEF Relay!Agrees, Relay!Near
<1>2. IsSeq(<<>>)
  BY DEF IsSeq
<1> QED BY <1>1, <1>2 DEF Init, RelayInv, Relay!RelayInit

LEMMA HostCallStep ==
  ASSUME RelayInv, NEW call, Understood(call), HostCall(call)
  PROVE  RelayInv' /\ Relay!Ask
<1> DEFINE inv == [method |-> call.method, params |-> call.params]
<1>1. /\ link' = Append(link, inv) /\ ahead' = Append(ahead, wanted')
      /\ wanted' = Take(wanted, call.wants) /\ have' = have
  BY DEF HostCall
<1>2. Leads(inv, wanted, wanted')
  BY <1>1, CallLeads
<1>3. IsSeq(link) /\ IsSeq(ahead) /\ Len(link) = Len(ahead)
  BY DEF RelayInv
<1>4. Relay!Ask
  BY <1>1 DEF Relay!Ask, Take
<1>5. /\ IsSeq(link') /\ IsSeq(ahead') /\ Len(link) \in Nat
      /\ Len(link') = Len(link) + 1 /\ Len(ahead') = Len(ahead) + 1
      /\ \A i \in 1 .. Len(link) : link'[i] = link[i] /\ ahead'[i] = ahead[i]
      /\ link'[Len(link) + 1] = inv /\ ahead'[Len(link) + 1] = wanted'
  BY <1>1, <1>3, AppendIsSeq
<1>6. ahead' # <<>>
  BY <1>5, <1>3
<1>7. CASE ahead = <<>>
  <2>1. Len(ahead) = 0 /\ Relay!Agrees(have, wanted)
    BY <1>7 DEF RelayInv
  <2>2. Relay!Agrees(Take(have, Config(link'[1])), ahead'[1])
    BY <2>1, <1>2, <1>3, <1>5 DEF Leads
  <2> QED BY <2>1, <2>2, <1>1, <1>3, <1>4, <1>5, <1>6 DEF RelayInv
<1>8. CASE ahead # <<>>
  <2>1. Len(ahead) > 0
    BY <1>3, <1>8, TailIsSeq
  <2>2. /\ Relay!Agrees(Take(have, Config(link[1])), ahead[1])
        /\ ahead[Len(ahead)] = wanted
    BY <1>8 DEF RelayInv
  <2>3. Relay!Agrees(Take(have', Config(link'[1])), ahead'[1])
    BY <2>1, <2>2, <1>1, <1>3, <1>5
  <2>4. ASSUME NEW i \in 1 .. Len(ahead') - 1
        PROVE  Leads(link'[i + 1], ahead'[i], ahead'[i + 1])
    <3>1. CASE i = Len(ahead)
      BY <3>1, <2>1, <2>2, <1>2, <1>3, <1>5
    <3>2. CASE i # Len(ahead)
      <4>1. i \in 1 .. Len(ahead) - 1
        BY <3>2, <1>3, <1>5
      <4> QED BY <4>1, <1>3, <1>5 DEF RelayInv
    <3> QED BY <3>1, <3>2
  <2> QED BY <2>3, <2>4, <1>3, <1>4, <1>5, <1>6 DEF RelayInv
<1> QED BY <1>7, <1>8

LEMMA ReceiveStep ==
  ASSUME RelayInv, Receive
  PROVE  RelayInv' /\ Relay!Follow
<1>1. /\ link # <<>> /\ link' = Tail(link) /\ ahead' = Tail(ahead)
      /\ have' = Take(have, Config(Head(link))) /\ wanted' = wanted
  BY DEF Receive
<1>2. IsSeq(link) /\ IsSeq(ahead) /\ Len(link) = Len(ahead)
  BY DEF RelayInv
<1>3. Len(link) \in Nat /\ Len(link) > 0 /\ ahead # <<>>
  BY <1>1, <1>2, TailIsSeq
<1>4. /\ IsSeq(link') /\ IsSeq(ahead') /\ Len(link') = Len(link) - 1 /\ Len(ahead') = Len(link')
      /\ Head(link) = link[1] /\ Head(ahead) = ahead[1]
      /\ \A i \in 1 .. Len(link') : link'[i] = link[i + 1] /\ ahead'[i] = ahead[i + 1]
  BY <1>1, <1>2, <1>3, TailIsSeq
<1>5. Relay!Agrees(have', ahead[1]) /\ ahead[Len(ahead)] = wanted
  BY <1>1, <1>3, <1>4 DEF RelayInv
<1>6. Relay!Follow
  BY <1>1, <1>3, <1>4, <1>5 DEF Relay!Follow, Take
<1>7. \A i \in 1 .. Len(ahead') - 1 : Leads(link'[i + 1], ahead'[i], ahead'[i + 1])
  <2> SUFFICES ASSUME NEW i \in 1 .. Len(ahead') - 1
               PROVE  Leads(link'[i + 1], ahead'[i], ahead'[i + 1])
    OBVIOUS
  <2>1. i + 1 \in 1 .. Len(ahead) - 1 /\ i \in 1 .. Len(link') /\ i + 1 \in 1 .. Len(link')
    BY <1>2, <1>3, <1>4
  <2>2. Leads(link[i + 1 + 1], ahead[i + 1], ahead[i + 1 + 1])
    BY <2>1 DEF RelayInv
  <2> QED BY <2>1, <2>2, <1>4
<1>8. CASE ahead' = <<>>
  <2>1. Len(ahead) = 1
    BY <1>8, <1>2, <1>3, <1>4
  <2> QED BY <2>1, <1>1, <1>4, <1>5, <1>6, <1>7, <1>8 DEF RelayInv
<1>9. CASE ahead' # <<>>
  <2>1. Len(ahead') > 0
    BY <1>9, <1>4, TailIsSeq
  <2>2. Leads(link[2], ahead[1], ahead[2])
    <3>1. 1 \in 1 .. Len(ahead) - 1
      BY <2>1, <1>2, <1>3, <1>4
    <3> QED BY <3>1 DEF RelayInv
  <2>3. Relay!Agrees(Take(have', Config(link'[1])), ahead'[1])
    BY <2>1, <2>2, <1>4, <1>5 DEF Leads
  <2>4. ahead'[Len(ahead')] = wanted'
    BY <2>1, <1>1, <1>2, <1>3, <1>4, <1>5
  <2> QED BY <2>3, <2>4, <1>4, <1>6, <1>7, <1>9 DEF RelayInv
<1> QED BY <1>8, <1>9

(* Every step is one of the relay's or changes nothing of it.              *)
LEMMA RelayStep ==
  ASSUME RelayInv, [Next]_vars
  PROVE  RelayInv' /\ [Relay!Ask \/ Relay!Follow \/ Relay!Restart]_(Relay!relayVars)
<1>1. CASE HostCalls
  <2>1. ASSUME NEW mode \in Number, NEW text \in Option(Text), HostCall(SetControlMode(mode, text))
        PROVE  RelayInv' /\ Relay!Ask
    BY <2>1, ModeUnderstood, HostCallStep
  <2>2. ASSUME NEW on \in BOOLEAN, NEW sec \in Option(Seconds), HostCall(EnableAccelerometer(on, sec))
        PROVE  RelayInv' /\ Relay!Ask
    BY <2>2, AccelerometerUnderstood, HostCallStep
  <2>3. ASSUME NEW on \in BOOLEAN, NEW sec \in Seconds, HostCall(EnableAccelerometer(on, SecondsFromC(sec)))
        PROVE  RelayInv' /\ Relay!Ask
    <3>1. SecondsFromC(sec) \in Option(Seconds)
      BY DEF SecondsFromC, Option
    <3> QED BY <2>3, <3>1, AccelerometerUnderstood, HostCallStep
  <2>4. ASSUME NEW on \in BOOLEAN,
               \/ HostCall(Enable("enableTouch", "touch_enabled", on))
               \/ HostCall(Enable("enableGyro", "gyro_enabled", on))
               \/ HostCall(Enable("enableOrientation", "orientation_enabled", on))
        PROVE  RelayInv' /\ Relay!Ask
    BY <2>4, EnableUnderstood, HostCallStep
  <2>5. ASSUME NEW sec \in Seconds,
               \/ HostCall(SetInterval("setTouchInterval", "touch_interval_ms", sec))
               \/ HostCall(SetInterval("setGyroInterval", "gyro_interval_ms", sec))
               \/ HostCall(SetInterval("setOrientationInterval", "orientation_interval_ms", sec))
        PROVE  RelayInv' /\ Relay!Ask
    BY <2>5, IntervalUnderstood, HostCallStep
  <2>6. ASSUME NEW a \in Number, NEW b \in Number, HostCall(SetReliabilityForTouch(a, b))
        PROVE  RelayInv' /\ Relay!Ask
    BY <2>6, ReliabilityUnderstood, HostCallStep
  <2>7. ASSUME NEW caps \in Capability, HostCall(SetCapabilities(caps))
        PROVE  RelayInv' /\ Relay!Ask
    BY <2>7, CapabilitiesUnderstood, HostCallStep
  <2>8. ASSUME NEW id \in Text, HostCall(WaitForNewHost(id)) \/ HostCall(OnPortalId(id))
        PROVE  RelayInv' /\ Relay!Ask
    BY <2>8, HostUnderstood, HostCallStep
  <2> QED BY <1>1, <2>1, <2>2, <2>3, <2>4, <2>5, <2>6, <2>7, <2>8 DEF HostCalls
<1>2. CASE ForeignCalls
  <2>1. ASSUME NEW t \in Whole, NEW n \in {0, 2},
               HostCall(EnableAs(t, n)) \/ HostCall(IntervalAs(t, n)) \/ HostCall(ModeAs(t, n))
        PROVE  RelayInv' /\ Relay!Ask
    BY <2>1, WholeUnderstood, HostCallStep
  <2>2. CASE HostCall(ModeTooLarge)
    BY <2>2, WrapUnderstood, HostCallStep
  <2>3. ASSUME NEW s \in Text, HostCall(ReliabilityMixed(s)) \/ HostCall(NoMode(s))
        PROVE  RelayInv' /\ Relay!Ask
    BY <2>3, MixedUnderstood, HostCallStep
  <2>4. ASSUME NEW method \in {"enableAccelerometer", "setTouchInterval", "onPortalId"},
               HostCall(Call(method, <<>>, None))
        PROVE  RelayInv' /\ Relay!Ask
    BY <2>4, MissingUnderstood, HostCallStep
  <2> QED BY <1>2, <2>1, <2>2, <2>3, <2>4 DEF ForeignCalls
<1>3. CASE Receive
  BY <1>3, ReceiveStep
<1>4. CASE Connect \/ vars' = vars
  BY <1>4 DEF Connect, vars, RelayInv, Relay!relayVars
<1>5. CASE Disconnect
  <2>1. Relay!Agrees(None, None) /\ IsSeq(<<>>)
    BY DEF Relay!Agrees, Relay!Near, IsSeq
  <2> QED BY <1>5, <2>1 DEF Disconnect, RelayInv, Relay!Restart
<1> QED BY <1>1, <1>2, <1>3, <1>4, <1>5 DEF Next

(* Whatever a host calls and a peer sends, the controller goes through the *)
(* settings asked for, in order, an interval a millisecond short at most:  *)
(* the builders, parse_control_rpc and the sentinels agree.                *)
THEOREM SettingsRelayed == Spec => SettingsFollow
<1>1. Init => RelayInv /\ Relay!RelayInit
  BY RelayInvInit
<1>2. RelayInv /\ [Next]_vars
        => RelayInv' /\ [Relay!Ask \/ Relay!Follow \/ Relay!Restart]_(Relay!relayVars)
  BY RelayStep
<1> QED BY <1>1, <1>2, PTL DEF Spec, SettingsFollow, Relay!RelaySpec
=============================================================================
