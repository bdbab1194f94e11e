----------------------------- MODULE FfiBoundary -----------------------------
(***************************************************************************)
(* The C binding (engine/ffi.rs): what a call does between its arguments   *)
(* and its result, and the memory that crosses the boundary.               *)
(*                                                                         *)
(* Every exported function checks its arguments, calls the engine, and     *)
(* converts the Action values into C structures, field by field.  The      *)
(* conversion copies strings and byte vectors to the heap and hands their  *)
(* raw pointers to the caller.  A string with a NUL byte panics in         *)
(* CString::new: the call reports false, although the engine has changed,  *)
(* and what was converted so far has no owner.                             *)
(*                                                                         *)
(* A block of the heap is named by the call that allocated it and the      *)
(* place it was allocated for: <<action, info, field>>, the positions      *)
(* counting from 1 (0 for none).  What the caller owns is a function from  *)
(* places to blocks, per variable of the caller.                           *)
(*                                                                         *)
(* The engine is reduced to the devices it has a record of, those that     *)
(* registered, and whether sequence numbers or invoke ids were spent.  The *)
(* caller is external: it passes an ActionListC that owns nothing, frees   *)
(* what it was given with the function meant for it, and does not use a    *)
(* pointer it has freed.                                                   *)
(***************************************************************************)
EXTENDS Integers, Sequences, FiniteSets, SequencesExt

CONSTANTS
  Device,     \* devices that send packets
  Viewer,     \* those that are told of games
  NulText,    \* <<d, f>>: the text that d sends for field f holds a NUL byte
  List,       \* the ActionListC variables of the caller
  Struct,     \* the caller's BMRegistryInfoC, DeviceCoreC and BMInvokeC
  MaxCalls    \* bound: calls that reach the engine or the heap

VARIABLES
  live,       \* the caller has an engine
  records,    \* devices the registry has a record of
  devices,    \* those that registered: the record has an info
  pending,    \* devices whose registration waits for a decision
  spent,      \* sequence numbers and invoke ids used
  told,       \* devices whose onRegister was handed to the caller
  calls,      \* calls so far: names the blocks
  heap,       \* blocks allocated and not freed
  held,       \* what each variable of the caller points to: place -> block
  lost,       \* blocks that a conversion left without owner
  last        \* what the last call was and reported

engineVars == <<live, records, devices, pending, spent, told>>
vars == <<engineVars, calls, heap, held, lost, last>>

(* The fields of an action that hold a text that came in a packet.         *)
TextField ==
  {"device_id", "device_name", "addr", "app_id", "invoke_method", "invoke_return_method",
   "chunk_set_id", "control_portal_id", "control_return_app_id"}

ASSUME BoundaryAssumption ==
  /\ Viewer \subseteq Device /\ NulText \subseteq Device \X TextField
  /\ IsFiniteSet(Device) /\ MaxCalls \in Nat
  /\ "snapshot" \notin List \cup Struct /\ "bytes" \notin List \cup Struct
  /\ List \cap Struct = {}

Holder == List \cup Struct \cup {"snapshot", "bytes"}

Init ==
  /\ live = FALSE /\ records = {} /\ devices = {} /\ pending = {}
  /\ spent = 0 /\ told = {}
  /\ calls = 0 /\ heap = {} /\ lost = {}
  /\ held = [h \in Holder |-> <<>>]
  /\ last = [kind |-> "none", ok |-> TRUE]

-----------------------------------------------------------------------------
(* The fields a conversion writes, in the order of action_to_c.  A payload *)
(* is a byte vector, and none when it is empty.                            *)

Field(j, f, c) == [info |-> j, field |-> f, content |-> c]
Text(d, f) == IF <<d, f>> \in NulText THEN "nul" ELSE "plain"
TextOf(j, d, f) == Field(j, f, Text(d, f))

NulId == {d \in Device : Text(d, "device_id") = "nul"}
NulAny == {d \in Device : \E f \in TextField : Text(d, f) = "nul"}

SendFields(d) == <<Field(0, "payload", "plain"), TextOf(0, d, "device_id")>>
LogFields == <<Field(0, "payload", "plain")>>

(* The record of a packet has no address.                                  *)
UpdateRegistryFields(d) ==
  <<TextOf(0, d, "device_id"), TextOf(0, d, "device_name"), Field(0, "addr", "none")>>
InfoFields(j, d) ==
  <<TextOf(j, d, "app_id"), TextOf(j, d, "device_id"), TextOf(j, d, "device_name"),
    TextOf(j, d, "addr")>>

(* The array of infos is boxed when all of them are converted; that of no  *)
(* info is no allocation.                                                  *)
RegistryEventFields(ds) ==
  FlattenSeq([j \in 1 .. Len(ds) |-> InfoFields(j, ds[j])])
  \o (IF ds = <<>> THEN <<>> ELSE <<Field(0, "registry", "plain")>>)

InvokeFields(d, method) ==
  <<Field(0, "invoke_method", method), TextOf(0, d, "invoke_return_method"),
    Field(0, "payload", "plain")>>
KnownInvoke(d) == InvokeFields(d, "plain")

ChunkProgressFields(d) == <<TextOf(0, d, "device_id"), TextOf(0, d, "chunk_set_id")>>
ChunkSetFields(d) == <<Field(0, "payload", "plain")>> \o ChunkProgressFields(d)
ControlConfigFields(d) ==
  <<TextOf(0, d, "control_portal_id"), TextOf(0, d, "control_return_app_id")>>

(* The other actions a packet of device d may lead to: those that end with *)
(* an answer to it (a ping, a list), and those without.  What an update or *)
(* a relay sends to others is left to module RegistryEngine.               *)
Answered(d) ==
  { <<LogFields, SendFields(d)>>,
    <<KnownInvoke(d), RegistryEventFields(<<>>), SendFields(d)>> }
Unanswered(d) ==
  { <<>>, <<LogFields>>, <<UpdateRegistryFields(d), LogFields>>,
    <<ChunkProgressFields(d)>>, <<ChunkProgressFields(d), ChunkSetFields(d)>>,
    <<KnownInvoke(d), RegistryEventFields(<<d>>)>>, <<KnownInvoke(d), ControlConfigFields(d)>>,
    <<InvokeFields(d, Text(d, "invoke_method"))>> }

(* Bytes that are no packet: none, a handshake, and what cannot be read.   *)
NoPacket == {<<>>, << <<>> >>, <<LogFields>>}

-----------------------------------------------------------------------------
(* Conversion.                                                             *)

(* Every field of a list of actions with its place, in order.              *)
Placed(acts) ==
  FlattenSeq([i \in 1 .. Len(acts) |->
    [n \in 1 .. Len(acts[i]) |->
      [place   |-> <<i, acts[i][n].info, acts[i][n].field>>,
       content |-> acts[i][n].content]]])

Panics(fields) == \E n \in 1 .. Len(fields) : fields[n].content = "nul"

(* The places given a block before the conversion ends or panics.          *)
Made(fields) ==
  {fields[n].place : n \in {m \in 1 .. Len(fields) :
      \A k \in 1 .. m : fields[k].content # "nul" /\ fields[m].content # "none"}}

Fresh(places) == [p \in places |-> <<calls + 1, p>>]
BlocksOf(ptrs) == {ptrs[p] : p \in DOMAIN ptrs}

(* actions_to_c and its callers: on success the caller's variable h owns   *)
(* the blocks of the fields and the array itself; after a panic it is not  *)
(* written and the blocks made so far have no owner.                       *)
Convert(h, fields, array, kind) ==
  LET made == Fresh(Made(fields))
      all  == Fresh(Made(fields) \cup array)
  IN  /\ calls' = calls + 1
      /\ last' = [kind |-> kind, ok |-> ~Panics(fields)]
      /\ IF Panics(fields)
         THEN /\ heap' = heap \cup BlocksOf(made)
              /\ lost' = lost \cup BlocksOf(made)
              /\ held' = held
         ELSE /\ heap' = heap \cup BlocksOf(all)
              /\ held' = [held EXCEPT ![h] = all]
              /\ lost' = lost

ActionArray(acts) == IF acts = <<>> THEN {} ELSE {<<0, 0, "actions">>}

HandOut(l, acts, kind) == Convert(l, Placed(acts), ActionArray(acts), kind)

(* A list the caller may pass: it owns nothing that the call overwrites.   *)
Callable(l) == live /\ calls < MaxCalls /\ held[l] = <<>>

-----------------------------------------------------------------------------
(* Calls that bring packets and decisions to the engine.  A device named   *)
(* by the caller is named by a C string, which holds no NUL.               *)

Nameable == Device \ NulId

(* The sends of a broadcast follow a HashMap.                              *)
Broadcasts(D) == {[n \in 1 .. Len(s) |-> SendFields(s[n])] : s \in SetToSeqs(D)}
Told(D, d) == IF d \in Viewer THEN {} ELSE (D \cap Viewer) \ {d}

(* A packet to a device without a record is a line of log.                 *)
SentTo(d) == IF d \in records THEN SendFields(d) ELSE LogFields

(* What admitting d sends: onRegister, and for a game onHostConnected to   *)
(* itself and to every viewer.                                             *)
Admission(d) ==
  {(IF d \in Viewer THEN <<>> ELSE <<SendFields(d)>>) \o b : b \in Broadcasts(Told(devices, d))}

Delivered(fields, d) == told' = IF Panics(fields) THEN told \ {d} ELSE told \cup {d}

(* process_incoming with a registry.register that is approved at once.     *)
ProcessRegister(l, d) ==
  /\ Callable(l)
  /\ records' = records \cup {d} /\ devices' = devices \cup {d}
  /\ \E sends \in Admission(d) :
       LET acts == <<UpdateRegistryFields(d), KnownInvoke(d),
                     RegistryEventFields(<<d>>), SendFields(d)>> \o sends
       IN  HandOut(l, acts, "process") /\ Delivered(Placed(acts), d)
  /\ spent' = spent + 1
  /\ UNCHANGED <<live, pending>>

(* Mutation of ProcessDeferred: the info is stored before the decision.    *)
ProcessDeferredStored(l, d) ==
  /\ Callable(l)
  /\ pending' = pending \cup {d}
  /\ records' = records \cup {d} /\ devices' = devices \cup {d}
  /\ HandOut(l, <<UpdateRegistryFields(d), KnownInvoke(d),
                  RegistryEventFields(<<d>>), RegistryEventFields(<<d>>)>>, "process")
  /\ UNCHANGED <<live, spent, told>>

(* process_incoming with one that waits for a decision.                    *)
ProcessDeferred(l, d) ==
  /\ Callable(l)
  /\ pending' = pending \cup {d} /\ records' = records \cup {d}
  /\ HandOut(l, <<UpdateRegistryFields(d), KnownInvoke(d),
                  RegistryEventFields(<<d>>), RegistryEventFields(<<d>>)>>, "process")
  /\ UNCHANGED <<live, devices, spent, told>>

(* process_incoming or process_incoming_udp with any other packet, or with *)
(* bytes that are none.                                                    *)
ProcessOther(l, d) ==
  /\ Callable(l)
  /\ \/ /\ \E other \in Unanswered(d) :
               HandOut(l, <<UpdateRegistryFields(d)>> \o other, "process")
        /\ records' = records \cup {d} /\ UNCHANGED spent
     \/ /\ \E other \in Answered(d) :
               HandOut(l, <<UpdateRegistryFields(d)>> \o other, "process")
        /\ records' = records \cup {d} /\ spent' = spent + 1
     \/ /\ \E acts \in NoPacket : HandOut(l, acts, "process")
        /\ UNCHANGED <<records, spent>>
  /\ UNCHANGED <<live, devices, pending, told>>

ApproveRegistration(l, d) ==
  /\ Callable(l) /\ d \in pending \cap Nameable
  /\ pending' = pending \ {d}
  /\ records' = records \cup {d} /\ devices' = devices \cup {d}
  /\ \E sends \in Admission(d) :
       LET acts == <<SendFields(d), RegistryEventFields(<<d>>)>> \o sends
       IN  HandOut(l, acts, "process") /\ Delivered(Placed(acts), d)
  /\ spent' = spent + 1
  /\ UNCHANGED live

DenyRegistration(l, d) ==
  /\ Callable(l) /\ d \in pending \cap Nameable
  /\ pending' = pending \ {d}
  /\ HandOut(l, <<SentTo(d), RegistryEventFields(<<d>>)>>, "process")
  /\ spent' = spent + 1
  /\ UNCHANGED <<live, records, devices, told>>

(* Only a game that registered is announced to be gone.                    *)
DropDevice(l, d) ==
  /\ Callable(l) /\ d \in Nameable
  /\ records' = records \ {d} /\ devices' = devices \ {d} /\ told' = told \ {d}
  /\ LET viewers == IF d \in devices THEN Told(devices, d) ELSE {}
     IN  /\ \E sends \in Broadcasts(viewers) : HandOut(l, sends, "process")
         /\ spent' = IF viewers = {} THEN spent ELSE spent + 1
  /\ UNCHANGED <<live, pending>>

(* register_device gives a device a record without info, in place of the   *)
(* one it may have.                                                        *)
RegisterDevice(d) ==
  /\ live /\ d \in Nameable
  /\ records' = records \cup {d} /\ devices' = devices \ {d} /\ told' = told \ {d}
  /\ last' = [kind |-> "process", ok |-> TRUE]
  /\ UNCHANGED <<live, pending, spent, calls, heap, held, lost>>

-----------------------------------------------------------------------------
(* The calls that make a packet.  Each has pointers it needs and arguments *)
(* it has to read: texts in UTF-8, structures with a known device type,    *)
(* known codes.  A target may be null: it is the empty id then, to which   *)
(* nothing is sent.  `invoke` tells those that use up an invoke id first.  *)

Maker(f, needs, reads, invoke) ==
  [fn |-> f, needs |-> needs, reads |-> reads, invoke |-> invoke]

(* A message may be null when its announced length is 0; other lengths     *)
(* need it.                                                                *)
PacketMakers ==
  {Maker("make_packet", {"message"}, {"target", "packet_type"}, FALSE)}

RegistryMakers ==
  { Maker("make_registry_register", {"registry_info"}, {"target", "registry_info", "domain"}, TRUE),
    Maker("make_registry_list", {}, {"target"}, TRUE),
    Maker("make_device_connect_requested", {"game_info", "controller_info"},
          {"target", "game_info", "controller_info"}, TRUE) }

RelayMakers ==
  { Maker("make_registry_relay", {"dest_info", "inner_invoke"},
          {"target", "dest_info", "inner_invoke"}, TRUE),
    Maker("make_message_invoke", {"invoke"}, {"target", "invoke"}, TRUE) }

InputMakers ==
  { Maker("make_button_invoke", {"handler"}, {"target", "handler"}, TRUE),
    Maker("make_dpad_update", {}, {"target"}, FALSE),
    Maker("make_touch_set", {"touches"}, {"target", "touch_state"}, FALSE) }

(* make_orientation replaces what it cannot read in the target.            *)
SensorMakers ==
  { Maker("make_accel", {}, {"target"}, FALSE),
    Maker("make_gyro", {}, {"target"}, FALSE),
    Maker("make_orientation", {}, {}, FALSE) }

SchemeMakers ==
  { Maker("make_request_xml", {}, {"target", "device_id"}, TRUE),
    Maker("make_on_control_scheme_parsed", {}, {"target", "device_id"}, TRUE),
    Maker("make_simple_invoke", {"method"}, {"target", "method", "return_method", "param"}, TRUE) }

PlainMakers ==
  { Maker(f, {}, {"target"}, TRUE) : f \in {"make_vibrate", "make_update_wallet"} }

CookieMakers ==
  { Maker("make_get_cookie", {"name"}, {"target", "name"}, TRUE),
    Maker("make_set_cookie", {"name", "value"}, {"target", "name", "value"}, TRUE),
    Maker("make_prompt_trial_upsell", {}, {"target"}, TRUE),
    Maker("make_wait_for_new_host", {"host_device_id"}, {"target", "host_device_id"}, TRUE) }

ControlMakers ==
  { Maker("make_set_control_mode", {}, {"target", "text_content"}, TRUE) }
  \cup { Maker(f, {}, {"target"}, TRUE) : f \in
           {"make_enable_accelerometer", "make_enable_touch", "make_set_touch_interval"} }

SettingMakers ==
  { Maker(f, {}, {"target"}, TRUE) : f \in
      {"make_enable_gyro", "make_set_gyro_interval", "make_enable_orientation",
       "make_set_orientation_interval", "make_set_reliability_for_touch",
       "make_set_capabilities"} }

Makers == PacketMakers \cup RegistryMakers \cup RelayMakers \cup InputMakers
          \cup SensorMakers \cup SchemeMakers \cup PlainMakers \cup CookieMakers
          \cup ControlMakers \cup SettingMakers

(* Arguments: those that are null and those that cannot be read.           *)
Refused(m, nulls, bad) == nulls \cap m.needs # {} \/ bad \cap m.reads # {}

(* Mutation of Spending: the invoke id is taken before arguments are read. *)
SpendingFirst(m, nulls, bad, known) == IF m.invoke \/ known THEN 1 ELSE 0

(* What a call of m uses up: nothing when it is refused; an invoke id even *)
(* if the target is unknown; else a sequence number if it is known.        *)
Spending(m, nulls, bad, known) ==
  IF Refused(m, nulls, bad) THEN 0 ELSE IF m.invoke \/ known THEN 1 ELSE 0

(* A target that is null or has no record gets a line of log.              *)
MadeActions(target, known) == IF known THEN <<SendFields(target)>> ELSE <<LogFields>>

Make(m, l, target, nulls, bad) ==
  LET known == target \in records /\ "target" \notin nulls \cup bad
  IN  /\ Callable(l)
      /\ spent' = spent + Spending(m, nulls, bad, known)
      /\ IF Refused(m, nulls, bad)
         THEN /\ last' = [kind |-> "make", ok |-> FALSE]
              /\ UNCHANGED <<calls, heap, held, lost>>
         ELSE HandOut(l, MadeActions(target, known), "make")
      /\ UNCHANGED <<live, records, devices, pending, told>>

Arguments(m) == {{}} \cup {{a} : a \in {"target"} \cup m.needs \cup m.reads}

-----------------------------------------------------------------------------
(* The caller's memory.                                                    *)

EngineNew ==
  /\ ~live /\ live' = TRUE
  /\ UNCHANGED <<records, devices, pending, spent, told, calls, heap, held, lost, last>>

(* What the caller was handed outlives the engine.                         *)
EngineFree ==
  /\ live /\ live' = FALSE
  /\ records' = {} /\ devices' = {} /\ pending' = {} /\ spent' = 0 /\ told' = {}
  /\ UNCHANGED <<calls, heap, held, lost, last>>

(* Mutation of Release: the pointers freed are not set to null.            *)
ReleaseDangling(h, P) ==
  /\ P # {}
  /\ heap' = heap \ {held[h][p] : p \in P}
  /\ UNCHANGED <<engineVars, calls, held, lost, last>>

(* Give back the places P of what variable h owns.                         *)
Release(h, P) ==
  /\ P # {}
  /\ heap' = heap \ {held[h][p] : p \in P}
  /\ held' = [held EXCEPT ![h] = [p \in DOMAIN @ \ P |-> @[p]]]
  /\ UNCHANGED <<engineVars, calls, lost, last>>

(* Mutation of ActionsFree: the infos of an event are not freed.           *)
ActionsFreeShallow(l) ==
  /\ held[l] # <<>>
  /\ heap' = heap \ {held[l][p] : p \in {q \in DOMAIN held[l] : q[2] = 0}}
  /\ held' = [held EXCEPT ![l] = <<>>]
  /\ UNCHANGED <<engineVars, calls, lost, last>>

(* bm_engine_actions_free: the fields of each action, its infos and their  *)
(* array, and the array of actions.                                        *)
ActionsFree(l) == Release(l, DOMAIN held[l])

(* action_free and bm_registry_info_free on an element of what was handed  *)
(* out: its own fields, which are null from then on.                       *)
FreeElement(h, i, j) ==
  Release(h, {p \in DOMAIN held[h] :
                p[1] = i /\ p[2] = j /\ p[3] \notin {"actions", "registry", "shell"}})

(* get_registry: the infos of the registered devices, in no order.         *)
GetRegistry ==
  /\ live /\ calls < MaxCalls /\ held["snapshot"] = <<>>
  /\ \E order \in SetToSeqs(devices) :
       Convert("snapshot", Placed(<<RegistryEventFields(order)>>), {}, "snapshot")
  /\ UNCHANGED engineVars

SnapshotFree == Release("snapshot", DOMAIN held["snapshot"])

StructFields ==
  [info   |-> {"app_id", "device_id", "device_name", "addr"},
   core   |-> {"id", "name", "addr"},
   invoke |-> {"method", "return_method", "params_json"}]

Shell == <<0, 0, "shell">>

StructNew(s) ==
  /\ calls < MaxCalls /\ held[s] = <<>>
  /\ calls' = calls + 1
  /\ held' = [held EXCEPT ![s] = Fresh({Shell})]
  /\ heap' = heap \cup BlocksOf(Fresh({Shell}))
  /\ UNCHANGED <<engineVars, lost, last>>

(* The setters of texts and payloads: a copy takes the place of the old    *)
(* one, which is freed.                                                    *)
SetField(h, p) ==
  /\ calls < MaxCalls
  /\ calls' = calls + 1
  /\ heap' = (heap \ (IF p \in DOMAIN held[h] THEN {held[h][p]} ELSE {})) \cup {<<calls', p>>}
  /\ held' = [held EXCEPT ![h] =
       [q \in DOMAIN @ \cup {p} |-> IF q = p THEN <<calls', p>> ELSE @[q]]]
  /\ UNCHANGED <<engineVars, lost, last>>

SetStruct(s) == Shell \in DOMAIN held[s] /\ \E f \in StructFields[s] : SetField(s, <<0, 0, f>>)

(* The setters and getters of a list the caller was handed.                *)
SetAction(l) == \E p \in DOMAIN held[l] : p[3] \notin {"actions", "registry"} /\ SetField(l, p)

(* ..._destroy; there is none for BMInvokeC, whose shell stays.            *)
StructDestroy(s) == s # "invoke" /\ Release(s, DOMAIN held[s])

(* Scheme bytes and images: one block each, freed by its length.           *)
BytesNew ==
  /\ calls < MaxCalls /\ held["bytes"] = <<>>
  /\ calls' = calls + 1
  /\ held' = [held EXCEPT !["bytes"] = Fresh({<<0, 0, "bytes">>})]
  /\ heap' = heap \cup BlocksOf(Fresh({<<0, 0, "bytes">>}))
  /\ UNCHANGED <<engineVars, lost, last>>

BytesFree == Release("bytes", DOMAIN held["bytes"])

-----------------------------------------------------------------------------
EngineCall ==
  \E l \in List :
    \/ \E d \in Device :
         \/ ProcessRegister(l, d) \/ ProcessDeferred(l, d) \/ ProcessOther(l, d)
         \/ ApproveRegistration(l, d) \/ DenyRegistration(l, d) \/ DropDevice(l, d)
    \/ \E m \in Makers, target \in Nameable :
         \E nulls, bad \in Arguments(m) : Make(m, l, target, nulls, bad)

CallerStep ==
  \/ EngineNew \/ EngineFree
  \/ \E d \in Device : RegisterDevice(d)
  \/ \E l \in List : ActionsFree(l) \/ SetAction(l)
  \/ \E h \in List \cup {"snapshot"} : \E p \in DOMAIN held[h] : FreeElement(h, p[1], p[2])
  \/ GetRegistry \/ SnapshotFree
  \/ \E s \in Struct :
       \/ StructNew(s) \/ SetStruct(s) \/ StructDestroy(s)
       \/ FreeElement(s, 0, 0)
  \/ BytesNew \/ BytesFree

Next == EngineCall \/ CallerStep

Spec == Init /\ [][Next]_vars

-----------------------------------------------------------------------------
(* Properties.                                                             *)

(* Every pointer the caller holds, in lists, snapshots and structures,     *)
(* leads to a block that is allocated, and no two pointers to one block:   *)
(* whatever is set, freed alone or freed with its list (action_free before *)
(* bm_engine_actions_free, setters on a list), nothing is freed twice.     *)
PointersLive ==
  /\ \A h \in Holder : BlocksOf(held[h]) \subseteq heap
  /\ \A h, k \in Holder : \A p \in DOMAIN held[h], q \in DOMAIN held[k] :
       held[h][p] = held[k][q] => h = k /\ p = q

(* Nothing is allocated that the caller cannot free, but for what a        *)
(* conversion that panicked left behind (actions_to_c, get_registry).      *)
NothingLeaks ==
  heap \ UNION {BlocksOf(held[h]) : h \in Holder} = lost

(* A registered device whose onRegister was not handed out has a NUL in    *)
(* its own texts, or a viewer whose id holds one is registered: that one   *)
(* the C caller cannot name, so it cannot drop it, and every broadcast of  *)
(* the engine is lost with all that was to be sent along with it.  Nobody  *)
(* is told of a registration that was not stored.                          *)
LossHasCause ==
  /\ told \subseteq devices
  /\ devices # told =>
       \/ devices \cap Viewer \cap NulId # {}
       \/ devices \ told \subseteq NulAny

(* The calls that make packets name their target by a C string, so their   *)
(* conversion never panics: one that reports false has used no number, has *)
(* changed nothing and has left no memory behind.                          *)
MakersFailClean ==
  [][last'.kind = "make" /\ ~last'.ok /\ last' # last
       => UNCHANGED <<engineVars, heap, held, lost>>]_vars
=============================================================================
