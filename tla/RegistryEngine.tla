--------------------------- MODULE RegistryEngine ---------------------------
(***************************************************************************)
(* The device registry of one Engine (engine/processing.rs): which devices *)
(* it knows, which of them registered and in which slot, the registrations *)
(* the host application has yet to approve, and the messages each call     *)
(* hands back to be sent.                                                  *)
(*                                                                         *)
(* Every public entry point of Engine takes `&mut self` and runs to its    *)
(* end, so one call is one action.  The engine does no I/O: the Action     *)
(* values a call returns are modelled by `sent`, the messages of the last  *)
(* call in the order returned, per receiver.  The order between receivers  *)
(* follows a HashMap and means nothing.                                    *)
(*                                                                         *)
(* Abstracted: names, addresses and app ids; the device types, reduced to  *)
(* the three classes the code tells apart; the two player counts, always   *)
(* read and written together, into one; RegistryEvent, Invoke and Log      *)
(* actions, which report and change nothing; channels, sequence numbers,   *)
(* invoke ids and packet encoding, which belong to module PacketExchange;  *)
(* byte chunks, which belong to module ChunkAssembly.                      *)
(***************************************************************************)
EXTENDS Integers, Sequences, FiniteSets

CONSTANTS
  DeviceId,       \* device ids, the keys of the registry
  EmptyId,        \* the id "", which a packet may carry and no packet reaches
  MaxSlot,        \* i16::MAX in the code
  Players,        \* player counts an info can carry
  RegisterCall,   \* the registry.register calls: sender and info
  UpdateInfo,     \* the infos that registry.update calls carry
  LocalKind,      \* the classes init_local_device is called with
  Absent,         \* no record in the registry
  NoInfo,         \* a record whose info is None
  NoPlayers,      \* current_players and max_players are None
  NoPending,      \* no entry in pending_registrations
  NoLocal         \* local_device is None

VARIABLES
  registry,       \* DeviceRegistry: id -> Absent, NoInfo or the record's info
  used_slots,     \* Engine::used_slots
  pending,        \* Engine::pending_registrations: id -> info and target
  auto_approve,   \* Engine::auto_approve_registration
  local_device,   \* the class of Engine::local_device
  sent            \* the messages the last call returned, per receiver

vars == <<registry, used_slots, pending, auto_approve, local_device, sent>>

(* Unity, Flash and Native devices are games; Server is a server; every    *)
(* other type (Any, IPhone, Android, Palm) looks for games: a viewer.      *)
Kind == {"game", "viewer", "server"}

(* The values of an i16, and their order along wrapping_add from 1.        *)
SlotValue == (-MaxSlot - 1) .. MaxSlot
Probe(s) == IF s > 0 THEN s ELSE s + 2 * MaxSlot + 2

Info == [dev : DeviceId, kind : Kind, slot : SlotValue,
         players : Players \cup {NoPlayers}]

(* What decoding can produce: the player counts follow a positive slot     *)
(* only.                                                                   *)
WireInfo == {i \in Info : i.slot <= 0 <=> i.players = NoPlayers}

(* Mutation of OnWire: counts that are None are left out.                  *)
OnWireNoneOmitted(i) == [i EXCEPT !.players = IF i.slot <= 0 THEN NoPlayers ELSE @]

(* Encoding: counts are written with a positive slot only, 0 for None.     *)
OnWire(i) ==
  [i EXCEPT !.players = IF i.slot <= 0 THEN NoPlayers
                        ELSE IF i.players = NoPlayers THEN 0 ELSE @]

PendingEntry == [info : WireInfo, target : DeviceId]

HostMethod == {"onHostConnected", "onHostUpdate", "onHostDisconnected"}
Message == [method : {"onRegister"}, success : BOOLEAN]
     \cup [method : HostMethod, info : WireInfo]
     \cup [method : {"onList"}, hosts : SUBSET WireInfo]
     \cup [method : {"relayed", "echo"}]

ASSUME ConstantsAssumption ==
  /\ IsFiniteSet(DeviceId)
  /\ MaxSlot \in Nat \ {0}
  /\ Players \subseteq Nat /\ 0 \in Players
  /\ NoPlayers \notin Players
  /\ Absent # NoInfo /\ Absent \notin Info /\ NoInfo \notin Info
  /\ NoPending \notin PendingEntry
  /\ NoLocal \notin Kind
  /\ LocalKind \subseteq Kind
  /\ RegisterCall \subseteq DeviceId \X WireInfo /\ UpdateInfo \subseteq WireInfo

Init ==
  /\ registry = [d \in DeviceId |-> Absent]
  /\ used_slots = {}
  /\ pending = [d \in DeviceId |-> NoPending]
  /\ auto_approve = TRUE
  /\ local_device = NoLocal
  /\ sent = [d \in DeviceId |-> <<>>]

-----------------------------------------------------------------------------
(* Reading the registry.                                                   *)

HasInfo(reg, d) == reg[d] \notin {Absent, NoInfo}
KindIs(reg, d, k) == HasInfo(reg, d) /\ reg[d].kind = k

(* The devices named by the infos of the given kinds.                      *)
Named(reg, kinds) ==
  {reg[d].dev : d \in {e \in DeviceId : HasInfo(reg, e) /\ reg[e].kind \in kinds}}
Viewers(reg) == Named(reg, {"viewer"})

(* make_packet sends to a known, non-empty id and otherwise only logs.     *)
Reachable(reg, d) == d # EmptyId /\ reg[d] # Absent

(* Mutation of IsServer: an engine without a local device is no server.    *)
IsServerOnlyWhenLocal == local_device = "server"

(* With no local device the engine acts as a server.                       *)
IsServer == local_device \in {NoLocal, "server"}

(* Mutation of InfosForViewer: everyone sees its own kind.                 *)
InfosOfOwnKind(reg, viewerKind) ==
  {reg[d] : d \in {e \in DeviceId : KindIs(reg, e, viewerKind)}}

(* What registry.list tells a viewer of a kind: games see viewers, all     *)
(* others see games.                                                       *)
InfosForViewer(reg, viewerKind) ==
  {reg[d] : d \in {e \in DeviceId :
     KindIs(reg, e, IF viewerKind = "game" THEN "viewer" ELSE "game")}}

-----------------------------------------------------------------------------
(* The messages of a call.                                                 *)

OnRegister(ok) == [method |-> "onRegister", success |-> ok]
HostMsg(m, i) == [method |-> m, info |-> OnWire(i)]
OnList(infos) == [method |-> "onList", hosts |-> {OnWire(i) : i \in infos}]

(* `msgs` for each member of D that make_packet accepts, nothing for the    *)
(* others.                                                                 *)
Deliver(reg, D, msgs) ==
  [d \in DeviceId |-> IF d \in D /\ Reachable(reg, d) THEN msgs ELSE <<>>]

Quiet == [d \in DeviceId |-> <<>>]

-----------------------------------------------------------------------------
(* Changing the registry.                                                  *)

(* push_registry_update for a packet's sender: a new record has no info,   *)
(* an old one keeps its info.                                              *)
Touch(reg, s) == IF reg[s] = Absent THEN [reg EXCEPT ![s] = NoInfo] ELSE reg

(* Mutation of Merge: a slot once stored is never replaced.                *)
MergeOldSlotWins(old, info) ==
  [info EXCEPT !.slot = IF old.slot > 0 THEN old.slot ELSE @]

(* The info a stored record keeps where the new one says nothing.          *)
Merge(old, info) ==
  [info EXCEPT !.slot = IF info.slot <= 0 THEN old.slot ELSE @,
               !.players = IF info.players = NoPlayers THEN old.players ELSE @]

Upsert(reg, info) ==
  [reg EXCEPT ![info.dev] =
     IF HasInfo(reg, info.dev) THEN Merge(reg[info.dev], info) ELSE info]

(* Mutation of Released: the slot is kept.                                 *)
ReleasedNothing(reg, used, d) == used

(* The slot a device holds goes back before it is given another one, and   *)
(* when its record is dropped.                                             *)
Released(reg, used, d) ==
  IF HasInfo(reg, d) /\ reg[d].slot > 0 THEN used \ {reg[d].slot} ELSE used

(* Mutation of AllocateSlot: the search starts at 0.                       *)
AllocateSlotFromZero(used) ==
  CHOOSE s \in (0 .. MaxSlot) \ used : \A t \in (0 .. MaxSlot) \ used : s <= t

(* Mutation of AllocateSlot: the next number is taken to be free.          *)
AllocateSlotByCount(used) == Cardinality(used) + 1

(* The first slot not in use, counting up from 1 and wrapping.             *)
AllocateSlot(used) ==
  CHOOSE s \in SlotValue \ used : \A t \in SlotValue \ used : Probe(s) <= Probe(t)

-----------------------------------------------------------------------------
(* Registration.                                                           *)

(* What approval does to `reg`: assign the slot, store the info, answer    *)
(* the target, and announce a game to the target and to every viewer.      *)
(* With every slot in use the allocation never returns: no step.           *)
Admit(reg, info, target) ==
  LET game     == info.kind = "game"
      free     == IF game THEN Released(reg, used_slots, info.dev) ELSE used_slots
      slot     == IF game THEN AllocateSlot(free) ELSE 0
      admitted == [info EXCEPT !.slot = slot]
      stored   == Upsert(reg, admitted)
      news     == IF game THEN <<HostMsg("onHostConnected", admitted)>> ELSE <<>>
  IN  /\ game => SlotValue \ free # {}
      /\ registry' = stored
      /\ used_slots' = IF game THEN free \cup {slot} ELSE free
      /\ sent' = [Deliver(stored, Viewers(stored), news) EXCEPT
                   ![target] = Deliver(stored, {target}, <<OnRegister(TRUE)>> \o news)[target]]

(* Mutation of Deferred: filed under the sender.                           *)
DeferredBySender(info, s) == [pending EXCEPT ![s] = [info |-> info, target |-> s]]

(* The entry a registration leaves for the application to decide on.       *)
Deferred(info, s) == [pending EXCEPT ![info.dev] = [info |-> info, target |-> s]]

(* registry.register and onRegister.                                       *)
RegistryRegister(s, info) ==
  LET reg == Touch(registry, s)
  IN  /\ UNCHANGED <<auto_approve, local_device>>
      /\ \/ /\ IsServer /\ auto_approve
            /\ Admit(reg, info, s)
            /\ UNCHANGED pending
         \/ /\ IsServer /\ ~auto_approve
            /\ pending' = Deferred(info, s)
            /\ registry' = reg
            /\ sent' = Quiet
            /\ UNCHANGED used_slots
         \/ /\ ~IsServer
            /\ registry' = reg
            /\ sent' = Quiet
            /\ UNCHANGED <<used_slots, pending>>

ApproveRegistration(d) ==
  /\ pending[d] # NoPending
  /\ pending' = [pending EXCEPT ![d] = NoPending]
  /\ Admit(registry, pending[d].info, pending[d].target)
  /\ UNCHANGED <<auto_approve, local_device>>

DenyRegistration(d) ==
  /\ pending[d] # NoPending
  /\ pending' = [pending EXCEPT ![d] = NoPending]
  /\ sent' = Deliver(registry, {pending[d].target}, <<OnRegister(FALSE)>>)
  /\ UNCHANGED <<registry, used_slots, auto_approve, local_device>>

-----------------------------------------------------------------------------
(* The other packets a device may send.                                    *)

(* registry.list and onList.  A sender that did not register is answered   *)
(* as a server would be.                                                   *)
RegistryList(s) ==
  LET reg  == Touch(registry, s)
      kind == IF HasInfo(reg, s) THEN reg[s].kind ELSE "server"
  IN  /\ registry' = reg
      /\ sent' = IF IsServer
                 THEN Deliver(reg, {s}, <<OnList(InfosForViewer(reg, kind))>>)
                 ELSE Quiet
      /\ UNCHANGED <<used_slots, pending, auto_approve, local_device>>

(* registry.update and onHostUpdate.  The call may carry an array of       *)
(* infos: they are stored in turn, each stored game is announced as it     *)
(* then stands, and the receivers are those registered before the call.    *)
(* Bound: at most two infos.                                               *)
UpsertAll(reg, infos) ==
  LET once == IF Len(infos) >= 1 THEN Upsert(reg, infos[1]) ELSE reg
  IN  IF Len(infos) >= 2 THEN Upsert(once, infos[2]) ELSE once

(* Mutation of UpdateNews: the info as received is announced.              *)
UpdateNewsAsReceived(reg, info) ==
  IF info.kind = "game" THEN <<HostMsg("onHostUpdate", info)>> ELSE <<>>

(* Mutation of UpdateNews: the info as it stood before the update.         *)
UpdateNewsBefore(reg, info) ==
  IF KindIs(reg, info.dev, "game")
  THEN <<HostMsg("onHostUpdate", reg[info.dev])>>
  ELSE <<>>

UpdateNews(reg, info) ==
  IF info.kind = "game"
  THEN <<HostMsg("onHostUpdate", Upsert(reg, info)[info.dev])>>
  ELSE <<>>

AllUpdateNews(reg, infos) ==
  (IF Len(infos) >= 1 THEN UpdateNews(reg, infos[1]) ELSE <<>>)
  \o (IF Len(infos) >= 2 THEN UpdateNews(Upsert(reg, infos[1]), infos[2]) ELSE <<>>)

(* Mutation of RegistryUpdate: whoever sent the update is told of it too.  *)
RegistryUpdateEchoed(s, infos) ==
  LET reg     == Touch(registry, s)
      viewers == Named(reg, {"viewer", "server"}) \cup {s}
  IN  /\ registry' = IF IsServer THEN UpsertAll(reg, infos) ELSE reg
      /\ sent' = IF IsServer
                 THEN Deliver(registry', viewers, AllUpdateNews(reg, infos))
                 ELSE Quiet
      /\ UNCHANGED <<used_slots, pending, auto_approve, local_device>>

RegistryUpdate(s, infos) ==
  LET reg     == Touch(registry, s)
      viewers == Named(reg, {"viewer", "server"})
  IN  /\ registry' = IF IsServer THEN UpsertAll(reg, infos) ELSE reg
      /\ sent' = IF IsServer
                 THEN Deliver(registry', viewers, AllUpdateNews(reg, infos))
                 ELSE Quiet
      /\ UNCHANGED <<used_slots, pending, auto_approve, local_device>>

(* registry.relay hands the inner invoke to the device it names.           *)
RegistryRelay(s, target) ==
  LET reg == Touch(registry, s)
  IN  /\ registry' = reg
      /\ sent' = IF IsServer
                 THEN Deliver(reg, {target}, <<[method |-> "relayed"]>>)
                 ELSE Quiet
      /\ UNCHANGED <<used_slots, pending, auto_approve, local_device>>

ProcessPing(s) ==
  LET reg == Touch(registry, s)
  IN  /\ registry' = reg
      /\ sent' = Deliver(reg, {s}, <<[method |-> "echo"]>>)
      /\ UNCHANGED <<used_slots, pending, auto_approve, local_device>>

(* Acks, echoes, chunks, input events and invokes that only report.        *)
ProcessOther(s) ==
  /\ registry' = Touch(registry, s)
  /\ sent' = Quiet
  /\ UNCHANGED <<used_slots, pending, auto_approve, local_device>>

-----------------------------------------------------------------------------
(* The host application's other calls.                                     *)

(* Mutation of DropDevice: what was dropped is looked up after the drop.   *)
DropDeviceReadsAfter(d) ==
  LET reg  == [registry EXCEPT ![d] = Absent]
      news == IF KindIs(reg, d, "game") /\ IsServer
              THEN <<HostMsg("onHostDisconnected", reg[d])>> ELSE <<>>
  IN  /\ registry' = reg
      /\ used_slots' = Released(registry, used_slots, d)
      /\ sent' = Deliver(reg, Viewers(reg), news)
      /\ UNCHANGED <<pending, auto_approve, local_device>>

(* drop_device: forget the record, give its slot back, and tell every      *)
(* viewer when it was a game.  A pending registration is left alone.       *)
DropDevice(d) ==
  LET reg  == [registry EXCEPT ![d] = Absent]
      news == IF KindIs(registry, d, "game") /\ IsServer
              THEN <<HostMsg("onHostDisconnected", registry[d])>> ELSE <<>>
  IN  /\ registry' = reg
      /\ used_slots' = Released(registry, used_slots, d)
      /\ sent' = Deliver(reg, Viewers(reg), news)
      /\ UNCHANGED <<pending, auto_approve, local_device>>

(* register_device of the C and Python bindings writes a record without    *)
(* info over whatever was there.                                           *)
RegisterDevice(d) ==
  /\ registry' = [registry EXCEPT ![d] = NoInfo]
  /\ sent' = Quiet
  /\ UNCHANGED <<used_slots, pending, auto_approve, local_device>>

(* register_device of the wasm binding keeps the info already there.       *)
RegisterDeviceWasm(d) ==
  /\ registry' = Touch(registry, d)
  /\ sent' = Quiet
  /\ UNCHANGED <<used_slots, pending, auto_approve, local_device>>

InitLocalDevice(kind) ==
  /\ local_device' = kind
  /\ sent' = Quiet
  /\ UNCHANGED <<registry, used_slots, pending, auto_approve>>

SetAutoApprove(value) ==
  /\ auto_approve' = value
  /\ sent' = Quiet
  /\ UNCHANGED <<registry, used_slots, pending, local_device>>

-----------------------------------------------------------------------------
UpdateBatch ==
  {<<>>} \cup {<<i>> : i \in UpdateInfo} \cup {<<i, j>> : i, j \in UpdateInfo}

(* An update that asserts no slot, or the slot the registry gave.          *)
KeepsSlot(info) ==
  \/ info.slot <= 0
  \/ HasInfo(registry, info.dev) /\ info.slot = registry[info.dev].slot

HonestBatch == {b \in UpdateBatch : \A n \in 1 .. Len(b) : KeepsSlot(b[n])}

Common ==
  \/ \E call \in RegisterCall : RegistryRegister(call[1], call[2])
  \/ \E s \in DeviceId :
       \/ RegistryList(s)
       \/ \E target \in DeviceId : RegistryRelay(s, target)
       \/ ProcessPing(s)
       \/ ProcessOther(s)
  \/ \E d \in DeviceId :
       \/ ApproveRegistration(d)
       \/ DenyRegistration(d)
       \/ DropDevice(d)
       \/ RegisterDeviceWasm(d)
  \/ \E kind \in LocalKind : InitLocalDevice(kind)
  \/ \E value \in BOOLEAN : SetAutoApprove(value)

(* Everything that devices and host applications can do.                   *)
Next ==
  \/ Common
  \/ \E s \in DeviceId, batch \in UpdateBatch : RegistryUpdate(s, batch)
  \/ \E d \in DeviceId : RegisterDevice(d)

(* Devices that echo the slot they were given, and applications that       *)
(* register_device only what has not registered.                           *)
DisciplinedNext ==
  \/ Common
  \/ \E s \in DeviceId, batch \in HonestBatch : RegistryUpdate(s, batch)
  \/ \E d \in DeviceId : ~HasInfo(registry, d) /\ RegisterDevice(d)

Spec == Init /\ [][Next]_vars
DisciplinedSpec == Init /\ [][DisciplinedNext]_vars

-----------------------------------------------------------------------------
(* Properties.                                                             *)

(* The types of the state and of every message handed out: in particular   *)
(* no message carries an info that could not be encoded and read back.     *)
TypeOK ==
  /\ registry \in [DeviceId -> Info \cup {Absent, NoInfo}]
  /\ used_slots \in SUBSET SlotValue
  /\ pending \in [DeviceId -> PendingEntry \cup {NoPending}]
  /\ auto_approve \in BOOLEAN
  /\ local_device \in Kind \cup {NoLocal}
  /\ sent \in [DeviceId -> Seq(Message)]

(* Broadcasts are addressed with the id inside the stored info, slots are  *)
(* released by the id inside the approved info, and approvals look entries *)
(* up by the key: the two ids are always the same, whatever the order of   *)
(* packets, approvals, drops and re-registrations (upsert_registry_info,   *)
(* push_registry_update, pending_registrations.insert).                    *)
RecordsKeyed ==
  /\ \A d \in DeviceId : HasInfo(registry, d) => registry[d].dev = d
  /\ \A d \in DeviceId : pending[d] # NoPending => pending[d].info.dev = d

Holders == {d \in DeviceId : HasInfo(registry, d) /\ registry[d].slot > 0}

(* used_slots, which allocate_slot consults, and the slots in the records, *)
(* which are what gets released and announced, agree: nothing leaks and no *)
(* two devices hold one slot.  Kept by every interleaving of registration, *)
(* approval, update and drop, as long as nobody writes a slot or a record  *)
(* behind the table's back (DisciplinedNext).                              *)
SlotsExact ==
  /\ used_slots = {registry[d].slot : d \in Holders}
  /\ \A d, e \in Holders : registry[d].slot = registry[e].slot => d = e

(* Slots stay as low as the number of devices, so the search of            *)
(* allocate_slot ends early and never wraps to a slot <= 0, which the rest *)
(* of the code reads as no slot.                                           *)
SlotsDense == used_slots \subseteq 1 .. Cardinality(DeviceId)

(* Whoever is told onHostConnected (the game itself learns its slot this   *)
(* way) is told a real slot, the one the registry then holds for the game. *)
(* The message is built before upsert_registry_info merges.                *)
AnnouncedSlotsHeld ==
  [][\A d \in DeviceId : \A n \in 1 .. Len(sent'[d]) :
       sent'[d][n].method = "onHostConnected" =>
         LET told == sent'[d][n].info
         IN  /\ told.slot > 0
             /\ HasInfo(registry', told.dev)
             /\ registry'[told.dev].slot = told.slot]_vars

(* What a host list kept from the messages says of game g: its slot.       *)
SlotShown(reg, g) == IF KindIs(reg, g, "game") THEN {reg[g].slot} ELSE {}

ShownAfter(old, msgs, g) ==
  LET about == {n \in 1 .. Len(msgs) : msgs[n].method \in HostMethod
                                         /\ msgs[n].info.dev = g}
      last  == msgs[CHOOSE n \in about : \A m \in about : m <= n]
  IN  IF about = {} THEN old
      ELSE IF last.method = "onHostDisconnected" THEN {} ELSE {last.info.slot}

(* A registered viewer that keeps a host list from the messages it is sent *)
(* has the games and slots of the registry after every call: what changes  *)
(* is announced, to all, and as stored.  (Left out: a game that becomes    *)
(* another kind of device.)                                                *)
ViewersTrackHosts ==
  [][\A v, g \in DeviceId :
       /\ IsServer /\ v # EmptyId
       /\ KindIs(registry, v, "viewer") /\ KindIs(registry', v, "viewer")
       /\ registry'[g] = Absent \/ KindIs(registry', g, "game")
       => ShownAfter(SlotShown(registry, g), sent'[v], g) = SlotShown(registry', g)]_vars
=============================================================================
