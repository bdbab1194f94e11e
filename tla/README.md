# Bronze Monkey in TLA+

Bronze Monkey is a library that speaks the Brass Monkey protocol: phones act as
game controllers, games are the hosts they connect to, and a registry server
introduces one to the other. The library does no I/O. A host application feeds
it bytes and calls it, and each call gives back a list of `Action` values that
the application carries out. All the state is in one `Engine` value
(`src/src/engine/processing.rs`).

This directory holds the specifications of that engine, the TLC configurations
that check them and the proofs that TLAPS checks. `PROJECT.json` maps each
definition to the lines it models.

## 1. Inventory

| component | state it keeps | operations | status |
|---|---|---|---|
| Registry engine (`processing.rs`, `registry.rs`) | `registry` (device core and, once registered, its info), `used_slots`, `pending_registrations`, `auto_approve_registration`, `local_device` | `registry.register`, `.list`, `.update`, `.relay`; `approve_registration`, `deny_registration`, `drop_device`, `init_local_device`, `register_device` | `RegistryEngine` |
| Host application, connections, clients (not in the repository) | open connections, queues, what a client was told | connect, disconnect, read, send, decide | `RegistrySession`, `RegistryFederation` (external) |
| Chunk reassembly (`handle_chunk`) | `chunk_buffers`, one buffer per set id | a chunk arrives | `ChunkAssembly`, `ChunkTransfer` |
| Outbound packets | `seq_by_channel`, one counter per channel; `invoke_counter` | `make_packet`, `next_sequence`, `next_invoke_id`, all `make_*`; the answer to a ping | `PacketExchange` |
| Control configuration | none; `parse_control_rpc` turns an invoke into actions | `make_enable_*`, `make_set_*`, `parse_control_rpc`, the sentinels of `ActionC` | `ControlConfig` over `SettingsRelay` |
| Dispatch of incoming data | none | `process_incoming`, `process_incoming_udp`, `handle_packet` | `WireCodec` (what an input is), `RegistryEngine`, `PacketExchange`, `ControlConfig` (what it does) |
| Wire codec, payloads, type tables (`io/`, `messages/`, `externals/`, `types/`) | none | read and write of nested, length-prefixed objects; handshake; codes | `WireCodec` |
| C binding (`ffi.rs`, `ffi_macros.rs`, `actions.rs`) | the engine behind a pointer; memory handed to the caller | one function per engine call, conversion of actions, `new`/`set`/`free`/`destroy` | `FfiBoundary` |
| Python and wasm bindings | the engine behind an `RwLock` or a `JsValue` | one function per engine call, conversion of values | partly: `register_device` and setters in `RegistryEngine`, control calls in `ControlConfig` |
| Library log (`lib.rs`, `python.rs`) | `LIB_LOGGED`, `PENDING_LOG`, `PY_LOG_CALLBACK` | `log_library_loaded`, `flush_pending_log`, `set_log_callback` | `LibraryLog` |
| Control scheme parser (`controls/parser.rs`) | the elements being read | XML events | `SchemeParser` |
| Build and packaging | none | none at run time | not modelled |

How they interact. Bytes reach `process_incoming`, which decodes a packet,
refreshes the sender's record (`push_registry_update`) and dispatches by packet
type. An invoke of `registry.*` on an engine that acts as a server changes the
registry and answers through `make_packet`, which looks its target up in the
registry: a device the registry does not know cannot be sent to. The bindings
call the engine and convert what it returns. Nothing in the engine calls back.

What is hard here:

- **Interleaving of calls.** An engine call is atomic (`&mut self`), but the
  *order* of packets of several devices, approvals, drops and mode switches is
  the environment's. A slot lives in `used_slots`, in a registry record, in
  messages under way and in a client's memory, and each changes at another time.
- **Lost connections.** The engine knows devices, not connections. The end of a
  connection reaches it as `drop_device`, later than the loss, perhaps with
  registrations still pending and packets still unread.
- **Retries.** A blob that is cut off leaves its buffer; the retry writes into it.
- **Numbers at an edge.** 16-bit slots that wrap, 32-bit counters that wrap,
  slice arithmetic on the sizes that a chunk announces.
- **Devices that are back before they are gone.** A device may register on a new
  connection while the application still reads the old one, whose end then comes late.
- **Servers that know each other.** A server sends updates on to other servers, and
  handles what it gets from them as if a game had sent it.
- **Formats without a marker.** Objects carry no length of their own, frames and
  handshakes are told apart by length, settings that are absent by a value.
- **Late effects.** In the bindings the engine has changed before the conversion
  of its actions can fail.

What makes each component correct:

- Registry: the slot table and the records agree; no two devices hold one slot;
  slots stay small; viewers are told every change, as stored.
- Session: a host list read from messages agrees with the server's registry; a
  registration is answered; a host that is gone leaves the lists.
- Chunks: bytes land in place; a blob is handed over whole, once, in the name of
  its sender; buffers do not stay behind without a reason.
- Packets: numbers order the packets of a channel and invoke ids tell invokes apart,
  across the wrap of both counters; what a packet names as its sender leads back
  to the engine that sent it; pings are answered.
- Federation: an update reaches the viewers of both servers; it comes to rest, unless
  the servers registered with each other.
- Control: a controller's settings follow the host's, one call at a time.
- Wire: what is written is read as it was meant; what is cut off or joined is refused.
- C binding: every pointer handed out can be freed once; nothing else leaks than what a
  failed conversion leaves; messages are lost for known reasons only.
- Scheme parser: the scheme has the nesting of the document.
- Log: the load message is logged once; a thread waits for ever only because of what Python
  does that runs with the callback locked.

`PROJECT.json` lists under `hazards` each of these at its line, with the
properties that cover it, or the reason why none does: a few hazards are assumed away
(a `register_device` of a device that has registered, set ids shared by devices, -1 sent to a controller in C,
updates under way between servers that registered with each other when a game is dropped).

## 2. Modules

```
 RegistryEngine ──┬── RegistrySession ── MCRegistrySession
      │           ├── RegistryFederation (two instances) ── MCRegistryFederation
      │           └── MCRegistryEngine
 RegistryEngineProofs ── RegistrySessionProofs (extends RegistrySession, too)
 RegistryFederation ── RegistryFederationProofs

                      BlobTransfer (abstract)          SettingsRelay (abstract)
                           ▲ implemented by                 ▲ implemented by
 ChunkAssembly ── ChunkTransfer ── MCChunkTransfer     ControlConfig ── MCControlConfig
                       │                                    │
               ChunkTransferProofs                     ControlConfigProofs

 PacketExchange ─┬─ PacketExchangeProofs     SchemeParser ─┬─ SchemeParserProofs
                 └─ MCPacketExchange                       └─ MCSchemeParser
 FfiBoundary ─┬─ MCFfiBoundary
              ├─ BindingProofs (of both)                  WireCodec ── MCWireCodec
 LibraryLog ──┴─ MCLibraryLog
```

### RegistryEngine

One engine call is one action, since every entry point takes `&mut self`.

| TLA+ | code |
|---|---|
| `registry[d]`: `Absent`, `NoInfo`, an info | `DeviceRegistry::devices`: no entry, `registry_info: None`, `Some` |
| `sent[d]` | the `Action::Send` values the call returned for `d`, in order |
| `Touch` | `push_registry_update`, which every packet starts with |
| `Upsert`, `Merge` | `upsert_registry_info`: what the new info leaves out is kept |
| `Released`, `AllocateSlot`, `Admit` | `release_slot`, `allocate_slot`, and the part shared by `approve_registration` and an automatic approval |
| `RegistryRegister`, `RegistryList`, `RegistryUpdate`, `RegistryRelay`, `ProcessPing`, `ProcessOther` | the packet handlers |
| `ApproveRegistration`, `DenyRegistration`, `DropDevice`, `InitLocalDevice`, `SetAutoApprove`, `RegisterDevice`, `RegisterDeviceWasm` | the application's calls, the last two being the bindings' two versions of `register_device` |

Data is reduced to what the code tells apart: three classes of device types; one
player count in place of the two that are read and written together; no names,
addresses or app ids. `OnWire` is what encoding does to an info: player counts
travel only with a positive slot, and an absent count arrives as 0. A slot is an
`i16`; `MaxSlot` stands for 32767 and `Probe` orders the values the way
`wrapping_add` visits them from 1. When every value is in use `allocate_slot` loops
for ever: `Admit` has no step then.

There are two next-state relations. `Next` has everything that devices and
applications can do. `DisciplinedNext` leaves two things out: a `registry.update`
with a slot that is not the one the registry gave, and a `register_device` of the
C or Python binding for a device that has registered. Both write behind the back
of `used_slots`, so `SlotsExact` is a property of the disciplined system only. That
real clients are disciplined is not taken for granted: `SessionIsDisciplined`
checks that clients which echo their slot produce only disciplined steps, however
connections break.

### RegistrySession

The engine as a server, with games and controllers on FIFO connections. The
application reads a call, runs the engine and sends what it returns (one step: an
application that calls and sends from one thread); on the end of a connection it
calls `drop_device`, after `deny_registration` if `DenyOnDisconnect`. Clients
register when they connect, ask for the list, and report a player count with the
slot they were told. A broken connection loses a suffix of what the server has
not read, and all that is on its way to the client. The application may switch between
automatic and manual approval (`Modes`).

The engine is keyed by device id, not by connection. With `TakeOvers` a device may be back
before the server has seen its old connection end: `old` holds what is still to be read of
that one. The application knows a connection by the device whose packet it last read on it;
a registration read on another one takes the device over (`TakeOver`), and the end of a
connection that was replaced drops nothing (`LateEnd`). That is the rule an application
needs, since `drop_device` would drop the new registration: the mutant `LateEndDrops` of
`MembersRegistered` is the application without it. `renewed` are the games that
registered over a record of theirs; of those only the slot agrees with the lists, as the
record keeps the old player count and the announcement carries none.

### RegistryFederation

Two instances of `RegistryEngine` with a FIFO wire between them. Server B registers with A,
and perhaps A with B (`Mutual`). A game of A reports each count once, after everyone has
joined, and leaves. `rpc_registry_update` handles `registry.update` and `onHostUpdate` alike,
so that what one server announces the other stores and announces again.

### ChunkAssembly, ChunkTransfer, BlobTransfer

`ChunkAssembly` is `handle_chunk` alone: `HandleChunk` has its three outcomes (past
the end of the buffer; stored; stored and complete). A byte is a record of the set
and position its sender gave it and of the transmission it belongs to, so that a
misplaced or mixed-up byte is visible. Any chunk may arrive in any order.
`ChunkTransfer` adds senders that cut blobs into consecutive chunks, over
connections that break, and a stranger that sends chunks of any size, place and total,
but of other sets (buffers are keyed by set id alone). `BlobTransfer` is the promise without chunks: offered,
handed over once as sent, or lost. The refinement mapping calls a transfer open
while its last chunk can still arrive, and *recognises* the reported blob by
comparing it with what was sent; anything else is `Garbled`, which `BlobTransfer`
never reports.

### PacketExchange

Several engines, each with its application, over pairwise connections.

| TLA+ | code |
|---|---|
| `known[n]` | the ids in `Engine::registry` |
| `local[n]` | `Engine::local_device`: none, set, or set with an id or name that `write_utf` refuses |
| `sequence[n]`, `invoke[n]` | `seq_by_channel`, `invoke_counter` |
| `outbox[n]` | the `Action::Send` values of the last call, which the application has yet to carry out |
| `route[n][d]` | the connection the application has for an id: the one that the packets naming it arrive on (`Action::UpdateRegistry`) |
| `MadePacket`, `Wrap`, `NextInvoke`, `Sender` | `make_packet`, `next_sequence`, `next_invoke_id`, and the core that `make_packet` signs with |
| `MadeInvokes`, `RefusedInvoke` | one or several `make_message_invoke` of a call, and one that uses up an id only |
| `Receive`, `Handle` | `handle_deserialized_packet` and the handlers it calls |
| `MakePacket`, `MakeInvoke`, `Drop`, `InitLocal` | the `make_*` builders, `drop_device`, `init_local_device` |
| `CarryOut`, `Lose`, `Break`, `Register`, `route`, `link` | the application and the network: external |

An engine without a local device signs a packet with the core of the packet's
*target*. The receiver then files the sender under its own id, and answers itself.
`Nameless` nodes never call `init_local_device`, which the engine allows (`is_server`
takes it for a server); the others name their device before they open or accept a
connection. An application learns whom a connection leads to from the packets that
arrive on it, so such a packet teaches it a route to its own id. What `RoutesTrue`
and `PingAnswered` say is that this is the only oddity, and that the answer to a ping gets
back through it. What an invoke makes the engine send is left to `RegistryEngine`: here it is any
sequence of invokes to registered ids.

### ControlConfig over SettingsRelay

A host makes control calls; each becomes an invoke with one or more parameters
(`SetControlMode`, `Enable*`, `Set*`), which `ParseControlRpc` reads with the conversions of
`param_bool`, `param_i32`, `param_f64` and `param_string`, for peers of another library as well
(an integer for a flag, whole seconds, another width). `ToC` is `action_to_c`: absent becomes
-1 or null; `FromC` is what an application in C makes of it. An interval is modelled by its
tenths of a millisecond and by whether the product with 1000.0 falls short: 1.001 s arrives as
1000 ms. `SettingsRelay` is the promise without calls: the controller goes through the settings
the host asked for, in order, an interval one millisecond short at most.

### WireCodec

A buffer is a sequence of cells, one for each `write_X` of the code, with their widths; a
`read_X` takes one cell, and reading another kind than was written gives garbage or fails
(only zero bytes are followed through, as a `Shake` leaves four behind). Each class has its pair
of operators (`WriteTouch`, `ReadTouch`, ...), which nest in `WriteValue`, `WriteArray`,
`WriteObject`. `Process` and `ProcessUdp` are `process_incoming` and `process_incoming_udp`, up to
the dispatch. The connection cuts a transfer at any byte or joins the next frame to it.
The recursion is bounded by the nesting of the objects sent.

### FfiBoundary

A call of the C binding is one action: argument checks, the engine, the conversion of its
actions field by field. A block of the heap is named by the call and the place it was allocated
for; `held` is what the caller's lists, snapshot, structures and scheme bytes point to, `lost` what a
conversion that panicked (`CString::new` of a text with a NUL byte, caught by `catch_bool`)
left without an owner. The engine is reduced to who has a record, is registered, pending, and told so:
a packet can be made for any device with a record, with or without an info.
Texts that come over the wire may hold a NUL byte (`NulText`: which device sends one in which field), texts
that a C caller passes cannot. A device's texts are the same in all its packets.

### SchemeParser

One action per XML event; the operator of an element is what the parser does at its start tag.
The parser has no stack: one `current_resource`, one `current_display_object`, one
`data_buffer`. Documents conform to the nesting games use (`Children`), without white space and
without the attributes that are only copied; the property says of each element of the document
which ones are in it (deeper ones, until one of its own level starts), and from that what the scheme must be.

### LibraryLog

Threads of a C program and of the Python interpreter in one process: `LibraryInit`, `Import`
and `SetCallback` are calls, each cut into the steps between which another thread may run
(`Test`, `Attach`, `Lock`, `Store`, `Slot`, `Dropped`, `Flush`). The interpreter lock `gil` is external, and so is the
Python that the library runs with `PY_LOG_CALLBACK` locked: the callback (`"call"`), and the destructor of a
callback that is replaced (`"drop"`). It may let another thread run (`PythonYields`, `PythonResumes`), and
it may call the library again (`PythonReenters`): `set_log_callback`, which then waits for the lock of its own
thread, or `bm_library_init`, which returns as it finds the flag set. A mutex locked twice by one thread is
taken to block it, as it does on most systems; where the standard library panics instead, the inner call fails
and changes nothing.
`within` is a history variable, for the property only: the threads that called in again.

## 3. Runs

| run | instance | checks | shows |
|---|---|---|---|
| `registry_slots` | 3 devices (game, viewer, one that changes and registers in another's name), `DisciplinedSpec` | `TypeOK`, `RecordsKeyed`, `SlotsExact`, `SlotsDense`, `AnnouncedSlotsHeld`, `ViewersTrackHosts` | what is encoded can be decoded, slot table and records agree, what is announced is what is stored |
| `session_queues` | 2 games (one reconnects), 1 controller, take-overs, automatic approval | `HostListsAgree`, `SlotsToldApart`, `MembersRegistered`, `SessionIsDisciplined` | lists and registry agree up to messages under way; the session refines the disciplined engine; nobody is dropped for an old connection |
| `session_live` | 1 game (2 connections), 1 controller, take-overs, both modes of approval, pending registrations denied at the end of a connection | `HostListsAgree`, `GoneHostsForgotten`, `RegistrationAnswered` | with fairness: answers come, gone hosts leave |
| `session_zombie` | 1 game, 1 controller, 2 connections each, manual approval, without that denial | `GoneHostsForgotten` *violated* | finding below |
| `federation` | 2 servers, 2 viewers, 1 game with 3 reports | `UpdatesSettle`, `UpdatesCirculate`, `RemoteViewerLearns`, `GoneGameForgotten` | updates reach both viewers; they come to rest unless both servers registered, and then never do |
| `chunks` | 2 devices with 2 + 1 transfers of 1 set, a stranger with another; totals to 3 | `ChunkTypeOK`, `BytesInPlace`, `ReceivedBytesStay`, `BuffersAccounted`, `BlobsHandedOver`, `TransfersConclude` | slice arithmetic is right; the engine implements `BlobTransfer`; with fairness unbroken transfers are handed over |
| `packets` | 3 nodes, the middle one nameless, 2 channels (one unreliable), 2 packets, names that can and cannot be written | `ExchangeTypeOK`, `RoutesTrue`, `NumbersAscend`, `InvokesApart`, `PingAnswered` | counters stay in range over the wrap, numbers and ids tell packets apart although receivers share the counters, learned connections are true; with fairness reliable pings are answered |
| `control_c` | 2 calls with 3 intervals, a controller in C | `SettingsFollow`, `SettingsArrive` | settings follow the calls, in order, and get there |
| `wire_faults` | one transfer: objects of every class, nested and at the limits, 4 headers, handshakes; whole, cut at every byte, joined; TCP or UDP | `DecodedAsSent`, `CutIsNotTaken`, `HandshakeApart` | read as meant, or refused |
| `ffi_nul_id` | a game, a viewer with a NUL byte in the return method of its invokes, a viewer with one in its id; one list, one snapshot, two structures, scheme bytes; 3 calls | `PointersLive`, `NothingLeaks`, `LossHasCause`, `MakersFailClean` | what is handed out is freed once; what leaks and what is lost, and why |
| `scheme_nested` | documents of up to 8 events | `SchemeFollowsNesting` | the scheme holds the whole elements, as they are nested |
| `library_threads` | 2 threads in C, 2 of the interpreter, 8 calls | `WaitsOnlyForPython`, `LoggedOnce` | how often the message is logged; only Python that yields or calls in again makes anyone wait for ever |

The type invariants checked are those of the engine, the chunks and the packets, where a value out of
range would be an error of the code (a slot, a slice, a counter); the properties of the other modules
compare whole values, which leaves a type invariant little to find.

**Bounds.** Three devices are the fewest for a game, a viewer and a device whose
registration comes between theirs. With `MaxSlot = 3` and three devices the range is as
large as the theorems need (`Cardinality(DeviceId) <= MaxSlot`); what happens when the search wraps
(`Probe` past `MaxSlot`) is covered by `TypeCorrect`, which is proved for any range. Updates carry at
most two infos: the second sees what the first changed, a third would see no more.
Two connections of a game reach every state that a former connection can leave
behind; player counts `{0, 1}` or `{0, 2}` separate "none, encoded as 0" from a real
count. A session asks for the list and reports a count once per connection. Three reports
let an older one be under way while a newer one is announced, and a third follow both.
Chunk totals of 3 allow a first, a middle and a last byte, a total that
shrinks or grows, and a chunk with a byte too many; the stranger's chunks end at 2
(`MaxStray`), which is enough for each of these but a middle byte, and its empty chunks are left
out of the run (the theorems have them).
The counters of `PacketExchange` begin at their limit, where an engine
that has been running gets to, so that the first packet crosses it. `MaxMade` counts the packets and invokes that
applications and handlers make, not echoes. It is smaller than `SequenceLimit`, half the number of sequence
numbers: that is what serial number order needs, and what packets that are under way
together keep to when there are 2^32. `MaxInvokeId` is larger than `MaxMade` for the same reason.
`Opens` says who opens connections; answers make the others known. Two packets suffice with three
nodes, where the question is who shares a counter with whom.
Two control calls are the fewest for one that could reset what the other set; `SettingsRelayed` is
for any number. In `WireCodec` the limits are small (`Base` 4 for 256, `MaxUtf` 8 and `MaxItems` 2 for
32767, `MaxFrame` 128 for 100 MB) so that a string, an array and a frame too large are among the
objects. Eight events hold two resources with data, or a display object with two assets and a
resource. Three C calls are one that fills, one that changes and one that frees.

**Deadlock** is checked in the runs of the engine, the codec, the parser, `control_c` and
`packets`, which always can take another packet or call. Sessions, transfers, the federation, the C
caller and the threads are bounded and may end, so their configurations turn the check off (in
`library_threads` it is the property that says who may wait for ever).

**Fairness.** `FairSession` assumes weak fairness of the application's reading loop
and of each client's; `FederationSpec` of each server's reading; `FairTransfer` of each sender that has
begun a transfer, and of the application's reading; `FairExchange` of each application carrying out its
`Action::Send` values and reading the first reliable packet of each connection; `FairSpec` of
`ControlConfig` of the controller's reading. These are the loops an application of a library without I/O
must run for anything to happen. Nobody has to connect, ask for a list, report a
count, or decide a pending registration, and a connection never has to break or hold.

## 4. Proofs

`RegistryEngineProofs` (every value of the constants that satisfies
`ConstantsAssumption`):

- `TypeCorrect`: `Spec => []TypeInv`, and `TypeInv` contains `TypeOK` and `RecordsKeyed`.
  The two are inductive only together: `Upsert` files a record under
  the id of its info, and `Touch`, `Admit` and the message operators are typed by
  lemmas of their own.
- `SlotsCorrect`: `DisciplinedSpec => [](SlotsExact /\ SlotsDense)` if
  `Cardinality(DeviceId) <= MaxSlot`. The invariant is `SlotsInv`: the types, and that
  `used_slots` holds exactly the positive slots of the records, no slot twice, and none above
  the number of devices. The crux is the allocation: while a device registers
  its own slot has been released, so the holders are fewer than the devices; by
  the pigeonhole principle one of `1 .. Cardinality(DeviceId)` is free, and the
  search meets it before it leaves that range. The next step needs exactness again:
  a released slot had one holder. The assumption is what the code needs: with
  more than 32767 devices the search reaches negative numbers, which the rest of
  the code reads as no slot.
- `AnnouncedCorrect`: under the same assumption each `onHostConnected` carries the slot
  the registry then holds, although the message is built before the record is
  merged: the slot is positive (by `SlotsInv`), so `Merge` takes it.
- `ViewersInformed`: `DisciplinedSpec => ViewersTrackHosts` under the same assumption. One lemma per handler
  says what a list kept from its messages shows afterwards (`Tracked`): the last message about a game counts, an update
  of two infos about one game is announced twice, and a viewer in the registry is always among the receivers
  because records are filed under their own ids (`ViewerNamed`).

`RegistrySessionProofs` (any devices, connections, counts and order of breaks; `Careful` and
`Cardinality(DeviceId) <= MaxSlot`, see below):

- `SessionDisciplined`: `SessionSpec => SessionIsDisciplined`, the refinement of the disciplined engine.
  What has to be shown is that a report on its way to the server still carries the slot the registry
  holds, and that an announcement to a game does.
- `MembersStayRegistered`, `ToldSlotsApart`, `ListsAgree`: `MembersRegistered`, `SlotsToldApart`, `HostListsAgree`.

  All four come from one invariant, `SessionInv`: `SlotsInv` of the engine, the types, `DeviceInv` of each
  device and `Listed` of each controller. None of the properties is inductive: whether a list will be right
  depends on what is under way, whether an update is disciplined on when it was sent. `DeviceInv` ties the
  pieces together: the calls of a connection start with the registration and end with the end of it
  (`Queues`); who has heard anything on its connection is registered, and one whose registration the server has not
  read has heard nothing (`Hearing`); reports under way carry the registry's slot (`Calling`); a connection
  not yet served finds no record and nothing pending (`Recorded`). `Listed` is about the list a controller
  *will* have: `SoonOf` is computed from the last message under way that mentions the game, and each handler is
  shown to append a message about each game whose record it changes. The old connections of
  `TakeOvers` are where the invariant was hardest to find: what the server still reads of one is served under
  the same id, so `Known` says which queue the server takes for the device.

`ChunkTransferProofs` (any sets, senders, totals, devices, chunk sizes, transfers and breaks):

- `ChunksInPlace`: `ChunkSpec => [](ChunkTypeOK /\ BytesInPlace)`, for any chunks in any order.
- `ChunksStay`: `ChunkSpec => ReceivedBytesStay`, from the same invariant: growing
  keeps a prefix and `Written` replaces only what the chunk covers.
- `TransfersInPlace`: the two theorems above for the chunks that senders on connections send.
- `BuffersHaveOwners`: `TransferSpec => []BuffersAccounted`.
- `BlobsAreHandedOver`: `TransferSpec => BlobsHandedOver`, the refinement of `BlobTransfer`. A chunk that
  completes its buffer must be the last of a transfer and all the other bytes must be of that transfer,
  including when the buffer was left behind by a broken one. `TransferInv` therefore says that chunks of a
  device are under way in the order of their bytes and without gaps (`Ordered`, `Gapless`), that
  a set belongs to one device at a time (`Exclusive`), and how far the buffer of the set has been filled by the
  transfer the next chunk belongs to.

`PacketExchangeProofs` (any nodes, channels and counter widths):

- `RoutesCorrect`: `ExchangeSpec => [](ExchangeTypeOK /\ RoutesTrue)`. `RoutesTrue` alone is not
  inductive: routes are learned from packets, so the invariant `RouteInv` also says
  that every packet on a link or in an outbox is signed by its sender, or by its receiver if the
  sender is nameless. Sending keeps this because the outbox is routed by `route`, which
  the same invariant says is true: an id leads elsewhere only if it is the application's own, and then to
  a nameless engine. The type part shows that `wrapping_add` and the return to 1 stay within their ranges.
- `NumbersInOrder`, `InvokesDiffer`: `NumbersAscend` and `InvokesApart`, from `OrderInv`. Counters wrap, so numbers are
  compared by their age: how many were given out since, modulo the range. A call makes what is under way
  older by what it gives out, and what it makes follows in the order of its making; losses, reading and breaks
  leave some of a sequence in its order (`Thinned`). The ages stay below half the range
  because they are bounded by `made`. Echoes are not counted there, but each one uses up a number of the
  engine that answers; therefore the bound leaves room for the pings it has yet to answer
  (`Pings(n)`: distinct tokens of peer, channel and number, each of which the echo takes away), and the
  packets of a peer must differ in their numbers for a ping to be answered once.

`ControlConfigProofs` (any intervals, numbers, texts and number of calls; in C no value that
becomes -1, which `ConfigAssumption` states):

- `SettingsRelayed`: `Spec => SettingsFollow`, the refinement of `SettingsRelay`. Its invariant says that
  the invokes under way and the settings the controller has yet to go through go in step, each invoke
  parsed giving what the call asked for (`Understood`). One lemma per kind of parameter shows that
  what the builder writes `parse_control_rpc` reads back, whatever type a peer chose, and one that the
  sentinels of `ActionC` are never met.

`BindingProofs`, about `FfiBoundary` (any devices, texts, variables of the caller and number of calls):

- `PointersStayLive`, `OnlyPanicsLeak`: `PointersLive` and `NothingLeaks`, from `MemoryInv`: the blocks allocated
  are exactly those that what the caller holds owns, or that a panic left; each is owned once, and was allocated
  by a call already made, so that what the next call allocates is new.
- `LossExplained`: `LossHasCause`. The fields a call converts are those of its actions and infos, flattened
  (`FlattenType`, by induction over the natural numbers, which `SetInduction` gets from `WFMin`).
- `RefusedLeavesNoTrace`: the action property `MakersFailClean`.

`RegistryFederationProofs` (any slots, counts and length of the behaviour; the devices' ids are told apart
and not empty, `FederationAssumption`):

- `UpdatesGoRound`: `FederationSpec => UpdatesCirculate`. `FederationInv` says that every record, and every
  update on a wire, names its own device and kind: so what a server reads as an update is announced again
  (`UpdateAnnounced`), it changes the record of the game and no other (`UpsertRecords`), and the server it
  came from, being in the registry, is among the receivers (`Updated`). The rest counts: one update read,
  one sent back (`MailShrinks`, `OneMoreUpdate`).

`SchemeParserProofs` (any texts, attributes and length of the document):

- `SchemeCorrect`: `ParserSpec => []SchemeFollowsNesting`. The parser keeps one element of each kind and no
  stack, so the invariant `SchemeInv` has to find the nesting again in the document read so far: where each
  open element started (`Opened`: nothing behind that place has risen to its level), and that what the
  parser has at hand is the content so far of the innermost of them (`Current`); an element's kind
  tells its level. When a `Resource` ends nothing in it is still open (`NoOpenInside`), and the element
  that ends is the last of its level (`OpenIsLast`), so appending it keeps the order of the document.
  `Listed` says that the two lists of the scheme are those of the whole elements.

`BindingProofs`, about `LibraryLog` (any threads and number of calls):

- `LogWaits`, `LogOnce`: `WaitsOnlyForPython` and `LoggedOnce`, from `LogInv`: the callback is locked exactly
  by the thread that runs Python under it, called in again from there, or flushes (`Holding`); there is a callback
  only after the import, when the flag is set (`Progressed`), so that a `bm_library_init` from within never
  comes to logging; until two calls overlap there is one thread at most
  between the test of `LIB_LOGGED` and its store (`Single`).

**Assumptions.** Each module's assumption is evaluated by TLC for every run. `TransferAssumption` says which values
are told apart (`Idle`, `NotOffered`, `Garbled`), and that a stranger has no transfers; `SessionAssumption` that
what clients send is among the engine's inputs. Three hypotheses are of the theorems alone.
`Cardinality(DeviceId) <= MaxSlot` is what `allocate_slot` needs. `RangesSuffice` (`MaxMade <= SequenceLimit`,
`MaxMade <= MaxInvokeId`) says that no more than 2^31 packets and 2^31 - 1 invokes are made in the behaviour looked at,
which starts with counters anywhere: a packet overtaken by half the numbers could not be placed. `Careful` says that registrations are approved at
once, or that the application denies what a lost device had pending and does not take a device over on a new
connection before the end of the old one. `session_queues` is careful; `session_live` combines manual approval
with take-overs, and for it `HostListsAgree` is only model-checked: an approval may then come for a
registration whose connection is over, and assigns the slot of a game anew while it still believes the first,
and what such a game reports is not disciplined.

**Only model-checked**: all liveness (`GoneHostsForgotten`, `RegistrationAnswered`, `TransfersConclude`, `PingAnswered`,
`SettingsArrive`, `RemoteViewerLearns`, ...), which the prover does not do;
and `WireCodec`, whose reader and writer are recursive over nested objects.

## 5. Finding

`drop_device` (`processing.rs:1475`) removes the record of a device and leaves its
entry in `pending_registrations`. An approval after the drop registers the lost device,
gives it a slot, and announces it with `onHostConnected`; no connection of
it ends any more, so no `onHostDisconnected` follows. The comment at
`processing.rs:1483` promises that controllers can remove a game that
disconnected. Run `session_zombie` finds a controller whose list keeps it for ever;
`session_live` shows that denying the entry before the drop avoids it.

Seen, and not counted because no document, comment or test claims otherwise:

- Two servers that registered with each other circulate every update for ever
  (`UpdatesCirculate`), and an update that comes back after `drop_device` brings the game back, with
  a slot that is free in `used_slots`. Updates from another server also store slots
  that `used_slots` does not know. `drop_device` tells no device of the class Server, although
  `registry.update` does: a viewer of another server is never told that the game is gone.
- A game that registers over its own record is announced without a player count while the record
  keeps the old one (the message is built before the merge).
- After a switch to automatic approval an entry that is still pending can be approved
  again and gives the game another slot.
- A shorter retry of a cut-off set is handed over with the old tail, as the buffer never shrinks;
  devices that share a set id share a buffer.
- Only the first frame of an input is read; a handshake with a frame behind it is refused; the first
  8 bytes of a datagram are taken for a handshake if no more come. `Shake` writes four bytes it never reads.
- A text with a NUL byte makes the conversion to C fail after the engine has changed; a viewer with one in
  its id takes every later broadcast with it and cannot be named in order to drop it.
  `bm_parse_control_scheme_proto` forgets a vector whose capacity may exceed its length, while the
  free functions free by length. `BMInvokeC` has no destroy function.
- -0.001 s, a reliability or a mode of -1 are read as absent in C; only `enable_accelerometer` of the C binding refuses
  negative intervals. `set_capabilities` keeps the lower 32 bits.
- An empty `Resource` element never reaches the scheme; a truncated document is a scheme of
  its whole elements.
- `try_log` always succeeds, so `PENDING_LOG` is never filled, and `LAST_ERROR` is never set. A Python
  callback is called with `PY_LOG_CALLBACK` locked: if it lets another thread call
  `set_log_callback`, both wait for ever, and if it calls `set_log_callback` itself, its thread waits for
  itself. The callback is called only by a `bm_library_init` that overlaps the import. But `set_log_callback`
  also drops the callback it replaces under the lock, and a destructor that does either has the same effect
  in a program with one thread.

## 6. Left out, and why

- Chunks with negative sizes or totals, and sizes that differ from the data (the
  decoder refuses the latter). Well-behaved senders share no set id at a time and do not
  retry with a shorter blob: the engine has no defence against either, and the
  repository has no sender to model.
- In `RegistryEngine`, the failure of `make_packet` other than an unknown target: encoding
  errors need strings longer than the format's length fields.
- `RegistryEvent`, `Invoke` and `Log` actions, which report and change nothing.
- Addresses: a record's core is replaced by each packet of its device; nothing
  modelled reads it.
- Unreliable channels in the sessions and transfers: registry calls and chunks use the
  reliable ones. `PacketExchange` has both kinds.
- In `PacketExchange`: a registered core too long to be written (an engine without a local
  device would fail to sign with it), packets of applications that make echoes themselves,
  and an application that calls the engine before it has carried out its last call.
- In `FfiBoundary`: callers that use freed pointers, pass lists that own something, or null arguments
  beyond the refusals. The getters and the plain structures change nothing.
- In `WireCodec`: characters, floats and bytes as such; `BMInvoke`, `AckPacket` and `BMParameter` have second
  readers and writers (`to_bytes`, `from_value`) that nothing calls.
- In `SchemeParser`: documents outside the nesting, white space, the XML reader, base64 and protobuf.
- In `LibraryLog`: `LAST_ERROR`, and the poisoning of a mutex by a panic. A Python thread that calls
  `bm_library_init` through `ctypes` from outside a callback is one of `CThread`.
- In the Python and wasm bindings the conversion of values to and from `PyObject` and `JsValue`
  (`value_to_py`, `js_to_value`, ...): a table between two dynamic type systems that keeps no state and has no
  order of events. The `RwLock` around the engine in Python makes each call atomic, as in `RegistryEngine`;
  its poisoning after a panic is left out.
- Build and packaging: nothing at run time.

## 7. Plan

Done: the modules above, in the order of their importance, and the theorems of section 4.
The theorems state all safety properties of the runs but those of `WireCodec`
(see section 4). Next: that the theorems of `RegistryEngineProofs` carry over to both engines of
`RegistryFederation`; a proof that decoding undoes encoding for the classes that nest in nothing, once their
operators stand in a module without the recursive ones; and the conversions of the Python and wasm bindings.
