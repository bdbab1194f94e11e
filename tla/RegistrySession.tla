-------------------------- MODULE RegistrySession --------------------------
(***************************************************************************)
(* A host application around one server Engine, and the games and          *)
(* controllers that connect to it.  The engine is RegistryEngine; this     *)
(* module adds the parts the engine talks to:                              *)
(*                                                                         *)
(*  - the connections, one FIFO queue in each direction (the reliable      *)
(*    channel the registry calls use).  A broken connection loses what     *)
(*    the server had not read and everything on its way to the client.  A  *)
(*    device may be back before the server has seen its old connection     *)
(*    end: then the server reads two connections of one device id, in any  *)
(*    order (TakeOvers);                                                   *)
(*  - the application, which feeds what it reads to process_incoming,      *)
(*    sends the Action::Send values it gets back, calls drop_device when a *)
(*    connection ends, and decides pending registrations;                  *)
(*  - the clients: their engines are not servers, so the engine's handlers *)
(*    only report what arrives (RegistryEvent), and the client keeps its   *)
(*    slot or its host list from those reports.                            *)
(*                                                                         *)
(* The application and the clients are not in this repository: they are    *)
(* modelled from the calls the engine offers them.  A client registers     *)
(* once per connection, and reports the slot it was last told.             *)
(***************************************************************************)
EXTENDS RegistryEngine, FiniteSetsExt

CONSTANTS
  Game, Controller,   \* the devices of each class
  Modes,              \* the values of auto_approve_registration it may choose
  DenyOnDisconnect,   \* whether it denies what a lost device had pending
  TakeOvers,          \* whether a device may be back before its end is seen
  MaxConnects,        \* bound: connections of each device
  Counts              \* bound: the player counts games report

VARIABLES
  up,          \* devices whose connection is open at their end
  connects,    \* connections each device has made
  toServer,    \* calls on their way to the server, per device
  old,         \* what the server has yet to read of the connection before
  renewed,     \* devices that registered over a record of theirs
  toClient,    \* messages on their way to each device
  member,      \* devices that were told their registration succeeded
  slot,        \* the slot a game was told, 0 for none
  reported,    \* games that reported their player count
  listing,     \* controllers waiting for an onList
  listed,      \* controllers that got one
  hosts        \* a controller's host list: what it was told of each game

clientVars == <<up, connects, member, slot, reported, listing, listed, hosts>>
connVars == <<toServer, old, renewed>>
sessionVars == <<vars, clientVars, connVars, toClient>>

OwnInfo(d, s, p) ==
  [dev |-> d, kind |-> IF d \in Game THEN "game" ELSE "viewer",
   slot |-> s, players |-> p]

ASSUME SessionAssumption ==
  /\ DeviceId = Game \cup Controller /\ Game \cap Controller = {}
  /\ Modes \subseteq BOOLEAN /\ DenyOnDisconnect \in BOOLEAN /\ TakeOvers \in BOOLEAN
  /\ MaxConnects \in [DeviceId -> Nat] /\ Counts \subseteq Players
  /\ \A d \in DeviceId : <<d, OwnInfo(d, 0, NoPlayers)>> \in RegisterCall
  /\ \A g \in Game, s \in 1 .. MaxSlot, p \in Counts : OwnInfo(g, s, p) \in UpdateInfo

SessionInit ==
  /\ Init
  /\ up = {} /\ connects = [d \in DeviceId |-> 0]
  /\ toServer = [d \in DeviceId |-> <<>>]
  /\ old = [d \in DeviceId |-> <<>>] /\ renewed = {}
  /\ toClient = [d \in DeviceId |-> <<>>]
  /\ member = {}
  /\ slot = [g \in Game |-> 0]
  /\ reported = {} /\ listing = {} /\ listed = {}
  /\ hosts = [c \in Controller |-> [g \in Game |-> {}]]

Calls(d, name) == \E n \in 1 .. Len(toServer[d]) : toServer[d][n].call = name
Push(d, msg) == toServer' = [toServer EXCEPT ![d] = Append(@, msg)]

-----------------------------------------------------------------------------
(* The clients.                                                            *)

(* A device connects and registers.  Without TakeOvers its previous        *)
(* connection is over at both ends; with them the server may still have to *)
(* read its last calls and its end.  Bound: two connections at a time.     *)
Connect(d) ==
  /\ auto_approve \in Modes
  /\ d \notin up /\ old[d] = <<>>
  /\ TakeOvers \/ ~Calls(d, "eof")
  /\ connects[d] < MaxConnects[d]
  /\ up' = up \cup {d}
  /\ connects' = [connects EXCEPT ![d] = @ + 1]
  /\ old' = [old EXCEPT ![d] = toServer[d]]
  /\ toServer' = [toServer EXCEPT ![d] = <<[call |-> "register"]>>]
  /\ UNCHANGED <<vars, renewed, toClient, member, slot, reported, listing, listed, hosts>>

(* Mutation of SlotForgotten: the slot outlives the connection.            *)
SlotKept(d) == slot

SlotForgotten(d) == [g \in Game |-> IF g = d THEN 0 ELSE slot[g]]

(* The connection breaks.  The server may still read some of what was      *)
(* sent, and then the end of the stream; the client forgets its session.   *)
Disconnect(d) ==
  /\ d \in up
  /\ up' = up \ {d}
  /\ \E n \in 0 .. Len(toServer[d]) :
       toServer' = [toServer EXCEPT
                      ![d] = Append(SubSeq(@, 1, n), [call |-> "eof"])]
  /\ toClient' = [toClient EXCEPT ![d] = <<>>]
  /\ member' = member \ {d}
  /\ slot' = SlotForgotten(d)
  /\ reported' = reported \ {d}
  /\ listing' = listing \ {d} /\ listed' = listed \ {d}
  /\ hosts' = [c \in Controller |-> IF c = d THEN [g \in Game |-> {}] ELSE hosts[c]]
  /\ UNCHANGED <<vars, connects, old, renewed>>

(* A registered controller asks for the host list.  Bound: once per        *)
(* connection.                                                             *)
AskList(c) ==
  /\ c \in member \ (listing \cup listed)
  /\ listing' = listing \cup {c}
  /\ Push(c, [call |-> "list"])
  /\ UNCHANGED <<vars, old, renewed, up, connects, toClient, member, slot, reported, listed, hosts>>

(* A game that knows its slot reports its player count.  Bound: once per   *)
(* connection.                                                             *)
SendUpdate(g, p) ==
  /\ g \in up \ reported /\ slot[g] > 0
  /\ reported' = reported \cup {g}
  /\ Push(g, [call |-> "update", info |-> OwnInfo(g, slot[g], p)])
  /\ UNCHANGED <<vars, old, renewed, up, connects, toClient, member, slot, listing, listed, hosts>>

(* What a report changes at the client.                                    *)
HostsAfterMsg(list, msg) ==
  IF msg.method = "onList"
  THEN [g \in Game |-> {i \in msg.hosts : i.dev = g}]
  ELSE IF msg.method \in HostMethod
  THEN [list EXCEPT ![msg.info.dev] =
          IF msg.method = "onHostDisconnected" THEN {} ELSE {msg.info}]
  ELSE list

ClientReceive(d) ==
  /\ toClient[d] # <<>>
  /\ LET msg == Head(toClient[d])
     IN  /\ member' = IF msg.method = "onRegister" /\ msg.success
                      THEN member \cup {d} ELSE member
         /\ slot' = IF d \in Game /\ msg.method = "onHostConnected"
                    THEN [slot EXCEPT ![d] = msg.info.slot] ELSE slot
         /\ listing' = IF msg.method = "onList" THEN listing \ {d} ELSE listing
         /\ listed' = IF msg.method = "onList" THEN listed \cup {d} ELSE listed
         /\ hosts' = IF d \in Controller
                     THEN [hosts EXCEPT ![d] = HostsAfterMsg(@, msg)] ELSE hosts
  /\ toClient' = [toClient EXCEPT ![d] = Tail(@)]
  /\ UNCHANGED <<vars, up, connects, reported, connVars>>

-----------------------------------------------------------------------------
(* The application.                                                        *)

(* The old connection of d is still the one the application knows d by:    *)
(* nothing has been read on the new one that names the device.             *)
Late == <<[call |-> "late end"]>>
KnownByOld(d) == old[d] \notin {<<>>, Late}
Known(d) == IF KnownByOld(d) THEN old[d] ELSE toServer[d]

(* Send what the engine call returned over the connection the device is    *)
(* then known by; a closed one swallows it.                                *)
SendAll ==
  toClient' = [d \in DeviceId |->
                 IF d \in up /\ ~KnownByOld(d)' THEN toClient[d] \o sent'[d]
                                                ELSE toClient[d]]

(* The application sets the approval mode before it takes connections, and *)
(* may set it again at any time if it has a choice.                        *)
Configure ==
  /\ \E mode \in Modes : mode # auto_approve /\ SetAutoApprove(mode)
  /\ UNCHANGED <<clientVars, connVars, toClient>>

Pop(d) ==
  IF KnownByOld(d)
  THEN old' = [old EXCEPT ![d] = Tail(@)] /\ UNCHANGED toServer
  ELSE toServer' = [toServer EXCEPT ![d] = Tail(@)] /\ UNCHANGED old

ServeCall(d) ==
  /\ Known(d) # <<>>
  /\ LET msg == Head(Known(d))
     IN  \/ msg.call = "register" /\ RegistryRegister(d, OwnInfo(d, 0, NoPlayers))
         \/ msg.call = "list" /\ RegistryList(d)
         \/ msg.call = "update" /\ RegistryUpdate(d, <<msg.info>>)
  /\ Pop(d)
  /\ SendAll
  /\ UNCHANGED <<clientVars, renewed>>

(* A register call names the device of a new connection while its old one  *)
(* has not ended: the new one takes over, what the old one still had is    *)
(* not read, and the answer goes to the new one.  The engine is not told.  *)
TakeOver(d) ==
  /\ KnownByOld(d) /\ toServer[d] # <<>> /\ Head(toServer[d]).call = "register"
  /\ RegistryRegister(d, OwnInfo(d, 0, NoPlayers))
  /\ toServer' = [toServer EXCEPT ![d] = Tail(@)]
  /\ old' = [old EXCEPT ![d] = Late]
  /\ renewed' = renewed \cup {d}
  /\ SendAll
  /\ UNCHANGED clientVars

(* A new connection that ends before it named its device.                  *)
NamelessEnd(d) ==
  /\ KnownByOld(d) /\ toServer[d] # <<>> /\ Head(toServer[d]).call = "eof"
  /\ toServer' = [toServer EXCEPT ![d] = Tail(@)]
  /\ UNCHANGED <<vars, clientVars, old, renewed, toClient>>

(* Mutation of LateEnd: drop_device, whose argument is the device id.      *)
LateEndDrops(d) ==
  /\ old[d] = Late
  /\ DropDevice(d)
  /\ old' = [old EXCEPT ![d] = <<>>]
  /\ SendAll
  /\ UNCHANGED <<clientVars, toServer, renewed>>

(* The end of a connection that was taken over: the device is connected    *)
(* again, so the application does not drop it.                             *)
LateEnd(d) ==
  /\ old[d] = Late
  /\ old' = [old EXCEPT ![d] = <<>>]
  /\ UNCHANGED <<vars, clientVars, toServer, renewed, toClient>>

AtEof(d) == Known(d) # <<>> /\ Head(Known(d)).call = "eof"

(* Mutation of MustDeny: only a device that has registered has anything    *)
(* to lose.                                                                *)
MustDenyRegistered(d) ==
  DenyOnDisconnect /\ pending[d] # NoPending /\ HasInfo(registry, d)

MustDeny(d) == DenyOnDisconnect /\ pending[d] # NoPending

DenyLost(d) ==
  /\ AtEof(d) /\ MustDeny(d)
  /\ DenyRegistration(d)
  /\ UNCHANGED <<clientVars, connVars>>
  /\ SendAll

DropLost(d) ==
  /\ AtEof(d) /\ ~MustDeny(d)
  /\ DropDevice(d)
  /\ Pop(d)
  /\ renewed' = renewed \ {d}
  /\ SendAll
  /\ UNCHANGED clientVars

(* The user of the application decides a pending registration.             *)
Decide(d) ==
  /\ ApproveRegistration(d) \/ DenyRegistration(d)
  /\ UNCHANGED <<clientVars, connVars>>
  /\ SendAll

ServerReceive(d) ==
  \/ ServeCall(d) \/ DenyLost(d) \/ DropLost(d)
  \/ TakeOver(d) \/ NamelessEnd(d) \/ LateEnd(d)

SessionNext ==
  \/ Configure
  \/ \E d \in DeviceId :
       Connect(d) \/ Disconnect(d) \/ ClientReceive(d) \/ ServerReceive(d) \/ Decide(d)
  \/ \E c \in Controller : AskList(c)
  \/ \E g \in Game, p \in Counts : SendUpdate(g, p)

SessionSpec == SessionInit /\ [][SessionNext]_sessionVars

(* The two loops that must run: the application reads what arrives, and so *)
(* does each client.  Nobody has to connect, ask, update or decide.        *)
Fairness ==
  /\ \A d \in DeviceId : WF_sessionVars(ServerReceive(d))
  /\ \A d \in DeviceId : WF_sessionVars(ClientReceive(d))

FairSession == SessionSpec /\ Fairness

-----------------------------------------------------------------------------
(* Properties.                                                             *)

(* The composed system never writes a slot behind the slot table's back:   *)
(* every step of the session is a step of the disciplined engine, so an    *)
(* update that arrives always carries the slot the registry still holds    *)
(* for that game, across drops, reconnections and reassigned slots.        *)
SessionIsDisciplined == DisciplinedSpec

(* The list a registry record gives of game g, and the one a controller    *)
(* will have once it has read the messages under way.                      *)
Shown(g) == IF KindIs(registry, g, "game") THEN {OnWire(registry[g])} ELSE {}

ShownSoon(c, g) ==
  LET msgs  == toClient[c]
      about == {n \in 1 .. Len(msgs) :
                  \/ msgs[n].method = "onList"
                  \/ msgs[n].method \in HostMethod /\ msgs[n].info.dev = g}
  IN  IF about = {} THEN hosts[c][g]
      ELSE HostsAfterMsg(hosts[c], msgs[Max(about)])[g]

ListIsDue(c) == \/ c \in listed
                \/ \E n \in 1 .. Len(toClient[c]) : toClient[c][n].method = "onList"

(* A controller that asked for the list and keeps it from the reports has, *)
(* once it reads what is under way, exactly the games the server has       *)
(* registered, each with the slot and player count the server has: no list *)
(* answer, connect, update or disconnect is missing, doubled or overtaken  *)
(* by another, whichever client or approval comes in between.  Of a game   *)
(* that registered over its own record only the slot agrees: the record    *)
(* keeps the player count, onHostConnected is built without it.            *)
HostListsAgree ==
  \A c \in Controller, g \in Game :
    c \in up /\ ListIsDue(c) =>
      \/ ShownSoon(c, g) = Shown(g)
      \/ g \in renewed /\ {i.slot : i \in ShownSoon(c, g)} = {i.slot : i \in Shown(g)}

(* Device ids outlive connections, and drop_device takes a device id: when  *)
(* a device is back before its old connection was seen to end, nothing the *)
(* server still reads of the old one unregisters it.  Whoever has been     *)
(* told that it is registered is.                                          *)
MembersRegistered == \A d \in member : HasInfo(registry, d)

(* Two games that are connected and know their slots know different ones:  *)
(* a controller can tell its hosts apart by slot.  The slot is read from   *)
(* the report, while reassignments happen at the server.                   *)
SlotsToldApart ==
  \A g, h \in Game : g \in up /\ h \in up /\ slot[g] > 0 /\ slot[g] = slot[h] => g = h

(* processing.rs:1483: a game that disconnects leaves the host lists.  Once *)
(* it stays away, every controller that stays connected ends up with a      *)
(* list without it.                                                         *)
GoneHostsForgotten ==
  \A g \in Game, c \in Controller :
    <>[](g \notin up /\ c \in up) => <>[](hosts[c][g] = {})

(* As long as approval is automatic, a device that stays connected is told *)
(* that it is registered, and a game learns a slot.                        *)
RegistrationAnswered ==
  []auto_approve =>
    \A d \in DeviceId :
      d \in up ~> d \notin up \/ (d \in member /\ (d \in Game => slot[d] > 0))
=============================================================================
