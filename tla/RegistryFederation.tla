------------------------- MODULE RegistryFederation -------------------------
(***************************************************************************)
(* Two servers, A and B, that know each other: an onHostUpdate also goes   *)
(* to devices of the class Server, and the server that gets one handles it *)
(* as it handles registry.update (both names are bound to                  *)
(* rpc_registry_update): it stores the info and announces it again.        *)
(*                                                                         *)
(* Each server is a RegistryEngine; both approve on their own and have a   *)
(* local device of the class Server, which nothing here changes.  A game   *)
(* registers with A, a viewer with each, B with A, and perhaps A with B.   *)
(* A FIFO wire runs between the servers in each direction; what the game   *)
(* and the viewers send and are told is taken at once.                     *)
(***************************************************************************)
EXTENDS Integers, Sequences, FiniteSets, FiniteSetsExt

CONSTANTS
  g, vA, vB, sA, sB,   \* the game, the viewers, and the servers' own ids
  EmptyId, MaxSlot, Players, Absent, NoInfo, NoPlayers, NoPending, NoLocal,
  Counts               \* bound: the player counts the game reports, once each

VARIABLES
  registryA, used_slotsA, sentA,
  registryB, used_slotsB, sentB,
  pending, auto_approve, local_device,   \* the same at both, never changed
  toA, toB,        \* messages under way to each server
  playing,         \* the game is connected
  last,            \* the count it reported last
  left,            \* the counts it has yet to report
  shown            \* per viewer: what it was last told of the game

engineA == <<registryA, used_slotsA, sentA>>
engineB == <<registryB, used_slotsB, sentB>>
game == <<playing, last, left>>
settings == <<pending, auto_approve, local_device>>
federation == <<engineA, engineB, settings, toA, toB, game, shown>>

DeviceId == {g, vA, vB, sA, sB}

ASSUME FederationAssumption ==
  /\ g \notin {vA, vB, sA, sB} /\ {vA, vB} \cap {sA, sB} = {}
  /\ EmptyId \notin DeviceId

OwnInfo(d, s, p) ==
  [dev |-> d, slot |-> s, players |-> p,
   kind |-> CASE d = g -> "game" [] d \in {vA, vB} -> "viewer" [] OTHER -> "server"]

A == INSTANCE RegistryEngine WITH
       registry <- registryA, used_slots <- used_slotsA, sent <- sentA,
       RegisterCall <- {}, UpdateInfo <- {}, LocalKind <- {"server"}

B == INSTANCE RegistryEngine WITH
       registry <- registryB, used_slots <- used_slotsB, sent <- sentB,
       RegisterCall <- {}, UpdateInfo <- {}, LocalKind <- {"server"}

FederationInit ==
  /\ registryA = [d \in DeviceId |-> Absent] /\ registryB = registryA
  /\ used_slotsA = {} /\ used_slotsB = {}
  /\ sentA = [d \in DeviceId |-> <<>>] /\ sentB = sentA
  /\ pending = [d \in DeviceId |-> NoPending]
  /\ auto_approve = TRUE /\ local_device = "server"
  /\ toA = <<>> /\ toB = <<>>
  /\ playing = FALSE /\ last = NoPlayers /\ left = Counts
  /\ shown = [v \in {vA, vB} |-> {}]

(* What a server's messages about the game leave a viewer with.            *)
Told(v, msgs) ==
  LET about == {n \in 1 .. Len(msgs) : msgs[n].method \in A!HostMethod}
      msg   == msgs[Max(about)]
  IN  IF about = {} THEN shown[v]
      ELSE IF msg.method = "onHostDisconnected" THEN {} ELSE {msg.info}

FromA ==
  /\ toB' = toB \o sentA'[sB]
  /\ shown' = [shown EXCEPT ![vA] = Told(vA, sentA'[vA])]
  /\ UNCHANGED engineB

FromB ==
  /\ toA' = toA \o sentB'[sA]
  /\ shown' = [shown EXCEPT ![vB] = Told(vB, sentB'[vB])]
  /\ UNCHANGED engineA

RegisterAtA(d) ==
  /\ ~A!HasInfo(registryA, d)
  /\ d = g => left = Counts
  /\ A!RegistryRegister(d, OwnInfo(d, 0, NoPlayers))
  /\ playing' = (playing \/ d = g)
  /\ FromA
  /\ UNCHANGED <<toA, last, left>>

RegisterAtB(d) ==
  /\ ~B!HasInfo(registryB, d)
  /\ B!RegistryRegister(d, OwnInfo(d, 0, NoPlayers))
  /\ FromB
  /\ UNCHANGED <<toB, game>>

Joined ==
  /\ \A d \in {vA, sB} : A!HasInfo(registryA, d)
  /\ B!HasInfo(registryB, vB)

(* The game reports a count once everyone has joined, and goes when it has *)
(* no more to report.                                                      *)
Report(p) ==
  /\ playing /\ Joined /\ p \in left
  /\ left' = left \ {p} /\ last' = p
  /\ A!RegistryUpdate(g, <<OwnInfo(g, registryA[g].slot, p)>>)
  /\ FromA
  /\ UNCHANGED <<toA, playing>>

Leave ==
  /\ playing /\ left = {}
  /\ playing' = FALSE
  /\ A!DropDevice(g)
  /\ FromA
  /\ UNCHANGED <<toA, last, left>>

(* A server reads what the other sent it.                                  *)
ReceiveAtA ==
  /\ toA # <<>> /\ toA' = Tail(toA)
  /\ LET msg == Head(toA)
     IN  IF msg.method = "onHostUpdate" THEN A!RegistryUpdate(sB, <<msg.info>>)
         ELSE A!ProcessOther(sB)
  /\ FromA
  /\ UNCHANGED game

ReceiveAtB ==
  /\ toB # <<>> /\ toB' = Tail(toB)
  /\ LET msg == Head(toB)
     IN  IF msg.method = "onHostUpdate" THEN B!RegistryUpdate(sA, <<msg.info>>)
         ELSE B!ProcessOther(sA)
  /\ FromB
  /\ UNCHANGED game

FederationNext ==
  \/ \E d \in {g, vA, sB} : RegisterAtA(d)
  \/ \E d \in {vB, sA} : RegisterAtB(d)
  \/ \E p \in Counts : Report(p)
  \/ Leave
  \/ ReceiveAtA \/ ReceiveAtB

(* Both servers read what arrives; nobody has to join, report or leave.    *)
FederationSpec ==
  /\ FederationInit /\ [][FederationNext]_federation
  /\ WF_federation(ReceiveAtA) /\ WF_federation(ReceiveAtB)

-----------------------------------------------------------------------------
(* Each server registered with the other.                                  *)
Mutual == Joined /\ B!HasInfo(registryB, sA)

(* As long as only one of them did, an update goes from server to server,  *)
(* but not for ever.                                                       *)
UpdatesSettle == []~Mutual => <>[](toA = <<>> /\ toB = <<>>)

(* Once both did nothing stops an update: a server announces it to every   *)
(* device that wants it, the one it came from included, so what is under   *)
(* way between the two never gets less.                                    *)
Updates(wire) == {n \in DOMAIN wire : wire[n].method = "onHostUpdate"}
UnderWay == Cardinality(Updates(toA)) + Cardinality(Updates(toB))

UpdatesCirculate == [][Mutual => UnderWay' >= UnderWay]_federation

(* The update of a game at A reaches the viewer at B, which knows the game *)
(* only from what B stored of it and announced in turn.                    *)
RemoteViewerLearns ==
  \A p \in Counts :
    playing /\ last = p ~>
      \/ ~playing \/ last # p
      \/ {i.players : i \in shown[vB]} = {p}

(* processing.rs:1483: the controllers of the server a game has left       *)
(* remove it from their host list.  It stays removed, unless the servers   *)
(* registered with each other: then an update of it may still be going     *)
(* round, and puts it back.                                                *)
GoneGameForgotten ==
  left = {} /\ ~playing ~> Mutual \/ [](Mutual \/ shown[vA] = {})
=============================================================================
