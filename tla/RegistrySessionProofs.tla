----------------------- MODULE RegistrySessionProofs -----------------------
(***************************************************************************)
(* Proofs about RegistrySession: what games and controllers are told of    *)
(* each other through queues, lost connections and connections that        *)
(* overlap is what the server's registry holds.  For any numbers of        *)
(* devices and connections, with no more devices than positive slots, when *)
(* registration is always approved at once, or when the application denies *)
(* what a lost device had pending and takes no connection of a device that *)
(* it has not seen end (Careful).                                          *)
(***************************************************************************)
EXTENDS RegistrySession, RegistryEngineProofs

(* Without this an approval may come for a registration of a connection    *)
(* that is over, and assign the slot of a game a second time.              *)
Careful == FALSE \notin Modes \/ (DenyOnDisconnect /\ ~TakeOvers)

Reg == [call |-> "register"]
Eof == [call |-> "eof"]

Call == [call : {"register", "list", "eof", "late end"}]
          \cup [call : {"update"}, info : Info]

(* The calls of a connection: it starts with the registration, nothing     *)
(* follows that before it is served, and nothing follows the end.          *)
Fresh(q) == q = <<Reg>> \/ q = <<Reg, Eof>>
Running(q) == \A n \in 1 .. Len(q) :
                q[n].call \in {"list", "update"} \/ (q[n] = Eof /\ n = Len(q))
Ended(q) == q # <<>> /\ q[Len(q)] = Eof

SessionTypes ==
  /\ toServer \in [DeviceId -> Seq(Call)] /\ old \in [DeviceId -> Seq(Call)]
  /\ toClient \in [DeviceId -> Seq(Message)]
  /\ up \in SUBSET DeviceId /\ member \in SUBSET DeviceId
  /\ slot \in [Game -> SlotValue]
  /\ hosts \in [Controller -> [Game -> SUBSET WireInfo]]
  /\ local_device = NoLocal
  /\ ~auto_approve => DenyOnDisconnect /\ ~TakeOvers

Queues(d) ==
  /\ Fresh(toServer[d]) \/ Running(toServer[d])
  /\ d \in up => ~Ended(toServer[d])
  /\ d \notin up => toServer[d] = <<>> \/ Ended(toServer[d])
  /\ KnownByOld(d) => /\ TakeOvers /\ Ended(old[d])
                      /\ Fresh(old[d]) \/ Running(old[d])
                      /\ toServer[d] \in {<<>>, <<Eof>>} \/ Fresh(toServer[d])

(* What a device has heard on its connection.                              *)
Heard(d) ==
  \/ d \in member \/ d \in listed
  \/ d \in Game /\ slot[d] # 0
  \/ \E n \in 1 .. Len(toClient[d]) : toClient[d][n] # OnRegister(FALSE)

Silent(d) == ~Heard(d) /\ toClient[d] = <<>>

Admitted(d) == HasInfo(registry, d) /\ pending[d] = NoPending

(* Nothing is heard before the registration was served; whoever heard that *)
(* it is registered, or anything else, is; its calls are as a registered   *)
(* device sends them.                                                      *)
Hearing(d) ==
  /\ d \notin up \/ KnownByOld(d) \/ Fresh(toServer[d]) => Silent(d)
  /\ Heard(d) => Admitted(d) /\ d # EmptyId

Calling(d) ==
  \A n \in 1 .. Len(Known(d)) : Known(d)[n].call \in {"list", "update"} =>
    /\ Admitted(d)
    /\ Known(d)[n].call = "list" => d \in Controller
    /\ Known(d)[n].call = "update" =>
         d \in Game /\ \E p \in Counts : Known(d)[n].info = OwnInfo(d, registry[d].slot, p)

(* A connection whose registration was not served finds no record.         *)
Unserved(d) == Fresh(Known(d)) \/ (d \notin up /\ toServer[d] = <<>> /\ ~KnownByOld(d))

Recorded(d) ==
  /\ Unserved(d) => ~HasInfo(registry, d) /\ pending[d] = NoPending
  /\ pending[d] # NoPending =>
       /\ pending[d] = [info |-> OwnInfo(d, 0, NoPlayers), target |-> d]
       /\ ~HasInfo(registry, d) /\ DenyOnDisconnect /\ ~TakeOvers
  /\ HasInfo(registry, d) =>
       /\ registry[d].kind = IF d \in Game THEN "game" ELSE "viewer"
       /\ d \in Game => registry[d].slot > 0

Slotted(d) ==
  d \in Game =>
    /\ slot[d] # 0 => slot[d] = registry[d].slot
    /\ \A n \in 1 .. Len(toClient[d]) :
         toClient[d][n].method = "onHostConnected" => toClient[d][n].info.slot = registry[d].slot

DeviceInv(d) == Queues(d) /\ Hearing(d) /\ Calling(d) /\ Recorded(d) /\ Slotted(d)

(* What a message tells a controller of game g, and what the controller    *)
(* will believe once it has read what is under way.                        *)
Tells(msg, g) ==
  msg.method = "onList" \/ (msg.method \in HostMethod /\ msg.info.dev = g)

Told(msg, g) ==
  IF msg.method = "onList" THEN {i \in msg.hosts : i.dev = g}
  ELSE IF msg.method = "onHostDisconnected" THEN {} ELSE {msg.info}

About(msgs, g) == {n \in 1 .. Len(msgs) : Tells(msgs[n], g)}

SoonOf(list, msgs, g) ==
  IF About(msgs, g) = {} THEN list[g] ELSE Told(msgs[Max(About(msgs, g))], g)

Slots(infos) == {i.slot : i \in infos}

Agrees(infos, g) ==
  infos = Shown(g) \/ (g \in renewed /\ Slots(infos) = Slots(Shown(g)))

Listed(c) == \A g \in Game : ListIsDue(c) => Agrees(SoonOf(hosts[c], toClient[c], g), g)

SessionInv ==
  /\ SlotsInv /\ SessionTypes
  /\ \A d \in DeviceId : DeviceInv(d)
  /\ \A c \in Controller : Listed(c)

HostList == [Game -> SUBSET WireInfo]

-----------------------------------------------------------------------------
(* Reading the messages under way.                                         *)

(* Max finds an element that is at least every other one.                  *)
LEMMA MaxIs ==
  ASSUME NEW S \in SUBSET Nat, NEW x \in S, \A y \in S : x >= y
  PROVE  Max(S) = x
<1>1. \A y \in S : (\A z \in S : y >= z) => y = x
  <2> TAKE y \in S
  <2>1. x \in Nat /\ y \in Nat
    OBVIOUS
  <2> QED
    BY <2>1
<1> QED
  BY <1>1 DEF Max

(* Positions in a sequence have a last one.                                *)
LEMMA MaxOfPositions ==
  ASSUME NEW n \in Nat, NEW S \in SUBSET (1 .. n), S # {}
  PROVE  Max(S) \in S /\ \A y \in S : Max(S) >= y
<1> DEFINE T == {n - y : y \in S}
<1>1. T \in SUBSET Nat /\ T # {}
  <2>1. \A y \in S : n - y \in Nat
    OBVIOUS
  <2> QED
    BY <2>1
<1>2. PICK t \in T : \A u \in T : t <= u
  BY <1>1, LeastNatural
<1>3. PICK x \in S : t = n - x
  BY <1>2
<1>4. \A y \in S : x >= y
  <2> TAKE y \in S
  <2>1. n - x <= n - y
    BY <1>2, <1>3
  <2> QED
    BY <2>1
<1> QED
  BY <1>3, <1>4, MaxIs

(* The client's list after a message: what it told, or unchanged.          *)
LEMMA AfterMessage ==
  ASSUME NEW list \in HostList, NEW msg \in Message
  PROVE  /\ HostsAfterMsg(list, msg) \in HostList
         /\ \A g \in Game : HostsAfterMsg(list, msg)[g]
                              = IF Tells(msg, g) THEN Told(msg, g) ELSE list[g]
<1>1. CASE msg.method = "onList"
  <2>1. msg.hosts \in SUBSET WireInfo
    BY <1>1 DEF Message, HostMethod
  <2> QED
    BY <1>1, <2>1 DEF HostsAfterMsg, Tells, Told, HostList
<1>2. CASE msg.method \in HostMethod
  <2>1. msg.info \in WireInfo /\ msg.method # "onList"
    BY <1>2 DEF Message, HostMethod
  <2> QED
    BY <1>2, <2>1 DEF HostsAfterMsg, Tells, Told, HostList
<1>3. CASE msg.method # "onList" /\ msg.method \notin HostMethod
  BY <1>3 DEF HostsAfterMsg, Tells, Told
<1> QED
  BY <1>1, <1>2, <1>3

(* What HostListsAgree reads of the queues is SoonOf.                      *)
LEMMA SoonIsShown ==
  ASSUME NEW c \in Controller, NEW g \in Game, hosts[c] \in HostList,
         toClient[c] \in Seq(Message)
  PROVE  ShownSoon(c, g) = SoonOf(hosts[c], toClient[c], g)
<1> DEFINE msgs  == toClient[c]
           about == {n \in 1 .. Len(msgs) :
                       \/ msgs[n].method = "onList"
                       \/ msgs[n].method \in HostMethod /\ msgs[n].info.dev = g}
<1>1. about = About(msgs, g)
  BY DEF About, Tells
<1>2. ShownSoon(c, g) = IF about = {} THEN hosts[c][g]
                        ELSE HostsAfterMsg(hosts[c], msgs[Max(about)])[g]
  BY DEF ShownSoon
<1> HIDE DEF about
<1>3. CASE About(msgs, g) # {}
  <2>1. Max(About(msgs, g)) \in About(msgs, g)
    BY <1>3, MaxOfPositions, LenProperties DEF About
  <2> DEFINE m == msgs[Max(About(msgs, g))]
  <2>2. m \in Message /\ Tells(m, g)
    BY <2>1, ElementOfSeq DEF About
  <2> HIDE DEF m
  <2>3. HostsAfterMsg(hosts[c], m)[g] = Told(m, g)
    BY <2>2, AfterMessage
  <2> QED
    BY <1>1, <1>2, <1>3, <2>3 DEF SoonOf, m
<1>4. CASE About(msgs, g) = {}
  BY <1>1, <1>2, <1>4 DEF SoonOf
<1> QED
  BY <1>3, <1>4

(* A message that joins the queue decides, if it tells anything of g.      *)
LEMMA SoonAppend ==
  ASSUME NEW list, NEW msgs \in Seq(Message), NEW msg \in Message, NEW g \in Game
  PROVE  SoonOf(list, Append(msgs, msg), g)
           = IF Tells(msg, g) THEN Told(msg, g) ELSE SoonOf(list, msgs, g)
<1> DEFINE after == Append(msgs, msg)
           k     == Len(msgs) + 1
<1>1. /\ Len(msgs) \in Nat /\ Len(after) = k
      /\ \A n \in 1 .. Len(msgs) : after[n] = msgs[n]
      /\ after[k] = msg
  BY AppendProperties, LenProperties
<1> HIDE DEF after
<1>2. CASE Tells(msg, g)
  <2>1. k \in About(after, g) /\ About(after, g) \in SUBSET (1 .. k)
    BY <1>1, <1>2 DEF About
  <2>2. Max(About(after, g)) = k
    <3>1. About(after, g) \in SUBSET Nat /\ \A y \in About(after, g) : k >= y
      BY <1>1, <2>1
    <3> QED
      BY <2>1, <3>1, MaxIs
  <2> QED
    BY <1>1, <1>2, <2>1, <2>2 DEF SoonOf, after
<1>3. CASE ~Tells(msg, g)
  <2>1. About(after, g) = About(msgs, g)
    BY <1>1, <1>3 DEF About
  <2>2. About(msgs, g) # {} => Max(About(msgs, g)) \in 1 .. Len(msgs)
    BY <1>1, MaxOfPositions DEF About
  <2>3. SoonOf(list, after, g) = SoonOf(list, msgs, g)
    BY <1>1, <2>1, <2>2 DEF SoonOf
  <2> QED
    BY <1>3, <2>3 DEF after
<1> QED
  BY <1>2, <1>3

(* Reading the first message under way changes nothing of that.            *)
LEMMA SoonTail ==
  ASSUME NEW list \in HostList, NEW msgs \in Seq(Message), msgs # <<>>, NEW g \in Game
  PROVE  SoonOf(HostsAfterMsg(list, Head(msgs)), Tail(msgs), g) = SoonOf(list, msgs, g)
<1> DEFINE rest == Tail(msgs)
           k    == Len(msgs)
<1>1. /\ k \in Nat /\ k >= 1 /\ rest \in Seq(Message) /\ Len(rest) = k - 1
      /\ \A n \in 1 .. Len(rest) : rest[n] = msgs[n + 1]
      /\ Head(msgs) = msgs[1] /\ msgs[1] \in Message
  BY HeadTailProperties, LenProperties, ElementOfSeq, EmptySeq
<1>2. HostsAfterMsg(list, msgs[1])[g] = IF Tells(msgs[1], g) THEN Told(msgs[1], g) ELSE list[g]
  BY <1>1, AfterMessage
<1> HIDE DEF rest
<1>3. \A n \in 1 .. k - 1 : n \in About(rest, g) <=> (n + 1) \in About(msgs, g)
  BY <1>1 DEF About
<1>4. About(rest, g) \in SUBSET (1 .. k - 1) /\ About(msgs, g) \in SUBSET (1 .. k)
  BY <1>1 DEF About
<1>5. CASE About(rest, g) # {}
  <2> DEFINE m == Max(About(rest, g))
  <2>1. m \in About(rest, g) /\ \A y \in About(rest, g) : m >= y
    <3>1. k - 1 \in Nat
      BY <1>1
    <3> QED
      BY <1>4, <1>5, <3>1, MaxOfPositions
  <2> HIDE DEF m
  <2>2. m \in 1 .. k - 1 /\ (m + 1) \in About(msgs, g)
    BY <1>1, <1>3, <1>4, <2>1
  <2>3. \A y \in About(msgs, g) : m + 1 >= y
    <3> TAKE y \in About(msgs, g)
    <3>1. y \in 1 .. k
      BY <1>4
    <3>2. CASE y = 1
      BY <2>2, <3>2
    <3>3. CASE y # 1
      <4>1. (y - 1) \in 1 .. k - 1 /\ (y - 1) + 1 = y
        BY <1>1, <3>1, <3>3
      <4>2. (y - 1) \in About(rest, g)
        BY <1>3, <4>1
      <4> QED
        BY <2>1, <2>2, <3>1, <4>2
    <3> QED
      BY <3>2, <3>3
  <2>4. Max(About(msgs, g)) = m + 1
    <3>1. About(msgs, g) \in SUBSET Nat
      BY <1>4
    <3> QED
      BY <2>2, <2>3, <3>1, MaxIs
  <2>5. rest[m] = msgs[m + 1]
    BY <1>1, <2>2
  <2> QED
    BY <1>5, <2>2, <2>4, <2>5 DEF SoonOf, rest, m
<1>6. CASE About(rest, g) = {} /\ Tells(msgs[1], g)
  <2>1. About(msgs, g) = {1}
    <3>1. 1 \in About(msgs, g)
      BY <1>1, <1>6 DEF About
    <3>2. \A y \in About(msgs, g) : y = 1
      <4> SUFFICES ASSUME NEW y \in About(msgs, g), y # 1 PROVE FALSE
        OBVIOUS
      <4>1. (y - 1) \in 1 .. k - 1 /\ (y - 1) + 1 = y
        BY <1>1, <1>4
      <4> QED
        BY <1>3, <1>6, <4>1
    <3> QED
      BY <3>1, <3>2
  <2>2. Max(About(msgs, g)) = 1
    BY <2>1, MaxIs
  <2>3. SoonOf(list, msgs, g) = Told(msgs[1], g)
    BY <2>1, <2>2 DEF SoonOf
  <2> QED
    BY <1>1, <1>2, <1>6, <2>3 DEF SoonOf, rest
<1>7. CASE About(rest, g) = {} /\ ~Tells(msgs[1], g)
  <2>1. About(msgs, g) = {}
    <3> SUFFICES ASSUME NEW y \in About(msgs, g) PROVE FALSE
      OBVIOUS
    <3>1. y \in 1 .. k /\ y # 1
      BY <1>4, <1>7 DEF About
    <3>2. (y - 1) \in 1 .. k - 1 /\ (y - 1) + 1 = y
      BY <1>1, <3>1
    <3> QED
      BY <1>3, <1>7, <3>2
  <2> QED
    BY <1>1, <1>2, <1>7, <2>1 DEF SoonOf, rest
<1> QED
  BY <1>5, <1>6, <1>7

-----------------------------------------------------------------------------
(* What the engine's calls do for the device that makes them.              *)

OwnKind(d) == IF d \in Game THEN "game" ELSE "viewer"

(* A device's own info is one the wire can carry.                          *)
LEMMA OwnInfoType ==
  ASSUME NEW d \in DeviceId
  PROVE  /\ OwnInfo(d, 0, NoPlayers) \in WireInfo
         /\ OwnInfo(d, 0, NoPlayers).kind = OwnKind(d)
         /\ <<d, OwnInfo(d, 0, NoPlayers)>> \in RegisterCall
<1>1. <<d, OwnInfo(d, 0, NoPlayers)>> \in RegisterCall
  BY SessionAssumption
<1>2. OwnInfo(d, 0, NoPlayers) \in WireInfo
  BY <1>1, ConstantsAssumption
<1> QED
  BY <1>1, <1>2 DEF OwnInfo, OwnKind

(* Broadcasts reach the devices whose record is of the kind.               *)
LEMMA NamedAre ==
  ASSUME NEW reg \in RegType, Keyed(reg), NEW kinds, NEW e \in DeviceId
  PROVE  e \in Named(reg, kinds) <=> HasInfo(reg, e) /\ reg[e].kind \in kinds
  BY DEF Named, Keyed

(* What every device but d is sent, when viewers are told of d.            *)
ToOthers(reg, d, msgs) ==
  \A e \in DeviceId \ {d} :
    sent'[e] = IF KindIs(reg, e, "viewer") /\ e # EmptyId THEN msgs ELSE <<>>

OthersKept(reg, d) == \A e \in DeviceId \ {d} : registry'[e] = reg[e]

ConnectNews(d, i) ==
  IF d \in Game THEN <<[method |-> "onHostConnected", info |-> i]>> ELSE <<>>

(* Admission of a device with its own info: a record of its kind, for a    *)
(* game with the slot that is announced, to the device and to viewers.     *)
LEMMA AdmitEffect ==
  ASSUME Cardinality(DeviceId) <= MaxSlot,
         NEW reg \in RegType, Keyed(reg), Exact(reg, used_slots),
         NEW d \in DeviceId, Admit(reg, OwnInfo(d, 0, NoPlayers), d)
  PROVE  \E i \in WireInfo :
           /\ i.dev = d
           /\ OthersKept(reg, d)
           /\ HasInfo(registry', d) /\ registry'[d].kind = OwnKind(d)
           /\ d \in Game => /\ registry'[d].slot > 0 /\ i.slot = registry'[d].slot
                            /\ ~HasInfo(reg, d) => i = OnWire(registry'[d])
           /\ sent'[d] = IF d = EmptyId THEN <<>>
                         ELSE <<OnRegister(TRUE)>> \o ConnectNews(d, i)
           /\ ToOthers(reg, d, ConnectNews(d, i))
<1> DEFINE info     == OwnInfo(d, 0, NoPlayers)
           game     == info.kind = "game"
           free     == IF game THEN Released(reg, used_slots, info.dev) ELSE used_slots
           slt      == IF game THEN AllocateSlot(free) ELSE 0
           admitted == [info EXCEPT !.slot = slt]
           stored   == Upsert(reg, admitted)
           news     == IF game THEN <<HostMsg("onHostConnected", admitted)>> ELSE <<>>
           answer   == <<OnRegister(TRUE)>> \o news
           i        == OnWire(admitted)
<1>1. /\ info \in WireInfo /\ info \in Info /\ info.dev = d /\ info.kind = OwnKind(d)
      /\ game <=> d \in Game
  BY OwnInfoType, WireInfoIsInfo DEF OwnInfo, OwnKind
<1>2. /\ registry' = stored
      /\ sent' = [Deliver(stored, Viewers(stored), news) EXCEPT
                    ![d] = Deliver(stored, {d}, answer)[d]]
  BY DEF Admit
<1>3. slt \in SlotValue /\ (game => slt > 0)
  <2>1. CASE game
    <3>1. slt \in (1 .. Cardinality(DeviceId)) \ free
      BY <1>1, <2>1, AllocateSlotLow
    <3> QED
      BY <3>1, ConstantsAssumption, FS_CardinalityType DEF SlotValue
  <2>2. CASE ~game
    BY <2>2, ConstantsAssumption DEF SlotValue
  <2> QED
    BY <2>1, <2>2
<1> HIDE DEF slt
<1>4. /\ admitted \in Info /\ admitted.slot = slt /\ admitted.dev = d
      /\ admitted.kind = OwnKind(d)
  BY <1>1, <1>3 DEF Info
<1> HIDE DEF admitted
<1> DEFINE new == IF HasInfo(reg, d) THEN Merge(reg[d], admitted) ELSE admitted
<1>5. /\ stored = [reg EXCEPT ![d] = new] /\ new \in Info
      /\ new.kind = OwnKind(d) /\ (game => new.slot = slt)
      /\ ~HasInfo(reg, d) => new = admitted
  <2>1. stored = [reg EXCEPT ![d] = new]
    BY <1>4 DEF Upsert
  <2>2. new \in Info
    BY <1>4, HasInfoType, MergeType
  <2>3. new.kind = OwnKind(d) /\ (game => new.slot = slt)
    BY <1>3, <1>4 DEF Merge, Info, SlotValue
  <2> QED
    BY <2>1, <2>2, <2>3
<1>6. i \in WireInfo /\ i.dev = d /\ i.slot = slt
  BY <1>4, OnWireType DEF OnWire, Info
<1>7. news = ConnectNews(d, i)
  BY <1>1 DEF ConnectNews, HostMsg
<1> HIDE DEF new, news, i
<1>8. stored[d] = new /\ HasInfo(stored, d) /\ \A e \in DeviceId \ {d} : stored[e] = reg[e]
  BY <1>5, InfoHasInfo DEF RegType
<1>9. stored \in RegType /\ Keyed(stored)
  BY <1>4, UpsertType
<1>10. Reachable(stored, d) <=> d # EmptyId
  BY <1>8 DEF Reachable, HasInfo
<1>11. \A e \in DeviceId \ {d} : e \in Viewers(stored) /\ Reachable(stored, e)
                                  <=> KindIs(reg, e, "viewer") /\ e # EmptyId
  <2> TAKE e \in DeviceId \ {d}
  <2>1. e \in Viewers(stored) <=> HasInfo(stored, e) /\ stored[e].kind \in {"viewer"}
    BY <1>9, NamedAre DEF Viewers
  <2> QED
    BY <1>8, <2>1 DEF Reachable, HasInfo, KindIs
<1> HIDE DEF stored
<1>12. sent'[d] = IF d = EmptyId THEN <<>> ELSE <<OnRegister(TRUE)>> \o ConnectNews(d, i)
  BY <1>2, <1>7, <1>10 DEF Deliver
<1>13. ToOthers(reg, d, ConnectNews(d, i))
  BY <1>2, <1>7, <1>11 DEF Deliver, ToOthers
<1>14. OthersKept(reg, d) /\ HasInfo(registry', d) /\ registry'[d].kind = OwnKind(d)
  BY <1>2, <1>5, <1>8 DEF OthersKept
<1>15. d \in Game => /\ registry'[d].slot > 0 /\ i.slot = registry'[d].slot
                     /\ ~HasInfo(reg, d) => i = OnWire(registry'[d])
  BY <1>1, <1>2, <1>3, <1>5, <1>6, <1>8 DEF i
<1> QED
  BY <1>6, <1>12, <1>13, <1>14, <1>15

(* An update with the slot the record has: the record becomes that info,   *)
(* and viewers (there are no servers) are told of it.                      *)
LEMMA UpdateEffect ==
  ASSUME TypeInv, local_device = NoLocal,
         \A e \in DeviceId : HasInfo(registry, e) => registry[e].kind # "server",
         NEW d \in Game, HasInfo(registry, d), registry[d].kind = "game",
         registry[d].slot > 0,
         NEW p \in Counts, NEW info, info = OwnInfo(d, registry[d].slot, p),
         RegistryUpdate(d, <<info>>)
  PROVE  /\ info \in UpdateInfo /\ info \in WireInfo
         /\ registry' = [registry EXCEPT ![d] = info]
         /\ HasInfo(registry', d)
         /\ sent'[d] = <<>>
         /\ ToOthers(registry, d, <<[method |-> "onHostUpdate", info |-> OnWire(info)]>>)
<1> DEFINE reg   == Touch(registry, d)
           batch == <<info>>
           dests == Named(reg, {"viewer", "server"})
           news  == <<[method |-> "onHostUpdate", info |-> OnWire(info)]>>
<1>1. d \in DeviceId /\ registry \in RegType /\ Keyed(registry)
  BY SessionAssumption, TypeInvParts DEF StoreOK
<1>2. registry[d] \in Info
  BY <1>1, HasInfoType
<1>3. registry[d].slot \in 1 .. MaxSlot
  BY <1>2, ConstantsAssumption DEF Info, SlotValue
<1>4. info \in UpdateInfo
  BY <1>3, SessionAssumption
<1>5. info \in WireInfo /\ info \in Info
  BY <1>4, ConstantsAssumption, WireInfoIsInfo
<1>6. /\ info.dev = d /\ info.kind = "game" /\ info.slot = registry[d].slot
      /\ info.players = p
  BY DEF OwnInfo
<1>7. p # NoPlayers
  BY SessionAssumption, ConstantsAssumption
<1>8. reg = registry
  BY DEF Touch, HasInfo
<1>9. Merge(registry[d], info) = info
  <2>1. ~(info.slot <= 0) /\ info.players # NoPlayers
    BY <1>3, <1>6, <1>7
  <2> QED
    BY <1>5, <2>1 DEF Merge, Info
<1> DEFINE next == Upsert(registry, info)
<1>10. next = [registry EXCEPT ![d] = info]
  BY <1>6, <1>9 DEF Upsert
<1> HIDE DEF next
<1>11. next[d] = info /\ HasInfo(next, d) /\ \A e \in DeviceId \ {d} : next[e] = registry[e]
  <2>1. next[d] = info /\ \A e \in DeviceId \ {d} : next[e] = registry[e]
    BY <1>1, <1>10 DEF RegType
  <2> QED
    BY <1>5, <2>1, InfoHasInfo
<1>12. Len(batch) = 1 /\ batch[1] = info
  OBVIOUS
<1> HIDE DEF batch
<1>13. UpsertAll(registry, batch) = next
  BY <1>12 DEF UpsertAll, next
<1>14. UpdateNews(registry, info) = news
  BY <1>6, <1>11 DEF UpdateNews, HostMsg, next
<1>15. AllUpdateNews(registry, batch) = news
  <2>1. AllUpdateNews(registry, batch) = news \o <<>>
    BY <1>12, <1>14 DEF AllUpdateNews
  <2> QED
    BY <2>1
<1>16. IsServer
  BY DEF IsServer
<1>17. /\ registry' = next
       /\ sent' = Deliver(next, dests, news)
  <2>1. /\ registry' = UpsertAll(reg, batch)
        /\ sent' = Deliver(registry', dests, AllUpdateNews(reg, batch))
    BY <1>16 DEF RegistryUpdate, batch
  <2> HIDE DEF reg, dests, news
  <2> QED
    BY <1>8, <1>13, <1>15, <2>1
<1>18. \A e \in DeviceId : e \in dests <=> KindIs(registry, e, "viewer")
  <2> TAKE e \in DeviceId
  <2>1. e \in dests <=> HasInfo(registry, e) /\ registry[e].kind \in {"viewer", "server"}
    BY <1>1, <1>8, NamedAre
  <2> QED
    BY <2>1 DEF KindIs
<1>19. sent'[d] = <<>>
  BY <1>1, <1>6, <1>17, <1>18 DEF Deliver, KindIs
<1>20. ToOthers(registry, d, news)
  <2> HIDE DEF dests, news
  <2>1. \A e \in DeviceId \ {d} : KindIs(registry, e, "viewer") => registry[e] # Absent
    BY DEF KindIs, HasInfo
  <2> QED
    BY <1>11, <1>17, <1>18, <2>1 DEF Deliver, Reachable, ToOthers
<1> QED
  BY <1>4, <1>5, <1>10, <1>11, <1>17, <1>19, <1>20

(* A registered device that asks for the list is answered as its kind is.  *)
LEMMA ListEffect ==
  ASSUME TypeInv, local_device = NoLocal,
         NEW d \in DeviceId, HasInfo(registry, d), RegistryList(d)
  PROVE  /\ registry' = registry
         /\ sent'[d] = IF d = EmptyId THEN <<>>
                       ELSE <<OnList(InfosForViewer(registry, registry[d].kind))>>
         /\ ToOthers(registry, d, <<>>)
<1>1. Touch(registry, d) = registry
  BY DEF Touch, HasInfo
<1>2. IsServer
  BY DEF IsServer
<1>3. /\ registry' = registry
      /\ sent' = Deliver(registry, {d},
                         <<OnList(InfosForViewer(registry, registry[d].kind))>>)
  BY <1>1, <1>2 DEF RegistryList
<1>4. Reachable(registry, d) <=> d # EmptyId
  BY DEF Reachable, HasInfo
<1> QED
  BY <1>3, <1>4 DEF Deliver, ToOthers

(* Dropping a device takes its record and tells viewers of a game.         *)
LEMMA DropEffect ==
  ASSUME TypeInv, local_device = NoLocal, NEW d \in DeviceId, DropDevice(d)
  PROVE  /\ registry' = [registry EXCEPT ![d] = Absent]
         /\ sent'[d] = <<>>
         /\ ToOthers(registry, d,
              IF KindIs(registry, d, "game")
              THEN <<[method |-> "onHostDisconnected", info |-> OnWire(registry[d])]>>
              ELSE <<>>)
         /\ HasInfo(registry, d) => OnWire(registry[d]) \in WireInfo
                                    /\ OnWire(registry[d]).dev = d
<1> DEFINE reg  == [registry EXCEPT ![d] = Absent]
           news == IF KindIs(registry, d, "game")
                   THEN <<[method |-> "onHostDisconnected", info |-> OnWire(registry[d])]>>
                   ELSE <<>>
<1>1. registry \in RegType /\ Keyed(registry)
  BY TypeInvParts DEF StoreOK
<1>2. /\ reg[d] = Absent /\ \A e \in DeviceId \ {d} : reg[e] = registry[e]
      /\ reg \in RegType
  BY <1>1 DEF RegType
<1>3. registry' = reg /\ sent' = Deliver(reg, Viewers(reg), news)
  BY DEF DropDevice, HostMsg, IsServer
<1> HIDE DEF reg, news
<1>4. Keyed(reg)
  BY <1>1, <1>2 DEF Keyed, HasInfo
<1>5. \A e \in DeviceId : e \in Viewers(reg) <=> HasInfo(reg, e) /\ reg[e].kind \in {"viewer"}
  BY <1>2, <1>4, NamedAre DEF Viewers
<1>6. sent'[d] = <<>>
  BY <1>2, <1>3 DEF Deliver, Reachable
<1>7. ToOthers(registry, d, news)
  <2> SUFFICES ASSUME NEW e \in DeviceId \ {d}
               PROVE  sent'[e] = IF KindIs(registry, e, "viewer") /\ e # EmptyId
                                 THEN news ELSE <<>>
    BY DEF ToOthers
  <2>1. e \in Viewers(reg) /\ Reachable(reg, e)
          <=> KindIs(registry, e, "viewer") /\ e # EmptyId
    BY <1>2, <1>5 DEF Reachable, KindIs, HasInfo
  <2> QED
    BY <1>3, <2>1 DEF Deliver
<1>8. HasInfo(registry, d) => OnWire(registry[d]) \in WireInfo /\ OnWire(registry[d]).dev = d
  <2> SUFFICES ASSUME HasInfo(registry, d)
               PROVE  OnWire(registry[d]) \in WireInfo /\ OnWire(registry[d]).dev = d
    OBVIOUS
  <2>1. registry[d] \in Info /\ registry[d].dev = d
    BY <1>1, HasInfoType DEF Keyed
  <2> QED
    BY <2>1, OnWireType DEF OnWire, Info
<1> QED
  BY <1>3, <1>6, <1>7, <1>8 DEF reg, news

(* What a device whose registration is pending is answered when it is      *)
(* denied.                                                                 *)
LEMMA DenyEffect ==
  ASSUME NEW d \in DeviceId, pending[d].target = d, DenyRegistration(d)
  PROVE  /\ sent'[d] \in {<<>>, <<OnRegister(FALSE)>>}
         /\ sent'[d] # <<>> => registry[d] # Absent
         /\ ToOthers(registry, d, <<>>)
  BY DEF DenyRegistration, Deliver, ToOthers, Reachable

-----------------------------------------------------------------------------
(* A step of one device, seen by the others.                               *)

(* Nothing of e changes but, perhaps, what is on its way to it.            *)
Same(e) ==
  /\ e \in up' <=> e \in up
  /\ e \in member' <=> e \in member
  /\ e \in listed' <=> e \in listed
  /\ toServer'[e] = toServer[e] /\ old'[e] = old[e]
  /\ e \in Game => slot'[e] = slot[e]
  /\ registry'[e] = registry[e] /\ pending'[e] = pending[e]

(* A viewer that is told of games over its connection.                     *)
Listening(e) ==
  e \in up /\ ~KnownByOld(e) /\ KindIs(registry, e, "viewer") /\ e # EmptyId

(* What a device has said and been recorded as stands while the rest       *)
(* moves.                                                                  *)
LEMMA SameKeepsRecord ==
  ASSUME NEW e \in DeviceId, Same(e), Queues(e) /\ Calling(e) /\ Recorded(e)
  PROVE  (Queues(e) /\ Calling(e) /\ Recorded(e))'
<1>1. Queues(e)'
  BY DEF Same, Queues, KnownByOld
<1>2. /\ Known(e)' = Known(e) /\ (KnownByOld(e)' <=> KnownByOld(e))
      /\ HasInfo(registry', e) <=> HasInfo(registry, e)
      /\ registry'[e] = registry[e] /\ pending'[e] = pending[e]
  BY DEF Same, Known, KnownByOld, HasInfo
<1>3. Calling(e)'
  BY <1>2 DEF Calling, Admitted
<1>4. Unserved(e)' <=> Unserved(e)
  BY <1>2 DEF Same, Unserved
<1>5. Recorded(e)'
  BY <1>2, <1>4 DEF Recorded
<1> QED
  BY <1>1, <1>3, <1>5

(* Nothing reaches e.                                                      *)
LEMMA SameKeeps ==
  ASSUME NEW e \in DeviceId, Same(e), toClient'[e] = toClient[e], DeviceInv(e)
  PROVE  DeviceInv(e)'
<1>1. (Queues(e) /\ Calling(e) /\ Recorded(e))'
  BY SameKeepsRecord DEF DeviceInv
<1>2. /\ (KnownByOld(e)' <=> KnownByOld(e))
      /\ HasInfo(registry', e) <=> HasInfo(registry, e)
  BY DEF Same, KnownByOld, HasInfo
<1>3. Heard(e)' <=> Heard(e)
  BY DEF Heard, Same
<1>4. Hearing(e)'
  BY <1>2, <1>3 DEF DeviceInv, Hearing, Silent, Admitted, Same
<1>5. Slotted(e)'
  BY DEF DeviceInv, Slotted, Same
<1> QED
  BY <1>1, <1>4, <1>5 DEF DeviceInv

(* A viewer is told something more.                                        *)
LEMMA SameHears ==
  ASSUME NEW e \in DeviceId, Same(e), toClient[e] \in Seq(Message), NEW msg \in Message,
         toClient'[e] = Append(toClient[e], msg), Listening(e), DeviceInv(e)
  PROVE  DeviceInv(e)'
<1>1. (Queues(e) /\ Calling(e) /\ Recorded(e))'
  BY SameKeepsRecord DEF DeviceInv
<1>2. /\ ~KnownByOld(e)' /\ ~KnownByOld(e) /\ Known(e) = toServer[e]
      /\ HasInfo(registry', e) /\ HasInfo(registry, e) /\ e \in up
  BY DEF Same, KnownByOld, HasInfo, Listening, KindIs, Known
<1>3. e \notin Game
  BY <1>2 DEF DeviceInv, Recorded, Listening, KindIs
<1>4. pending[e] = NoPending /\ ~Fresh(toServer[e])
  BY <1>2 DEF DeviceInv, Recorded, Unserved
<1>5. Hearing(e)'
  BY <1>2, <1>4 DEF Hearing, Admitted, Same, Listening
<1>6. Slotted(e)'
  BY <1>3 DEF Slotted
<1> QED
  BY <1>1, <1>5, <1>6 DEF DeviceInv

(* What a controller waits for or has does not change with messages of     *)
(* games.                                                                  *)
LEMMA DueKept ==
  ASSUME NEW c \in Controller, c \in listed' <=> c \in listed,
         \/ toClient'[c] = toClient[c]
         \/ /\ toClient[c] \in Seq(Message)
            /\ \E msg \in Message :
                 msg.method # "onList" /\ toClient'[c] = Append(toClient[c], msg)
  PROVE  ListIsDue(c)' => ListIsDue(c)
<1>1. CASE toClient'[c] = toClient[c]
  BY <1>1 DEF ListIsDue
<1>2. CASE toClient[c] \in Seq(Message) /\ toClient'[c] # toClient[c]
  <2>1. PICK msg \in Message :
          msg.method # "onList" /\ toClient'[c] = Append(toClient[c], msg)
    BY <1>2
  <2>2. /\ Len(toClient[c]) \in Nat /\ Len(toClient'[c]) = Len(toClient[c]) + 1
        /\ \A n \in 1 .. Len(toClient[c]) : toClient'[c][n] = toClient[c][n]
        /\ toClient'[c][Len(toClient[c]) + 1] = msg
    BY <1>2, <2>1, AppendProperties, LenProperties
  <2> QED
    BY <2>1, <2>2 DEF ListIsDue
<1> QED
  BY <1>1, <1>2

(* Whoever waits for or has a list listens.                                *)
LEMMA DueListens ==
  ASSUME NEW c \in Controller, DeviceInv(c), ListIsDue(c)
  PROVE  Listening(c) /\ Heard(c)
<1>1. c \in DeviceId /\ c \notin Game
  BY SessionAssumption
<1>2. Heard(c)
  BY DEF ListIsDue, Heard, OnRegister
<1>3. Admitted(c) /\ c # EmptyId /\ c \in up /\ ~KnownByOld(c)
  BY <1>2 DEF DeviceInv, Hearing, Silent
<1> QED
  BY <1>1, <1>2, <1>3 DEF Listening, KindIs, Admitted, DeviceInv, Recorded

(* What a step of d sends to the others: the viewers that listen are told  *)
(* of d, the rest nothing.                                                 *)
TellsOthers(d, msgs) ==
  \A e \in DeviceId \ {d} :
    toClient'[e] = IF Listening(e) THEN toClient[e] \o msgs ELSE toClient[e]

(* There is nothing to tell of d, or what is told of it is what is then    *)
(* recorded.                                                               *)
NoNews(d, msgs) ==
  msgs = <<>> /\ (d \in Game => \A infos : Agrees(infos, d) => Agrees(infos, d)')

GameNews(d, msgs) ==
  d \in Game /\ \E msg \in Message :
    msgs = <<msg>> /\ msg.method \in HostMethod /\ msg.info.dev = d /\ Agrees(Told(msg, d), d)'

(* What the engine sends arrives at the viewers that listen.               *)
LEMMA SentArrives ==
  ASSUME NEW d \in DeviceId, NEW msgs, toClient \in [DeviceId -> Seq(Message)],
         NEW reg, \A e \in DeviceId \ {d} : reg[e] = registry[e],
         ToOthers(reg, d, msgs), SendAll, up' = up,
         \A e \in DeviceId \ {d} : old'[e] = old[e]
  PROVE  TellsOthers(d, msgs)
<1> SUFFICES ASSUME NEW e \in DeviceId \ {d}
             PROVE  toClient'[e] = IF Listening(e) THEN toClient[e] \o msgs ELSE toClient[e]
  BY DEF TellsOthers
<1>1. KnownByOld(e)' <=> KnownByOld(e)
  BY DEF KnownByOld
<1>2. toClient'[e] = IF e \in up /\ ~KnownByOld(e) THEN toClient[e] \o sent'[e] ELSE toClient[e]
  BY <1>1 DEF SendAll
<1>3. toClient[e] \o <<>> = toClient[e]
  <2>1. toClient[e] \in Seq(Message)
    OBVIOUS
  <2> QED
    BY <2>1
<1>4. sent'[e] = IF KindIs(registry, e, "viewer") /\ e # EmptyId THEN msgs ELSE <<>>
  BY DEF ToOthers, KindIs, HasInfo
<1>5. CASE Listening(e)
  BY <1>2, <1>4, <1>5 DEF Listening
<1>6. CASE ~Listening(e)
  BY <1>2, <1>3, <1>4, <1>6 DEF Listening
<1> QED
  BY <1>5, <1>6

(* One message put behind a queue.                                         *)
LEMMA ConcatOne ==
  ASSUME NEW S, NEW q \in Seq(S), NEW x \in S
  PROVE  q \o <<x>> = Append(q, x) /\ q \o <<>> = q
  OBVIOUS

(* A game's list entry at a controller stays right when nothing about it   *)
(* moves.                                                                  *)
LEMMA AgreesKept ==
  ASSUME NEW g \in Game, NEW infos, registry'[g] = registry[g],
         g \in renewed => g \in renewed', Agrees(infos, g)
  PROVE  Agrees(infos, g)'
<1>1. Shown(g)' = Shown(g)
  BY DEF Shown, KindIs, HasInfo
<1> QED
  BY <1>1 DEF Agrees

(* The others keep their part of the invariant, and their lists.           *)
LEMMA OthersStep ==
  ASSUME SessionInv, NEW d \in DeviceId, NEW msgs,
         \A e \in DeviceId \ {d} : Same(e), TellsOthers(d, msgs),
         NoNews(d, msgs) \/ GameNews(d, msgs), hosts' = hosts,
         \A g \in Game \ {d} : g \in renewed => g \in renewed'
  PROVE  /\ \A e \in DeviceId \ {d} : DeviceInv(e)'
         /\ \A c \in Controller \ {d} : Listed(c)'
<1>1. /\ \A e \in DeviceId : toClient[e] \in Seq(Message) /\ DeviceInv(e)
      /\ Game \subseteq DeviceId /\ Controller \subseteq DeviceId
  BY SessionAssumption DEF SessionInv, SessionTypes
<1>2. ASSUME NEW e \in DeviceId \ {d}
      PROVE  \/ toClient'[e] = toClient[e]
             \/ /\ Listening(e) /\ GameNews(d, msgs)
                /\ \E msg \in Message : /\ msgs = <<msg>>
                                        /\ toClient'[e] = Append(toClient[e], msg)
  <2>1. toClient'[e] = IF Listening(e) THEN toClient[e] \o msgs ELSE toClient[e]
    BY <1>2 DEF TellsOthers
  <2>2. CASE NoNews(d, msgs)
    BY <1>1, <1>2, <2>1, <2>2, ConcatOne DEF NoNews
  <2>3. CASE GameNews(d, msgs)
    <3>1. PICK msg \in Message : msgs = <<msg>>
      BY <2>3 DEF GameNews
    <3>2. toClient[e] \o msgs = Append(toClient[e], msg)
      BY <1>1, <1>2, <3>1, ConcatOne
    <3> QED
      BY <2>1, <2>3, <3>1, <3>2
  <2> QED
    BY <2>2, <2>3
<1>3. ASSUME NEW e \in DeviceId \ {d}
      PROVE  DeviceInv(e)'
  BY <1>1, <1>2, <1>3, SameKeeps, SameHears
<1>4. ASSUME NEW c \in Controller \ {d}
      PROVE  Listed(c)'
  <2> SUFFICES ASSUME NEW g \in Game, ListIsDue(c)'
               PROVE  Agrees(SoonOf(hosts[c], toClient[c], g), g)'
    BY DEF Listed
  <2>1. c \in DeviceId \ {d} /\ Same(c)
    BY <1>1
  <2>2. \A msg \in Message : msg.method \in HostMethod => msg.method # "onList"
    BY DEF HostMethod
  <2>3. ListIsDue(c)
    <3>1. \/ toClient'[c] = toClient[c]
          \/ \E msg \in Message :
               msg.method # "onList" /\ toClient'[c] = Append(toClient[c], msg)
      <4>1. CASE toClient'[c] # toClient[c]
        <5>1. PICK m1 \in Message : msgs = <<m1>> /\ toClient'[c] = Append(toClient[c], m1)
          BY <1>2, <2>1, <4>1
        <5>2. PICK m2 \in Message : msgs = <<m2>> /\ m2.method \in HostMethod
          BY <1>2, <2>1, <4>1 DEF GameNews
        <5>3. m1 = m2
          BY <5>1, <5>2
        <5> QED
          BY <2>2, <5>1, <5>2, <5>3
      <4> QED
        BY <4>1
    <3> QED
      BY <1>1, <2>1, <3>1, DueKept DEF Same
  <2>4. PICK soon : soon = SoonOf(hosts[c], toClient[c], g)
    OBVIOUS
  <2>5. Agrees(soon, g)
    BY <2>3, <2>4 DEF SessionInv, Listed
  <2>6. Listening(c)
    BY <1>1, <2>1, <2>3, DueListens
  <2>7. hosts'[c] = hosts[c]
    OBVIOUS
  <2>8. CASE NoNews(d, msgs)
    <3>1. toClient'[c] = toClient[c]
      BY <1>1, <2>1, <2>6, <2>8, ConcatOne DEF TellsOthers, NoNews
    <3>2. SoonOf(hosts'[c], toClient'[c], g) = soon
      BY <2>4, <2>7, <3>1
    <3>3. Agrees(soon, g)'
      <4>1. CASE g = d
        BY <2>5, <2>8, <4>1 DEF NoNews
      <4>2. CASE g # d
        BY <1>1, <2>5, <4>2, AgreesKept DEF Same
      <4> QED
        BY <4>1, <4>2
    <3> QED
      BY <3>2, <3>3
  <2>9. CASE GameNews(d, msgs)
    <3>1. PICK msg \in Message : /\ msgs = <<msg>> /\ msg.method \in HostMethod
                                 /\ msg.info.dev = d /\ Agrees(Told(msg, d), d)'
      BY <2>9 DEF GameNews
    <3>2. toClient'[c] = Append(toClient[c], msg)
      BY <1>1, <2>1, <2>6, <3>1, ConcatOne DEF TellsOthers
    <3>3. SoonOf(hosts'[c], toClient'[c], g) = IF Tells(msg, g) THEN Told(msg, g) ELSE soon
      BY <1>1, <2>1, <2>4, <2>7, <3>2, SoonAppend
    <3>4. Tells(msg, g) <=> g = d
      BY <2>2, <3>1 DEF Tells
    <3>5. CASE g = d
      <4>1. SoonOf(hosts'[c], toClient'[c], g) = Told(msg, d)
        BY <3>3, <3>4, <3>5
      <4> QED
        BY <3>1, <3>5, <4>1
    <3>6. CASE g # d
      <4>1. SoonOf(hosts'[c], toClient'[c], g) = soon
        BY <3>3, <3>4, <3>6
      <4>2. Agrees(soon, g)'
        BY <1>1, <2>5, <3>6, AgreesKept DEF Same
      <4> QED
        BY <4>1, <4>2
    <3> QED
      BY <3>5, <3>6
  <2> QED
    BY <2>8, <2>9
<1> QED
  BY <1>3, <1>4

-----------------------------------------------------------------------------
(* The calls of a connection.                                              *)

(* A connection that was served its registration does not begin with it.   *)
LEMMA RunningNotFresh ==
  ASSUME NEW q, Running(q)
  PROVE  ~Fresh(q)
<1>1. SUFFICES ASSUME Fresh(q) PROVE FALSE
  OBVIOUS
<1>2. Len(q) >= 1 /\ q[1] = Reg /\ Len(q) \in Nat
  BY <1>1 DEF Fresh
<1>3. q[1].call \in {"list", "update"} \/ q[1] = Eof
  BY <1>2 DEF Running
<1> QED
  BY <1>2, <1>3 DEF Reg, Eof

(* What is left of the short sequences that begin a connection.            *)
LEMMA ShortTails ==
  /\ \A a : Tail(<<a>>) = <<>> /\ Len(<<a>>) = 1 /\ <<a>>[1] = a /\ Head(<<a>>) = a
  /\ \A a, b : Tail(<<a, b>>) = <<b>> /\ Head(<<a, b>>) = a
  OBVIOUS

(* Calls are told apart by their names, a lone end is a connection's end.  *)
LEMMA CallsApart ==
  /\ Reg \in Call /\ Eof \in Call /\ Reg # Eof
  /\ Reg.call = "register" /\ Eof.call = "eof"
  /\ Running(<<Eof>>) /\ Running(<<>>) /\ Ended(<<Eof>>)
  /\ ~Ended(<<>>) /\ ~Ended(Late) /\ ~Ended(<<Reg>>) /\ Ended(<<Reg, Eof>>)
  /\ Late # <<>>
<1>1. Reg # Eof /\ Reg.call = "register" /\ Eof.call = "eof"
  BY DEF Reg, Eof
<1>2. Reg \in Call /\ Eof \in Call
  BY DEF Reg, Eof, Call
<1>3. [call |-> "late end"] # Eof
  BY DEF Eof
<1> HIDE DEF Reg, Eof
<1>4. Running(<<Eof>>) /\ Running(<<>>)
  BY ShortTails DEF Running
<1>5. /\ Ended(<<Eof>>) /\ ~Ended(<<>>) /\ ~Ended(Late) /\ Late # <<>>
      /\ ~Ended(<<Reg>>) /\ Ended(<<Reg, Eof>>)
  BY <1>1, <1>3 DEF Ended, Late
<1> QED
  BY <1>1, <1>2, <1>4, <1>5

(* Once the first call, not an end, is served, the rest are calls of a     *)
(* connection that runs.                                                   *)
LEMMA RestOfCalls ==
  ASSUME NEW q \in Seq(Call), q # <<>>, Fresh(q) \/ Running(q), Head(q).call # "eof"
  PROVE  /\ Tail(q) \in Seq(Call) /\ Running(Tail(q)) /\ ~Fresh(Tail(q))
         /\ Ended(q) <=> Ended(Tail(q))
         /\ \A n \in 1 .. Len(Tail(q)) : (n + 1) \in 1 .. Len(q) /\ Tail(q)[n] = q[n + 1]
         /\ Fresh(q) => Tail(q) \in {<<>>, <<Eof>>}
<1> DEFINE rest == Tail(q)
<1>1. /\ Len(q) \in Nat /\ Len(q) >= 1 /\ rest \in Seq(Call) /\ Len(rest) = Len(q) - 1
      /\ \A n \in 1 .. Len(rest) : (n + 1) \in 1 .. Len(q) /\ rest[n] = q[n + 1]
      /\ Head(q) = q[1]
  BY HeadTailProperties, LenProperties, EmptySeq
<1>2. Fresh(q) => rest \in {<<>>, <<Eof>>}
  BY ShortTails DEF Fresh
<1> HIDE DEF rest
<1>3. q[1] # Eof
  BY <1>1 DEF Eof
<1>4. Running(rest)
  <2>1. CASE Fresh(q)
    <3>1. rest = <<>> \/ rest = <<Eof>>
      BY <1>2, <2>1
    <3> QED
      BY <3>1, CallsApart
  <2>2. CASE Running(q)
    BY <1>1, <2>2 DEF Running
  <2> QED
    BY <2>1, <2>2
<1>5. Ended(q) <=> Ended(rest)
  <2>1. Len(rest) >= 1 => rest[Len(rest)] = q[Len(q)]
    BY <1>1
  <2>2. rest = <<>> <=> Len(rest) = 0
    BY <1>1, EmptySeq
  <2> QED
    BY <1>1, <1>3, <2>1, <2>2 DEF Ended
<1> QED
  BY <1>1, <1>2, <1>4, <1>5, RunningNotFresh DEF rest

(* Nothing follows the end of a connection.                                *)
LEMMA EndIsLast ==
  ASSUME NEW q \in Seq(Call), q # <<>>, Fresh(q) \/ Running(q), Head(q).call = "eof"
  PROVE  q = <<Eof>> /\ Tail(q) = <<>> /\ Ended(q)
<1>1. Len(q) \in Nat /\ Len(q) >= 1 /\ Head(q) = q[1]
  BY HeadTailProperties, LenProperties, EmptySeq
<1>2. ~Fresh(q)
  <2>1. SUFFICES ASSUME Fresh(q) PROVE FALSE
    OBVIOUS
  <2> QED
    BY <2>1, <1>1 DEF Fresh, Reg
<1>3. q[1] = Eof /\ Len(q) = 1
  <2>1. 1 \in 1 .. Len(q) /\ q[1].call = "eof"
    BY <1>1
  <2>2. q[1].call \in {"list", "update"} \/ (q[1] = Eof /\ 1 = Len(q))
    BY <1>2, <2>1 DEF Running
  <2> QED
    BY <2>1, <2>2
<1>4. q = <<Eof>>
  <2>1. <<Eof>> \in Seq(Call) /\ Len(<<Eof>>) = 1 /\ <<Eof>>[1] = Eof
    BY CallsApart, ShortTails
  <2> QED
    BY <1>3, <2>1, SeqEqual
<1> QED
  BY <1>4, ShortTails, CallsApart

(* Nothing, or an end, asks for nothing.                                   *)
LEMMA EofsOnly ==
  ASSUME NEW q \in {<<>>, <<Eof>>}
  PROVE  \A n \in 1 .. Len(q) : q[n].call \notin {"list", "update"}
<1>1. CASE q = <<>>
  BY <1>1
<1>2. CASE q = <<Eof>>
  BY <1>2, CallsApart, ShortTails
<1> QED
  BY <1>1, <1>2

(* The application serves a call of d that is not an end.                  *)
LEMMA PopCall ==
  ASSUME NEW d \in DeviceId, toServer \in [DeviceId -> Seq(Call)],
         old \in [DeviceId -> Seq(Call)], Queues(d), up' = up,
         Known(d) # <<>>, Head(Known(d)).call # "eof", Pop(d)
  PROVE  /\ toServer' \in [DeviceId -> Seq(Call)] /\ old' \in [DeviceId -> Seq(Call)]
         /\ \A e \in DeviceId \ {d} : toServer'[e] = toServer[e] /\ old'[e] = old[e]
         /\ KnownByOld(d)' <=> KnownByOld(d)
         /\ Known(d)' = Tail(Known(d))
         /\ Queues(d)' /\ ~Unserved(d)'
<1> DEFINE q == Known(d)
           r == Tail(Known(d))
<1>1. q \in Seq(Call) /\ (Fresh(q) \/ Running(q))
  BY DEF Known, Queues
<1>2. /\ r \in Seq(Call) /\ Running(r) /\ ~Fresh(r) /\ (Ended(q) <=> Ended(r))
  BY <1>1, RestOfCalls
<1>3. Ended(r) => r # <<>> /\ r # Late
  BY CallsApart
<1>4. CASE KnownByOld(d)
  <2>1. q = old[d] /\ Ended(q) /\ toServer' = toServer /\ old' = [old EXCEPT ![d] = r]
    BY <1>4 DEF Known, Pop, Queues
  <2> HIDE DEF q, r
  <2>2. old'[d] = r /\ \A e \in DeviceId \ {d} : old'[e] = old[e]
    BY <2>1
  <2>3. KnownByOld(d)'
    BY <1>2, <1>3, <2>1, <2>2 DEF KnownByOld
  <2>4. Known(d)' = r
    BY <2>2, <2>3 DEF Known
  <2>5. Queues(d)'
    BY <1>2, <1>4, <2>1, <2>2 DEF Queues
  <2>6. ~Unserved(d)'
    BY <1>2, <2>3, <2>4 DEF Unserved
  <2> QED
    BY <1>2, <1>4, <2>1, <2>2, <2>3, <2>4, <2>5, <2>6 DEF r
<1>5. CASE ~KnownByOld(d)
  <2>1. q = toServer[d] /\ old' = old /\ toServer' = [toServer EXCEPT ![d] = r]
    BY <1>5 DEF Known, Pop
  <2> HIDE DEF q, r
  <2>2. toServer'[d] = r /\ \A e \in DeviceId \ {d} : toServer'[e] = toServer[e]
    BY <2>1
  <2>3. ~KnownByOld(d)'
    BY <1>5, <2>1 DEF KnownByOld
  <2>4. Known(d)' = r
    BY <2>2, <2>3 DEF Known
  <2>5. Queues(d)'
    BY <1>2, <1>3, <1>5, <2>1, <2>2, <2>3 DEF Queues, q
  <2>6. ~Unserved(d)'
    BY <1>2, <1>3, <1>5, <2>1, <2>2, <2>3, <2>4 DEF Unserved, Queues, q
  <2> QED
    BY <1>2, <1>5, <2>1, <2>2, <2>3, <2>4, <2>5, <2>6 DEF r
<1> QED
  BY <1>4, <1>5

-----------------------------------------------------------------------------
(* The application's steps.                                                *)

(* A step of the application for d: what it does for d is right, and the   *)
(* others are told what is recorded of d.                                  *)
LEMMA ServerStep ==
  ASSUME Cardinality(DeviceId) <= MaxSlot, SessionInv, NEW d \in DeviceId, NEW msgs,
         [DisciplinedNext]_vars, SendAll,
         UNCHANGED clientVars, UNCHANGED <<local_device, auto_approve>>,
         toServer' \in [DeviceId -> Seq(Call)], old' \in [DeviceId -> Seq(Call)],
         \A e \in DeviceId \ {d} :
           /\ toServer'[e] = toServer[e] /\ old'[e] = old[e]
           /\ pending'[e] = pending[e] /\ registry'[e] = registry[e],
         ToOthers(registry, d, msgs),
         NoNews(d, msgs) \/ GameNews(d, msgs),
         \A g \in Game \ {d} : g \in renewed => g \in renewed',
         DeviceInv(d)', d \in Controller => Listed(d)'
  PROVE  SessionInv'
<1>1. SlotsInv'
  BY SlotsInvStep DEF SessionInv
<1>2. toClient' \in [DeviceId -> Seq(Message)]
  <2>1. sent' \in [DeviceId -> Seq(Message)]
    BY <1>1 DEF SlotsInv, TypeInv, TypeOK
  <2>2. \A e \in DeviceId : toClient[e] \o sent'[e] \in Seq(Message)
    <3> TAKE e \in DeviceId
    <3>1. toClient[e] \in Seq(Message) /\ sent'[e] \in Seq(Message)
      BY <2>1 DEF SessionInv, SessionTypes
    <3> QED
      BY <3>1, ConcatProperties
  <2>3. \A e \in DeviceId : toClient[e] \in Seq(Message)
    BY DEF SessionInv, SessionTypes
  <2> QED
    BY <2>2, <2>3 DEF SendAll
<1>3. SessionTypes'
  BY <1>2 DEF SessionInv, SessionTypes, clientVars
<1>4. \A e \in DeviceId \ {d} : Same(e)
  BY DEF Same, clientVars
<1>5. TellsOthers(d, msgs)
  <2>1. toClient \in [DeviceId -> Seq(Message)] /\ up' = up
    BY DEF SessionInv, SessionTypes, clientVars
  <2> QED
    BY <2>1, SentArrives
<1>6. /\ \A e \in DeviceId \ {d} : DeviceInv(e)'
      /\ \A c \in Controller \ {d} : Listed(c)'
  <2>1. hosts' = hosts
    BY DEF clientVars
  <2> QED
    BY <1>4, <1>5, <2>1, OthersStep
<1> QED
  BY <1>1, <1>3, <1>6 DEF SessionInv

(* What d finds in its queue after a step of the application.              *)
LEMMA OwnQueue ==
  ASSUME NEW d \in DeviceId, SendAll, up' = up, Silent(d)
  PROVE  /\ toClient'[d] = IF d \in up /\ ~KnownByOld(d)' THEN sent'[d] ELSE <<>>
         /\ toClient'[d] # <<>> =>
              toClient'[d] = sent'[d] /\ d \in up' /\ ~KnownByOld(d)'
<1>1. toClient[d] = <<>>
  BY DEF Silent
<1>2. toClient'[d] = IF d \in up /\ ~KnownByOld(d)' THEN <<>> \o sent'[d] ELSE <<>>
  BY <1>1 DEF SendAll
<1> QED
  BY <1>2

Greeting(msg, d, i) ==
  \/ msg \in {OnRegister(TRUE), OnRegister(FALSE)}
  \/ d \in Game /\ msg = [method |-> "onHostConnected", info |-> i]

Greets(q, d, i) == \A n \in 1 .. Len(q) : Greeting(q[n], d, i)

(* An answer and at most one announcement.                                 *)
LEMMA AnswerAndNews ==
  ASSUME NEW d, NEW i
  PROVE  Greets(<<OnRegister(TRUE)>> \o ConnectNews(d, i), d, i)
<1> DEFINE x == OnRegister(TRUE)
           y == [method |-> "onHostConnected", info |-> i]
<1>1. PICK q : q = <<x>> \o ConnectNews(d, i)
  OBVIOUS
<1>2. Greeting(x, d, i) /\ (d \in Game => Greeting(y, d, i))
  BY DEF Greeting
<1>3. CASE d \in Game
  <2>1. q = <<x>> \o <<y>>
    BY <1>1, <1>3 DEF ConnectNews
  <2> HIDE DEF x, y
  <2>2. Len(q) = 2 /\ q[1] = x /\ q[2] = y
    BY <2>1
  <2>3. \A n \in 1 .. Len(q) : n = 1 \/ n = 2
    BY <2>2
  <2>4. \A n \in 1 .. Len(q) : Greeting(q[n], d, i)
    BY <1>2, <1>3, <2>2, <2>3
  <2> QED
    BY <1>1, <2>4, Zenon DEF Greets, x, y
<1>4. CASE d \notin Game
  <2>1. q = <<x>> \o <<>>
    BY <1>1, <1>4 DEF ConnectNews
  <2> HIDE DEF x, y
  <2>2. Len(q) = 1 /\ q[1] = x
    BY <2>1
  <2>3. \A n \in 1 .. Len(q) : Greeting(q[n], d, i)
    BY <1>2, <2>2
  <2> QED
    BY <1>1, <2>3, Zenon DEF Greets, x, y
<1> QED
  BY <1>3, <1>4

(* Greetings behind greetings.                                             *)
LEMMA GreetsMore ==
  ASSUME NEW d, NEW i, NEW q \in Seq(Message), NEW r \in Seq(Message),
         Greets(q, d, i), Greets(r, d, i)
  PROVE  Greets(q \o r, d, i)
<1> DEFINE c == q \o r
<1>1. /\ Len(q) \in Nat /\ Len(r) \in Nat /\ Len(c) = Len(q) + Len(r)
      /\ \A n \in 1 .. Len(c) : c[n] = IF n <= Len(q) THEN q[n] ELSE r[n - Len(q)]
  BY ConcatProperties, LenProperties
<1> HIDE DEF c
<1>2. \A n \in 1 .. Len(c) : Greeting(c[n], d, i)
  <2> TAKE n \in 1 .. Len(c)
  <2>1. CASE n <= Len(q)
    BY <1>1, <2>1 DEF Greets
  <2>2. CASE ~(n <= Len(q))
    <3>1. (n - Len(q)) \in 1 .. Len(r)
      BY <1>1, <2>2
    <3> QED
      BY <1>1, <2>2, <3>1 DEF Greets
  <2> QED
    BY <2>1, <2>2
<1> QED
  BY <1>2 DEF Greets, c

(* A device that heard nothing yet is admitted: its record, and what it    *)
(* hears.                                                                  *)
LEMMA AdmittedDevice ==
  ASSUME NEW d \in DeviceId, NEW i \in WireInfo, SendAll, UNCHANGED clientVars,
         ~Heard(d), toClient[d] \in Seq(Message), sent'[d] \in Seq(Message),
         d \notin up \/ KnownByOld(d)' => toClient[d] = <<>>,
         HasInfo(registry', d), registry'[d].kind = OwnKind(d), pending'[d] = NoPending,
         d \in Game => registry'[d].slot > 0 /\ i.slot = registry'[d].slot,
         sent'[d] = IF d = EmptyId THEN <<>> ELSE <<OnRegister(TRUE)>> \o ConnectNews(d, i),
         Queues(d)', ~Unserved(d)',
         \A n \in 1 .. Len(Known(d)') : Known(d)'[n].call \notin {"list", "update"}
  PROVE  DeviceInv(d)' /\ (d \in Controller => Listed(d)')
<1>1. toClient'[d] = IF d \in up /\ ~KnownByOld(d)' THEN toClient[d] \o sent'[d]
                                                    ELSE toClient[d]
  BY DEF SendAll, clientVars
<1>2. Greets(toClient[d], d, i)
  BY DEF Heard, Greets, Greeting
<1>3. Greets(sent'[d], d, i)
  <2>1. CASE d = EmptyId
    BY <2>1 DEF Greets
  <2>2. CASE d # EmptyId
    <3>1. sent'[d] = <<OnRegister(TRUE)>> \o ConnectNews(d, i)
      BY <2>2
    <3> QED
      BY <3>1, AnswerAndNews, Zenon
  <2> QED
    BY <2>1, <2>2
<1>4. Greets(toClient'[d], d, i)
  BY <1>1, <1>2, <1>3, GreetsMore
<1>5. ~KnownByOld(d)' => ~Fresh(toServer'[d])
  BY DEF Unserved, Known
<1>6. \/ toClient'[d] = toClient[d]
      \/ d \in up' /\ ~KnownByOld(d)' /\ d # EmptyId
  <2>1. toClient[d] \o <<>> = toClient[d]
    OBVIOUS
  <2> QED
    BY <1>1, <2>1 DEF clientVars
<1>7. toClient'[d] = toClient[d] => ~Heard(d)'
  BY DEF Heard, clientVars
<1>8. Hearing(d)'
  BY <1>5, <1>6, <1>7 DEF Hearing, Silent, Admitted, clientVars
<1>9. Calling(d)'
  <2>1. PICK q : q = Known(d)'
    OBVIOUS
  <2>2. \A n \in 1 .. Len(q) : q[n].call \notin {"list", "update"}
    BY <2>1
  <2> QED
    BY <2>1, <2>2 DEF Calling
<1>10. Recorded(d)'
  BY DEF Recorded, OwnKind
<1>11. Slotted(d)'
  BY <1>4 DEF Slotted, Heard, clientVars, OnRegister, Greets, Greeting
<1>12. ASSUME d \in Controller
      PROVE  Listed(d)'
  <2>1. d \notin Game
    BY <1>12, SessionAssumption
  <2>2. \A n \in 1 .. Len(toClient'[d]) : toClient'[d][n].method # "onList"
    BY <1>4, <2>1 DEF Greets, Greeting, OnRegister
  <2>3. ~ListIsDue(d)'
    BY <2>2 DEF ListIsDue, Heard, clientVars
  <2> QED
    BY <2>3 DEF Listed
<1> QED
  BY <1>8, <1>9, <1>10, <1>11, <1>12 DEF DeviceInv

(* What is told of a game that is admitted is what is then recorded of it; *)
(* over an older record, at least the slot.                                *)
LEMMA AdmissionNews ==
  ASSUME NEW d \in DeviceId, NEW i \in WireInfo, i.dev = d, registry' \in RegType,
         HasInfo(registry', d), registry'[d].kind = OwnKind(d),
         d \in Game => /\ i.slot = registry'[d].slot
                       /\ ~HasInfo(registry, d) => i = OnWire(registry'[d]),
         ~HasInfo(registry, d) \/ d \in renewed'
  PROVE  NoNews(d, ConnectNews(d, i)) \/ GameNews(d, ConnectNews(d, i))
<1>1. CASE d \notin Game
  BY <1>1 DEF NoNews, ConnectNews
<1>2. CASE d \in Game
  <2> DEFINE msg == [method |-> "onHostConnected", info |-> i]
  <2>1. msg \in Message /\ msg.method \in HostMethod /\ msg.info.dev = d
    BY DEF Message, HostMethod
  <2>2. ConnectNews(d, i) = <<msg>> /\ Told(msg, d) = {i}
    BY <1>2 DEF ConnectNews, Told
  <2>3. Shown(d)' = {OnWire(registry'[d])}
    BY <1>2 DEF Shown, KindIs, OwnKind
  <2>4. PICK r : r = registry'[d]
    OBVIOUS
  <2>5. r \in Info
    BY <2>4, HasInfoType
  <2>6. OnWire(r).slot = r.slot
    BY <2>5 DEF OnWire, Info
  <2>7. Slots({i}) = Slots({OnWire(r)})
    BY <1>2, <2>4, <2>6 DEF Slots
  <2>8. Agrees({i}, d)'
    BY <1>2, <2>3, <2>4, <2>7 DEF Agrees
  <2> QED
    BY <1>2, <2>1, <2>2, <2>8 DEF GameNews
<1> QED
  BY <1>1, <1>2

(* A registration that is admitted at once.                                *)
LEMMA RegisterAdmitted ==
  ASSUME Cardinality(DeviceId) <= MaxSlot, SessionInv, NEW d \in DeviceId, auto_approve,
         RegistryRegister(d, OwnInfo(d, 0, NoPlayers)), SendAll, UNCHANGED clientVars,
         Silent(d), pending[d] = NoPending,
         toServer' \in [DeviceId -> Seq(Call)], old' \in [DeviceId -> Seq(Call)],
         \A e \in DeviceId \ {d} : toServer'[e] = toServer[e] /\ old'[e] = old[e],
         Queues(d)', ~Unserved(d)', Known(d)' \in {<<>>, <<Eof>>},
         ~HasInfo(registry, d) \/ d \in renewed',
         \A g \in Game \ {d} : g \in renewed => g \in renewed'
  PROVE  SessionInv' /\ [DisciplinedNext]_vars
<1> DEFINE reg == Touch(registry, d)
<1>1. /\ local_device = NoLocal /\ registry \in RegType /\ Keyed(registry) /\ TypeInv
      /\ Exact(registry, used_slots)
  BY TypeInvParts DEF SessionInv, SessionTypes, SlotsInv, StoreOK
<1>2. /\ Admit(reg, OwnInfo(d, 0, NoPlayers), d)
      /\ UNCHANGED <<pending, auto_approve, local_device>>
  BY <1>1 DEF RegistryRegister, IsServer
<1>3. reg \in RegType /\ Keyed(reg) /\ Exact(reg, used_slots)
  BY <1>1, TouchType, TouchSlot, ExactFrame
<1>4. /\ \A e \in DeviceId \ {d} : reg[e] = registry[e]
      /\ HasInfo(reg, d) <=> HasInfo(registry, d)
  BY <1>1 DEF Touch, HasInfo, RegType
<1> HIDE DEF reg
<1>5. PICK i \in WireInfo :
        /\ i.dev = d
        /\ OthersKept(reg, d)
        /\ HasInfo(registry', d) /\ registry'[d].kind = OwnKind(d)
        /\ d \in Game => /\ registry'[d].slot > 0 /\ i.slot = registry'[d].slot
                         /\ ~HasInfo(reg, d) => i = OnWire(registry'[d])
        /\ sent'[d] = IF d = EmptyId THEN <<>>
                      ELSE <<OnRegister(TRUE)>> \o ConnectNews(d, i)
        /\ ToOthers(reg, d, ConnectNews(d, i))
  BY <1>2, <1>3, AdmitEffect
<1>6. [DisciplinedNext]_vars
  <2>1. \E call \in RegisterCall : RegistryRegister(call[1], call[2])
    <3> DEFINE call == <<d, OwnInfo(d, 0, NoPlayers)>>
    <3>1. call \in RegisterCall /\ call[1] = d /\ call[2] = OwnInfo(d, 0, NoPlayers)
      BY OwnInfoType
    <3> QED
      BY <3>1
  <2> QED
    BY <2>1 DEF DisciplinedNext, Common
<1>7. registry' \in RegType /\ sent'[d] \in Seq(Message)
  <2>1. SlotsInv'
    BY <1>6, SlotsInvStep DEF SessionInv
  <2>2. TypeOK'
    BY <2>1 DEF SlotsInv, TypeInv
  <2> QED
    BY <2>2 DEF TypeOK, RegType
<1>8. ToOthers(registry, d, ConnectNews(d, i))
  BY <1>4, <1>5 DEF ToOthers, KindIs, HasInfo
<1>9. NoNews(d, ConnectNews(d, i)) \/ GameNews(d, ConnectNews(d, i))
  BY <1>4, <1>5, <1>7, AdmissionNews
<1>10. DeviceInv(d)' /\ (d \in Controller => Listed(d)')
  <2>1. \A n \in 1 .. Len(Known(d)') : Known(d)'[n].call \notin {"list", "update"}
    BY CallsApart, EofsOnly
  <2>2. ~Heard(d) /\ toClient[d] = <<>> /\ toClient[d] \in Seq(Message)
    BY DEF Silent
  <2> QED
    BY <1>2, <1>5, <1>7, <2>1, <2>2, AdmittedDevice
<1>11. \A e \in DeviceId \ {d} : pending'[e] = pending[e] /\ registry'[e] = registry[e]
  BY <1>2, <1>4, <1>5 DEF OthersKept
<1> QED
  BY <1>2, <1>6, <1>8, <1>9, <1>10, <1>11, ServerStep

(* A registration that is left for the application to decide.              *)
LEMMA RegisterDeferred ==
  ASSUME Cardinality(DeviceId) <= MaxSlot, SessionInv, NEW d \in DeviceId, ~auto_approve,
         RegistryRegister(d, OwnInfo(d, 0, NoPlayers)), SendAll, UNCHANGED clientVars,
         UNCHANGED renewed, Silent(d), pending[d] = NoPending, ~HasInfo(registry, d),
         toServer' \in [DeviceId -> Seq(Call)], old' \in [DeviceId -> Seq(Call)],
         \A e \in DeviceId \ {d} : toServer'[e] = toServer[e] /\ old'[e] = old[e],
         Queues(d)', ~Unserved(d)', Known(d)' \in {<<>>, <<Eof>>}
  PROVE  SessionInv' /\ [DisciplinedNext]_vars
<1> DEFINE info == OwnInfo(d, 0, NoPlayers)
<1>1. /\ local_device = NoLocal /\ registry \in RegType
      /\ DenyOnDisconnect /\ ~TakeOvers
      /\ pending \in [DeviceId -> PendingEntry \cup {NoPending}]
  BY TypeInvParts DEF SessionInv, SessionTypes, SlotsInv, StoreOK, PendingOK
<1>2. info.dev = d
  BY DEF OwnInfo
<1>3. /\ pending' = [pending EXCEPT ![d] = [info |-> info, target |-> d]]
      /\ registry' = Touch(registry, d) /\ sent' = Quiet
      /\ UNCHANGED <<used_slots, auto_approve, local_device>>
  BY <1>1, <1>2 DEF RegistryRegister, Deferred, IsServer
<1>4. /\ \A e \in DeviceId \ {d} : registry'[e] = registry[e] /\ pending'[e] = pending[e]
      /\ ~HasInfo(registry', d) /\ pending'[d] = [info |-> info, target |-> d]
  BY <1>1, <1>3 DEF Touch, HasInfo, RegType
<1>5. [DisciplinedNext]_vars
  <2>1. \E call \in RegisterCall : RegistryRegister(call[1], call[2])
    <3> DEFINE call == <<d, OwnInfo(d, 0, NoPlayers)>>
    <3>1. call \in RegisterCall /\ call[1] = d /\ call[2] = OwnInfo(d, 0, NoPlayers)
      BY OwnInfoType
    <3> QED
      BY <3>1
  <2> QED
    BY <2>1 DEF DisciplinedNext, Common
<1>6. \A e \in DeviceId : sent'[e] = <<>>
  BY <1>3 DEF Quiet
<1>7. ToOthers(registry, d, <<>>)
  BY <1>6 DEF ToOthers
<1>8. NoNews(d, <<>>)
  <2>1. Shown(d) = {} /\ Shown(d)' = {}
    BY <1>4 DEF Shown, KindIs
  <2> QED
    BY <2>1 DEF NoNews, Agrees
<1>9. toClient'[d] = <<>>
  <2>1. up' = up
    BY DEF clientVars
  <2> QED
    BY <1>6, <2>1, OwnQueue
<1>10. Silent(d)' /\ ~Heard(d)'
  BY <1>9 DEF Silent, Heard, clientVars
<1>11. Hearing(d)' /\ Slotted(d)'
  BY <1>9, <1>10 DEF Hearing, Slotted, Heard
<1>12. Calling(d)'
  <2>1. PICK q : q = Known(d)' /\ (q = <<>> \/ q = <<Eof>>)
    OBVIOUS
  <2>2. \A n \in 1 .. Len(q) : q[n].call \notin {"list", "update"}
    BY <2>1, EofsOnly
  <2> QED
    BY <2>1, <2>2 DEF Calling
<1>13. Recorded(d)'
  BY <1>1, <1>4 DEF Recorded
<1>14. d \in Controller => Listed(d)'
  BY <1>9, <1>10 DEF Listed, ListIsDue, Heard
<1>15. DeviceInv(d)'
  BY <1>11, <1>12, <1>13 DEF DeviceInv
<1> QED
  BY <1>3, <1>4, <1>5, <1>7, <1>8, <1>14, <1>15, ServerStep

(* The first call of a connection is served: the registration.             *)
LEMMA ServeRegister ==
  ASSUME Cardinality(DeviceId) <= MaxSlot, SessionInv, NEW d \in DeviceId,
         Known(d) # <<>>, Head(Known(d)).call = "register",
         RegistryRegister(d, OwnInfo(d, 0, NoPlayers)),
         Pop(d), SendAll, UNCHANGED clientVars, UNCHANGED renewed
  PROVE  SessionInv' /\ [DisciplinedNext]_vars
<1> DEFINE q == Known(d)
<1>1. /\ toServer \in [DeviceId -> Seq(Call)] /\ old \in [DeviceId -> Seq(Call)]
      /\ DeviceInv(d) /\ up' = up
  BY DEF SessionInv, SessionTypes, clientVars
<1>2. q \in Seq(Call) /\ (Fresh(q) \/ Running(q))
  BY <1>1 DEF Known, DeviceInv, Queues
<1>3. Fresh(q)
  <2>1. Len(q) \in Nat /\ Len(q) >= 1 /\ Head(q) = q[1]
    BY <1>2, HeadTailProperties, LenProperties, EmptySeq
  <2>2. 1 \in 1 .. Len(q) /\ q[1].call = "register" /\ q[1] # Eof
    BY <2>1, CallsApart
  <2>3. ~Running(q)
    BY <2>2 DEF Running
  <2> QED
    BY <1>2, <2>3
<1>4. Tail(q) \in {<<>>, <<Eof>>}
  BY <1>2, <1>3, RestOfCalls
<1>5. Silent(d) /\ pending[d] = NoPending /\ ~HasInfo(registry, d)
  BY <1>1, <1>3 DEF DeviceInv, Hearing, Recorded, Unserved, Known
<1>6. /\ toServer' \in [DeviceId -> Seq(Call)] /\ old' \in [DeviceId -> Seq(Call)]
      /\ \A e \in DeviceId \ {d} : toServer'[e] = toServer[e] /\ old'[e] = old[e]
      /\ Known(d)' = Tail(q) /\ Queues(d)' /\ ~Unserved(d)'
  BY <1>1, PopCall DEF DeviceInv
<1>7. CASE auto_approve
  BY <1>4, <1>5, <1>6, <1>7, RegisterAdmitted
<1>8. CASE ~auto_approve
  BY <1>4, <1>5, <1>6, <1>8, RegisterDeferred
<1> QED
  BY <1>7, <1>8

(* A call of a registered device is served: its other calls still fit its  *)
(* record, which keeps kind and slot.                                      *)
LEMMA CallServed ==
  ASSUME NEW d \in DeviceId, Known(d) \in Seq(Call), Known(d) # <<>>, DeviceInv(d),
         Fresh(Known(d)) \/ Running(Known(d)), Head(Known(d)).call # "eof",
         Known(d)' = Tail(Known(d)), ~Unserved(d)',
         HasInfo(registry, d), HasInfo(registry', d),
         registry'[d].kind = registry[d].kind, registry'[d].slot = registry[d].slot,
         pending[d] = NoPending, pending'[d] = NoPending
  PROVE  Calling(d)' /\ Recorded(d)' /\ Admitted(d)'
<1>1. Recorded(d)' /\ Admitted(d)'
  BY DEF DeviceInv, Recorded, Admitted
<1>2. PICK q, r : q = Known(d) /\ r = Known(d)'
  OBVIOUS
<1>3. \A n \in 1 .. Len(r) : (n + 1) \in 1 .. Len(q) /\ r[n] = q[n + 1]
  BY <1>2, RestOfCalls
<1>4. \A n \in 1 .. Len(q) : q[n].call \in {"list", "update"} =>
        /\ q[n].call = "list" => d \in Controller
        /\ q[n].call = "update" =>
             d \in Game /\ \E p \in Counts : q[n].info = OwnInfo(d, registry[d].slot, p)
  BY <1>2 DEF DeviceInv, Calling
<1>5. \A n \in 1 .. Len(r) : r[n].call \in {"list", "update"} =>
        /\ r[n].call = "list" => d \in Controller
        /\ r[n].call = "update" =>
             d \in Game /\ \E p \in Counts : r[n].info = OwnInfo(d, registry'[d].slot, p)
  BY <1>3, <1>4
<1>6. Calling(d)'
  BY <1>1, <1>2, <1>5 DEF Calling
<1> QED
  BY <1>1, <1>6

(* The call that is served first is one the device may make.               *)
LEMMA FirstCall ==
  ASSUME SessionInv, NEW d \in DeviceId, Known(d) # <<>>,
         Head(Known(d)).call \in {"list", "update"}
  PROVE  /\ Known(d) \in Seq(Call) /\ (Fresh(Known(d)) \/ Running(Known(d)))
         /\ Head(Known(d)).call # "eof"
         /\ Admitted(d) /\ registry[d].kind = OwnKind(d)
         /\ Head(Known(d)).call = "list" => d \in Controller
         /\ Head(Known(d)).call = "update" =>
              d \in Game /\ \E p \in Counts :
                 Head(Known(d)).info = OwnInfo(d, registry[d].slot, p)
<1> DEFINE q == Known(d)
<1>1. /\ toServer \in [DeviceId -> Seq(Call)] /\ old \in [DeviceId -> Seq(Call)]
      /\ DeviceInv(d)
  BY DEF SessionInv, SessionTypes
<1>2. q \in Seq(Call) /\ (Fresh(q) \/ Running(q))
  BY <1>1 DEF Known, DeviceInv, Queues
<1>3. Len(q) \in Nat /\ Len(q) >= 1 /\ Head(q) = q[1]
  BY <1>2, HeadTailProperties, LenProperties, EmptySeq
<1>4. 1 \in 1 .. Len(q)
  BY <1>3
<1> HIDE DEF q
<1>5. /\ Admitted(d)
      /\ q[1].call = "list" => d \in Controller
      /\ q[1].call = "update" =>
           d \in Game /\ \E p \in Counts : q[1].info = OwnInfo(d, registry[d].slot, p)
  BY <1>1, <1>3, <1>4 DEF DeviceInv, Calling, q
<1>6. registry[d].kind = OwnKind(d)
  BY <1>1, <1>5 DEF DeviceInv, Recorded, Admitted, OwnKind
<1> QED
  BY <1>2, <1>3, <1>5, <1>6 DEF q

(* The list a viewer is answered with shows each game as it is recorded.   *)
LEMMA ListShows ==
  ASSUME registry \in RegType, Keyed(registry),
         NEW msg, msg = OnList(InfosForViewer(registry, "viewer"))
  PROVE  msg \in Message /\ \A g \in Game : Tells(msg, g) /\ Told(msg, g) = Shown(g)
<1> DEFINE infos == InfosForViewer(registry, "viewer")
<1>1. infos = {registry[e] : e \in {f \in DeviceId : KindIs(registry, f, "game")}}
  BY DEF InfosForViewer
<1>2. \A x \in infos : x \in Info /\ OnWire(x).dev = x.dev /\ OnWire(x) \in WireInfo
  <2> TAKE x \in infos
  <2>1. PICK e \in DeviceId : KindIs(registry, e, "game") /\ x = registry[e]
    BY <1>1
  <2>2. x \in Info
    BY <2>1, HasInfoType DEF KindIs
  <2> QED
    BY <2>2, OnWireType DEF OnWire, Info
<1> HIDE DEF infos
<1>3. msg = [method |-> "onList", hosts |-> {OnWire(x) : x \in infos}]
  BY DEF OnList, infos
<1>4. msg \in Message
  <2>1. {OnWire(x) : x \in infos} \in SUBSET WireInfo
    BY <1>2
  <2> QED
    BY <1>3, <2>1 DEF Message
<1>5. ASSUME NEW g \in Game
      PROVE  Tells(msg, g) /\ Told(msg, g) = Shown(g)
  <2>1. g \in DeviceId
    BY SessionAssumption
  <2>2. {x \in infos : x.dev = g} = IF KindIs(registry, g, "game") THEN {registry[g]} ELSE {}
    BY <1>1, <2>1 DEF Keyed, KindIs
  <2>3. {y \in {OnWire(x) : x \in infos} : y.dev = g}
          = {OnWire(x) : x \in {z \in infos : z.dev = g}}
    BY <1>2
  <2>4. Told(msg, g) = Shown(g)
    BY <1>3, <2>2, <2>3 DEF Told, Shown
  <2> QED
    BY <1>3, <2>4 DEF Tells
<1> QED
  BY <1>4, <1>5

(* A call for the host list is served.                                     *)
LEMMA ServeList ==
  ASSUME Cardinality(DeviceId) <= MaxSlot, SessionInv, NEW d \in DeviceId,
         Known(d) # <<>>, Head(Known(d)).call = "list", RegistryList(d),
         Pop(d), SendAll, UNCHANGED clientVars, UNCHANGED renewed
  PROVE  SessionInv' /\ [DisciplinedNext]_vars
<1>1. /\ toServer \in [DeviceId -> Seq(Call)] /\ old \in [DeviceId -> Seq(Call)]
      /\ DeviceInv(d) /\ up' = up /\ toClient[d] \in Seq(Message)
      /\ TypeInv /\ registry \in RegType /\ Keyed(registry) /\ local_device = NoLocal
  BY TypeInvParts DEF SessionInv, SessionTypes, clientVars, SlotsInv, StoreOK
<1>2. /\ Known(d) \in Seq(Call) /\ (Fresh(Known(d)) \/ Running(Known(d)))
      /\ Head(Known(d)).call # "eof" /\ Admitted(d) /\ d \in Controller
      /\ registry[d].kind = "viewer" /\ d \notin Game
  BY FirstCall, SessionAssumption DEF OwnKind
<1>3. /\ toServer' \in [DeviceId -> Seq(Call)] /\ old' \in [DeviceId -> Seq(Call)]
      /\ \A e \in DeviceId \ {d} : toServer'[e] = toServer[e] /\ old'[e] = old[e]
      /\ Known(d)' = Tail(Known(d)) /\ Queues(d)' /\ ~Unserved(d)'
      /\ KnownByOld(d)' <=> KnownByOld(d)
  BY <1>1, <1>2, PopCall DEF DeviceInv
<1>4. PICK msg : msg = OnList(InfosForViewer(registry, "viewer"))
  OBVIOUS
<1>5. /\ registry' = registry /\ ToOthers(registry, d, <<>>)
      /\ sent'[d] = IF d = EmptyId THEN <<>> ELSE <<msg>>
  BY <1>1, <1>2, <1>4, ListEffect DEF Admitted
<1>6. msg \in Message /\ \A g \in Game : Tells(msg, g) /\ Told(msg, g) = Shown(g)
  BY <1>1, <1>4, ListShows
<1>7. UNCHANGED <<used_slots, pending, auto_approve, local_device>>
  BY DEF RegistryList
<1>8. \/ toClient'[d] = Append(toClient[d], msg) /\ d \in up /\ ~KnownByOld(d) /\ d # EmptyId
      \/ toClient'[d] = toClient[d]
  <2>1. toClient'[d] = IF d \in up /\ ~KnownByOld(d) THEN toClient[d] \o sent'[d] ELSE toClient[d]
    BY <1>3 DEF SendAll
  <2>2. toClient[d] \o <<msg>> = Append(toClient[d], msg) /\ toClient[d] \o <<>> = toClient[d]
    BY <1>1, <1>6, ConcatOne
  <2> QED
    BY <1>5, <2>1, <2>2
<1>9. Calling(d)' /\ Recorded(d)' /\ Admitted(d)'
  BY <1>1, <1>2, <1>3, <1>5, <1>7, CallServed DEF Admitted
<1>10. Hearing(d)'
  <2>1. CASE toClient'[d] = toClient[d]
    <3>1. Heard(d)' <=> Heard(d)
      BY <2>1 DEF Heard, clientVars
    <3>2. ~KnownByOld(d)' => ~Fresh(toServer'[d])
      BY <1>3 DEF Unserved, Known
    <3> QED
      BY <1>1, <1>3, <1>9, <2>1, <3>1, <3>2 DEF DeviceInv, Hearing, Silent
  <2>2. CASE d \in up /\ ~KnownByOld(d) /\ d # EmptyId
    <3>1. ~KnownByOld(d)' /\ ~Fresh(toServer'[d]) /\ d \in up'
      BY <1>1, <1>3, <2>2 DEF Unserved, Known
    <3> QED
      BY <1>9, <2>2, <3>1 DEF Hearing
  <2> QED
    BY <1>8, <2>1, <2>2
<1>11. Slotted(d)'
  BY <1>2 DEF Slotted
<1>12. DeviceInv(d)'
  BY <1>3, <1>9, <1>10, <1>11 DEF DeviceInv
<1>13. Listed(d)'
  <2> SUFFICES ASSUME NEW g \in Game, ListIsDue(d)'
               PROVE  Agrees(SoonOf(hosts[d], toClient[d], g), g)'
    BY DEF Listed
  <2>1. hosts'[d] = hosts[d] /\ renewed' = renewed /\ Shown(g)' = Shown(g)
    BY <1>5 DEF clientVars, Shown, KindIs, HasInfo
  <2>2. PICK soon : soon = SoonOf(hosts'[d], toClient'[d], g)
    OBVIOUS
  <2>3. CASE toClient'[d] = Append(toClient[d], msg)
    <3>1. soon = Shown(g)
      BY <1>1, <1>6, <2>2, <2>3, SoonAppend
    <3> QED
      BY <2>1, <2>2, <3>1 DEF Agrees
  <2>4. CASE toClient'[d] = toClient[d]
    <3>1. ListIsDue(d)
      BY <2>4 DEF ListIsDue, clientVars
    <3>2. Agrees(soon, g)
      BY <1>2, <2>1, <2>2, <2>4, <3>1 DEF SessionInv, Listed
    <3> QED
      BY <2>1, <2>2, <3>2 DEF Agrees
  <2> QED
    BY <1>8, <2>3, <2>4
<1>14. [DisciplinedNext]_vars
  BY DEF DisciplinedNext, Common
<1>15. NoNews(d, <<>>)
  BY <1>2 DEF NoNews
<1> QED
  BY <1>3, <1>5, <1>7, <1>12, <1>13, <1>14, <1>15, ServerStep

(* A player count update is served.                                        *)
LEMMA ServeUpdate ==
  ASSUME Cardinality(DeviceId) <= MaxSlot, SessionInv, NEW d \in DeviceId,
         Known(d) # <<>>, Head(Known(d)).call = "update",
         RegistryUpdate(d, <<Head(Known(d)).info>>),
         Pop(d), SendAll, UNCHANGED clientVars, UNCHANGED renewed
  PROVE  SessionInv' /\ [DisciplinedNext]_vars
<1>1. /\ toServer \in [DeviceId -> Seq(Call)] /\ old \in [DeviceId -> Seq(Call)]
      /\ DeviceInv(d) /\ up' = up /\ toClient[d] \in Seq(Message)
      /\ TypeInv /\ registry \in RegType /\ Keyed(registry) /\ local_device = NoLocal
  BY TypeInvParts DEF SessionInv, SessionTypes, clientVars, SlotsInv, StoreOK
<1>2. /\ Known(d) \in Seq(Call) /\ (Fresh(Known(d)) \/ Running(Known(d)))
      /\ Head(Known(d)).call # "eof" /\ Admitted(d) /\ d \in Game
      /\ registry[d].kind = "game"
  BY FirstCall DEF OwnKind
<1>3. /\ toServer' \in [DeviceId -> Seq(Call)] /\ old' \in [DeviceId -> Seq(Call)]
      /\ \A e \in DeviceId \ {d} : toServer'[e] = toServer[e] /\ old'[e] = old[e]
      /\ Known(d)' = Tail(Known(d)) /\ Queues(d)' /\ ~Unserved(d)'
      /\ KnownByOld(d)' <=> KnownByOld(d)
  BY <1>1, <1>2, PopCall DEF DeviceInv
<1>4. PICK p \in Counts : Head(Known(d)).info = OwnInfo(d, registry[d].slot, p)
  BY FirstCall
<1>5. PICK info : info = Head(Known(d)).info
  OBVIOUS
<1> DEFINE msg == [method |-> "onHostUpdate", info |-> OnWire(info)]
<1>6. registry[d].slot > 0
  BY <1>1, <1>2 DEF DeviceInv, Recorded, Admitted
<1>7. \A e \in DeviceId : HasInfo(registry, e) => registry[e].kind # "server"
  BY DEF SessionInv, DeviceInv, Recorded
<1>8. /\ info \in UpdateInfo /\ info \in WireInfo
      /\ registry' = [registry EXCEPT ![d] = info] /\ HasInfo(registry', d)
      /\ sent'[d] = <<>> /\ ToOthers(registry, d, <<msg>>)
  BY <1>1, <1>2, <1>4, <1>5, <1>6, <1>7, UpdateEffect DEF Admitted
<1>9. /\ info.slot = registry[d].slot /\ info.dev = d /\ info.kind = "game" /\ info \in Info
      /\ registry'[d] = info /\ \A e \in DeviceId \ {d} : registry'[e] = registry[e]
  BY <1>1, <1>2, <1>4, <1>5, <1>8, WireInfoIsInfo DEF OwnInfo, RegType
<1>10. UNCHANGED <<used_slots, pending, auto_approve, local_device>>
  BY DEF RegistryUpdate
<1>11. toClient'[d] = toClient[d]
  <2>1. toClient[d] \o <<>> = toClient[d]
    BY <1>1
  <2> QED
    BY <1>8, <2>1 DEF SendAll
<1>12. Calling(d)' /\ Recorded(d)' /\ Admitted(d)'
  BY <1>1, <1>2, <1>3, <1>8, <1>9, <1>10, CallServed DEF Admitted
<1>13. Hearing(d)'
  <2>1. Heard(d)' <=> Heard(d)
    BY <1>11 DEF Heard, clientVars
  <2>2. ~KnownByOld(d)' => ~Fresh(toServer'[d])
    BY <1>3 DEF Unserved, Known
  <2> QED
    BY <1>1, <1>3, <1>11, <1>12, <2>1, <2>2 DEF DeviceInv, Hearing, Silent
<1>14. Slotted(d)'
  BY <1>1, <1>9, <1>11 DEF DeviceInv, Slotted, clientVars
<1>15. DeviceInv(d)'
  BY <1>3, <1>12, <1>13, <1>14 DEF DeviceInv
<1>16. [DisciplinedNext]_vars
  <2>1. PICK b : b = <<info>>
    OBVIOUS
  <2>2. Len(b) = 1 /\ b[1] = info /\ b \in UpdateBatch
    BY <1>8, <2>1 DEF UpdateBatch
  <2>3. KeepsSlot(info)
    BY <1>2, <1>9 DEF KeepsSlot, Admitted
  <2>4. b \in HonestBatch
    <3>1. \A n \in 1 .. Len(b) : b[n] = info
      BY <2>2
    <3> QED
      BY <2>2, <2>3, <3>1 DEF HonestBatch
  <2>5. RegistryUpdate(d, b)
    BY <1>5, <2>1
  <2> QED
    BY <2>4, <2>5 DEF DisciplinedNext
<1>17. GameNews(d, <<msg>>)
  <2>1. OnWire(info) \in WireInfo /\ OnWire(info).dev = d
    BY <1>9, OnWireType DEF OnWire, Info
  <2>2. msg \in Message /\ msg.method \in HostMethod /\ msg.info.dev = d
    BY <2>1 DEF Message, HostMethod
  <2>3. Told(msg, d) = {OnWire(info)}
    BY DEF Told
  <2>4. Shown(d)' = {OnWire(info)}
    BY <1>8, <1>9 DEF Shown, KindIs
  <2>5. Agrees(Told(msg, d), d)'
    BY <2>3, <2>4 DEF Agrees
  <2> QED
    BY <1>2, <2>2, <2>5 DEF GameNews
<1>18. d \notin Controller
  BY <1>2, SessionAssumption
<1> HIDE DEF msg
<1> QED
  BY <1>3, <1>8, <1>9, <1>10, <1>15, <1>16, <1>17, <1>18, ServerStep

(* What ServeCall does is one of these.                                    *)
LEMMA ServeCallKeeps ==
  ASSUME Cardinality(DeviceId) <= MaxSlot, SessionInv, NEW d \in DeviceId, ServeCall(d)
  PROVE  SessionInv' /\ [DisciplinedNext]_vars
<1>1. /\ Known(d) # <<>> /\ Pop(d) /\ SendAll
      /\ UNCHANGED clientVars /\ UNCHANGED renewed
  BY DEF ServeCall
<1>2. CASE /\ Head(Known(d)).call = "register"
           /\ RegistryRegister(d, OwnInfo(d, 0, NoPlayers))
  BY <1>1, <1>2, ServeRegister
<1>3. CASE Head(Known(d)).call = "list" /\ RegistryList(d)
  BY <1>1, <1>3, ServeList
<1>4. CASE Head(Known(d)).call = "update" /\ RegistryUpdate(d, <<Head(Known(d)).info>>)
  BY <1>1, <1>4, ServeUpdate
<1> QED
  BY <1>2, <1>3, <1>4 DEF ServeCall

(* A new connection takes over: the registration is served over whatever   *)
(* the device still had.                                                   *)
LEMMA TakeOverKeeps ==
  ASSUME Cardinality(DeviceId) <= MaxSlot, SessionInv, NEW d \in DeviceId, TakeOver(d)
  PROVE  SessionInv' /\ [DisciplinedNext]_vars
<1> DEFINE q == toServer[d]
           r == Tail(toServer[d])
<1>1. /\ toServer \in [DeviceId -> Seq(Call)] /\ old \in [DeviceId -> Seq(Call)]
      /\ DeviceInv(d) /\ KnownByOld(d) /\ q # <<>> /\ Head(q).call = "register"
      /\ q \in Seq(Call)
  BY DEF SessionInv, SessionTypes, TakeOver
<1>2. /\ RegistryRegister(d, OwnInfo(d, 0, NoPlayers)) /\ SendAll
      /\ UNCHANGED clientVars /\ up' = up
      /\ toServer' = [toServer EXCEPT ![d] = r] /\ old' = [old EXCEPT ![d] = Late]
      /\ renewed' = renewed \cup {d}
  BY DEF TakeOver, clientVars
<1>3. q # <<Eof>>
  BY <1>1, CallsApart, ShortTails
<1>4. TakeOvers /\ Fresh(q)
  BY <1>1, <1>3 DEF DeviceInv, Queues
<1>5. auto_approve /\ pending[d] = NoPending /\ Silent(d)
  BY <1>1, <1>4 DEF SessionInv, SessionTypes, DeviceInv, Recorded, Hearing
<1>6. /\ r \in Seq(Call) /\ Running(r) /\ ~Fresh(r) /\ (Ended(q) <=> Ended(r))
      /\ r \in {<<>>, <<Eof>>}
  BY <1>1, <1>4, RestOfCalls
<1>7. d \notin up => Ended(q)
  BY <1>1 DEF DeviceInv, Queues
<1> HIDE DEF q, r
<1>8. Late \in Seq(Call)
  <2>1. PICK end : end = [call |-> "late end"]
    OBVIOUS
  <2>2. end \in Call
    BY <2>1 DEF Call
  <2>3. <<end>> \in Seq(Call)
    BY <2>2
  <2> QED
    BY <2>1, <2>3 DEF Late
<1>9. /\ toServer'[d] = r /\ old'[d] = Late
      /\ toServer' \in [DeviceId -> Seq(Call)] /\ old' \in [DeviceId -> Seq(Call)]
      /\ \A e \in DeviceId \ {d} : toServer'[e] = toServer[e] /\ old'[e] = old[e]
  BY <1>1, <1>2, <1>6, <1>8
<1>10. ~KnownByOld(d)' /\ Known(d)' = r
  BY <1>9 DEF KnownByOld, Known
<1>11. Queues(d)'
  BY <1>1, <1>2, <1>6, <1>7, <1>9, <1>10 DEF Queues, DeviceInv, q
<1>12. ~Unserved(d)'
  BY <1>2, <1>6, <1>7, <1>9, <1>10, CallsApart DEF Unserved
<1> QED
  BY <1>2, <1>5, <1>6, <1>9, <1>10, <1>11, <1>12, RegisterAdmitted

Only(q, msg) == \A n \in 1 .. Len(q) : q[n] = msg

(* One more of the same.                                                   *)
LEMMA OnlyMore ==
  ASSUME NEW q \in Seq(Message), NEW msg \in Message, Only(q, msg)
  PROVE  Only(Append(q, msg), msg)
<1>1. PICK r : r = Append(q, msg)
  OBVIOUS
<1>2. /\ Len(q) \in Nat /\ Len(r) = Len(q) + 1
      /\ \A n \in 1 .. Len(q) : r[n] = q[n]
      /\ r[Len(q) + 1] = msg
  BY <1>1, AppendProperties, LenProperties
<1>3. \A n \in 1 .. Len(r) : r[n] = msg
  BY <1>2 DEF Only
<1> QED
  BY <1>1, <1>3 DEF Only

(* A pending registration is denied, by the user or because its connection *)
(* ended.                                                                  *)
LEMMA DenyKeeps ==
  ASSUME Cardinality(DeviceId) <= MaxSlot, SessionInv, NEW d \in DeviceId,
         DenyRegistration(d), SendAll, UNCHANGED <<clientVars, connVars>>
  PROVE  SessionInv' /\ [DisciplinedNext]_vars
<1>1. /\ toServer \in [DeviceId -> Seq(Call)] /\ old \in [DeviceId -> Seq(Call)]
      /\ DeviceInv(d) /\ toClient[d] \in Seq(Message)
      /\ pending \in [DeviceId -> PendingEntry \cup {NoPending}]
  BY TypeInvParts DEF SessionInv, SessionTypes, SlotsInv, PendingOK
<1>2. /\ pending[d] # NoPending /\ pending' = [pending EXCEPT ![d] = NoPending]
      /\ UNCHANGED <<registry, used_slots, auto_approve, local_device>>
  BY DEF DenyRegistration
<1>3. pending[d].target = d /\ ~HasInfo(registry, d) /\ ~Unserved(d) /\ ~Heard(d)
  BY <1>1, <1>2 DEF DeviceInv, Recorded, Hearing, Admitted
<1>4. /\ sent'[d] \in {<<>>, <<OnRegister(FALSE)>>}
      /\ ToOthers(registry, d, <<>>)
  BY <1>3, DenyEffect
<1>5. /\ toServer' = toServer /\ old' = old /\ renewed' = renewed /\ UNCHANGED clientVars
      /\ Known(d)' = Known(d) /\ (KnownByOld(d)' <=> KnownByOld(d)) /\ up' = up
  BY DEF connVars, clientVars, Known, KnownByOld
<1>6. /\ pending'[d] = NoPending
      /\ \A e \in DeviceId \ {d} : pending'[e] = pending[e] /\ registry'[e] = registry[e]
  BY <1>1, <1>2
<1>7. toClient'[d] = IF d \in up /\ ~KnownByOld(d) THEN toClient[d] \o sent'[d] ELSE toClient[d]
  BY <1>5 DEF SendAll
<1>8. Only(toClient[d], OnRegister(FALSE))
  BY <1>3 DEF Heard, Only
<1>9. Only(toClient'[d], OnRegister(FALSE))
  <2>1. OnRegister(FALSE) \in Message
    BY DEF OnRegister, Message
  <2>2. CASE toClient'[d] = toClient[d]
    BY <1>8, <2>2, Zenon
  <2>3. CASE toClient'[d] = Append(toClient[d], OnRegister(FALSE))
    BY <1>1, <1>8, <2>1, <2>3, OnlyMore
  <2>4. /\ toClient[d] \o <<>> = toClient[d]
        /\ toClient[d] \o <<OnRegister(FALSE)>> = Append(toClient[d], OnRegister(FALSE))
    BY <1>1, <2>1, ConcatOne
  <2> QED
    BY <1>4, <1>7, <2>2, <2>3, <2>4
<1>10. ~Heard(d)' /\ (d \in Controller => ~ListIsDue(d)')
  BY <1>3, <1>5, <1>9 DEF Heard, ListIsDue, OnRegister, clientVars, Only
<1>11. Hearing(d)'
  <2>1. d \notin up \/ KnownByOld(d) => toClient'[d] = <<>>
    BY <1>1, <1>7 DEF DeviceInv, Hearing, Silent
  <2>2. ~KnownByOld(d) => ~Fresh(toServer[d])
    BY <1>3 DEF Unserved, Known
  <2> QED
    BY <1>5, <1>10, <2>1, <2>2 DEF Hearing, Silent
<1>12. Queues(d)'
  BY <1>1, <1>5 DEF DeviceInv, Queues
<1>13. Calling(d)'
  BY <1>1, <1>3, <1>5 DEF DeviceInv, Calling, Admitted
<1>14. Recorded(d)'
  BY <1>2, <1>3, <1>6 DEF Recorded, HasInfo
<1>15. Slotted(d)'
  BY <1>3, <1>5, <1>9 DEF Slotted, Heard, OnRegister, clientVars, Only
<1>16. DeviceInv(d)' /\ (d \in Controller => Listed(d)')
  BY <1>10, <1>11, <1>12, <1>13, <1>14, <1>15 DEF DeviceInv, Listed
<1>17. [DisciplinedNext]_vars
  BY DEF DisciplinedNext, Common
<1>18. NoNews(d, <<>>)
  BY <1>2, <1>5 DEF NoNews, Agrees, Shown, KindIs, HasInfo
<1>19. /\ toServer' \in [DeviceId -> Seq(Call)] /\ old' \in [DeviceId -> Seq(Call)]
       /\ \A e \in DeviceId \ {d} : toServer'[e] = toServer[e] /\ old'[e] = old[e]
       /\ \A g \in Game \ {d} : g \in renewed => g \in renewed'
  BY <1>1, <1>5
<1> QED
  BY <1>2, <1>4, <1>5, <1>6, <1>16, <1>17, <1>18, <1>19, ServerStep

(* The user approves a pending registration.                               *)
LEMMA ApproveKeeps ==
  ASSUME Cardinality(DeviceId) <= MaxSlot, SessionInv, NEW d \in DeviceId,
         ApproveRegistration(d), SendAll, UNCHANGED <<clientVars, connVars>>
  PROVE  SessionInv' /\ [DisciplinedNext]_vars
<1>1. /\ toServer \in [DeviceId -> Seq(Call)] /\ old \in [DeviceId -> Seq(Call)]
      /\ DeviceInv(d) /\ toClient[d] \in Seq(Message) /\ TypeInv
      /\ registry \in RegType /\ Keyed(registry) /\ Exact(registry, used_slots)
      /\ pending \in [DeviceId -> PendingEntry \cup {NoPending}]
  BY TypeInvParts DEF SessionInv, SessionTypes, SlotsInv, PendingOK, StoreOK
<1>2. /\ pending[d] # NoPending /\ pending' = [pending EXCEPT ![d] = NoPending]
      /\ Admit(registry, pending[d].info, pending[d].target)
      /\ UNCHANGED <<auto_approve, local_device>>
  BY DEF ApproveRegistration
<1>3. /\ pending[d] = [info |-> OwnInfo(d, 0, NoPlayers), target |-> d]
      /\ ~HasInfo(registry, d) /\ ~Unserved(d) /\ ~Heard(d)
  BY <1>1, <1>2 DEF DeviceInv, Recorded, Hearing, Admitted
<1>4. pending[d].info = OwnInfo(d, 0, NoPlayers) /\ pending[d].target = d
  BY <1>3
<1>5. Admit(registry, OwnInfo(d, 0, NoPlayers), d)
  BY <1>2, <1>4
<1>6. PICK i \in WireInfo :
        /\ i.dev = d
        /\ OthersKept(registry, d)
        /\ HasInfo(registry', d) /\ registry'[d].kind = OwnKind(d)
        /\ d \in Game => /\ registry'[d].slot > 0 /\ i.slot = registry'[d].slot
                         /\ ~HasInfo(registry, d) => i = OnWire(registry'[d])
        /\ sent'[d] = IF d = EmptyId THEN <<>>
                      ELSE <<OnRegister(TRUE)>> \o ConnectNews(d, i)
        /\ ToOthers(registry, d, ConnectNews(d, i))
  BY <1>1, <1>5, AdmitEffect
<1>7. /\ toServer' = toServer /\ old' = old /\ renewed' = renewed /\ UNCHANGED clientVars
      /\ Known(d)' = Known(d) /\ (KnownByOld(d)' <=> KnownByOld(d)) /\ up' = up
  BY DEF connVars, clientVars, Known, KnownByOld
<1>8. /\ pending'[d] = NoPending
      /\ \A e \in DeviceId \ {d} : pending'[e] = pending[e] /\ registry'[e] = registry[e]
  BY <1>1, <1>2, <1>6 DEF OthersKept
<1>9. [DisciplinedNext]_vars
  BY DEF DisciplinedNext, Common
<1>10. registry' \in RegType /\ sent'[d] \in Seq(Message)
  <2>1. SlotsInv'
    BY <1>9, SlotsInvStep DEF SessionInv
  <2>2. TypeOK'
    BY <2>1 DEF SlotsInv, TypeInv
  <2> QED
    BY <2>2 DEF TypeOK, RegType
<1>11. NoNews(d, ConnectNews(d, i)) \/ GameNews(d, ConnectNews(d, i))
  BY <1>3, <1>6, <1>10, AdmissionNews
<1>12. DeviceInv(d)' /\ (d \in Controller => Listed(d)')
  <2>1. d \notin up \/ KnownByOld(d)' => toClient[d] = <<>>
    BY <1>1, <1>7 DEF DeviceInv, Hearing, Silent
  <2>2. Queues(d)' /\ ~Unserved(d)'
    BY <1>1, <1>3, <1>7 DEF DeviceInv, Queues, Unserved
  <2>3. \A n \in 1 .. Len(Known(d)') : Known(d)'[n].call \notin {"list", "update"}
    BY <1>1, <1>3, <1>7 DEF DeviceInv, Calling, Admitted
  <2> QED
    BY <1>1, <1>3, <1>6, <1>7, <1>8, <1>10, <2>1, <2>2, <2>3, AdmittedDevice
<1>13. /\ toServer' \in [DeviceId -> Seq(Call)] /\ old' \in [DeviceId -> Seq(Call)]
       /\ \A e \in DeviceId \ {d} : toServer'[e] = toServer[e] /\ old'[e] = old[e]
       /\ \A g \in Game \ {d} : g \in renewed => g \in renewed'
  BY <1>1, <1>7
<1> QED
  BY <1>2, <1>6, <1>7, <1>8, <1>9, <1>11, <1>12, <1>13, ServerStep

(* A registration that was not served yet asks for nothing either.         *)
LEMMA FreshAsksNothing ==
  ASSUME NEW q, Fresh(q)
  PROVE  \A n \in 1 .. Len(q) : q[n].call \notin {"list", "update"}
<1>1. CASE q = <<Reg>>
  BY <1>1, CallsApart, ShortTails
<1>2. CASE q = <<Reg, Eof>>
  <2>1. Len(q) = 2 /\ q[1] = Reg /\ q[2] = Eof
    BY <1>2
  <2>2. \A n \in 1 .. Len(q) : n = 1 \/ n = 2
    BY <2>1
  <2> QED
    BY <2>1, <2>2, CallsApart
<1> QED
  BY <1>1, <1>2 DEF Fresh

(* The end of the connection a device is known by is read: the queues.     *)
LEMMA PopEnd ==
  ASSUME NEW d \in DeviceId, toServer \in [DeviceId -> Seq(Call)],
         old \in [DeviceId -> Seq(Call)], Queues(d), up' = up, AtEof(d), Pop(d)
  PROVE  /\ toServer' \in [DeviceId -> Seq(Call)] /\ old' \in [DeviceId -> Seq(Call)]
         /\ \A e \in DeviceId \ {d} : toServer'[e] = toServer[e] /\ old'[e] = old[e]
         /\ Queues(d)' /\ ~KnownByOld(d)'
         /\ Known(d)' \in {<<>>, <<Eof>>} \/ Fresh(Known(d)')
         /\ KnownByOld(d) \/ d \notin up
<1> DEFINE q == Known(d)
<1>1. q \in Seq(Call) /\ (Fresh(q) \/ Running(q)) /\ q # <<>> /\ Head(q).call = "eof"
  BY DEF Known, Queues, AtEof
<1>2. q = <<Eof>> /\ Tail(q) = <<>> /\ Ended(q)
  BY <1>1, EndIsLast
<1>3. <<>> \in Seq(Call)
  OBVIOUS
<1>4. CASE KnownByOld(d)
  <2>1. toServer' = toServer /\ old' = [old EXCEPT ![d] = <<>>]
    BY <1>2, <1>4 DEF Known, Pop
  <2>2. old'[d] = <<>> /\ \A e \in DeviceId \ {d} : old'[e] = old[e]
    BY <2>1
  <2>3. ~KnownByOld(d)' /\ Known(d)' = toServer[d]
    BY <2>1, <2>2 DEF KnownByOld, Known
  <2>4. Queues(d)'
    BY <2>1, <2>3 DEF Queues
  <2>5. toServer[d] \in {<<>>, <<Eof>>} \/ Fresh(toServer[d])
    BY <1>4 DEF Queues
  <2> QED
    BY <1>3, <1>4, <2>1, <2>2, <2>3, <2>4, <2>5
<1>5. CASE ~KnownByOld(d)
  <2>1. q = toServer[d] /\ old' = old /\ toServer' = [toServer EXCEPT ![d] = <<>>]
    BY <1>2, <1>5 DEF Known, Pop
  <2>2. toServer'[d] = <<>> /\ \A e \in DeviceId \ {d} : toServer'[e] = toServer[e]
    BY <2>1
  <2>3. ~KnownByOld(d)' /\ Known(d)' = <<>>
    BY <1>5, <2>1, <2>2 DEF KnownByOld, Known
  <2>4. d \notin up
    BY <1>2, <2>1 DEF Queues
  <2>5. Queues(d)'
    BY <2>2, <2>3, <2>4, CallsApart DEF Queues
  <2> QED
    BY <1>3, <2>1, <2>2, <2>3, <2>4, <2>5
<1> QED
  BY <1>4, <1>5

(* A device that hears nothing, has no record and nothing pending, and     *)
(* asks for nothing, is as one that has yet to be served.                  *)
LEMMA BlankDevice ==
  ASSUME NEW d \in DeviceId, Queues(d)', Silent(d)', ~HasInfo(registry', d),
         pending'[d] = NoPending,
         \A n \in 1 .. Len(Known(d)') : Known(d)'[n].call \notin {"list", "update"}
  PROVE  DeviceInv(d)' /\ (d \in Controller => Listed(d)')
<1>1. toClient'[d] = <<>> /\ ~Heard(d)'
  BY DEF Silent
<1>2. Hearing(d)' /\ Slotted(d)'
  BY <1>1 DEF Hearing, Slotted, Heard
<1>3. Calling(d)'
  <2>1. PICK q : q = Known(d)'
    OBVIOUS
  <2>2. \A n \in 1 .. Len(q) : q[n].call \notin {"list", "update"}
    BY <2>1
  <2> QED
    BY <2>1, <2>2 DEF Calling
<1>4. Recorded(d)'
  BY DEF Recorded, HasInfo
<1>5. d \in Controller => Listed(d)'
  BY <1>1 DEF Listed, ListIsDue, Heard
<1> QED
  BY <1>2, <1>3, <1>4, <1>5 DEF DeviceInv

(* The application drops a device whose connection ended.                  *)
LEMMA DropKeeps ==
  ASSUME Cardinality(DeviceId) <= MaxSlot, SessionInv, NEW d \in DeviceId, DropLost(d)
  PROVE  SessionInv' /\ [DisciplinedNext]_vars
<1>1. /\ toServer \in [DeviceId -> Seq(Call)] /\ old \in [DeviceId -> Seq(Call)]
      /\ DeviceInv(d) /\ TypeInv /\ registry \in RegType /\ local_device = NoLocal
  BY TypeInvParts DEF SessionInv, SessionTypes, SlotsInv, StoreOK
<1>2. /\ AtEof(d) /\ DropDevice(d) /\ Pop(d) /\ SendAll /\ UNCHANGED clientVars /\ up' = up
      /\ renewed' = renewed \ {d}
  BY DEF DropLost, clientVars
<1>3. pending[d] = NoPending
  BY <1>1 DEF DropLost, MustDeny, DeviceInv, Recorded
<1>4. /\ toServer' \in [DeviceId -> Seq(Call)] /\ old' \in [DeviceId -> Seq(Call)]
      /\ \A e \in DeviceId \ {d} : toServer'[e] = toServer[e] /\ old'[e] = old[e]
      /\ Queues(d)' /\ ~KnownByOld(d)'
      /\ Known(d)' \in {<<>>, <<Eof>>} \/ Fresh(Known(d)')
      /\ KnownByOld(d) \/ d \notin up
  BY <1>1, <1>2, PopEnd DEF DeviceInv
<1> PICK msg : msg = [method |-> "onHostDisconnected", info |-> OnWire(registry[d])]
  OBVIOUS
<1> PICK news : news = IF KindIs(registry, d, "game") THEN <<msg>> ELSE <<>>
  OBVIOUS
<1>5. /\ registry' = [registry EXCEPT ![d] = Absent] /\ sent'[d] = <<>>
      /\ ToOthers(registry, d, news)
      /\ HasInfo(registry, d) => OnWire(registry[d]) \in WireInfo /\ OnWire(registry[d]).dev = d
  BY <1>1, <1>2, DropEffect
<1>6. /\ registry'[d] = Absent /\ \A e \in DeviceId \ {d} : registry'[e] = registry[e]
      /\ UNCHANGED <<pending, auto_approve, local_device>>
  BY <1>1, <1>2, <1>5 DEF RegType, DropDevice
<1>7. Silent(d)'
  <2>1. Silent(d)
    BY <1>1, <1>4 DEF DeviceInv, Hearing
  <2>2. toClient'[d] = <<>>
    BY <1>2, <1>5, <2>1, OwnQueue
  <2> QED
    BY <1>2, <2>1, <2>2 DEF Silent, Heard, clientVars
<1>8. DeviceInv(d)' /\ (d \in Controller => Listed(d)')
  <2>1. \A n \in 1 .. Len(Known(d)') : Known(d)'[n].call \notin {"list", "update"}
    BY <1>4, EofsOnly, FreshAsksNothing
  <2>2. ~HasInfo(registry', d) /\ pending'[d] = NoPending
    BY <1>3, <1>6 DEF HasInfo
  <2> QED
    BY <1>4, <1>7, <2>1, <2>2, BlankDevice
<1>9. NoNews(d, news) \/ GameNews(d, news)
  <2>1. Shown(d)' = {}
    BY <1>6 DEF Shown, KindIs, HasInfo
  <2>2. CASE KindIs(registry, d, "game")
    <3>1. d \in Game
      BY <1>1, <2>2 DEF DeviceInv, Recorded, KindIs
    <3>2. msg \in Message /\ msg.method \in HostMethod /\ msg.info.dev = d
      BY <1>5, <2>2 DEF Message, HostMethod, KindIs
    <3>3. Told(msg, d) = {}
      BY DEF Told
    <3>4. Agrees(Told(msg, d), d)'
      BY <2>1, <3>3 DEF Agrees
    <3> QED
      BY <2>2, <3>1, <3>2, <3>4 DEF GameNews
  <2>3. CASE ~KindIs(registry, d, "game")
    <3>1. Shown(d) = {}
      BY <2>3 DEF Shown
    <3>2. ASSUME NEW infos, Agrees(infos, d)
          PROVE  Agrees(infos, d)'
      <4>1. infos = {}
        BY <3>1, <3>2 DEF Agrees, Slots
      <4> QED
        BY <2>1, <4>1 DEF Agrees
    <3> QED
      BY <2>3, <3>2 DEF NoNews
  <2> QED
    BY <2>2, <2>3
<1>10. [DisciplinedNext]_vars
  BY <1>2 DEF DisciplinedNext, Common
<1>11. \A e \in DeviceId \ {d} :
         /\ toServer'[e] = toServer[e] /\ old'[e] = old[e]
         /\ pending'[e] = pending[e] /\ registry'[e] = registry[e]
  BY <1>4, <1>6
<1>12. \A g \in Game \ {d} : g \in renewed => g \in renewed'
  BY <1>2
<1> QED
  BY <1>2, <1>4, <1>5, <1>6, <1>8, <1>9, <1>10, <1>11, <1>12, ServerStep

-----------------------------------------------------------------------------
(* The steps of the clients, and of connections.                           *)

(* A step of client d that the engine has no part in.                      *)
LEMMA ClientStep ==
  ASSUME Cardinality(DeviceId) <= MaxSlot, SessionInv, NEW d \in DeviceId,
         UNCHANGED <<vars, renewed>>,
         \A e \in DeviceId \ {d} : Same(e) /\ toClient'[e] = toClient[e],
         \A c \in Controller \ {d} : hosts'[c] = hosts[c],
         SessionTypes', DeviceInv(d)', d \in Controller => Listed(d)'
  PROVE  SessionInv'
<1>1. SlotsInv'
  BY SlotsInvStep DEF SessionInv
<1>2. \A e \in DeviceId \ {d} : DeviceInv(e)'
  BY SameKeeps DEF SessionInv
<1>3. registry' = registry /\ renewed' = renewed
  BY DEF vars
<1>4. ASSUME NEW c \in Controller \ {d}
      PROVE  Listed(c)'
  <2>1. c \in DeviceId \ {d} /\ Same(c)
    BY SessionAssumption
  <2>2. ListIsDue(c)' <=> ListIsDue(c)
    BY <2>1 DEF ListIsDue, Same
  <2>3. hosts'[c] = hosts[c] /\ toClient'[c] = toClient[c]
    BY <2>1
  <2>4. \A g2 \in Game : \A infos : Agrees(infos, g2) => Agrees(infos, g2)'
    BY <1>3 DEF Agrees, Shown, KindIs, HasInfo
  <2> SUFFICES ASSUME NEW g \in Game, ListIsDue(c)'
               PROVE  Agrees(SoonOf(hosts[c], toClient[c], g), g)'
    BY DEF Listed
  <2>5. PICK soon : soon = SoonOf(hosts[c], toClient[c], g)
    OBVIOUS
  <2>6. Agrees(soon, g)
    BY <2>2, <2>5 DEF SessionInv, Listed
  <2>7. SoonOf(hosts'[c], toClient'[c], g) = soon
    BY <2>3, <2>5
  <2> QED
    BY <2>4, <2>6, <2>7
<1> QED
  BY <1>1, <1>2, <1>4 DEF SessionInv

(* Nothing of d changes but its queues to the server, and what it is known *)
(* by stays.                                                               *)
LEMMA QueuesMoved ==
  ASSUME NEW d \in DeviceId, DeviceInv(d), UNCHANGED <<vars, toClient, member, slot, listed>>,
         Queues(d)', Known(d)' = Known(d), Unserved(d)' => Unserved(d),
         Silent(d) \/ (up' = up /\ toServer' = toServer /\ ~KnownByOld(d)')
  PROVE  DeviceInv(d)'
<1>1. registry' = registry /\ pending' = pending
  BY DEF vars
<1>2. (Heard(d)' <=> Heard(d)) /\ (Silent(d)' <=> Silent(d)) /\ (Admitted(d)' <=> Admitted(d))
  BY <1>1 DEF Heard, Silent, Admitted, HasInfo
<1>3. Hearing(d)'
  BY <1>2 DEF DeviceInv, Hearing, Silent
<1>4. Calling(d)'
  BY <1>1, <1>2 DEF DeviceInv, Calling
<1>5. Recorded(d)'
  BY <1>1 DEF DeviceInv, Recorded, HasInfo
<1>6. Slotted(d)'
  BY <1>1 DEF DeviceInv, Slotted
<1> QED
  BY <1>3, <1>4, <1>5, <1>6 DEF DeviceInv

(* A device connects: its registration is under way.                       *)
LEMMA ConnectKeeps ==
  ASSUME Cardinality(DeviceId) <= MaxSlot, SessionInv, NEW d \in DeviceId, Connect(d)
  PROVE  SessionInv'
<1>1. /\ toServer \in [DeviceId -> Seq(Call)] /\ old \in [DeviceId -> Seq(Call)]
      /\ DeviceInv(d) /\ d \notin up /\ old[d] = <<>> /\ Silent(d)
  BY DEF SessionInv, SessionTypes, Connect, DeviceInv, Hearing
<1>2. UNCHANGED <<vars, renewed, toClient, member, slot, reported, listing, listed, hosts>>
  BY DEF Connect
<1>3. up' = up \cup {d} /\ old' = [old EXCEPT ![d] = toServer[d]]
      /\ toServer' = [toServer EXCEPT ![d] = <<Reg>>]
  BY DEF Connect, Reg
<1>4. /\ <<Reg>> \in Seq(Call)
      /\ toServer' \in [DeviceId -> Seq(Call)] /\ old' \in [DeviceId -> Seq(Call)]
      /\ toServer'[d] = <<Reg>> /\ old'[d] = toServer[d]
      /\ \A e \in DeviceId \ {d} : toServer'[e] = toServer[e] /\ old'[e] = old[e]
  <2>1. <<Reg>> \in Seq(Call)
    BY CallsApart
  <2> QED
    BY <1>1, <1>3, <2>1
<1>5. \A e \in DeviceId \ {d} : Same(e) /\ toClient'[e] = toClient[e]
  BY <1>2, <1>3, <1>4 DEF Same, vars
<1>6. SessionTypes'
  BY <1>2, <1>3, <1>4 DEF SessionInv, SessionTypes, vars
<1>7. ~KnownByOld(d) /\ Known(d) = toServer[d]
  BY <1>1 DEF KnownByOld, Known
<1>8. Fresh(<<Reg>>) /\ ~Ended(<<Reg>>) /\ ~Running(<<Reg>>)
  BY CallsApart, RunningNotFresh DEF Fresh
<1>9. Silent(d)'
  BY <1>1, <1>2 DEF Silent, Heard
<1>10. CASE toServer[d] = <<>>
  <2>1. ~HasInfo(registry, d) /\ pending[d] = NoPending
    BY <1>1, <1>7, <1>10 DEF DeviceInv, Recorded, Unserved
  <2>2. ~KnownByOld(d)' /\ Known(d)' = <<Reg>>
    BY <1>4, <1>10 DEF KnownByOld, Known
  <2>3. Queues(d)'
    BY <1>3, <1>4, <1>8, <2>2 DEF Queues
  <2>4. \A n \in 1 .. Len(<<Reg>>) : <<Reg>>[n].call \notin {"list", "update"}
    BY <1>8, FreshAsksNothing
  <2>5. \A n \in 1 .. Len(Known(d)') : Known(d)'[n].call \notin {"list", "update"}
    BY <2>2, <2>4
  <2>6. ~HasInfo(registry', d) /\ pending'[d] = NoPending
    BY <1>2, <2>1 DEF HasInfo, vars
  <2>7. DeviceInv(d)' /\ (d \in Controller => Listed(d)')
    BY <1>9, <2>3, <2>5, <2>6, BlankDevice
  <2> QED
    BY <1>2, <1>5, <1>6, <2>7, ClientStep
<1>11. CASE toServer[d] # <<>>
  <2>1. Ended(toServer[d])
    BY <1>1, <1>11 DEF DeviceInv, Queues
  <2>2. Calls(d, "eof")
    <3>1. Len(toServer[d]) \in 1 .. Len(toServer[d])
      BY <1>1, <1>11, LenProperties, EmptySeq
    <3> QED
      BY <2>1, <3>1, CallsApart DEF Calls, Ended
  <2>3. TakeOvers
    BY <2>2 DEF Connect
  <2>4. KnownByOld(d)' /\ Known(d)' = Known(d)
    BY <1>4, <1>7, <1>11, <2>1, CallsApart DEF KnownByOld, Known
  <2>5. Queues(d)'
    BY <1>1, <1>3, <1>4, <1>8, <2>1, <2>3 DEF Queues, DeviceInv
  <2>6. Unserved(d)' => Unserved(d)
    BY <2>4 DEF Unserved
  <2>7. DeviceInv(d)'
    BY <1>1, <1>2, <2>4, <2>5, <2>6, QueuesMoved
  <2>8. d \in Controller => Listed(d)'
    BY <1>9 DEF Listed, ListIsDue, Silent, Heard
  <2> QED
    BY <1>2, <1>5, <1>6, <2>7, <2>8, ClientStep
<1> QED
  BY <1>10, <1>11

(* A new connection that ends before it named its device, and the end of   *)
(* one that was taken over.                                                *)
LEMMA UnnamedEndsKeep ==
  ASSUME Cardinality(DeviceId) <= MaxSlot, SessionInv, NEW d \in DeviceId,
         NamelessEnd(d) \/ LateEnd(d)
  PROVE  SessionInv'
<1>1. /\ toServer \in [DeviceId -> Seq(Call)] /\ old \in [DeviceId -> Seq(Call)]
      /\ DeviceInv(d) /\ UNCHANGED <<vars, clientVars, renewed, toClient>>
      /\ <<>> \in Seq(Call)
  BY DEF SessionInv, SessionTypes, NamelessEnd, LateEnd
<1>2. UNCHANGED <<up, member, slot, listed, hosts>>
  BY <1>1 DEF clientVars
<1>3. /\ toServer' \in [DeviceId -> Seq(Call)] /\ old' \in [DeviceId -> Seq(Call)]
      /\ \A e \in DeviceId \ {d} : toServer'[e] = toServer[e] /\ old'[e] = old[e]
      /\ DeviceInv(d)'
  <2>1. CASE NamelessEnd(d)
    <3> DEFINE q == toServer[d]
    <3>1. /\ KnownByOld(d) /\ q # <<>> /\ Head(q).call = "eof" /\ q \in Seq(Call)
          /\ q \in {<<>>, <<Eof>>} \/ Fresh(q)
      BY <1>1, <2>1 DEF NamelessEnd, DeviceInv, Queues
    <3>2. q = <<Eof>> /\ Tail(q) = <<>> /\ Ended(q)
      BY <3>1, EndIsLast, CallsApart
    <3>3. toServer' = [toServer EXCEPT ![d] = <<>>] /\ old' = old
      BY <2>1, <3>2 DEF NamelessEnd
    <3>4. toServer'[d] = <<>> /\ \A e \in DeviceId \ {d} : toServer'[e] = toServer[e]
      BY <1>1, <3>3
    <3>5. KnownByOld(d)' /\ Known(d)' = Known(d) /\ d \notin up
      BY <1>1, <3>1, <3>2, <3>3 DEF KnownByOld, Known, DeviceInv, Queues
    <3>6. Queues(d)'
      BY <1>1, <1>2, <3>1, <3>3, <3>4, <3>5, CallsApart DEF Queues, DeviceInv
    <3>7. Unserved(d)' => Unserved(d)
      BY <3>5 DEF Unserved
    <3>8. Silent(d)
      BY <1>1, <3>5 DEF DeviceInv, Hearing
    <3>9. DeviceInv(d)'
      BY <1>1, <1>2, <3>5, <3>6, <3>7, <3>8, QueuesMoved
    <3> QED
      BY <1>1, <3>3, <3>4, <3>9
  <2>2. CASE LateEnd(d)
    <3>1. old[d] = Late /\ old' = [old EXCEPT ![d] = <<>>] /\ toServer' = toServer
      BY <2>2 DEF LateEnd
    <3>2. old'[d] = <<>> /\ \A e \in DeviceId \ {d} : old'[e] = old[e]
      BY <1>1, <3>1
    <3>3. ~KnownByOld(d) /\ ~KnownByOld(d)' /\ Known(d)' = Known(d)
      BY <3>1, <3>2 DEF KnownByOld, Known
    <3>4. Queues(d)'
      BY <1>1, <1>2, <3>1, <3>3 DEF Queues, DeviceInv
    <3>5. Unserved(d)' => Unserved(d)
      BY <1>2, <3>1, <3>3 DEF Unserved
    <3>6. DeviceInv(d)'
      BY <1>1, <1>2, <3>1, <3>3, <3>4, <3>5, QueuesMoved
    <3> QED
      BY <1>1, <3>1, <3>2, <3>6
  <2> QED
    BY <2>1, <2>2
<1>4. \A e \in DeviceId \ {d} : Same(e) /\ toClient'[e] = toClient[e]
  BY <1>1, <1>2, <1>3 DEF Same, vars
<1>5. SessionTypes'
  BY <1>1, <1>2, <1>3 DEF SessionInv, SessionTypes, vars
<1>6. d \in Controller => Listed(d)'
  BY <1>1, <1>2 DEF SessionInv, Listed, ListIsDue, Agrees, Shown, KindIs, HasInfo, vars
<1> QED
  BY <1>1, <1>2, <1>3, <1>4, <1>5, <1>6, ClientStep

(* A connection breaks: of its calls some are left, and then the end.      *)
LEMMA CutCalls ==
  ASSUME NEW q \in Seq(Call), ~Ended(q), Fresh(q) \/ Running(q), NEW k \in 0 .. Len(q)
  PROVE  \E r \in Seq(Call) :
           /\ r = Append(SubSeq(q, 1, k), Eof) /\ Ended(r) /\ r # <<>>
           /\ Running(r) \/ (Fresh(r) /\ Fresh(q))
           /\ q = <<>> \/ Fresh(q) => r = <<Eof>> \/ Fresh(r)
           /\ \A n \in 1 .. Len(r) : r[n] = Eof \/ (n \in 1 .. Len(q) /\ r[n] = q[n])
<1> DEFINE s == SubSeq(q, 1, k)
<1>1. /\ Len(q) \in Nat /\ s \in Seq(Call) /\ Len(s) = k
      /\ \A n \in 1 .. k : n \in 1 .. Len(q) /\ s[n] = q[n]
  BY LenProperties, SubSeqProperties
<1> HIDE DEF s
<1>2. PICK r : r = Append(s, Eof)
  OBVIOUS
<1>3. /\ r \in Seq(Call) /\ Len(r) = k + 1 /\ r[k + 1] = Eof
      /\ \A n \in 1 .. k : r[n] = s[n]
  BY <1>1, <1>2, AppendProperties, CallsApart
<1>4. Ended(r) /\ r # <<>>
  <2>1. r # <<>>
    BY <1>3, EmptySeq
  <2> QED
    BY <1>3, <2>1 DEF Ended
<1>5. \A n \in 1 .. Len(r) : r[n] = Eof \/ (n \in 1 .. Len(q) /\ r[n] = q[n])
  BY <1>1, <1>3
<1>6. k = 0 => r = <<Eof>>
  <2> SUFFICES ASSUME k = 0 PROVE r = <<Eof>>
    OBVIOUS
  <2>1. Len(r) = 1 /\ r[1] = Eof
    BY <1>3
  <2>2. <<Eof>> \in Seq(Call) /\ Len(<<Eof>>) = 1 /\ <<Eof>>[1] = Eof
    BY CallsApart, ShortTails
  <2> QED
    BY <1>3, <2>1, <2>2, SeqEqual
<1>7. Fresh(q) => k = 0 \/ Fresh(r)
  <2> SUFFICES ASSUME Fresh(q), k # 0 PROVE Fresh(r)
    OBVIOUS
  <2>1. q = <<Reg>>
    BY CallsApart DEF Fresh
  <2>2. k = 1 /\ q[1] = Reg
    BY <2>1
  <2>3. Len(r) = 2 /\ r[1] = Reg /\ r[2] = Eof
    BY <1>1, <1>3, <2>2
  <2>4. PICK z : z = <<Reg, Eof>>
    OBVIOUS
  <2>5. z \in Seq(Call) /\ Len(z) = 2 /\ z[1] = Reg /\ z[2] = Eof
    BY <2>4, CallsApart
  <2>6. \A n \in 1 .. Len(z) : n = 1 \/ n = 2
    BY <2>5
  <2>7. r = z
    BY <1>3, <2>3, <2>5, <2>6, SeqEqual
  <2> QED
    BY <2>4, <2>7 DEF Fresh
<1>8. Running(q) => Running(r)
  <2> SUFFICES ASSUME Running(q) PROVE Running(r)
    OBVIOUS
  <2>1. \A n \in 1 .. Len(q) : q[n] # Eof
    <3> SUFFICES ASSUME NEW n \in 1 .. Len(q), q[n] = Eof PROVE FALSE
      OBVIOUS
    <3>1. n = Len(q)
      BY CallsApart DEF Running
    <3>2. q # <<>>
      BY <1>1, EmptySeq
    <3> QED
      BY <3>1, <3>2 DEF Ended
  <2>2. \A n \in 1 .. k : r[n].call \in {"list", "update"}
    BY <1>1, <1>3, <2>1 DEF Running
  <2> QED
    BY <1>3, <2>2 DEF Running
<1>9. q = <<>> => k = 0
  BY <1>1
<1>10. Running(r) \/ (Fresh(r) /\ Fresh(q))
  BY <1>6, <1>7, <1>8, CallsApart
<1> QED
  BY <1>2, <1>3, <1>4, <1>5, <1>6, <1>7, <1>9, <1>10 DEF s

(* A connection breaks: the client forgets its session.                    *)
LEMMA DisconnectKeeps ==
  ASSUME Cardinality(DeviceId) <= MaxSlot, SessionInv, NEW d \in DeviceId, Disconnect(d)
  PROVE  SessionInv'
<1>1. /\ toServer \in [DeviceId -> Seq(Call)] /\ old \in [DeviceId -> Seq(Call)]
      /\ toClient \in [DeviceId -> Seq(Message)] /\ slot \in [Game -> SlotValue]
      /\ DeviceInv(d) /\ d \in up /\ toServer[d] \in Seq(Call)
      /\ hosts \in [Controller -> [Game -> SUBSET WireInfo]]
  BY DEF SessionInv, SessionTypes, Disconnect
<1>2. /\ UNCHANGED <<vars, connects, old, renewed>>
      /\ up' = up \ {d} /\ member' = member \ {d} /\ listed' = listed \ {d}
      /\ toClient' = [toClient EXCEPT ![d] = <<>>]
      /\ slot' = [g \in Game |-> IF g = d THEN 0 ELSE slot[g]]
      /\ hosts' = [c \in Controller |-> IF c = d THEN [g \in Game |-> {}] ELSE hosts[c]]
  BY DEF Disconnect, SlotForgotten
<1>3. /\ ~Ended(toServer[d]) /\ (Fresh(toServer[d]) \/ Running(toServer[d]))
      /\ KnownByOld(d) => toServer[d] = <<>> \/ Fresh(toServer[d])
  BY <1>1, CallsApart DEF DeviceInv, Queues
<1>4. PICK k \in 0 .. Len(toServer[d]) :
        toServer' = [toServer EXCEPT ![d] = Append(SubSeq(@, 1, k), Eof)]
  BY DEF Disconnect, Eof
<1>5. PICK r \in Seq(Call) :
        /\ r = Append(SubSeq(toServer[d], 1, k), Eof) /\ Ended(r) /\ r # <<>>
        /\ Running(r) \/ (Fresh(r) /\ Fresh(toServer[d]))
        /\ toServer[d] = <<>> \/ Fresh(toServer[d]) => r = <<Eof>> \/ Fresh(r)
        /\ \A n \in 1 .. Len(r) :
             r[n] = Eof \/ (n \in 1 .. Len(toServer[d]) /\ r[n] = toServer[d][n])
  BY <1>1, <1>3, CutCalls
<1>6. toServer' = [toServer EXCEPT ![d] = r]
  BY <1>4, <1>5
<1>7. /\ toServer' \in [DeviceId -> Seq(Call)] /\ toServer'[d] = r
      /\ \A e \in DeviceId \ {d} : toServer'[e] = toServer[e]
      /\ old' = old /\ toClient' \in [DeviceId -> Seq(Message)] /\ toClient'[d] = <<>>
      /\ \A e \in DeviceId \ {d} : toClient'[e] = toClient[e]
  <2>1. <<>> \in Seq(Message)
    OBVIOUS
  <2> QED
    BY <1>1, <1>2, <1>6, <2>1
<1>8. \A e \in DeviceId \ {d} : Same(e) /\ toClient'[e] = toClient[e]
  BY <1>2, <1>7 DEF Same, vars
<1>9. SessionTypes'
  <2>1. 0 \in SlotValue
    BY ConstantsAssumption DEF SlotValue
  <2>2. slot' \in [Game -> SlotValue]
    BY <1>1, <1>2, <2>1
  <2>3. hosts' \in [Controller -> [Game -> SUBSET WireInfo]]
    BY <1>1, <1>2
  <2> QED
    <3>1. up' \in SUBSET DeviceId /\ member' \in SUBSET DeviceId
      BY <1>2 DEF SessionInv, SessionTypes
    <3>2. old' = old /\ local_device' = local_device /\ auto_approve' = auto_approve
      BY <1>2 DEF vars
    <3> QED
      BY <1>7, <2>2, <2>3, <3>1, <3>2 DEF SessionInv, SessionTypes
<1>10. Silent(d)' /\ ~Heard(d)' /\ d \notin up'
  <2>1. d \notin up' /\ d \notin member' /\ d \notin listed' /\ (d \in Game => slot'[d] = 0)
    BY <1>2
  <2>2. toClient'[d] = <<>>
    BY <1>7
  <2> QED
    BY <2>1, <2>2 DEF Silent, Heard
<1>11. KnownByOld(d)' <=> KnownByOld(d)
  BY <1>2 DEF KnownByOld
<1>12. Queues(d)'
  <2>1. KnownByOld(d) => TakeOvers /\ Ended(old[d]) /\ (Fresh(old[d]) \/ Running(old[d]))
    BY <1>1 DEF DeviceInv, Queues
  <2>2. KnownByOld(d) => r = <<Eof>> \/ Fresh(r)
    BY <1>3, <1>5
  <2> QED
    BY <1>5, <1>7, <1>10, <1>11, <2>1, <2>2 DEF Queues
<1>13. registry' = registry /\ pending' = pending
  BY <1>2 DEF vars
<1>14. Calling(d)'
  <2>1. Admitted(d)' <=> Admitted(d)
    BY <1>13 DEF Admitted, HasInfo
  <2>2. CASE KnownByOld(d)
    <3>1. Known(d)' = Known(d)
      BY <1>2, <1>11, <2>2 DEF Known
    <3> QED
      BY <1>1, <1>13, <2>1, <3>1 DEF DeviceInv, Calling
  <2>3. CASE ~KnownByOld(d)
    <3>1. Known(d)' = r /\ Known(d) = toServer[d]
      BY <1>7, <1>11, <2>3 DEF Known
    <3>2. \A n \in 1 .. Len(r) : r[n].call \in {"list", "update"} =>
            n \in 1 .. Len(Known(d)) /\ r[n] = Known(d)[n]
      BY <1>5, <3>1, CallsApart
    <3>3. \A n \in 1 .. Len(Known(d)) : Known(d)[n].call \in {"list", "update"} =>
            /\ Admitted(d)
            /\ Known(d)[n].call = "list" => d \in Controller
            /\ Known(d)[n].call = "update" => d \in Game /\
                 \E p \in Counts : Known(d)[n].info = OwnInfo(d, registry[d].slot, p)
      BY <1>1 DEF DeviceInv, Calling
    <3>4. \A n \in 1 .. Len(r) : r[n].call \in {"list", "update"} =>
            /\ Admitted(d)
            /\ r[n].call = "list" => d \in Controller
            /\ r[n].call = "update" =>
                 d \in Game /\ \E p \in Counts : r[n].info = OwnInfo(d, registry[d].slot, p)
      BY <3>2, <3>3, Zenon
    <3> QED
      BY <1>13, <2>1, <3>1, <3>4 DEF Calling
  <2> QED
    BY <2>2, <2>3
<1>15. Recorded(d)'
  <2>1. Unserved(d)' => Unserved(d)
    <3>1. CASE KnownByOld(d)
      BY <1>2, <1>11, <3>1 DEF Unserved, Known
    <3>2. CASE ~KnownByOld(d)
      BY <1>5, <1>7, <1>11, <3>2, RunningNotFresh DEF Unserved, Known
    <3> QED
      BY <3>1, <3>2
  <2> QED
    BY <1>1, <1>13, <2>1 DEF DeviceInv, Recorded, HasInfo
<1>16. DeviceInv(d)' /\ (d \in Controller => Listed(d)')
  <2>1. Hearing(d)' /\ Slotted(d)'
    BY <1>7, <1>10 DEF Hearing, Slotted, Heard
  <2>2. d \in Controller => ~ListIsDue(d)'
    BY <1>7, <1>10 DEF ListIsDue, Heard
  <2> QED
    BY <1>12, <1>14, <1>15, <2>1, <2>2 DEF DeviceInv, Listed
<1> QED
  BY <1>2, <1>8, <1>9, <1>16, ClientStep

(* A call that joins those of a connection that runs.                      *)
LEMMA OneMoreCall ==
  ASSUME NEW q \in Seq(Call), Running(q), ~Ended(q),
         NEW call \in Call, call.call \in {"list", "update"}
  PROVE  \E r \in Seq(Call) :
           /\ r = Append(q, call) /\ Running(r) /\ ~Ended(r)
           /\ \A n \in 1 .. Len(r) : r[n] = call \/ (n \in 1 .. Len(q) /\ r[n] = q[n])
<1>1. PICK r : r = Append(q, call)
  OBVIOUS
<1>2. /\ Len(q) \in Nat /\ r \in Seq(Call) /\ Len(r) = Len(q) + 1
      /\ r[Len(q) + 1] = call /\ \A n \in 1 .. Len(q) : r[n] = q[n]
  BY <1>1, AppendProperties, LenProperties
<1>3. call # Eof
  BY CallsApart
<1>4. \A n \in 1 .. Len(q) : q[n].call \in {"list", "update"}
  <2> SUFFICES ASSUME NEW n \in 1 .. Len(q), q[n] = Eof PROVE FALSE
    BY DEF Running
  <2>1. n = Len(q) /\ q # <<>>
    BY <1>2, EmptySeq, CallsApart DEF Running
  <2> QED
    BY <2>1 DEF Ended
<1>5. Running(r)
  <2>1. \A n \in 1 .. Len(r) : n = Len(q) + 1 \/ n \in 1 .. Len(q)
    BY <1>2
  <2>2. \A n \in 1 .. Len(r) : r[n].call \in {"list", "update"}
    BY <1>2, <1>4, <2>1
  <2> QED
    BY <2>2 DEF Running
<1>6. ~Ended(r)
  BY <1>2, <1>3 DEF Ended
<1>7. \A n \in 1 .. Len(r) : r[n] = call \/ (n \in 1 .. Len(q) /\ r[n] = q[n])
  BY <1>2
<1> QED
  BY <1>1, <1>2, <1>5, <1>6, <1>7

(* A client that heard of its registration calls: it asks for the list, or *)
(* reports with the slot its record has.                                   *)
LEMMA PushKeeps ==
  ASSUME Cardinality(DeviceId) <= MaxSlot, SessionInv, NEW d \in DeviceId, Heard(d),
         NEW call \in Call, call.call \in {"list", "update"},
         call.call = "list" => d \in Controller,
         call.call = "update" =>
           d \in Game /\ \E p \in Counts : call.info = OwnInfo(d, registry[d].slot, p),
         Push(d, call),
         UNCHANGED <<vars, old, renewed, up, toClient, member, slot, listed, hosts>>
  PROVE  SessionInv'
<1>1. /\ toServer \in [DeviceId -> Seq(Call)] /\ DeviceInv(d) /\ toServer[d] \in Seq(Call)
  BY DEF SessionInv, SessionTypes
<1>2. /\ Admitted(d) /\ d \in up /\ ~KnownByOld(d) /\ ~Fresh(toServer[d])
      /\ Running(toServer[d]) /\ ~Ended(toServer[d])
  BY <1>1 DEF DeviceInv, Hearing, Silent, Queues
<1>3. PICK r \in Seq(Call) :
        /\ r = Append(toServer[d], call) /\ Running(r) /\ ~Ended(r)
        /\ \A n \in 1 .. Len(r) :
             r[n] = call \/ (n \in 1 .. Len(toServer[d]) /\ r[n] = toServer[d][n])
  BY <1>1, <1>2, OneMoreCall
<1>4. /\ toServer' \in [DeviceId -> Seq(Call)] /\ toServer'[d] = r
      /\ \A e \in DeviceId \ {d} : toServer'[e] = toServer[e]
  BY <1>1, <1>3 DEF Push
<1>5. \A e \in DeviceId \ {d} : Same(e) /\ toClient'[e] = toClient[e]
  BY <1>4 DEF Same, vars
<1>6. SessionTypes'
  BY <1>4 DEF SessionInv, SessionTypes, vars
<1>7. /\ ~KnownByOld(d)' /\ Known(d)' = r /\ Known(d) = toServer[d]
      /\ registry' = registry /\ pending' = pending /\ up' = up
  BY <1>2, <1>4 DEF KnownByOld, Known, vars
<1>8. ~Fresh(r)
  BY <1>3, RunningNotFresh
<1>9. Queues(d)'
  BY <1>2, <1>3, <1>4, <1>7 DEF Queues
<1>10. (Heard(d)' <=> Heard(d)) /\ (Admitted(d)' <=> Admitted(d))
  BY <1>7 DEF Heard, Admitted, HasInfo
<1>11. Hearing(d)'
  BY <1>1, <1>2, <1>4, <1>7, <1>8, <1>10 DEF Hearing, DeviceInv
<1>12. Calling(d)'
  <2>1. \A n \in 1 .. Len(toServer[d]) : toServer[d][n].call \in {"list", "update"} =>
          /\ toServer[d][n].call = "list" => d \in Controller
          /\ toServer[d][n].call = "update" => d \in Game /\
               \E p \in Counts : toServer[d][n].info = OwnInfo(d, registry[d].slot, p)
    BY <1>1, <1>7 DEF DeviceInv, Calling
  <2>2. \A n \in 1 .. Len(r) : r[n].call \in {"list", "update"} =>
          /\ r[n].call = "list" => d \in Controller
          /\ r[n].call = "update" =>
               d \in Game /\ \E p \in Counts : r[n].info = OwnInfo(d, registry[d].slot, p)
    <3> TAKE n \in 1 .. Len(r)
    <3>1. CASE r[n] = call
      BY <3>1, Zenon
    <3>2. CASE n \in 1 .. Len(toServer[d]) /\ r[n] = toServer[d][n]
      BY <2>1, <3>2, Zenon
    <3> QED
      BY <1>3, <3>1, <3>2
  <2> QED
    BY <1>2, <1>7, <1>10, <2>2 DEF Calling
<1>13. Recorded(d)'
  BY <1>1, <1>2, <1>7, <1>8 DEF DeviceInv, Recorded, Unserved, HasInfo
<1>14. Slotted(d)'
  BY <1>1, <1>7 DEF DeviceInv, Slotted
<1>15. d \in Controller => Listed(d)'
  BY <1>7 DEF SessionInv, Listed, ListIsDue, Agrees, Shown, KindIs, HasInfo
<1>16. DeviceInv(d)'
  BY <1>9, <1>11, <1>12, <1>13, <1>14 DEF DeviceInv
<1> QED
  BY <1>5, <1>6, <1>15, <1>16, ClientStep

(* A registered controller asks for the list.                              *)
LEMMA AskListKeeps ==
  ASSUME Cardinality(DeviceId) <= MaxSlot, SessionInv, NEW c \in Controller, AskList(c)
  PROVE  SessionInv'
<1>1. PICK call : call = [call |-> "list"]
  OBVIOUS
<1>2. call \in Call /\ call.call = "list" /\ c \in DeviceId
  BY <1>1, SessionAssumption DEF Call
<1>3. Heard(c) /\ Push(c, call)
  BY <1>1 DEF AskList, Heard
<1>4. UNCHANGED <<vars, old, renewed, up, toClient, member, slot, listed, hosts>>
  BY DEF AskList
<1> QED
  BY <1>2, <1>3, <1>4, PushKeeps

(* A game that knows its slot reports its player count.                    *)
LEMMA SendUpdateKeeps ==
  ASSUME Cardinality(DeviceId) <= MaxSlot, SessionInv, NEW g \in Game, NEW p \in Counts,
         SendUpdate(g, p)
  PROVE  SessionInv'
<1>1. g \in DeviceId /\ DeviceInv(g) /\ slot[g] > 0 /\ slot \in [Game -> SlotValue]
  BY SessionAssumption DEF SessionInv, SessionTypes, SendUpdate
<1>2. slot[g] \in 1 .. MaxSlot /\ slot[g] # 0
  <2>1. slot[g] \in SlotValue
    BY <1>1
  <2> QED
    BY <1>1, <2>1, ConstantsAssumption DEF SlotValue
<1>3. Heard(g) /\ slot[g] = registry[g].slot
  BY <1>1, <1>2 DEF Heard, DeviceInv, Slotted
<1>4. PICK info : info = OwnInfo(g, slot[g], p)
  OBVIOUS
<1>5. info \in Info
  BY <1>2, <1>4, SessionAssumption, ConstantsAssumption, WireInfoIsInfo
<1>6. PICK call : call = [call |-> "update", info |-> info]
  OBVIOUS
<1>7. call \in Call /\ call.call = "update" /\ call.info = info
  BY <1>5, <1>6 DEF Call
<1>8. info = OwnInfo(g, registry[g].slot, p)
  BY <1>3, <1>4
<1>9. Push(g, call)
  BY <1>4, <1>6 DEF SendUpdate
<1>10. UNCHANGED <<vars, old, renewed, up, toClient, member, slot, listed, hosts>>
  BY DEF SendUpdate
<1> QED
  BY <1>1, <1>3, <1>7, <1>8, <1>9, <1>10, PushKeeps

(* A client reads a message: what it then knows of its registration, its   *)
(* slot and the games is what the message told, and what is still under    *)
(* way follows from it.                                                    *)
LEMMA ClientReceiveKeeps ==
  ASSUME Cardinality(DeviceId) <= MaxSlot, SessionInv, NEW d \in DeviceId, ClientReceive(d)
  PROVE  SessionInv'
<1>1. /\ toClient \in [DeviceId -> Seq(Message)] /\ slot \in [Game -> SlotValue]
      /\ hosts \in [Controller -> HostList] /\ toClient[d] \in Seq(Message)
      /\ DeviceInv(d) /\ toClient[d] # <<>>
  BY DEF SessionInv, SessionTypes, HostList, ClientReceive
<1>2. PICK msg : msg = Head(toClient[d])
  OBVIOUS
<1>3. PICK rest : rest = Tail(toClient[d])
  OBVIOUS
<1>4. /\ msg \in Message /\ rest \in Seq(Message) /\ 1 \in 1 .. Len(toClient[d])
      /\ msg = toClient[d][1]
      /\ \A n \in 1 .. Len(rest) :
           (n + 1) \in 1 .. Len(toClient[d]) /\ rest[n] = toClient[d][n + 1]
  <2>1. /\ Len(toClient[d]) \in Nat /\ Len(toClient[d]) >= 1 /\ msg = toClient[d][1]
        /\ rest \in Seq(Message) /\ Len(rest) = Len(toClient[d]) - 1
        /\ \A n \in 1 .. Len(rest) : rest[n] = toClient[d][n + 1]
    BY <1>1, <1>2, <1>3, HeadTailProperties, LenProperties, EmptySeq
  <2>2. msg \in Message
    BY <1>1, <2>1, ElementOfSeq
  <2> QED
    BY <2>1, <2>2
<1>5. /\ member' = IF msg.method = "onRegister" /\ msg.success THEN member \cup {d} ELSE member
      /\ slot' = IF d \in Game /\ msg.method = "onHostConnected"
                 THEN [slot EXCEPT ![d] = msg.info.slot] ELSE slot
      /\ listed' = IF msg.method = "onList" THEN listed \cup {d} ELSE listed
      /\ hosts' = IF d \in Controller
                  THEN [hosts EXCEPT ![d] = HostsAfterMsg(@, msg)] ELSE hosts
      /\ toClient' = [toClient EXCEPT ![d] = rest]
      /\ UNCHANGED <<vars, up, connects, reported, connVars>>
  BY <1>2, <1>3 DEF ClientReceive
<1>6. /\ UNCHANGED <<vars, renewed, up, toServer, old>>
      /\ registry' = registry /\ pending' = pending
  BY <1>5 DEF connVars, vars
<1>7. /\ toClient' \in [DeviceId -> Seq(Message)] /\ toClient'[d] = rest
      /\ \A e \in DeviceId \ {d} : toClient'[e] = toClient[e]
  BY <1>1, <1>4, <1>5
<1>8. /\ slot' \in [Game -> SlotValue]
      /\ d \in Game => slot'[d] = IF msg.method = "onHostConnected" THEN msg.info.slot
                                                                   ELSE slot[d]
      /\ \A g \in Game \ {d} : slot'[g] = slot[g]
  <2>1. msg.method = "onHostConnected" => msg.info.slot \in SlotValue
    BY <1>4 DEF Message, WireInfo, Info
  <2> QED
    BY <1>1, <1>5, <2>1
<1>9. /\ hosts' \in [Controller -> HostList]
      /\ d \in Controller => hosts'[d] = HostsAfterMsg(hosts[d], msg)
      /\ \A c \in Controller \ {d} : hosts'[c] = hosts[c]
  <2>1. d \in Controller => HostsAfterMsg(hosts[d], msg) \in HostList
    BY <1>1, <1>4, AfterMessage
  <2> QED
    BY <1>1, <1>5, <2>1
<1>10. /\ d \in member' => d \in member \/ msg = OnRegister(TRUE)
       /\ d \in listed' => d \in listed \/ msg.method = "onList"
       /\ \A e \in DeviceId \ {d} : (e \in member' <=> e \in member)
                                    /\ (e \in listed' <=> e \in listed)
  <2>1. msg.method = "onRegister" /\ msg.success => msg = OnRegister(TRUE)
    BY <1>4 DEF Message, OnRegister, HostMethod
  <2> QED
    BY <1>5, <2>1
<1>11. \A e \in DeviceId \ {d} : Same(e) /\ toClient'[e] = toClient[e]
  BY <1>6, <1>7, <1>8, <1>10 DEF Same
<1>12. SessionTypes'
  <2>1. member' \in SUBSET DeviceId
    BY <1>5 DEF SessionInv, SessionTypes
  <2>2. local_device' = local_device /\ auto_approve' = auto_approve
    BY <1>6 DEF vars
  <2> QED
    BY <1>6, <1>7, <1>8, <1>9, <2>1, <2>2 DEF SessionInv, SessionTypes, HostList
<1>13. Heard(d)' => Heard(d)
  <2>1. msg = OnRegister(TRUE) \/ msg.method \in {"onList", "onHostConnected"} => Heard(d)
    BY <1>4 DEF Heard, OnRegister
  <2>2. (\E n \in 1 .. Len(rest) : rest[n] # OnRegister(FALSE)) => Heard(d)
    BY <1>4 DEF Heard
  <2>3. d \in Game /\ slot'[d] # 0 => Heard(d)
    BY <1>8, <2>1 DEF Heard
  <2>4. d \in member \/ d \in listed => Heard(d)
    BY DEF Heard
  <2> QED
    BY <1>7, <1>10, <2>1, <2>2, <2>3, <2>4 DEF Heard
<1>14. ~(d \notin up \/ KnownByOld(d) \/ Fresh(toServer[d]))
  BY <1>1 DEF DeviceInv, Hearing, Silent
<1>15. /\ Known(d)' = Known(d) /\ (KnownByOld(d)' <=> KnownByOld(d))
       /\ (Admitted(d)' <=> Admitted(d)) /\ (Unserved(d)' <=> Unserved(d))
  BY <1>6 DEF Known, KnownByOld, Admitted, HasInfo, Unserved
<1>16. Hearing(d)'
  BY <1>1, <1>6, <1>13, <1>14, <1>15 DEF DeviceInv, Hearing
<1>17. Queues(d)'
  BY <1>1, <1>6, <1>15 DEF DeviceInv, Queues
<1>18. Calling(d)'
  BY <1>1, <1>6, <1>15 DEF DeviceInv, Calling
<1>19. Recorded(d)'
  BY <1>1, <1>6, <1>15 DEF DeviceInv, Recorded, HasInfo
<1>20. Slotted(d)'
  <2> SUFFICES ASSUME d \in Game
               PROVE  /\ slot'[d] # 0 => slot'[d] = registry'[d].slot
                      /\ \A n \in 1 .. Len(toClient'[d]) :
                           toClient'[d][n].method = "onHostConnected" =>
                             toClient'[d][n].info.slot = registry'[d].slot
    BY DEF Slotted
  <2>1. /\ slot[d] # 0 => slot[d] = registry[d].slot
        /\ \A n \in 1 .. Len(toClient[d]) : toClient[d][n].method = "onHostConnected" =>
             toClient[d][n].info.slot = registry[d].slot
    BY <1>1 DEF DeviceInv, Slotted
  <2> QED
    BY <1>4, <1>6, <1>7, <1>8, <2>1
<1>21. DeviceInv(d)'
  BY <1>16, <1>17, <1>18, <1>19, <1>20 DEF DeviceInv
<1>22. ASSUME d \in Controller
       PROVE  Listed(d)'
  <2> SUFFICES ASSUME NEW g \in Game, ListIsDue(d)'
               PROVE  Agrees(SoonOf(hosts[d], toClient[d], g), g)'
    BY DEF Listed
  <2>1. ListIsDue(d)
    <3>1. msg.method = "onList" => ListIsDue(d)
      BY <1>4 DEF ListIsDue
    <3>2. (\E n \in 1 .. Len(rest) : rest[n].method = "onList") => ListIsDue(d)
      BY <1>4 DEF ListIsDue
    <3>3. d \in listed => ListIsDue(d)
      BY DEF ListIsDue
    <3> QED
      BY <1>7, <1>10, <3>1, <3>2, <3>3 DEF ListIsDue
  <2>2. PICK soon : soon = SoonOf(hosts[d], toClient[d], g)
    OBVIOUS
  <2>3. Agrees(soon, g)
    BY <1>22, <2>1, <2>2 DEF SessionInv, Listed
  <2>4. hosts[d] \in HostList
    BY <1>1, <1>22
  <2>5. SoonOf(HostsAfterMsg(hosts[d], msg), rest, g) = soon
    BY <1>1, <1>2, <1>3, <2>2, <2>4, SoonTail
  <2>6. SoonOf(hosts'[d], toClient'[d], g) = soon
    BY <1>7, <1>9, <1>22, <2>5
  <2>7. Agrees(soon, g)'
    BY <1>6, <2>3 DEF Agrees, Shown, KindIs, HasInfo
  <2> QED
    BY <2>6, <2>7
<1> QED
  BY <1>6, <1>9, <1>11, <1>12, <1>21, <1>22, ClientStep

(* The application sets the approval mode.                                 *)
LEMMA ConfigureKeeps ==
  ASSUME Cardinality(DeviceId) <= MaxSlot, Careful, SessionInv, Configure
  PROVE  SessionInv' /\ [DisciplinedNext]_vars
<1>1. PICK mode \in Modes : SetAutoApprove(mode)
  BY DEF Configure
<1>2. mode \in BOOLEAN
  BY <1>1, SessionAssumption
<1>3. [DisciplinedNext]_vars
  BY <1>1, <1>2 DEF DisciplinedNext, Common
<1>4. SlotsInv'
  BY <1>3, SlotsInvStep DEF SessionInv
<1>5. /\ UNCHANGED <<registry, pending, local_device>> /\ auto_approve' = mode
      /\ UNCHANGED <<clientVars, connVars, toClient>>
  BY <1>1 DEF Configure, SetAutoApprove
<1>6. UNCHANGED <<toServer, old, renewed, toClient, up, member, slot, listed, hosts>>
  BY <1>5 DEF clientVars, connVars
<1>7. ~mode => DenyOnDisconnect /\ ~TakeOvers
  BY <1>1, <1>2 DEF Careful
<1>8. SessionTypes'
  BY <1>5, <1>6, <1>7 DEF SessionInv, SessionTypes
<1>9. \A e \in DeviceId : Same(e) /\ toClient'[e] = toClient[e]
  BY <1>5, <1>6 DEF Same
<1>10. \A e \in DeviceId : DeviceInv(e)'
  BY <1>9, SameKeeps DEF SessionInv
<1>11. \A c \in Controller : Listed(c)'
  BY <1>5, <1>6 DEF SessionInv, Listed, ListIsDue, Agrees, Shown, KindIs, HasInfo
<1> QED
  BY <1>3, <1>4, <1>8, <1>10, <1>11 DEF SessionInv

-----------------------------------------------------------------------------
(* The system.                                                             *)

(* Before anyone connects there is nothing to be wrong.                    *)
LEMMA SessionInvInit == SessionInit => SessionInv
<1> SUFFICES ASSUME SessionInit PROVE SessionInv
  OBVIOUS
<1>1. /\ Init /\ up = {} /\ member = {} /\ listed = {} /\ renewed = {}
      /\ toServer = [d \in DeviceId |-> <<>>] /\ old = [d \in DeviceId |-> <<>>]
      /\ toClient = [d \in DeviceId |-> <<>>] /\ slot = [g \in Game |-> 0]
      /\ hosts = [c \in Controller |-> [g \in Game |-> {}]]
  BY DEF SessionInit
<1>2. SlotsInv
  BY <1>1, SlotsInvInit
<1>3. /\ \A d \in DeviceId : toServer[d] = <<>> /\ old[d] = <<>> /\ toClient[d] = <<>>
      /\ \A d \in DeviceId : registry[d] = Absent /\ pending[d] = NoPending
      /\ \A g \in Game : slot[g] = 0
  BY <1>1 DEF Init
<1>4. SessionTypes
  <2>1. /\ <<>> \in Seq(Call) /\ <<>> \in Seq(Message) /\ 0 \in SlotValue
    BY ConstantsAssumption DEF SlotValue
  <2>2. auto_approve /\ local_device = NoLocal
    BY <1>1 DEF Init
  <2> QED
    BY <1>1, <2>1, <2>2 DEF SessionTypes
<1>5. ASSUME NEW d \in DeviceId
      PROVE  DeviceInv(d) /\ ~Heard(d)
  <2>1. ~KnownByOld(d) /\ Known(d) = <<>> /\ ~HasInfo(registry, d) /\ d \notin up
    BY <1>1, <1>3 DEF KnownByOld, Known, HasInfo
  <2>2. Silent(d) /\ ~Heard(d)
    BY <1>1, <1>3 DEF Silent, Heard
  <2>3. Queues(d)
    BY <1>3, <2>1, CallsApart DEF Queues
  <2>4. Hearing(d) /\ Calling(d)
    BY <2>1, <2>2 DEF Hearing, Calling
  <2>5. Recorded(d) /\ Slotted(d)
    BY <1>3, <2>1 DEF Recorded, Slotted
  <2> QED
    BY <2>2, <2>3, <2>4, <2>5 DEF DeviceInv
<1>6. \A c \in Controller : Listed(c)
  <2> SUFFICES ASSUME NEW c \in Controller PROVE ~ListIsDue(c)
    BY DEF Listed
  <2>1. toClient[c] = <<>> /\ c \notin listed
    BY <1>1, <1>3, SessionAssumption
  <2> QED
    BY <2>1 DEF ListIsDue
<1> QED
  BY <1>2, <1>4, <1>5, <1>6 DEF SessionInv

(* Every step keeps the invariant, and is a step of the disciplined        *)
(* engine.                                                                 *)
LEMMA SessionInvStep ==
  ASSUME Cardinality(DeviceId) <= MaxSlot, Careful, SessionInv, [SessionNext]_sessionVars
  PROVE  SessionInv' /\ [DisciplinedNext]_vars
<1>1. CASE UNCHANGED sessionVars
  <2>1. /\ UNCHANGED <<registry, pending, local_device, auto_approve, toServer, old, renewed>>
        /\ UNCHANGED <<toClient, up, member, slot, listed, hosts>> /\ UNCHANGED vars
    BY <1>1 DEF sessionVars, clientVars, connVars, vars
  <2>2. [DisciplinedNext]_vars
    BY <2>1
  <2>3. SlotsInv'
    BY <2>2, SlotsInvStep DEF SessionInv
  <2>4. SessionTypes'
    BY <2>1 DEF SessionInv, SessionTypes
  <2>5. \A e \in DeviceId : Same(e) /\ toClient'[e] = toClient[e]
    BY <2>1 DEF Same
  <2>6. \A e \in DeviceId : DeviceInv(e)'
    BY <2>5, SameKeeps DEF SessionInv
  <2>7. \A c \in Controller : Listed(c)'
    BY <2>1 DEF SessionInv, Listed, ListIsDue, Agrees, Shown, KindIs, HasInfo
  <2> QED
    BY <2>2, <2>3, <2>4, <2>6, <2>7 DEF SessionInv
<1>2. CASE Configure
  BY <1>2, ConfigureKeeps
<1>3. ASSUME NEW d \in DeviceId, Connect(d)
      PROVE  SessionInv' /\ UNCHANGED vars
  BY <1>3, ConnectKeeps DEF Connect
<1>4. ASSUME NEW d \in DeviceId, Disconnect(d)
      PROVE  SessionInv' /\ UNCHANGED vars
  BY <1>4, DisconnectKeeps DEF Disconnect
<1>5. ASSUME NEW d \in DeviceId, ClientReceive(d)
      PROVE  SessionInv' /\ UNCHANGED vars
  BY <1>5, ClientReceiveKeeps DEF ClientReceive
<1>6. ASSUME NEW d \in DeviceId, ServerReceive(d)
      PROVE  SessionInv' /\ [DisciplinedNext]_vars
  <2>1. CASE ServeCall(d)
    BY <2>1, ServeCallKeeps
  <2>2. CASE DenyLost(d)
    BY <2>2, DenyKeeps DEF DenyLost
  <2>3. CASE DropLost(d)
    BY <2>3, DropKeeps
  <2>4. CASE TakeOver(d)
    BY <2>4, TakeOverKeeps
  <2>5. CASE NamelessEnd(d) \/ LateEnd(d)
    <3>1. SessionInv'
      BY <2>5, UnnamedEndsKeep
    <3>2. UNCHANGED vars
      BY <2>5 DEF NamelessEnd, LateEnd
    <3> QED
      BY <3>1, <3>2
  <2> QED
    BY <1>6, <2>1, <2>2, <2>3, <2>4, <2>5 DEF ServerReceive
<1>7. ASSUME NEW d \in DeviceId, Decide(d)
      PROVE  SessionInv' /\ [DisciplinedNext]_vars
  BY <1>7, ApproveKeeps, DenyKeeps DEF Decide
<1>8. ASSUME NEW c \in Controller, AskList(c)
      PROVE  SessionInv' /\ UNCHANGED vars
  BY <1>8, AskListKeeps DEF AskList
<1>9. ASSUME NEW g \in Game, NEW p \in Counts, SendUpdate(g, p)
      PROVE  SessionInv' /\ UNCHANGED vars
  BY <1>9, SendUpdateKeeps DEF SendUpdate
<1> QED
  BY <1>1, <1>2, <1>3, <1>4, <1>5, <1>6, <1>7, <1>8, <1>9 DEF SessionNext

(* The composed system never writes a slot behind the slot table's back:   *)
(* whatever devices connect, ask and report over connections that break    *)
(* and overlap, every step is one of the disciplined engine's.             *)
THEOREM SessionDisciplined ==
  ASSUME Cardinality(DeviceId) <= MaxSlot, Careful
  PROVE  SessionSpec => SessionIsDisciplined
<1>1. SessionInit => Init /\ SessionInv
  BY SessionInvInit DEF SessionInit
<1>2. SessionInv /\ [SessionNext]_sessionVars => SessionInv' /\ [DisciplinedNext]_vars
  BY SessionInvStep
<1> QED
  BY <1>1, <1>2, PTL DEF SessionSpec, SessionIsDisciplined, DisciplinedSpec

(* In every reachable state every device's part of the invariant holds.    *)
LEMMA SessionInvAlways ==
  ASSUME Cardinality(DeviceId) <= MaxSlot, Careful
  PROVE  SessionSpec => []SessionInv
<1>1. SessionInv /\ [SessionNext]_sessionVars => SessionInv'
  BY SessionInvStep
<1> QED
  BY <1>1, SessionInvInit, PTL DEF SessionSpec

(* Whoever has been told that it is registered is: nothing the server      *)
(* still reads of an older connection unregisters a device that is back.   *)
THEOREM MembersStayRegistered ==
  ASSUME Cardinality(DeviceId) <= MaxSlot, Careful
  PROVE  SessionSpec => []MembersRegistered
<1>1. SessionInv => MembersRegistered
  BY DEF SessionInv, SessionTypes, DeviceInv, Hearing, Heard, Admitted, MembersRegistered
<1> QED
  BY <1>1, SessionInvAlways, PTL

(* Two connected games that know their slots know different ones: what     *)
(* they were told is what the registry holds, and that is held once.       *)
THEOREM ToldSlotsApart ==
  ASSUME Cardinality(DeviceId) <= MaxSlot, Careful
  PROVE  SessionSpec => []SlotsToldApart
<1>1. ASSUME SessionInv, NEW g \in Game, NEW h \in Game, slot[g] > 0, slot[g] = slot[h]
      PROVE  g = h
  <2>1. g \in DeviceId /\ h \in DeviceId /\ slot \in [Game -> SlotValue]
    BY <1>1, SessionAssumption DEF SessionInv, SessionTypes
  <2>2. slot[g] # 0 /\ slot[h] # 0
    BY <1>1, <2>1
  <2>3. ASSUME NEW d \in Game, slot[d] # 0, d \in DeviceId
        PROVE  SlotOf(registry, d) = slot[d]
    <3>1. DeviceInv(d) /\ Heard(d)
      BY <1>1, <2>3 DEF SessionInv, Heard
    <3>2. HasInfo(registry, d) /\ registry[d].slot = slot[d] /\ registry[d].slot > 0
      BY <2>3, <3>1 DEF DeviceInv, Hearing, Admitted, Slotted, Recorded
    <3> QED
      BY <3>2 DEF SlotOf
  <2>4. SlotOf(registry, g) = SlotOf(registry, h) /\ SlotOf(registry, g) > 0
    BY <1>1, <2>1, <2>2, <2>3
  <2> QED
    BY <1>1, <2>1, <2>4 DEF SessionInv, SlotsInv, Exact
<1>2. SessionInv => SlotsToldApart
  BY <1>1 DEF SlotsToldApart
<1> QED
  BY <1>2, SessionInvAlways, PTL

(* A controller that asked for the list has, once it reads what is under   *)
(* way, exactly the games the server has registered, each with the slot    *)
(* and player count the server has; of a game that registered over its own *)
(* record, the slot.                                                       *)
THEOREM ListsAgree ==
  ASSUME Cardinality(DeviceId) <= MaxSlot, Careful
  PROVE  SessionSpec => []HostListsAgree
<1>1. ASSUME SessionInv, NEW c \in Controller, NEW g \in Game, ListIsDue(c)
      PROVE  \/ ShownSoon(c, g) = Shown(g)
             \/ g \in renewed /\ {i.slot : i \in ShownSoon(c, g)} = {i.slot : i \in Shown(g)}
  <2>1. hosts[c] \in HostList /\ toClient[c] \in Seq(Message)
    BY <1>1, SessionAssumption DEF SessionInv, SessionTypes, HostList
  <2>2. ShownSoon(c, g) = SoonOf(hosts[c], toClient[c], g)
    BY <2>1, SoonIsShown
  <2>3. Agrees(SoonOf(hosts[c], toClient[c], g), g)
    BY <1>1 DEF SessionInv, Listed
  <2> QED
    BY <2>2, <2>3 DEF Agrees, Slots
<1>2. SessionInv => HostListsAgree
  BY <1>1 DEF HostListsAgree
<1> QED
  BY <1>2, SessionInvAlways, PTL
=============================================================================
