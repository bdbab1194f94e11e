---------------------------- MODULE PacketExchange ----------------------------
(***************************************************************************)
(* Engines that exchange packets: how an engine numbers and signs what it  *)
(* sends (make_packet, next_sequence, next_invoke_id), how it answers a    *)
(* ping, and how it learns whom to answer (push_registry_update).          *)
(*                                                                         *)
(* An engine call returns its Action values; the application, from one     *)
(* thread, carries them out in order before it calls the engine again.  It *)
(* sends to the connection it has for the id an Action::Send names, and    *)
(* learns connections from what arrives on them (Action::UpdateRegistry).  *)
(* Reliable packets of a connection arrive in order; unreliable ones may   *)
(* be lost, overtake and be overtaken.                                     *)
(*                                                                         *)
(* Abstracted: payloads, of which only the invoke id is left; what an      *)
(* invoke does to the registry, which is RegistryEngine; empty ids;        *)
(* registered cores too long to be written; the types Ack, Analysis and    *)
(* KeepAlive, handled like a Data packet without an invoke; applications   *)
(* that make echoes themselves.  A node stands for an engine, its          *)
(* application and its device id.                                          *)
(***************************************************************************)
EXTENDS Integers, Sequences, FiniteSets

CONSTANTS
  Node,
  Nameless,       \* nodes whose application never calls init_local_device
  Core,           \* what the others may call it with: "set" or "long"
  Message,        \* the channel of invokes
  Input,          \* the channels that are unreliable by default
  SequenceLimit,  \* 2^31 in the code
  MaxInvokeId,    \* i32::MAX in the code
  FirstSequence,  \* the sequence numbers an engine may have got to
  FirstInvoke,    \* the invoke ids it may have got to
  Opens,          \* bound: who opens connections to whom
  MaxMade,        \* bound: packets and invokes made, echoes not counted
  NoRoute         \* no connection known for an id

VARIABLES
  known,     \* the ids in Engine::registry, per node
  local,     \* Engine::local_device: "none", "set", or "long" (cannot be written)
  sequence,  \* Engine::seq_by_channel
  invoke,    \* Engine::invoke_counter
  outbox,    \* the Action::Send values of the last call still to carry out
  route,     \* the application's connection for each id
  link,      \* packets on their way, in the order they were sent
  awaiting,  \* node pairs: a reliable ping was sent, and its echo will come
  made       \* counter for the bound MaxMade

engineVars == <<known, local, sequence, invoke, outbox>>
exchangeVars == <<engineVars, route, link, awaiting, made>>

Channel == {Message} \cup Input
SequenceNumber == -SequenceLimit .. SequenceLimit - 1
PacketType == {"Data", "Ping", "Echo"}
Reliability == {0, 1}

Packet == [from : Node, channel : Channel, reliability : Reliability,
           type : PacketType, sequence : SequenceNumber, id : 0 .. MaxInvokeId]
Send == [to : Node, packet : Packet]

ASSUME ExchangeAssumption ==
  /\ Nameless \subseteq Node /\ NoRoute \notin Node
  /\ Core \subseteq {"set", "long"}
  /\ Opens \subseteq Node \X Node
  /\ Message \notin Input
  /\ SequenceLimit \in Nat \ {0} /\ MaxInvokeId \in Nat \ {0}
  /\ FirstSequence \subseteq SequenceNumber /\ FirstInvoke \subseteq 1 .. MaxInvokeId
  /\ MaxMade \in Nat

(* Engines that have been running: their counters are anywhere.            *)
ExchangeInit ==
  /\ known = [n \in Node |-> {}]
  /\ local = [n \in Node |-> "none"]
  /\ \E s \in FirstSequence : sequence = [n \in Node |-> [ch \in Channel |-> s]]
  /\ \E i \in FirstInvoke : invoke = [n \in Node |-> i]
  /\ outbox = [n \in Node |-> <<>>]
  /\ route = [n \in Node |-> [d \in Node |-> NoRoute]]
  /\ link = [n \in Node |-> [m \in Node |-> <<>>]]
  /\ awaiting = {}
  /\ made = 0

-----------------------------------------------------------------------------
(* Making packets.                                                         *)

(* Mutation of Wrap: the numbers start again at 0.                         *)
WrapToZero(s) == s % SequenceLimit

(* wrapping_add of an i32.                                                 *)
Wrap(s) == ((s + SequenceLimit) % (2 * SequenceLimit)) - SequenceLimit

(* Mutation of NextInvoke: counts on.                                      *)
NextInvokeUnbounded(i, n) == i + n

(* Mutation of NextInvoke: stays at the limit.                             *)
NextInvokeSaturating(i, n) == IF i + n > MaxInvokeId THEN MaxInvokeId ELSE i + n

(* The id after n more invokes: 1 follows i32::MAX.                        *)
NextInvoke(i, n) == ((i - 1 + n) % MaxInvokeId) + 1

DefaultReliability(ch) == IF ch \in Input THEN 0 ELSE 1

(* Mutation of Sender: a packet always names its target.                   *)
SenderIsTarget(n, target) == target

(* Without a local device the packet names its target.                     *)
Sender(n, target) == IF local[n] = "none" THEN target ELSE n

(* Whether the sender's id and name can be written (write_utf).            *)
Writable(n) == local[n] # "long"

(* Applications that name their device do so before they connect.          *)
Running(n) == n \in Nameless \/ local[n] # "none"

(* The application calls the engine when it is done with the last call.    *)
Ready(n) == Running(n) /\ outbox[n] = <<>>

(* make_packet with D registered.  A registered target uses up a number    *)
(* even if the packet cannot be built.                                     *)
MadePacket(n, D, target, ch, rel, type) ==
  /\ sequence' = [sequence EXCEPT ![n][ch] = IF target \in D THEN Wrap(@ + 1) ELSE @]
  /\ outbox' = [outbox EXCEPT ![n] =
       IF target \notin D \/ ~Writable(n) THEN <<>>
       ELSE <<[to |-> target,
               packet |-> [from |-> Sender(n, target), channel |-> ch,
                           reliability |-> rel, type |-> type,
                           sequence |-> sequence[n][ch], id |-> 0]]>>]
  /\ UNCHANGED invoke

(* The ids in D a call may send invokes to, some of them more than once.   *)
Orders(D, limit) == UNION {[1 .. k -> D] : k \in 0 .. limit}

(* make_message_invoke for each of `targets`, registered, in turn.         *)
MadeInvokes(n, targets) ==
  /\ sequence' = [sequence EXCEPT ![n][Message] = Wrap(@ + Len(targets))]
  /\ invoke' = [invoke EXCEPT ![n] = NextInvoke(@, Len(targets))]
  /\ outbox' = [outbox EXCEPT ![n] =
       IF ~Writable(n) THEN <<>>
       ELSE [k \in 1 .. Len(targets) |->
              [to |-> targets[k],
               packet |-> [from |-> Sender(n, targets[k]), channel |-> Message,
                           reliability |-> 1, type |-> "Data",
                           sequence |-> Wrap(sequence[n][Message] + k - 1),
                           id |-> NextInvoke(invoke[n], k - 1)]]]]
  /\ made' = made + Len(targets)

(* An invoke that cannot be encoded, or to an id that is not registered:   *)
(* its id is used up, no sequence number is.  (One that a call is refused  *)
(* before or after others counts as a call of its own.)                    *)
RefusedInvoke(n) ==
  /\ made < MaxMade
  /\ invoke' = [invoke EXCEPT ![n] = NextInvoke(@, 1)]
  /\ made' = made + 1
  /\ outbox' = [outbox EXCEPT ![n] = <<>>]
  /\ UNCHANGED sequence

-----------------------------------------------------------------------------
(* The application's calls.                                                *)

InitLocal(n, core) ==
  /\ n \notin Nameless
  /\ outbox[n] = <<>>
  /\ local' = [local EXCEPT ![n] = core]
  /\ UNCHANGED <<known, sequence, invoke, outbox, route, link, awaiting, made>>

(* A connection is opened to a device whose id is known beforehand.        *)
Register(n, m) ==
  /\ Ready(n) /\ Running(m)
  /\ known' = [known EXCEPT ![n] = @ \cup {m}]
  /\ route' = [route EXCEPT ![n][m] = m]
  /\ UNCHANGED <<local, sequence, invoke, outbox, link, awaiting, made>>

(* make_packet and the builders of input events.  (To an id that is not    *)
(* registered they only log.)                                              *)
MakePacket(n, target, ch, rel, type) ==
  /\ Ready(n) /\ target \in known[n]
  /\ made < MaxMade
  /\ MadePacket(n, known[n], target, ch, rel, type)
  /\ made' = made + 1
  /\ UNCHANGED <<known, local, route, link, awaiting>>

(* The builders of invokes.                                                *)
MakeInvoke(n, target) ==
  /\ Ready(n)
  /\ \/ target \in known[n] /\ made < MaxMade /\ MadeInvokes(n, <<target>>)
     \/ RefusedInvoke(n)
  /\ UNCHANGED <<known, local, route, link, awaiting>>

(* drop_device may announce the loss; the application forgets the          *)
(* connection.                                                             *)
Drop(n, d) ==
  /\ Ready(n) /\ d \in known[n]
  /\ known' = [known EXCEPT ![n] = @ \ {d}]
  /\ route' = [route EXCEPT ![n][d] = NoRoute]
  /\ \E targets \in Orders(known[n] \ {d}, MaxMade - made) : MadeInvokes(n, targets)
  /\ UNCHANGED <<local, link, awaiting>>

(* Action::Send.                                                           *)
CarryOut(n) ==
  /\ outbox[n] # <<>>
  /\ LET send == Head(outbox[n])
         conn == route[n][send.to]
     IN  IF conn = NoRoute THEN UNCHANGED <<link, awaiting>>
         ELSE /\ link' = [link EXCEPT ![n][conn] = Append(@, send.packet)]
              /\ awaiting' =
                   IF /\ send.packet.type = "Ping" /\ send.packet.reliability = 1
                      /\ DefaultReliability(send.packet.channel) = 1
                   THEN awaiting \cup {<<n, conn>>} ELSE awaiting
  /\ outbox' = [outbox EXCEPT ![n] = Tail(@)]
  /\ UNCHANGED <<known, local, sequence, invoke, route, made>>

-----------------------------------------------------------------------------
(* What arrives.                                                           *)

Without(s, i) == SubSeq(s, 1, i - 1) \o SubSeq(s, i + 1, Len(s))

(* Reliable packets come in order.                                         *)
Deliverable(n, m, i) ==
  link[n][m][i].reliability = 1 => \A j \in 1 .. i - 1 : link[n][m][j].reliability = 0

(* Mutation of Filed: the sender is filed after the packet is handled.     *)
FiledLate(m, sender) == known[m]

(* push_registry_update, before anything else is done with a packet.       *)
Filed(m, sender) == known[m] \cup {sender}

(* handle_ping; an echo and an input event change nothing else; an invoke  *)
(* makes RegistryEngine send to some of the devices it knows, to one that  *)
(* it does not know (a relay), or to none.                                 *)
Handle(m, p) ==
  \/ /\ p.type = "Ping"
     /\ MadePacket(m, Filed(m, p.from), p.from, p.channel,
                   DefaultReliability(p.channel), "Echo")
     /\ UNCHANGED made
  \/ /\ p.type = "Echo" \/ (p.type = "Data" /\ p.id = 0)
     /\ UNCHANGED <<sequence, invoke, outbox, made>>
  \/ /\ p.type = "Data" /\ p.id > 0
     /\ \/ \E targets \in Orders(Filed(m, p.from), MaxMade - made) : MadeInvokes(m, targets)
        \/ RefusedInvoke(m)

Receive(n, m, i) ==
  /\ Ready(m) /\ i \in 1 .. Len(link[n][m]) /\ Deliverable(n, m, i)
  /\ LET p == link[n][m][i]
     IN  /\ Handle(m, p)
         /\ known' = [known EXCEPT ![m] = @ \cup {p.from}]
         /\ route' = [route EXCEPT ![m][p.from] = n]
         /\ awaiting' = IF p.type = "Echo" THEN awaiting \ {<<m, n>>}
                        ELSE IF p.type = "Ping" /\ ~Writable(m) THEN awaiting \ {<<n, m>>}
                        ELSE awaiting
  /\ link' = [link EXCEPT ![n][m] = Without(@, i)]
  /\ UNCHANGED local

Lose(n, m, i) ==
  /\ i \in 1 .. Len(link[n][m]) /\ link[n][m][i].reliability = 0
  /\ link' = [link EXCEPT ![n][m] = Without(@, i)]
  /\ UNCHANGED <<engineVars, route, awaiting, made>>

(* A connection breaks and is replaced: what was on its way is lost.       *)
Break(n, m) ==
  /\ link[n][m] # <<>> \/ link[m][n] # <<>>
  /\ link' = [link EXCEPT ![n][m] = <<>>, ![m][n] = <<>>]
  /\ awaiting' = awaiting \ {<<n, m>>, <<m, n>>}
  /\ UNCHANGED <<engineVars, route, made>>

-----------------------------------------------------------------------------
ExchangeNext ==
  \E n, m \in Node :
    \/ \E core \in Core : InitLocal(n, core)
    \/ <<n, m>> \in Opens /\ n # m /\ Register(n, m)
    \/ \E ch \in Channel, rel \in Reliability, type \in PacketType \ {"Echo"} :
         MakePacket(n, m, ch, rel, type)
    \/ MakeInvoke(n, m)
    \/ Drop(n, m)
    \/ CarryOut(n)
    \/ \E i \in 1 .. Len(link[n][m]) : Receive(n, m, i) \/ Lose(n, m, i)
    \/ Break(n, m)

ExchangeSpec == ExchangeInit /\ [][ExchangeNext]_exchangeVars

(* Applications carry out what a call returns and read the reliable packets*)
(* that arrive, in the order they arrive.                                  *)
FirstReliable(n, m) ==
  \E i \in 1 .. Len(link[n][m]) : link[n][m][i].reliability = 1 /\ Receive(n, m, i)

ExchangeFairness ==
  /\ \A n \in Node : WF_exchangeVars(CarryOut(n))
  /\ \A n, m \in Node : WF_exchangeVars(FirstReliable(n, m))

FairExchange == ExchangeSpec /\ ExchangeFairness

-----------------------------------------------------------------------------
(* Properties.                                                             *)

ExchangeTypeOK ==
  /\ known \in [Node -> SUBSET Node]
  /\ local \in [Node -> Core \cup {"none"}]
  /\ sequence \in [Node -> [Channel -> SequenceNumber]]
  /\ invoke \in [Node -> 1 .. MaxInvokeId]
  /\ outbox \in [Node -> Seq(Send)]
  /\ route \in [Node -> [Node -> Node \cup {NoRoute}]]
  /\ link \in [Node -> [Node -> Seq(Packet)]]
  /\ awaiting \in SUBSET (Node \X Node)
  /\ made \in 0 .. MaxMade

(* An application that learns connections from the senders packets name    *)
(* never has a wrong one for another device, although an engine without a  *)
(* local device signs its packets with the id of whoever it writes to: the *)
(* only id that leads elsewhere is the application's own, and it leads to  *)
(* such an engine.                                                         *)
RoutesTrue ==
  \A n, d \in Node :
    route[n][d] # NoRoute => \/ route[n][d] = d
                             \/ d = n /\ route[n][d] \in Nameless

(* Serial number order: b comes less than half the numbers after a.        *)
Before(a, b) == (b - a) % (2 * SequenceLimit) \in 1 .. SequenceLimit - 1

(* A receiver can tell by their numbers which of two packets of a channel  *)
(* was sent first, whatever overtakes what and although the counter wraps  *)
(* and is shared with other receivers and with packets that failed, while  *)
(* fewer than half the numbers are used up (MaxMade < SequenceLimit).      *)
NumbersAscend ==
  \A n, m \in Node : \A i, j \in 1 .. Len(link[n][m]) :
    i < j /\ link[n][m][i].channel = link[n][m][j].channel
      => Before(link[n][m][i].sequence, link[n][m][j].sequence)

(* Two invokes of one engine that are under way have different ids, to     *)
(* whomever they go, although ids wrap and refused invokes use them up.    *)
InvokesApart ==
  \A n, m, o \in Node :
    \A i \in 1 .. Len(link[n][m]), j \in 1 .. Len(link[n][o]) :
      /\ link[n][m][i].id > 0 /\ link[n][m][i].id = link[n][o][j].id
      => m = o /\ i = j

(* A reliable ping is answered on the connection it came by, unless that   *)
(* breaks or the name of who should answer cannot be written: even if the  *)
(* device was dropped in between, if its packets have other names, or if   *)
(* the packets of others come first.                                       *)
PingAnswered ==
  \A n, m \in Node : n # m => (<<n, m>> \in awaiting ~> <<n, m>> \notin awaiting)
=============================================================================
