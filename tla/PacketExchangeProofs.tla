------------------------- MODULE PacketExchangeProofs -------------------------
(***************************************************************************)
(* For any nodes, channels and counter widths: PacketExchange keeps its    *)
(* types, so that numbers and ids stay within their range when they wrap;  *)
(* applications never learn a wrong connection for another device; and     *)
(* while no more numbers and ids are used up than the counters can tell    *)
(* apart, packets on their way carry ascending numbers and different ids.  *)
(***************************************************************************)
EXTENDS PacketExchange, SequenceTheorems, FiniteSetTheorems, TLAPS

(* Who a packet on its way from n to m may name.                           *)
SignedBy(n, m, from) == from = n \/ (from = m /\ n \in Nameless)

SendsOK(n, sends) ==
  /\ sends \in Seq(Send)
  /\ \A k \in 1 .. Len(sends) : SignedBy(n, sends[k].to, sends[k].packet.from)

FlightOK(n, m, packets) ==
  /\ packets \in Seq(Packet)
  /\ \A i \in 1 .. Len(packets) : SignedBy(n, m, packets[i].from)

(* What the calls that make packets change.                                *)
CountersOK ==
  /\ sequence \in [Node -> [Channel -> SequenceNumber]]
  /\ invoke \in [Node -> 1 .. MaxInvokeId]
  /\ \A n \in Node : SendsOK(n, outbox[n])
  /\ outbox \in [Node -> Seq(Send)]

LinksOK ==
  /\ link \in [Node -> [Node -> Seq(Packet)]]
  /\ \A n, m \in Node : FlightOK(n, m, link[n][m])

RoutesOK ==
  /\ route \in [Node -> [Node -> Node \cup {NoRoute}]]
  /\ RoutesTrue

RestOK ==
  /\ known \in [Node -> SUBSET Node]
  /\ local \in [Node -> Core \cup {"none"}]
  /\ awaiting \in SUBSET (Node \X Node)
  /\ made \in 0 .. MaxMade

(* Routes are learned from the packets that arrive, so these must be       *)
(* signed right; what is sent is routed by the routes learned.             *)
RouteInv == CountersOK /\ LinksOK /\ RoutesOK /\ RestOK

-----------------------------------------------------------------------------
(* wrapping_add stays within an i32.                                       *)
LEMMA WrapTyped ==
  ASSUME NEW s \in Int
  PROVE  Wrap(s) \in SequenceNumber
<1> DEFINE L == SequenceLimit
<1>1. L \in Int /\ L > 0 /\ 2 * L > 0
  BY ExchangeAssumption
<1>2. (s + L) % (2 * L) \in 0 .. 2 * L - 1
  BY <1>1
<1> QED
  BY <1>1, <1>2 DEF Wrap, SequenceNumber

(* Invoke ids are positive.                                                *)
LEMMA NextInvokeTyped ==
  \A i, n \in Int : NextInvoke(i, n) \in 1 .. MaxInvokeId
<1> SUFFICES ASSUME NEW i \in Int, NEW n \in Int
             PROVE  NextInvoke(i, n) \in 1 .. MaxInvokeId
  OBVIOUS
<1>1. MaxInvokeId \in Int /\ MaxInvokeId > 0
  BY ExchangeAssumption
<1>2. (i - 1 + n) % MaxInvokeId \in 0 .. MaxInvokeId - 1
  BY <1>1
<1> QED
  BY <1>1, <1>2 DEF NextInvoke

(* Taking one element out of a sequence leaves the others.                 *)
LEMMA WithoutTyped ==
  ASSUME NEW S, NEW s \in Seq(S), NEW i \in 1 .. Len(s)
  PROVE  /\ Without(s, i) \in Seq(S)
         /\ \A j \in 1 .. Len(Without(s, i)) :
              \E k \in 1 .. Len(s) : Without(s, i)[j] = s[k]
<1> DEFINE a == SubSeq(s, 1, i - 1)
           b == SubSeq(s, i + 1, Len(s))
<1>0. Len(s) \in Nat /\ i \in Nat /\ i - 1 \in Nat /\ Len(s) - i \in Nat
  OBVIOUS
<1>1. a \in Seq(S) /\ Len(a) = i - 1 /\ \A j \in 1 .. i - 1 : a[j] = s[j]
  OBVIOUS
<1>2. b \in Seq(S) /\ Len(b) = Len(s) - i /\ \A j \in 1 .. Len(s) - i : b[j] = s[i + j]
  OBVIOUS
<1> HIDE DEF a, b
<1>3. a \o b \in Seq(S) /\ Len(a \o b) = Len(s) - 1
  <2>1. a \o b \in Seq(S) /\ Len(a \o b) = Len(a) + Len(b)
    BY <1>1, <1>2, ConcatProperties
  <2> QED
    BY <2>1, <1>0, <1>1, <1>2
<1>4. ASSUME NEW j \in 1 .. Len(s) - 1 PROVE \E k \in 1 .. Len(s) : (a \o b)[j] = s[k]
  <2>1. CASE j <= i - 1
    <3>1. (a \o b)[j] = a[j] /\ j \in 1 .. Len(s)
      BY <2>1, <1>0, <1>1, <1>2
    <3> QED
      BY <3>1, <2>1, <1>0, <1>1
  <2>2. CASE j > i - 1
    <3>1. (a \o b)[j] = b[j - (i - 1)]
      BY <2>2, <1>1, <1>2
    <3>2. j - (i - 1) \in 1 .. Len(s) - i
      BY <2>2, <1>0
    <3>3. j + 1 \in 1 .. Len(s) /\ i + (j - (i - 1)) = j + 1
      BY <3>2, <1>0
    <3>4. (a \o b)[j] = s[j + 1]
      BY <3>1, <3>2, <3>3, <1>2
    <3> QED
      BY <3>3, <3>4
  <2>3. j <= i - 1 \/ j > i - 1
    BY <1>0
  <2> QED
    BY <2>1, <2>2, <2>3
<1>5. Without(s, i) = a \o b
  BY DEF Without, a, b
<1> QED
  BY <1>3, <1>4, <1>5

-----------------------------------------------------------------------------
(* A node that sends either names itself or is one of the nameless.        *)
LEMMA SenderSigns ==
  ASSUME NEW n \in Node, NEW target \in Node, Running(n)
  PROVE  Sender(n, target) \in Node /\ SignedBy(n, target, Sender(n, target))
BY DEF Running, Sender, SignedBy

(* make_packet.                                                            *)
LEMMA MadePacketOK ==
  ASSUME CountersOK, NEW n \in Node, NEW D \in SUBSET Node, NEW target \in Node,
         NEW ch \in Channel, NEW rel \in Reliability, NEW type \in PacketType,
         Running(n), MadePacket(n, D, target, ch, rel, type)
  PROVE  CountersOK'
<1> DEFINE sent == [from |-> Sender(n, target), channel |-> ch, reliability |-> rel,
                    type |-> type, sequence |-> sequence[n][ch], id |-> 0]
           sends == <<[to |-> target, packet |-> sent]>>
<1>1. sequence[n][ch] \in SequenceNumber /\ sequence[n][ch] + 1 \in Int
  BY ExchangeAssumption DEF CountersOK, SequenceNumber
<1>2. sequence' \in [Node -> [Channel -> SequenceNumber]]
  <2>1. Wrap(sequence[n][ch] + 1) \in SequenceNumber
    BY <1>1, WrapTyped
  <2> QED
    BY <2>1 DEF MadePacket, CountersOK
<1>3. sent \in Packet
  BY <1>1, SenderSigns, ExchangeAssumption DEF Packet
<1>4. SendsOK(n, sends)
  <2>1. sends \in Seq(Send)
    BY <1>3 DEF Send
  <2> QED
    BY <2>1, SenderSigns DEF SendsOK
<1>5. SendsOK(n, <<>>)
  BY DEF SendsOK
<1>6. outbox' = [outbox EXCEPT ![n] = <<>>] \/ outbox' = [outbox EXCEPT ![n] = sends]
  BY DEF MadePacket
<1> HIDE DEF sends
<1>7. outbox' \in [Node -> Seq(Send)] /\ \A m \in Node : SendsOK(m, outbox'[m])
  <2>1. outbox \in [Node -> Seq(Send)] /\ \A m \in Node : SendsOK(m, outbox[m])
    BY DEF CountersOK
  <2>2. sends \in Seq(Send) /\ <<>> \in Seq(Send)
    BY <1>4, <1>5 DEF SendsOK
  <2> QED
    BY <2>1, <2>2, <1>4, <1>5, <1>6
<1>8. invoke' \in [Node -> 1 .. MaxInvokeId]
  BY DEF MadePacket, CountersOK
<1>9. (\A m \in Node : SendsOK(m, outbox[m]))' <=> \A m \in Node : SendsOK(m, outbox'[m])
  BY DEF SendsOK, SignedBy
<1> QED
  BY <1>2, <1>7, <1>8, <1>9 DEF CountersOK

(* make_message_invoke to several.                                         *)
LEMMA MadeInvokesOK ==
  ASSUME CountersOK, NEW n \in Node, NEW targets \in Seq(Node),
         Running(n), MadeInvokes(n, targets)
  PROVE  CountersOK'
<1> DEFINE sent(k) == [from |-> Sender(n, targets[k]), channel |-> Message,
                       reliability |-> 1, type |-> "Data",
                       sequence |-> Wrap(sequence[n][Message] + k - 1),
                       id |-> NextInvoke(invoke[n], k - 1)]
           sends == [k \in 1 .. Len(targets) |-> [to |-> targets[k], packet |-> sent(k)]]
<1>1. /\ Message \in Channel /\ sequence[n][Message] \in Int /\ invoke[n] \in Int
      /\ Len(targets) \in Nat
  BY ExchangeAssumption DEF CountersOK, SequenceNumber, Channel
<1>2. sequence' \in [Node -> [Channel -> SequenceNumber]]
  <2>1. Wrap(sequence[n][Message] + Len(targets)) \in SequenceNumber
    BY <1>1, WrapTyped
  <2> QED
    BY <2>1 DEF MadeInvokes, CountersOK
<1>3. invoke' \in [Node -> 1 .. MaxInvokeId]
  <2> DEFINE count == Len(targets)
             id == invoke[n]
  <2>1. NextInvoke(id, count) \in 1 .. MaxInvokeId
    <3>1. id \in Int /\ count \in Int
      BY <1>1
    <3> HIDE DEF id, count
    <3> QED
      BY <3>1, NextInvokeTyped
  <2> QED
    BY <2>1 DEF MadeInvokes, CountersOK
<1>4. ASSUME NEW k \in 1 .. Len(targets)
      PROVE  sent(k) \in Packet /\ SignedBy(n, targets[k], sent(k).from) /\ targets[k] \in Node
  <2>1. targets[k] \in Node /\ k - 1 \in Int
    BY <1>1
  <2>2. Wrap(sequence[n][Message] + k - 1) \in SequenceNumber
    BY <1>1, <2>1, WrapTyped
  <2>3. NextInvoke(invoke[n], k - 1) \in 0 .. MaxInvokeId
    <3>1. NextInvoke(invoke[n], k - 1) \in 1 .. MaxInvokeId
      BY <1>1, <2>1, NextInvokeTyped
    <3> QED
      BY <3>1
  <2>4. Sender(n, targets[k]) \in Node /\ SignedBy(n, targets[k], Sender(n, targets[k]))
    BY <2>1, SenderSigns
  <2> QED
    BY <1>1, <2>1, <2>2, <2>3, <2>4 DEF Packet, Reliability, PacketType
<1>5. SendsOK(n, sends)
  <2> HIDE DEF sent
  <2>1. sends \in Seq(Send) /\ Len(sends) = Len(targets)
    BY <1>1, <1>4 DEF Send
  <2> QED
    BY <2>1, <1>4 DEF SendsOK
<1>6. SendsOK(n, <<>>)
  BY DEF SendsOK
<1>7. outbox' = [outbox EXCEPT ![n] = <<>>] \/ outbox' = [outbox EXCEPT ![n] = sends]
  BY DEF MadeInvokes
<1> HIDE DEF sends
<1> QED
  BY <1>2, <1>3, <1>5, <1>6, <1>7 DEF CountersOK, SendsOK

(* A refused invoke.                                                       *)
LEMMA RefusedInvokeOK ==
  ASSUME CountersOK, NEW n \in Node, RefusedInvoke(n)
  PROVE  CountersOK'
<1>1. NextInvoke(invoke[n], 1) \in 1 .. MaxInvokeId
  BY NextInvokeTyped DEF CountersOK
<1>2. SendsOK(n, <<>>)
  BY DEF SendsOK
<1> QED
  BY <1>1, <1>2 DEF CountersOK, RefusedInvoke, SendsOK

(* The orders of a broadcast are sequences within the bound.               *)
LEMMA OrdersOK ==
  ASSUME NEW D \in SUBSET Node, NEW limit \in Nat, NEW o \in Orders(D, limit)
  PROVE  o \in Seq(Node) /\ Len(o) \in 0 .. limit
<1>1. PICK k \in 0 .. limit : o \in [1 .. k -> D]
  BY DEF Orders
<1> QED
  BY <1>1

-----------------------------------------------------------------------------
(* New engines and applications satisfy the invariant.                     *)
LEMMA RouteInvInit == ExchangeInit => RouteInv
<1> SUFFICES ASSUME ExchangeInit PROVE RouteInv
  OBVIOUS
<1>1. CountersOK
  BY ExchangeAssumption DEF ExchangeInit, CountersOK, SendsOK
<1>2. LinksOK
  BY DEF ExchangeInit, LinksOK, FlightOK
<1>3. RoutesOK
  BY DEF ExchangeInit, RoutesOK, RoutesTrue
<1>4. RestOK
  BY ExchangeAssumption DEF ExchangeInit, RestOK
<1> QED
  BY <1>1, <1>2, <1>3, <1>4 DEF RouteInv

(* A broadcast stays within its bound.                                     *)
LEMMA BroadcastOK ==
  ASSUME RouteInv, NEW n \in Node, NEW D \in SUBSET Node, Running(n),
         \E targets \in Orders(D, MaxMade - made) : MadeInvokes(n, targets)
  PROVE  CountersOK' /\ made' \in 0 .. MaxMade
<1>1. PICK targets \in Orders(D, MaxMade - made) : MadeInvokes(n, targets)
  OBVIOUS
<1>2. MaxMade - made \in Nat /\ made \in Nat /\ MaxMade \in Nat
  BY ExchangeAssumption DEF RouteInv, RestOK
<1>3. targets \in Seq(Node) /\ Len(targets) \in 0 .. MaxMade - made
  BY <1>1, <1>2, OrdersOK
<1>4. CountersOK'
  BY <1>1, <1>3, MadeInvokesOK DEF RouteInv
<1>5. made' = made + Len(targets)
  BY <1>1 DEF MadeInvokes
<1> QED
  BY <1>2, <1>3, <1>4, <1>5

(* A refused invoke does, too.                                             *)
LEMMA RefusedOK ==
  ASSUME RouteInv, NEW n \in Node, RefusedInvoke(n)
  PROVE  CountersOK' /\ made' \in 0 .. MaxMade
<1>1. CountersOK'
  BY RefusedInvokeOK DEF RouteInv
<1> QED
  BY <1>1, ExchangeAssumption DEF RouteInv, RestOK, RefusedInvoke

-----------------------------------------------------------------------------

(* init_local_device changes nothing the invariant is about but the name.  *)
LEMMA InitLocalKeeps ==
  ASSUME RouteInv, NEW n \in Node, NEW core \in Core, InitLocal(n, core)
  PROVE  RouteInv'
BY DEF InitLocal, RouteInv, CountersOK, SendsOK, LinksOK, FlightOK, RoutesOK,
       RoutesTrue, RestOK

(* A connection that is opened leads to the device it is opened to.        *)
LEMMA RegisterKeeps ==
  ASSUME RouteInv, NEW n \in Node, NEW m \in Node, Register(n, m)
  PROVE  RouteInv'
<1>1. CountersOK' /\ LinksOK'
  BY DEF Register, RouteInv, CountersOK, SendsOK, LinksOK, FlightOK
<1>2. RoutesOK'
  BY DEF Register, RouteInv, RoutesOK, RoutesTrue
<1>3. RestOK'
  BY DEF Register, RouteInv, RestOK
<1> QED
  BY <1>1, <1>2, <1>3 DEF RouteInv

(* make_packet and the input events.                                       *)
LEMMA MakePacketKeeps ==
  ASSUME RouteInv, NEW n \in Node, NEW target \in Node, NEW ch \in Channel,
         NEW rel \in Reliability, NEW type \in PacketType,
         MakePacket(n, target, ch, rel, type)
  PROVE  RouteInv'
<1>1. CountersOK'
  <2>1. known[n] \in SUBSET Node /\ CountersOK /\ Running(n)
    BY DEF RouteInv, RestOK, MakePacket, Ready
  <2>2. MadePacket(n, known[n], target, ch, rel, type)
    BY DEF MakePacket
  <2> QED
    BY <2>1, <2>2, MadePacketOK
<1>2. LinksOK' /\ RoutesOK'
  BY DEF MakePacket, RouteInv, LinksOK, FlightOK, RoutesOK, RoutesTrue
<1>3. RestOK'
  BY ExchangeAssumption DEF MakePacket, RouteInv, RestOK
<1> QED
  BY <1>1, <1>2, <1>3 DEF RouteInv

(* The builders of invokes.                                                *)
LEMMA MakeInvokeKeeps ==
  ASSUME RouteInv, NEW n \in Node, NEW target \in Node, MakeInvoke(n, target)
  PROVE  RouteInv'
<1>1. CountersOK' /\ made' \in 0 .. MaxMade
  <2>1. CASE made < MaxMade /\ MadeInvokes(n, <<target>>)
    <3>1. <<target>> \in Seq(Node) /\ Len(<<target>>) = 1
      OBVIOUS
    <3>2. CountersOK'
      BY <2>1, <3>1, MadeInvokesOK DEF RouteInv, MakeInvoke, Ready
    <3> QED
      BY <2>1, <3>1, <3>2, ExchangeAssumption DEF MadeInvokes, RouteInv, RestOK
  <2>2. CASE RefusedInvoke(n)
    BY <2>2, RefusedOK
  <2> QED
    BY <2>1, <2>2 DEF MakeInvoke
<1>2. LinksOK' /\ RoutesOK'
  BY DEF MakeInvoke, RouteInv, LinksOK, FlightOK, RoutesOK, RoutesTrue
<1>3. RestOK'
  BY <1>1 DEF MakeInvoke, RouteInv, RestOK
<1> QED
  BY <1>1, <1>2, <1>3 DEF RouteInv

(* A dropped device loses its route.                                       *)
LEMMA DropKeeps ==
  ASSUME RouteInv, NEW n \in Node, NEW d \in Node, Drop(n, d)
  PROVE  RouteInv'
<1>1. CountersOK' /\ made' \in 0 .. MaxMade
  <2>1. known[n] \ {d} \in SUBSET Node /\ Running(n)
    BY DEF RouteInv, RestOK, Drop, Ready
  <2> QED
    BY <2>1, BroadcastOK DEF Drop
<1>2. LinksOK'
  BY DEF Drop, RouteInv, LinksOK, FlightOK
<1>3. RoutesOK'
  BY DEF Drop, RouteInv, RoutesOK, RoutesTrue
<1>4. RestOK'
  BY <1>1 DEF Drop, RouteInv, RestOK
<1> QED
  BY <1>1, <1>2, <1>3, <1>4 DEF RouteInv

(* A packet is put on a connection its signature allows.                   *)
LEMMA CarryOutKeeps ==
  ASSUME RouteInv, NEW n \in Node, CarryOut(n)
  PROVE  RouteInv'
<1> DEFINE send == Head(outbox[n])
           conn == route[n][send.to]
<1>1. /\ outbox \in [Node -> Seq(Send)] /\ outbox[n] # <<>>
      /\ \A m \in Node : SendsOK(m, outbox[m])
  BY DEF RouteInv, CountersOK, CarryOut
<1>2. send \in Send /\ send = outbox[n][1] /\ 1 \in 1 .. Len(outbox[n])
  BY <1>1
<1>3. send.to \in Node /\ send.packet \in Packet /\ SignedBy(n, send.to, send.packet.from)
  BY <1>1, <1>2 DEF Send, SendsOK
<1>4. CountersOK'
  <2>1. SendsOK(n, Tail(outbox[n]))
    <3>1. Tail(outbox[n]) \in Seq(Send) /\ Len(Tail(outbox[n])) = Len(outbox[n]) - 1
      BY <1>1
    <3>2. \A k \in 1 .. Len(outbox[n]) - 1 : Tail(outbox[n])[k] = outbox[n][k + 1]
      BY <1>1
    <3> QED
      BY <1>1, <3>1, <3>2 DEF SendsOK
  <2>2. Tail(outbox[n]) \in Seq(Send)
    BY <2>1 DEF SendsOK
  <2>3. outbox' = [outbox EXCEPT ![n] = Tail(outbox[n])]
    BY DEF CarryOut
  <2>4. outbox' \in [Node -> Seq(Send)] /\ \A m \in Node : SendsOK(m, outbox'[m])
    BY <1>1, <2>1, <2>2, <2>3
  <2>5. (\A m \in Node : SendsOK(m, outbox[m]))' <=> \A m \in Node : SendsOK(m, outbox'[m])
    BY DEF SendsOK, SignedBy
  <2> QED
    BY <2>4, <2>5 DEF RouteInv, CountersOK, CarryOut
<1> HIDE DEF send
<1>5. LinksOK'
  <2>1. CASE conn = NoRoute
    BY <2>1 DEF CarryOut, send, RouteInv, LinksOK, FlightOK
  <2>2. CASE conn # NoRoute
    <3>1. conn \in Node /\ (conn = send.to \/ send.to = n)
      BY <1>3, <2>2 DEF RouteInv, RoutesOK, RoutesTrue
    <3>2. SignedBy(n, conn, send.packet.from)
      BY <3>1, <1>3 DEF SignedBy
    <3>3. link' = [link EXCEPT ![n][conn] = Append(link[n][conn], send.packet)]
      BY <2>2 DEF CarryOut, send
    <3>4. link[n][conn] \in Seq(Packet) /\ FlightOK(n, conn, link[n][conn])
      BY <3>1 DEF RouteInv, LinksOK
    <3> HIDE DEF conn
    <3>5. FlightOK(n, conn, Append(link[n][conn], send.packet))
      <4> DEFINE old == link[n][conn]
      <4>1. old \in Seq(Packet) /\ \A i \in 1 .. Len(old) : SignedBy(n, conn, old[i].from)
        BY <3>4 DEF FlightOK
      <4> HIDE DEF old
      <4>2. Append(old, send.packet) \in Seq(Packet)
        BY <1>3, <4>1
      <4>3. ASSUME NEW i \in 1 .. Len(Append(old, send.packet))
            PROVE  SignedBy(n, conn, Append(old, send.packet)[i].from)
        <5>1. CASE i \in 1 .. Len(old)
          BY <5>1, <4>1
        <5>2. CASE i = Len(old) + 1
          BY <5>2, <4>1, <3>2
        <5> QED
          BY <5>1, <5>2, <4>1
      <4> QED
        BY <4>2, <4>3 DEF FlightOK, old
    <3> QED
      BY <3>1, <3>3, <3>5 DEF RouteInv, LinksOK, FlightOK
  <2> QED
    BY <2>1, <2>2
<1>6. RoutesOK'
  BY DEF CarryOut, RouteInv, RoutesOK, RoutesTrue
<1>7. RestOK'
  <2>1. conn = NoRoute \/ conn \in Node
    BY <1>3 DEF RouteInv, RoutesOK
  <2>2. awaiting' = awaiting \/ (conn # NoRoute /\ awaiting' = awaiting \cup {<<n, conn>>})
    BY DEF CarryOut, send
  <2> QED
    BY <2>1, <2>2 DEF CarryOut, RouteInv, RestOK
<1> QED
  BY <1>4, <1>5, <1>6, <1>7 DEF RouteInv

(* Taking a packet off a connection.                                       *)
LEMMA TakenOK ==
  ASSUME LinksOK, NEW n \in Node, NEW m \in Node, NEW i \in 1 .. Len(link[n][m]),
         link' = [link EXCEPT ![n][m] = Without(link[n][m], i)]
  PROVE  LinksOK'
<1>1. link[n][m] \in Seq(Packet) /\ FlightOK(n, m, link[n][m])
  BY DEF LinksOK
<1>2. /\ Without(link[n][m], i) \in Seq(Packet)
      /\ \A j \in 1 .. Len(Without(link[n][m], i)) :
           \E k \in 1 .. Len(link[n][m]) : Without(link[n][m], i)[j] = link[n][m][k]
  BY <1>1, WithoutTyped
<1>3. FlightOK(n, m, Without(link[n][m], i))
  BY <1>1, <1>2 DEF FlightOK
<1> QED
  BY <1>2, <1>3 DEF LinksOK, FlightOK

(* What a route is learned from is signed by who sent it.                  *)
LEMMA ReceiveKeeps ==
  ASSUME RouteInv, NEW n \in Node, NEW m \in Node, NEW i \in 1 .. Len(link[n][m]),
         Receive(n, m, i)
  PROVE  RouteInv'
<1> DEFINE p == link[n][m][i]
<1>1. p \in Packet /\ SignedBy(n, m, p.from)
  <2>1. link[n][m] \in Seq(Packet) /\ FlightOK(n, m, link[n][m])
    BY DEF RouteInv, LinksOK
  <2> QED
    BY <2>1 DEF FlightOK
<1>2. p.from \in Node /\ p.channel \in Channel
  BY <1>1 DEF Packet
<1>3. /\ Handle(m, p) /\ Running(m)
      /\ known' = [known EXCEPT ![m] = @ \cup {p.from}]
      /\ route' = [route EXCEPT ![m][p.from] = n]
      /\ awaiting' \in SUBSET awaiting /\ local' = local
      /\ link' = [link EXCEPT ![n][m] = Without(link[n][m], i)]
  BY DEF Receive, Ready
<1> HIDE DEF p
<1>4. CountersOK' /\ made' \in 0 .. MaxMade
  <2>1. CASE p.type = "Ping" /\ UNCHANGED made
             /\ MadePacket(m, Filed(m, p.from), p.from, p.channel,
                           DefaultReliability(p.channel), "Echo")
    <3>1. Filed(m, p.from) \in SUBSET Node
      BY <1>2 DEF Filed, RouteInv, RestOK
    <3>2. DefaultReliability(p.channel) \in Reliability /\ "Echo" \in PacketType
      BY DEF DefaultReliability, Reliability, PacketType
    <3>3. CountersOK'
      BY <2>1, <3>1, <3>2, <1>2, <1>3, MadePacketOK DEF RouteInv
    <3> QED
      BY <2>1, <3>3 DEF RouteInv, RestOK
  <2>2. CASE UNCHANGED <<sequence, invoke, outbox, made>>
    BY <2>2 DEF RouteInv, CountersOK, SendsOK, RestOK
  <2>3. CASE \E targets \in Orders(Filed(m, p.from), MaxMade - made) : MadeInvokes(m, targets)
    <3>1. Filed(m, p.from) \in SUBSET Node
      BY <1>2 DEF Filed, RouteInv, RestOK
    <3> QED
      BY <2>3, <3>1, <1>3, BroadcastOK
  <2>4. CASE RefusedInvoke(m)
    BY <2>4, RefusedOK
  <2> QED
    BY <1>3, <2>1, <2>2, <2>3, <2>4 DEF Handle
<1>5. LinksOK'
  BY <1>3, TakenOK DEF RouteInv
<1>6. RoutesOK'
  BY <1>1, <1>2, <1>3 DEF RouteInv, RoutesOK, RoutesTrue, SignedBy
<1>7. RestOK'
  BY <1>2, <1>3, <1>4 DEF RouteInv, RestOK
<1> QED
  BY <1>4, <1>5, <1>6, <1>7 DEF RouteInv

(* The loss of an unreliable packet.                                       *)
LEMMA LoseKeeps ==
  ASSUME RouteInv, NEW n \in Node, NEW m \in Node, NEW i \in 1 .. Len(link[n][m]),
         Lose(n, m, i)
  PROVE  RouteInv'
<1>1. LinksOK'
  BY TakenOK DEF Lose, RouteInv
<1> QED
  BY <1>1 DEF Lose, engineVars, RouteInv, CountersOK, SendsOK, RoutesOK, RoutesTrue, RestOK

(* The loss of a connection.                                               *)
LEMMA BreakKeeps ==
  ASSUME RouteInv, NEW n \in Node, NEW m \in Node, Break(n, m)
  PROVE  RouteInv'
<1>1. LinksOK'
  <2>1. <<>> \in Seq(Packet) /\ Len(<<>>) = 0
    OBVIOUS
  <2>2. link' = [link EXCEPT ![n][m] = <<>>, ![m][n] = <<>>]
    BY DEF Break
  <2>3. \A a, b \in Node : link'[a][b] = link[a][b] \/ link'[a][b] = <<>>
    BY <2>2 DEF RouteInv, LinksOK
  <2>4. link' \in [Node -> [Node -> Seq(Packet)]]
    BY <2>1, <2>2 DEF RouteInv, LinksOK
  <2>5. \A a, b \in Node : FlightOK(a, b, link'[a][b])
    <3> SUFFICES ASSUME NEW a \in Node, NEW b \in Node PROVE FlightOK(a, b, link'[a][b])
      OBVIOUS
    <3>1. FlightOK(a, b, link[a][b])
      BY DEF RouteInv, LinksOK
    <3>2. FlightOK(a, b, <<>>)
      BY <2>1 DEF FlightOK
    <3>3. CASE link'[a][b] = <<>>
      BY <3>2, <3>3
    <3>4. CASE link'[a][b] = link[a][b]
      BY <3>1, <3>4
    <3> QED
      BY <2>3, <3>3, <3>4
  <2>6. (\A a, b \in Node : FlightOK(a, b, link[a][b]))'
          <=> \A a, b \in Node : FlightOK(a, b, link'[a][b])
    BY DEF FlightOK, SignedBy
  <2> QED
    BY <2>4, <2>5, <2>6 DEF LinksOK
<1>2. CountersOK' /\ RoutesOK' /\ RestOK'
  BY DEF Break, engineVars, RouteInv, CountersOK, SendsOK, RoutesOK, RoutesTrue, RestOK
<1> QED
  BY <1>1, <1>2 DEF RouteInv

-----------------------------------------------------------------------------
(* Every step keeps the invariant.                                         *)
LEMMA RouteInvStep == RouteInv /\ [ExchangeNext]_exchangeVars => RouteInv'
<1> SUFFICES ASSUME RouteInv, [ExchangeNext]_exchangeVars PROVE RouteInv'
  OBVIOUS
<1>1. CASE UNCHANGED exchangeVars
  BY <1>1 DEF exchangeVars, engineVars, RouteInv, CountersOK, SendsOK, LinksOK, FlightOK,
              RoutesOK, RoutesTrue, RestOK
<1>2. ASSUME NEW n \in Node, NEW core \in Core, InitLocal(n, core) PROVE RouteInv'
  BY <1>2, InitLocalKeeps
<1>3. ASSUME NEW n \in Node, NEW m \in Node, Register(n, m) PROVE RouteInv'
  BY <1>3, RegisterKeeps
<1>4. ASSUME NEW n \in Node, NEW m \in Node, NEW ch \in Channel, NEW rel \in Reliability,
             NEW type \in PacketType \ {"Echo"}, MakePacket(n, m, ch, rel, type)
      PROVE  RouteInv'
  BY <1>4, MakePacketKeeps
<1>5. ASSUME NEW n \in Node, NEW m \in Node, MakeInvoke(n, m) PROVE RouteInv'
  BY <1>5, MakeInvokeKeeps
<1>6. ASSUME NEW n \in Node, NEW m \in Node, Drop(n, m) PROVE RouteInv'
  BY <1>6, DropKeeps
<1>7. ASSUME NEW n \in Node, CarryOut(n) PROVE RouteInv'
  BY <1>7, CarryOutKeeps
<1>8. ASSUME NEW n \in Node, NEW m \in Node, NEW i \in 1 .. Len(link[n][m]), Receive(n, m, i)
      PROVE  RouteInv'
  BY <1>8, ReceiveKeeps
<1>9. ASSUME NEW n \in Node, NEW m \in Node, NEW i \in 1 .. Len(link[n][m]), Lose(n, m, i)
      PROVE  RouteInv'
  BY <1>9, LoseKeeps
<1>10. ASSUME NEW n \in Node, NEW m \in Node, Break(n, m) PROVE RouteInv'
  BY <1>10, BreakKeeps
<1> QED
  BY <1>1, <1>2, <1>3, <1>4, <1>5, <1>6, <1>7, <1>8, <1>9, <1>10 DEF ExchangeNext

(* For any nodes and counter widths: numbers and ids stay in range, and no *)
(* application has a wrong connection for another device.                  *)
THEOREM RoutesCorrect == ExchangeSpec => [](ExchangeTypeOK /\ RoutesTrue)
<1>1. RouteInv => ExchangeTypeOK /\ RoutesTrue
  BY DEF RouteInv, CountersOK, LinksOK, RoutesOK, RestOK, ExchangeTypeOK
<1> QED
  BY <1>1, RouteInvInit, RouteInvStep, PTL DEF ExchangeSpec

-----------------------------------------------------------------------------
(* Numbers and ids that order packets.                                     *)

(* How long ago a number or an id was given out: 0 for the last one.       *)
Age(next, x, m) == (next - 1 - x) % m
SeqAge(seqs, p) == Age(seqs[p.channel], p.sequence, 2 * SequenceLimit)
IdAge(id, p) == Age(id, p.id, MaxInvokeId)

Older(seqs, id, p, q) ==
  /\ p.channel = q.channel => SeqAge(seqs, p) > SeqAge(seqs, q)
  /\ p.id > 0 /\ q.id > 0 => IdAge(id, p) > IdAge(id, q)

Apart(seqs, id, p, q) ==
  /\ p.channel = q.channel => SeqAge(seqs, p) # SeqAge(seqs, q)
  /\ p.id > 0 /\ q.id > 0 => IdAge(id, p) # IdAge(id, q)

Recent(seqs, id, limit, p) ==
  SeqAge(seqs, p) < limit /\ (p.id > 0 => IdAge(id, p) < limit)

(* The packets of one engine: its connections and its outbox are in order, *)
(* the outbox comes last, and no two connections share a number or an id.  *)
AllRecent(seqs, id, limit, links, sends) ==
  /\ \A m \in Node : \A j \in 1 .. Len(links[m]) : Recent(seqs, id, limit, links[m][j])
  /\ \A k \in 1 .. Len(sends) : Recent(seqs, id, limit, sends[k].packet)

AllOrdered(seqs, id, links, sends) ==
  /\ \A m \in Node : \A j, k \in 1 .. Len(links[m]) :
       j < k => Older(seqs, id, links[m][j], links[m][k])
  /\ \A j, k \in 1 .. Len(sends) :
       j < k => Older(seqs, id, sends[j].packet, sends[k].packet)
  /\ \A m \in Node : \A j \in 1 .. Len(links[m]), k \in 1 .. Len(sends) :
       Older(seqs, id, links[m][j], sends[k].packet)

AllApart(seqs, id, links) ==
  \A m, o \in Node : m # o =>
    \A j \in 1 .. Len(links[m]), k \in 1 .. Len(links[o]) :
      Apart(seqs, id, links[m][j], links[o][k])

InFlight(seqs, id, limit, links, sends) ==
  /\ AllRecent(seqs, id, limit, links, sends)
  /\ AllOrdered(seqs, id, links, sends)
  /\ AllApart(seqs, id, links)

Seqs == [Channel -> SequenceNumber]
Ids == 1 .. MaxInvokeId
Links == [Node -> Seq(Packet)]
Sends == Seq(Send)

-----------------------------------------------------------------------------
(* Counting modulo a number.                                               *)

(* The two are the same but for whole turns.                               *)
Congruent(a, b, m) == \E q \in Int : a = q * m + b

(* The quotient and the remainder of any integer.                          *)
LEMMA DivMod ==
  ASSUME NEW m \in Nat \ {0}, NEW a \in Int
  PROVE  a % m \in 0 .. m - 1 /\ \E q \in Int : a = q * m + (a % m)
<1>1. a \div m \in Int /\ a = (a \div m) * m + (a % m) /\ a % m \in 0 .. m - 1
  OBVIOUS
<1> QED
  BY <1>1

(* What is left of whole turns and a remainder.                            *)
LEMMA Remainder ==
  ASSUME NEW m \in Nat \ {0}, NEW q \in Int, NEW r \in 0 .. m - 1
  PROVE  (q * m + r) % m = r
OBVIOUS

(* Whole turns do not change a remainder.                                  *)
LEMMA Turns ==
  ASSUME NEW m \in Nat \ {0}, NEW q \in Int, NEW a \in Int
  PROVE  (q * m + a) % m = a % m
<1>1. PICK k \in Int : a = k * m + (a % m)
  BY DivMod
<1>2. a % m \in 0 .. m - 1 /\ q + k \in Int
  BY DivMod
<1>3. q * m + a = (q + k) * m + (a % m)
  BY <1>1
<1>4. ((q + k) * m + (a % m)) % m = a % m
  BY <1>2, Remainder
<1> QED
  BY <1>3, <1>4

(* The age of what a counter gave out, when it has moved on.               *)
LEMMA AgeGrows ==
  ASSUME NEW m \in Nat \ {0}, NEW now \in Int, NEW later \in Int, later >= now,
         NEW x \in Int, NEW next \in Int, Congruent(next, later, m),
         Age(now, x, m) + (later - now) < m
  PROVE  Age(next, x, m) = Age(now, x, m) + (later - now)
<1> DEFINE age == Age(now, x, m)
           k == later - now
<1>1. age \in 0 .. m - 1 /\ now - 1 - x \in Int /\ k \in Nat
  <2>1. now - 1 - x \in Int /\ k \in Nat
    OBVIOUS
  <2> QED
    BY <2>1, DivMod DEF Age
<1>2. PICK c \in Int : now - 1 - x = c * m + age
  BY <1>1, DivMod DEF Age
<1>3. PICK q \in Int : next = q * m + later
  BY DEF Congruent
<1>4. age + k \in 0 .. m - 1
  BY <1>1
<1>5. next - 1 - x = (q + c) * m + (age + k)
  <2> DEFINE qm == q * m
             cm == c * m
             all == (q + c) * m
  <2>1. all = qm + cm /\ qm \in Int /\ cm \in Int
    OBVIOUS
  <2>2. next = qm + later /\ now - 1 - x = cm + age /\ later = now + k
    BY <1>2, <1>3
  <2> HIDE DEF qm, cm, all, age, k
  <2>3. next - 1 - x = all + (age + k)
    BY <1>1, <2>1, <2>2
  <2> QED
    BY <2>3 DEF all
<1> HIDE DEF age, k
<1>6. ((q + c) * m + (age + k)) % m = age + k
  <2>1. q + c \in Int
    OBVIOUS
  <2> QED
    BY <2>1, <1>4, Remainder
<1> QED
  BY <1>5, <1>6 DEF age, k, Age

(* wrapping_add and the return to 1 are additions but for whole turns.     *)
LEMMA WrapTurns ==
  ASSUME NEW s \in Int
  PROVE  Congruent(Wrap(s), s, 2 * SequenceLimit)
<1> DEFINE m == 2 * SequenceLimit
<1>1. m \in Nat \ {0} /\ SequenceLimit \in Nat
  BY ExchangeAssumption
<1>2. PICK c \in Int : s + SequenceLimit = c * m + ((s + SequenceLimit) % m)
  <2> HIDE DEF m
  <2>1. s + SequenceLimit \in Int
    BY <1>1
  <2> QED
    BY <1>1, <2>1, DivMod
<1>3. Wrap(s) = ((s + SequenceLimit) % m) - SequenceLimit
  BY DEF Wrap
<1>4. (s + SequenceLimit) % m \in Int
  <2> HIDE DEF m
  <2> QED
    BY <1>1, DivMod
<1> HIDE DEF m
<1>5. Wrap(s) = (0 - c) * m + s
  <2> DEFINE cm == c * m
             rest == (s + SequenceLimit) % m
             back == (0 - c) * m
  <2>1. cm \in Int /\ back = -cm
    BY <1>1
  <2>2. s + SequenceLimit = cm + rest /\ Wrap(s) = rest - SequenceLimit /\ rest \in Int
    BY <1>2, <1>3, <1>4
  <2> HIDE DEF cm, rest, back
  <2>3. Wrap(s) = back + s
    BY <1>1, <2>1, <2>2
  <2> QED
    BY <2>3 DEF back
<1> QED
  BY <1>1, <1>5 DEF m, Congruent

(* The return to 1 after i32::MAX is a whole turn, too.                    *)
LEMMA InvokeTurns ==
  ASSUME NEW i \in Int, NEW n \in Int
  PROVE  Congruent(NextInvoke(i, n), i + n, MaxInvokeId)
<1> DEFINE m == MaxInvokeId
           a == i - 1 + n
<1>1. m \in Nat \ {0}
  BY ExchangeAssumption
<1>2. a \in Int /\ a % m \in Int
  BY <1>1, DivMod
<1>3. PICK c \in Int : a = c * m + (a % m)
  BY <1>1, <1>2, DivMod
<1>4. NextInvoke(i, n) = (a % m) + 1
  BY DEF NextInvoke
<1>5. i + n = a + 1
  OBVIOUS
<1> HIDE DEF m, a
<1>6. NextInvoke(i, n) = (0 - c) * m + (i + n)
  <2> DEFINE cm == c * m
             rest == a % m
             back == (0 - c) * m
  <2>1. cm \in Int /\ back = -cm
    BY <1>1
  <2>2. a = cm + rest /\ NextInvoke(i, n) = rest + 1 /\ rest \in Int
    BY <1>2, <1>3, <1>4
  <2> HIDE DEF cm, rest, back
  <2>3. NextInvoke(i, n) = back + (i + n)
    BY <1>2, <1>5, <2>1, <2>2
  <2> QED
    BY <2>3 DEF back
<1> QED
  BY <1>6 DEF m, Congruent

(* An age is a number.                                                     *)
LEMMA AgeTyped ==
  ASSUME NEW m \in Nat \ {0}, NEW next \in Int, NEW x \in Int
  PROVE  Age(next, x, m) \in Nat
<1>1. next - 1 - x \in Int
  OBVIOUS
<1>2. (next - 1 - x) % m \in 0 .. m - 1
  BY <1>1, DivMod
<1> QED
  BY <1>2 DEF Age

(* The ages of a packet are numbers.                                       *)
LEMMA AgesTyped ==
  ASSUME NEW seqs \in Seqs, NEW id \in Ids, NEW p \in Packet
  PROVE  SeqAge(seqs, p) \in Nat /\ IdAge(id, p) \in Nat
<1>1. seqs[p.channel] \in Int /\ p.sequence \in Int /\ p.id \in Int /\ id \in Int
  BY ExchangeAssumption DEF Seqs, Ids, Packet, SequenceNumber
<1>2. 2 * SequenceLimit \in Nat \ {0} /\ MaxInvokeId \in Nat \ {0}
  BY ExchangeAssumption
<1> QED
  BY <1>1, <1>2, AgeTyped DEF SeqAge, IdAge

(* What next_sequence and next_invoke_id do to the ages of packets.        *)
LEMMA SeqMoves ==
  ASSUME NEW seqs \in Seqs, NEW ch \in Channel, NEW k \in Nat, NEW p \in Packet,
         NEW seqs2, seqs2 = [seqs EXCEPT ![ch] = Wrap(seqs[ch] + k)],
         SeqAge(seqs, p) + k < 2 * SequenceLimit
  PROVE  SeqAge(seqs2, p) = SeqAge(seqs, p) + (IF p.channel = ch THEN k ELSE 0)
<1>1. /\ p.channel \in Channel /\ p.sequence \in Int
      /\ seqs[ch] \in Int
      /\ \A c \in Channel : seqs2[c] = IF c = ch THEN Wrap(seqs[ch] + k) ELSE seqs[c]
  BY ExchangeAssumption DEF Seqs, Packet, SequenceNumber
<1>2. CASE p.channel # ch
  <2>1. SeqAge(seqs, p) \in Nat
    <3>1. 1 \in Ids
      BY ExchangeAssumption DEF Ids
    <3> QED
      BY <3>1, AgesTyped
  <2> QED
    BY <1>1, <1>2, <2>1 DEF SeqAge
<1>3. CASE p.channel = ch
  <2> DEFINE m == 2 * SequenceLimit
             now == seqs[ch]
             later == now + k
             next == Wrap(later)
             x == p.sequence
  <2>1. /\ m \in Nat \ {0} /\ now \in Int /\ x \in Int
        /\ later \in Int /\ later >= now /\ later - now = k
    BY <1>1, ExchangeAssumption
  <2>2. Congruent(next, later, m)
    BY <2>1, WrapTurns
  <2>3. SeqAge(seqs, p) = Age(now, x, m) /\ SeqAge(seqs2, p) = Age(next, x, m)
    BY <1>1, <1>3 DEF SeqAge
  <2>4. Age(now, x, m) + k < m
    BY <2>3
  <2>5. next \in Int
    BY <2>1, WrapTyped DEF SequenceNumber
  <2> HIDE DEF m, now, later, next, x
  <2>6. Age(next, x, m) = Age(now, x, m) + k
    BY <2>1, <2>2, <2>4, <2>5, AgeGrows
  <2> QED
    BY <1>3, <2>3, <2>6
<1> QED
  BY <1>2, <1>3

(* next_invoke_id makes the ids given out before older.                    *)
LEMMA IdMoves ==
  ASSUME NEW id \in Ids, NEW k \in Nat, NEW p \in Packet, IdAge(id, p) + k < MaxInvokeId
  PROVE  IdAge(NextInvoke(id, k), p) = IdAge(id, p) + k
<1> DEFINE m == MaxInvokeId
           later == id + k
           next == NextInvoke(id, k)
           x == p.id
<1>1. /\ m \in Nat \ {0} /\ id \in Int /\ x \in Int
      /\ later \in Int /\ later >= id /\ later - id = k
  BY ExchangeAssumption DEF Ids, Packet
<1>2. Congruent(NextInvoke(id, k), id + k, MaxInvokeId)
  BY InvokeTurns DEF Ids
<1>3. next \in Int
  BY <1>1, NextInvokeTyped
<1>4. Age(id, x, m) + k < m /\ Congruent(next, later, m)
  BY <1>2 DEF IdAge
<1> HIDE DEF m, later, next, x
<1>5. Age(next, x, m) = Age(id, x, m) + k
  BY <1>1, <1>3, <1>4, AgeGrows
<1> QED
  BY <1>5 DEF IdAge, m, next, x

(* Earlier comes k numbers before the one that is followed by later.       *)
Ago(k, earlier, later, m) == k \in 0 .. m - 1 /\ later = earlier + 1 + k

(* The age of a number given out on the way to the next one.               *)
LEMMA AgeOfNew ==
  ASSUME NEW m \in Nat \ {0}, NEW earlier \in Int, NEW later \in Int, NEW k \in Int,
         Ago(k, earlier, later, m),
         NEW x \in Int, NEW next \in Int, Congruent(x, earlier, m), Congruent(next, later, m)
  PROVE  Age(next, x, m) = k
<1>1. PICK q \in Int : next = q * m + later
  BY DEF Congruent
<1>2. PICK r \in Int : x = r * m + earlier
  BY DEF Congruent
<1>3. k \in 0 .. m - 1 /\ q - r \in Int /\ later = earlier + 1 + k
  BY DEF Ago
<1>4. next - 1 - x = (q - r) * m + k
  <2> DEFINE qm == q * m
             rm == r * m
             all == (q - r) * m
  <2>1. all = qm - rm /\ qm \in Int /\ rm \in Int
    OBVIOUS
  <2>2. next = qm + later /\ x = rm + earlier
    BY <1>1, <1>2
  <2> HIDE DEF qm, rm, all
  <2>3. next - 1 - x = all + k
    BY <1>3, <2>1, <2>2
  <2> QED
    BY <2>3 DEF all
<1>5. ((q - r) * m + k) % m = k
  BY <1>3, Remainder
<1> QED
  BY <1>4, <1>5 DEF Age

(* The k-th of n sequence numbers a call gives out.                        *)
LEMMA NewSeqAge ==
  ASSUME NEW seqs \in Seqs, NEW ch \in Channel, NEW n \in Nat, n <= SequenceLimit,
         NEW k \in 1 .. n, NEW p \in Packet, p.channel = ch,
         p.sequence = Wrap(seqs[ch] + (k - 1)),
         NEW seqs2, seqs2 = [seqs EXCEPT ![ch] = Wrap(seqs[ch] + n)]
  PROVE  SeqAge(seqs2, p) = n - k
<1> DEFINE m == 2 * SequenceLimit
           earlier == seqs[ch] + (k - 1)
           later == seqs[ch] + n
           next == Wrap(later)
           x == Wrap(earlier)
<1>1. /\ m \in Nat \ {0} /\ earlier \in Int /\ later \in Int
      /\ n - k \in Int /\ Ago(n - k, earlier, later, m)
  BY ExchangeAssumption DEF Seqs, SequenceNumber, Ago
<1>2. Congruent(next, later, m) /\ Congruent(x, earlier, m)
  BY <1>1, WrapTurns
<1>4. next \in Int /\ x \in Int
  BY <1>1, WrapTyped DEF SequenceNumber
<1>5. SeqAge(seqs2, p) = Age(next, x, m)
  BY DEF SeqAge, Seqs
<1> HIDE DEF m, earlier, later, next, x
<1>7. Age(next, x, m) = n - k
  BY <1>1, <1>2, <1>4, AgeOfNew
<1> QED
  BY <1>5, <1>7

(* The only number a call gives out is the last one afterwards.            *)
LEMMA OnlySeqAge ==
  ASSUME NEW seqs \in Seqs, NEW ch \in Channel, NEW p \in Packet, p.channel = ch,
         p.sequence = Wrap(seqs[ch]), NEW seqs2, seqs2 = [seqs EXCEPT ![ch] = Wrap(seqs[ch] + 1)]
  PROVE  SeqAge(seqs2, p) = 0
<1> DEFINE m == 2 * SequenceLimit
           earlier == seqs[ch]
           later == earlier + 1
           k == later - earlier - 1
           next == Wrap(later)
           x == Wrap(earlier)
<1>1. /\ m \in Nat \ {0} /\ earlier \in Int /\ later \in Int
      /\ k \in Int /\ k = 0 /\ Ago(k, earlier, later, m)
  BY ExchangeAssumption DEF Seqs, SequenceNumber, Ago
<1>2. Congruent(next, later, m) /\ Congruent(x, earlier, m)
  BY <1>1, WrapTurns
<1>3. next \in Int /\ x \in Int
  BY <1>1, WrapTyped DEF SequenceNumber
<1>4. SeqAge(seqs2, p) = Age(next, x, m)
  BY DEF SeqAge, Seqs
<1>5. \A a \in Int : Ago(a, earlier, later, m) => Age(next, x, m) = a
  <2> HIDE DEF m, earlier, later, next, x
  <2> TAKE a \in Int
  <2> HAVE Ago(a, earlier, later, m)
  <2> QED
    BY <1>1, <1>2, <1>3, AgeOfNew
<1> HIDE DEF m, earlier, later, next, x, k
<1>6. Age(next, x, m) = k
  BY <1>1, <1>5
<1> QED
  BY <1>1, <1>4, <1>6

(* The k-th of n invoke ids a call gives out.                              *)
LEMMA NewIdAge ==
  ASSUME NEW id \in Ids, NEW n \in Nat, n <= MaxInvokeId, NEW k \in 1 .. n,
         NEW p \in Packet, p.id = NextInvoke(id, k - 1)
  PROVE  IdAge(NextInvoke(id, n), p) = n - k
<1> DEFINE m == MaxInvokeId
           earlier == id + (k - 1)
           later == id + n
           next == NextInvoke(id, n)
           x == NextInvoke(id, k - 1)
<1>1. /\ m \in Nat \ {0} /\ id \in Int /\ n \in Int /\ k - 1 \in Int
      /\ earlier \in Int /\ later \in Int
      /\ n - k \in Int /\ Ago(n - k, earlier, later, m)
  BY ExchangeAssumption DEF Ids, Ago
<1>2. Congruent(next, later, m) /\ Congruent(x, earlier, m)
  BY <1>1, InvokeTurns
<1>4. next \in Int /\ x \in Int
  BY <1>1, NextInvokeTyped
<1>5. IdAge(NextInvoke(id, n), p) = Age(next, x, m) /\ n <= m
  BY DEF IdAge
<1> HIDE DEF m, earlier, later, next, x
<1>7. Age(next, x, m) = n - k
  BY <1>1, <1>2, <1>4, AgeOfNew
<1> QED
  BY <1>5, <1>7

-----------------------------------------------------------------------------
(* What a call that makes packets does to those under way.                 *)

Moved(seqs, ch, n) == [seqs EXCEPT ![ch] = Wrap(seqs[ch] + n)]

Bounds(limit, limit2, n, k) ==
  /\ limit \in Int /\ limit2 \in Int
  /\ limit + n <= limit2 /\ limit + k <= limit2
  /\ limit2 <= SequenceLimit /\ limit2 <= MaxInvokeId

(* Packets made before the call become older by what the call gives out.   *)
LEMMA OldPacket ==
  ASSUME NEW seqs \in Seqs, NEW id \in Ids, NEW ch \in Channel, NEW n \in Nat, NEW k \in Nat,
         NEW limit, NEW limit2, Bounds(limit, limit2, n, k),
         NEW p \in Packet, Recent(seqs, id, limit, p)
  PROVE  /\ SeqAge(Moved(seqs, ch, n), p) = SeqAge(seqs, p) + (IF p.channel = ch THEN n ELSE 0)
         /\ p.id > 0 => IdAge(NextInvoke(id, k), p) = IdAge(id, p) + k
         /\ Recent(Moved(seqs, ch, n), NextInvoke(id, k), limit2, p)
         /\ SeqAge(seqs, p) \in Nat /\ IdAge(id, p) \in Nat
<1>1. SeqAge(seqs, p) \in Nat /\ IdAge(id, p) \in Nat
  BY AgesTyped
<1>2. SequenceLimit \in Nat \ {0} /\ MaxInvokeId \in Nat \ {0}
  BY ExchangeAssumption
<1>3. /\ SeqAge(seqs, p) + n < limit2 /\ SeqAge(seqs, p) < limit2
      /\ p.id > 0 => IdAge(id, p) + k < limit2
  BY <1>1 DEF Recent, Bounds
<1>4. SeqAge(seqs, p) + n < 2 * SequenceLimit /\ (p.id > 0 => IdAge(id, p) + k < MaxInvokeId)
  BY <1>1, <1>2, <1>3 DEF Bounds
<1>5. SeqAge(Moved(seqs, ch, n), p) = SeqAge(seqs, p) + (IF p.channel = ch THEN n ELSE 0)
  BY <1>4, SeqMoves DEF Moved
<1>6. p.id > 0 => IdAge(NextInvoke(id, k), p) = IdAge(id, p) + k
  BY <1>4, IdMoves
<1>7. Recent(Moved(seqs, ch, n), NextInvoke(id, k), limit2, p)
  <2>1. SeqAge(Moved(seqs, ch, n), p) < limit2
    BY <1>1, <1>3, <1>5
  <2> QED
    BY <2>1, <1>3, <1>6 DEF Recent
<1> QED
  BY <1>1, <1>5, <1>6, <1>7

(* The packet made as j-th of n.                                           *)
NewPacket(seqs, id, ch, n, k, j, p) ==
  /\ p \in Packet /\ p.channel = ch
  /\ SeqAge(seqs, p) = n - j
  /\ p.id > 0 => j <= k /\ IdAge(id, p) = k - j

(* After a call: what was under way is older and in order as it was, and   *)
(* what is new follows it in the order it was made.                        *)
LEMMA CallInOrder ==
  ASSUME NEW seqs \in Seqs, NEW id \in Ids, NEW ch \in Channel, NEW n \in Nat, NEW k \in Nat,
         NEW limit, NEW limit2, Bounds(limit, limit2, n, k), limit >= 0,
         NEW links \in Links, InFlight(seqs, id, limit, links, <<>>),
         NEW sends \in Sends, Len(sends) <= n,
         \A j \in 1 .. Len(sends) :
           NewPacket(Moved(seqs, ch, n), NextInvoke(id, k), ch, n, k, j, sends[j].packet)
  PROVE  InFlight(Moved(seqs, ch, n), NextInvoke(id, k), limit2, links, sends)
<1> DEFINE seqs2 == Moved(seqs, ch, n)
           id2 == NextInvoke(id, k)
<1>0. Len(sends) \in Nat /\ \A m \in Node : Len(links[m]) \in Nat
  BY DEF Sends, Links
<1>1. \A m \in Node : \A j \in 1 .. Len(links[m]) :
        links[m][j] \in Packet /\ Recent(seqs, id, limit, links[m][j])
  BY DEF InFlight, AllRecent, Links
<1>2. ASSUME NEW p \in Packet, Recent(seqs, id, limit, p)
      PROVE  /\ SeqAge(seqs2, p) = SeqAge(seqs, p) + (IF p.channel = ch THEN n ELSE 0)
             /\ p.id > 0 => IdAge(id2, p) = IdAge(id, p) + k
             /\ Recent(seqs2, id2, limit2, p)
             /\ SeqAge(seqs, p) \in Nat /\ IdAge(id, p) \in Nat
  BY <1>2, OldPacket
<1>3. \A j \in 1 .. Len(sends) : NewPacket(seqs2, id2, ch, n, k, j, sends[j].packet)
  OBVIOUS
<1> HIDE DEF seqs2, id2
<1>4. AllRecent(seqs2, id2, limit2, links, sends)
  <2>1. \A m \in Node : \A j \in 1 .. Len(links[m]) : Recent(seqs2, id2, limit2, links[m][j])
    BY <1>1, <1>2
  <2>2. ASSUME NEW j \in 1 .. Len(sends)
        PROVE  Recent(seqs2, id2, limit2, sends[j].packet)
    <3>1. NewPacket(seqs2, id2, ch, n, k, j, sends[j].packet) /\ j >= 1 /\ j \in Int
      BY <1>3
    <3>2. n - j < limit2 /\ k - j < limit2
      BY <3>1 DEF Bounds
    <3> QED
      BY <3>1, <3>2 DEF NewPacket, Recent
  <2> QED
    BY <2>1, <2>2 DEF AllRecent
<1>5. ASSUME NEW p \in Packet, NEW q \in Packet,
             Recent(seqs, id, limit, p), Recent(seqs, id, limit, q)
      PROVE  /\ Older(seqs, id, p, q) => Older(seqs2, id2, p, q)
             /\ Apart(seqs, id, p, q) => Apart(seqs2, id2, p, q)
  <2>1. /\ SeqAge(seqs2, p) = SeqAge(seqs, p) + (IF p.channel = ch THEN n ELSE 0)
        /\ p.id > 0 => IdAge(id2, p) = IdAge(id, p) + k
        /\ SeqAge(seqs, p) \in Nat /\ IdAge(id, p) \in Nat
    BY <1>2, <1>5
  <2>2. /\ SeqAge(seqs2, q) = SeqAge(seqs, q) + (IF q.channel = ch THEN n ELSE 0)
        /\ q.id > 0 => IdAge(id2, q) = IdAge(id, q) + k
        /\ SeqAge(seqs, q) \in Nat /\ IdAge(id, q) \in Nat
    BY <1>2, <1>5
  <2> QED
    BY <2>1, <2>2 DEF Older, Apart
<1>6. AllApart(seqs2, id2, links)
  <2> SUFFICES ASSUME NEW m \in Node, NEW o \in Node, m # o,
                      NEW j \in 1 .. Len(links[m]), NEW l \in 1 .. Len(links[o])
               PROVE  Apart(seqs2, id2, links[m][j], links[o][l])
    BY DEF AllApart
  <2>1. Apart(seqs, id, links[m][j], links[o][l])
    BY DEF InFlight, AllApart
  <2> QED
    BY <1>1, <1>5, <2>1
<1>7. ASSUME NEW m \in Node, NEW j \in 1 .. Len(links[m]), NEW l \in 1 .. Len(links[m]), j < l
      PROVE  Older(seqs2, id2, links[m][j], links[m][l])
  <2>1. Older(seqs, id, links[m][j], links[m][l])
    BY <1>7 DEF InFlight, AllOrdered
  <2> QED
    BY <1>1, <1>5, <2>1
<1>8. ASSUME NEW j \in 1 .. Len(sends), NEW l \in 1 .. Len(sends), j < l
      PROVE  Older(seqs2, id2, sends[j].packet, sends[l].packet)
  <2>1. /\ NewPacket(seqs2, id2, ch, n, k, j, sends[j].packet)
        /\ NewPacket(seqs2, id2, ch, n, k, l, sends[l].packet)
    BY <1>3
  <2> QED
    BY <1>8, <2>1 DEF NewPacket, Older
<1>9. ASSUME NEW m \in Node, NEW j \in 1 .. Len(links[m]), NEW l \in 1 .. Len(sends)
      PROVE  Older(seqs2, id2, links[m][j], sends[l].packet)
  <2>1. /\ NewPacket(seqs2, id2, ch, n, k, l, sends[l].packet) /\ l \in Int /\ l >= 1
        /\ links[m][j] \in Packet /\ Recent(seqs, id, limit, links[m][j])
    BY <1>1, <1>3
  <2> DEFINE p == links[m][j]
             q == sends[l].packet
  <2>2. /\ SeqAge(seqs2, p) = SeqAge(seqs, p) + (IF p.channel = ch THEN n ELSE 0)
        /\ p.id > 0 => IdAge(id2, p) = IdAge(id, p) + k
        /\ SeqAge(seqs, p) \in Nat /\ IdAge(id, p) \in Nat
    BY <1>2, <2>1
  <2>3. /\ q.channel = ch /\ SeqAge(seqs2, q) = n - l
        /\ q.id > 0 => l <= k /\ IdAge(id2, q) = k - l
    BY <2>1 DEF NewPacket
  <2> HIDE DEF p, q
  <2>4. Older(seqs2, id2, p, q)
    BY <2>1, <2>2, <2>3 DEF Older
  <2> QED
    BY <2>4 DEF p, q
<1>10. AllOrdered(seqs2, id2, links, sends)
  BY <1>7, <1>8, <1>9 DEF AllOrdered
<1> QED
  BY <1>4, <1>6, <1>10 DEF InFlight, seqs2, id2

(* Some elements of a sequence, in their order.                            *)
Thinned(t, s) ==
  \E f \in [1 .. Len(t) -> 1 .. Len(s)] :
    /\ \A j, l \in 1 .. Len(t) : j < l => f[j] < f[l]
    /\ \A j \in 1 .. Len(t) : t[j] = s[f[j]]

(* All of a sequence and none of it are some of it.                        *)
LEMMA ThinnedSame ==
  ASSUME NEW S, NEW s \in Seq(S)
  PROVE  Thinned(s, s) /\ Thinned(<<>>, s)
<1>1. Thinned(s, s)
  <2> DEFINE f == [j \in 1 .. Len(s) |-> j]
  <2>1. /\ f \in [1 .. Len(s) -> 1 .. Len(s)]
        /\ \A j, l \in 1 .. Len(s) : j < l => f[j] < f[l]
        /\ \A j \in 1 .. Len(s) : s[j] = s[f[j]]
    OBVIOUS
  <2> HIDE DEF f
  <2> QED
    BY <2>1 DEF Thinned
<1>2. Thinned(<<>>, s)
  <2> DEFINE f == [j \in 1 .. Len(<<>>) |-> j]
  <2>1. 1 .. Len(<<>>) = {}
    OBVIOUS
  <2>2. /\ f \in [1 .. Len(<<>>) -> 1 .. Len(s)]
        /\ \A j, l \in 1 .. Len(<<>>) : j < l => f[j] < f[l]
        /\ \A j \in 1 .. Len(<<>>) : <<>>[j] = s[f[j]]
    BY <2>1
  <2> HIDE DEF f
  <2> QED
    BY <2>2 DEF Thinned
<1> QED
  BY <1>1, <1>2

(* So is what is left when the first is taken.                             *)
LEMMA ThinnedTail ==
  ASSUME NEW S, NEW s \in Seq(S), s # <<>>
  PROVE  Thinned(Tail(s), s)
<1> DEFINE n == Len(s)
           t == Tail(s)
           f == [j \in 1 .. n - 1 |-> j + 1]
<1>1. n \in Nat /\ t \in Seq(S) /\ Len(t) = n - 1 /\ \A j \in 1 .. n - 1 : t[j] = s[j + 1]
  OBVIOUS
<1> HIDE DEF t, n
<1>2. /\ f \in [1 .. n - 1 -> 1 .. n]
      /\ \A j, l \in 1 .. n - 1 : j < l => f[j] < f[l]
      /\ \A j \in 1 .. n - 1 : f[j] = j + 1
  BY <1>1
<1> HIDE DEF f
<1> QED
  BY <1>1, <1>2 DEF Thinned, t, n

(* So is what is left when any other is taken, which is not among it.      *)
LEMMA ThinnedWithout ==
  ASSUME NEW S, NEW s \in Seq(S), NEW i \in 1 .. Len(s)
  PROVE  /\ Thinned(Without(s, i), s) /\ Without(s, i) \in Seq(S)
         /\ \A j \in 1 .. Len(Without(s, i)) :
              \E l \in (1 .. Len(s)) \ {i} : Without(s, i)[j] = s[l]
<1> DEFINE a == SubSeq(s, 1, i - 1)
           b == SubSeq(s, i + 1, Len(s))
           n == Len(s)
           f == [j \in 1 .. n - 1 |-> IF j < i THEN j ELSE j + 1]
<1>1. n \in Nat /\ i \in Nat /\ i >= 1 /\ i <= n
  OBVIOUS
<1>2. a \in Seq(S) /\ Len(a) = i - 1 /\ \A j \in 1 .. i - 1 : a[j] = s[j]
  OBVIOUS
<1>3. b \in Seq(S) /\ Len(b) = n - i /\ \A j \in 1 .. n - i : b[j] = s[i + j]
  OBVIOUS
<1> DEFINE t == a \o b
<1>4. Without(s, i) = t
  BY DEF Without
<1> HIDE DEF a, b, n
<1>5. /\ t \in Seq(S) /\ Len(t) = Len(a) + Len(b)
      /\ \A j \in 1 .. Len(a) + Len(b) : t[j] = IF j <= Len(a) THEN a[j] ELSE b[j - Len(a)]
  BY <1>2, <1>3, ConcatProperties
<1> HIDE DEF t
<1>6. Len(t) = n - 1
  BY <1>1, <1>2, <1>3, <1>5
<1>7. /\ f \in [1 .. n - 1 -> 1 .. n]
      /\ \A j, l \in 1 .. n - 1 : j < l => f[j] < f[l]
      /\ \A j \in 1 .. n - 1 : f[j] = (IF j < i THEN j ELSE j + 1) /\ f[j] # i
  BY <1>1
<1> HIDE DEF f
<1>8. ASSUME NEW j \in 1 .. n - 1 PROVE t[j] = s[f[j]]
  <2>1. CASE j < i
    BY <2>1, <1>1, <1>2, <1>3, <1>5, <1>7
  <2>2. CASE ~(j < i)
    <3>1. t[j] = b[j - (i - 1)] /\ j - (i - 1) \in 1 .. n - i /\ i + (j - (i - 1)) = j + 1
      BY <2>2, <1>1, <1>2, <1>3, <1>5
    <3> QED
      BY <3>1, <2>2, <1>3, <1>7
  <2> QED
    BY <2>1, <2>2
<1>9. \A j \in 1 .. n - 1 : f[j] \in (1 .. n) \ {i} /\ t[j] = s[f[j]]
  BY <1>7, <1>8
<1>10. Thinned(t, s)
  BY <1>6, <1>7, <1>8 DEF Thinned, n
<1> QED
  BY <1>4, <1>5, <1>6, <1>9, <1>10 DEF n

(* What is left was there before.                                          *)
LEMMA ThinnedElement ==
  ASSUME NEW t, NEW s, Thinned(t, s), NEW j \in 1 .. Len(t)
  PROVE  \E l \in 1 .. Len(s) : t[j] = s[l]
BY DEF Thinned

(* The outbox holds packets.                                               *)
LEMMA SendsPackets ==
  ASSUME NEW sends \in Sends, NEW j \in 1 .. Len(sends)
  PROVE  sends[j].packet \in Packet
<1>1. sends[j] \in Send
  BY DEF Sends
<1> QED
  BY <1>1 DEF Send

(* What is lost, read or given up leaves the rest in order.                *)
LEMMA ThinnedInOrder ==
  ASSUME NEW seqs \in Seqs, NEW id \in Ids, NEW limit \in Int,
         NEW limit2 \in Int, limit <= limit2,
         NEW links \in Links, NEW sends \in Sends, InFlight(seqs, id, limit, links, sends),
         NEW links2 \in Links, NEW sends2 \in Sends,
         \A m \in Node : Thinned(links2[m], links[m]), Thinned(sends2, sends)
  PROVE  InFlight(seqs, id, limit2, links2, sends2)
<1>1. PICK f : \A m \in Node :
        /\ f[m] \in [1 .. Len(links2[m]) -> 1 .. Len(links[m])]
        /\ \A j, l \in 1 .. Len(links2[m]) : j < l => f[m][j] < f[m][l]
        /\ \A j \in 1 .. Len(links2[m]) : links2[m][j] = links[m][f[m][j]]
  <2> DEFINE Good(m, g) ==
        /\ g \in [1 .. Len(links2[m]) -> 1 .. Len(links[m])]
        /\ \A j, l \in 1 .. Len(links2[m]) : j < l => g[j] < g[l]
        /\ \A j \in 1 .. Len(links2[m]) : links2[m][j] = links[m][g[j]]
  <2>1. \A m \in Node : \E g : Good(m, g)
    BY DEF Thinned
  <2> DEFINE f == [m \in Node |-> CHOOSE g : Good(m, g)]
  <2>2. \A m \in Node : Good(m, f[m])
    BY <2>1
  <2> HIDE DEF f
  <2> QED
    BY <2>2
<1>2. PICK h \in [1 .. Len(sends2) -> 1 .. Len(sends)] :
        /\ \A j, l \in 1 .. Len(sends2) : j < l => h[j] < h[l]
        /\ \A j \in 1 .. Len(sends2) : sends2[j] = sends[h[j]]
  BY DEF Thinned
<1>3. \A m \in Node : \A j \in 1 .. Len(links2[m]) : f[m][j] \in 1 .. Len(links[m])
  BY <1>1
<1>4. \A p \in Packet : Recent(seqs, id, limit, p) => Recent(seqs, id, limit2, p)
  <2> TAKE p \in Packet
  <2>1. SeqAge(seqs, p) \in Nat /\ IdAge(id, p) \in Nat
    BY AgesTyped
  <2> QED
    BY <2>1 DEF Recent
<1>5. AllRecent(seqs, id, limit2, links2, sends2)
  <2>1. ASSUME NEW m \in Node, NEW j \in 1 .. Len(links2[m])
        PROVE  Recent(seqs, id, limit2, links2[m][j])
    <3>1. links2[m][j] = links[m][f[m][j]] /\ f[m][j] \in 1 .. Len(links[m])
      BY <1>1, <1>3
    <3>2. links[m][f[m][j]] \in Packet
      BY <3>1 DEF Links
    <3>3. Recent(seqs, id, limit, links[m][f[m][j]])
      BY <3>1 DEF InFlight, AllRecent
    <3> QED
      BY <1>4, <3>1, <3>2, <3>3
  <2>2. ASSUME NEW j \in 1 .. Len(sends2) PROVE Recent(seqs, id, limit2, sends2[j].packet)
    <3>1. sends2[j] = sends[h[j]] /\ h[j] \in 1 .. Len(sends)
      BY <1>2
    <3>2. sends[h[j]].packet \in Packet
      BY <3>1, SendsPackets
    <3>3. Recent(seqs, id, limit, sends[h[j]].packet)
      BY <3>1 DEF InFlight, AllRecent
    <3> QED
      BY <1>4, <3>1, <3>2, <3>3
  <2> QED
    BY <2>1, <2>2 DEF AllRecent
<1>6. AllOrdered(seqs, id, links2, sends2)
  <2>1. ASSUME NEW m \in Node, NEW j \in 1 .. Len(links2[m]), NEW l \in 1 .. Len(links2[m]), j < l
        PROVE  Older(seqs, id, links2[m][j], links2[m][l])
    <3>1. /\ f[m][j] \in 1 .. Len(links[m]) /\ f[m][l] \in 1 .. Len(links[m]) /\ f[m][j] < f[m][l]
          /\ links2[m][j] = links[m][f[m][j]] /\ links2[m][l] = links[m][f[m][l]]
      BY <1>1, <1>3, <2>1
    <3> QED
      BY <3>1 DEF InFlight, AllOrdered
  <2>2. ASSUME NEW j \in 1 .. Len(sends2), NEW l \in 1 .. Len(sends2), j < l
        PROVE  Older(seqs, id, sends2[j].packet, sends2[l].packet)
    <3>1. /\ h[j] \in 1 .. Len(sends) /\ h[l] \in 1 .. Len(sends) /\ h[j] < h[l]
          /\ sends2[j] = sends[h[j]] /\ sends2[l] = sends[h[l]]
      BY <1>2, <2>2
    <3> QED
      BY <3>1 DEF InFlight, AllOrdered
  <2>3. ASSUME NEW m \in Node, NEW j \in 1 .. Len(links2[m]), NEW l \in 1 .. Len(sends2)
        PROVE  Older(seqs, id, links2[m][j], sends2[l].packet)
    <3>1. /\ f[m][j] \in 1 .. Len(links[m]) /\ h[l] \in 1 .. Len(sends)
          /\ links2[m][j] = links[m][f[m][j]] /\ sends2[l] = sends[h[l]]
      BY <1>1, <1>2, <1>3
    <3> QED
      BY <3>1 DEF InFlight, AllOrdered
  <2> QED
    BY <2>1, <2>2, <2>3 DEF AllOrdered
<1>7. AllApart(seqs, id, links2)
  <2> SUFFICES ASSUME NEW m \in Node, NEW o \in Node, m # o,
                      NEW j \in 1 .. Len(links2[m]), NEW l \in 1 .. Len(links2[o])
               PROVE  Apart(seqs, id, links2[m][j], links2[o][l])
    BY DEF AllApart
  <2>1. /\ f[m][j] \in 1 .. Len(links[m]) /\ f[o][l] \in 1 .. Len(links[o])
        /\ links2[m][j] = links[m][f[m][j]] /\ links2[o][l] = links[o][f[o][l]]
    BY <1>1, <1>3
  <2> QED
    BY <2>1 DEF InFlight, AllApart
<1> QED
  BY <1>5, <1>6, <1>7 DEF InFlight

(* The first packet of the outbox is put on a connection.                  *)
LEMMA SentInOrder ==
  ASSUME NEW seqs \in Seqs, NEW id \in Ids, NEW limit \in Int,
         NEW links \in Links, NEW sends \in Sends, sends # <<>>,
         InFlight(seqs, id, limit, links, sends), NEW conn \in Node,
         NEW links2, links2 = [links EXCEPT ![conn] = Append(links[conn], Head(sends).packet)]
  PROVE  InFlight(seqs, id, limit, links2, Tail(sends))
<1> DEFINE x == sends[1].packet
           t == Tail(sends)
           old(m) == Len(links[m])
<1>1. /\ Len(sends) \in Nat /\ 1 \in 1 .. Len(sends) /\ Head(sends) = sends[1]
      /\ Len(t) = Len(sends) - 1 /\ \A j \in 1 .. Len(t) : t[j] = sends[j + 1]
  BY DEF Sends
<1>2. \A j \in 1 .. Len(t) : j + 1 \in 1 .. Len(sends) /\ j + 1 > 1
  BY <1>1
<1>3. x \in Packet
  BY <1>1, SendsPackets
<1>4. \A m \in Node : old(m) \in Nat
  BY DEF Links
<1>5. ASSUME NEW m \in Node
      PROVE  /\ Len(links2[m]) = IF m = conn THEN old(m) + 1 ELSE old(m)
             /\ \A j \in 1 .. old(m) : links2[m][j] = links[m][j]
             /\ m = conn => links2[m][old(m) + 1] = x
  <2>1. links[m] \in Seq(Packet)
    BY DEF Links
  <2>2. CASE m = conn
    <3>1. links2[m] = Append(links[m], x)
      BY <1>1, <2>2 DEF Links
    <3> HIDE DEF x
    <3> QED
      BY <1>3, <2>1, <2>2, <3>1
  <2>3. CASE m # conn
    BY <2>3 DEF Links
  <2> QED
    BY <2>2, <2>3
<1> HIDE DEF t
<1>6. \A m \in Node : \A j \in 1 .. Len(links2[m]) :
        \/ j \in 1 .. old(m) /\ links2[m][j] = links[m][j]
        \/ m = conn /\ j = old(m) + 1 /\ links2[m][j] = x
  BY <1>4, <1>5
<1> HIDE DEF x
<1>7. /\ \A m \in Node : \A j \in 1 .. old(m) : Recent(seqs, id, limit, links[m][j])
      /\ \A k \in 1 .. Len(sends) : Recent(seqs, id, limit, sends[k].packet)
      /\ \A m \in Node : \A j, k \in 1 .. old(m) :
           j < k => Older(seqs, id, links[m][j], links[m][k])
      /\ \A j, k \in 1 .. Len(sends) :
           j < k => Older(seqs, id, sends[j].packet, sends[k].packet)
      /\ \A m \in Node : \A j \in 1 .. old(m), k \in 1 .. Len(sends) :
           Older(seqs, id, links[m][j], sends[k].packet)
      /\ AllApart(seqs, id, links)
  BY DEF InFlight, AllRecent, AllOrdered
<1>8. /\ Recent(seqs, id, limit, x)
      /\ \A k \in 1 .. Len(t) : Older(seqs, id, x, t[k].packet)
      /\ \A m \in Node : \A j \in 1 .. old(m) : Older(seqs, id, links[m][j], x)
  BY <1>1, <1>2, <1>7 DEF x
<1>9. AllRecent(seqs, id, limit, links2, t)
  BY <1>1, <1>2, <1>6, <1>7, <1>8 DEF AllRecent
<1>10. AllOrdered(seqs, id, links2, t)
  <2>1. ASSUME NEW m \in Node, NEW j \in 1 .. Len(links2[m]), NEW k \in 1 .. Len(links2[m]), j < k
        PROVE  Older(seqs, id, links2[m][j], links2[m][k])
    <3>1. j \in 1 .. old(m) /\ links2[m][j] = links[m][j]
      BY <1>4, <1>5, <2>1
    <3> QED
      BY <1>6, <1>7, <1>8, <2>1, <3>1
  <2>2. ASSUME NEW j \in 1 .. Len(t), NEW k \in 1 .. Len(t), j < k
        PROVE  Older(seqs, id, t[j].packet, t[k].packet)
    <3>1. /\ t[j] = sends[j + 1] /\ t[k] = sends[k + 1] /\ j + 1 < k + 1
          /\ j + 1 \in 1 .. Len(sends) /\ k + 1 \in 1 .. Len(sends)
      BY <1>1, <1>2, <2>2
    <3> QED
      BY <1>7, <3>1
  <2>3. ASSUME NEW m \in Node, NEW j \in 1 .. Len(links2[m]), NEW k \in 1 .. Len(t)
        PROVE  Older(seqs, id, links2[m][j], t[k].packet)
    BY <1>1, <1>2, <1>6, <1>7, <1>8
  <2> QED
    BY <2>1, <2>2, <2>3 DEF AllOrdered
<1>11. AllApart(seqs, id, links2)
  <2> SUFFICES ASSUME NEW m \in Node, NEW o \in Node, m # o,
                      NEW j \in 1 .. Len(links2[m]), NEW k \in 1 .. Len(links2[o])
               PROVE  Apart(seqs, id, links2[m][j], links2[o][k])
    BY DEF AllApart
  <2>1. ASSUME NEW a \in Node, NEW i \in 1 .. old(a)
        PROVE  Apart(seqs, id, links[a][i], x) /\ Apart(seqs, id, x, links[a][i])
    <3>1. links[a][i] \in Packet
      BY DEF Links
    <3>2. /\ SeqAge(seqs, links[a][i]) \in Nat /\ IdAge(id, links[a][i]) \in Nat
          /\ SeqAge(seqs, x) \in Nat /\ IdAge(id, x) \in Nat
      BY <1>3, <3>1, AgesTyped
    <3>3. Older(seqs, id, links[a][i], x)
      BY <1>8
    <3> QED
      BY <3>2, <3>3 DEF Older, Apart
  <2>2. \A i \in 1 .. old(m), l \in 1 .. old(o) : Apart(seqs, id, links[m][i], links[o][l])
    BY <1>7 DEF AllApart
  <2> QED
    BY <1>6, <2>1, <2>2
<1> QED
  BY <1>9, <1>10, <1>11 DEF InFlight, t

(* What the order says of two packets on their way.                        *)
LEMMA OrderTells ==
  ASSUME NEW seqs \in Seqs, NEW id \in Ids, NEW limit \in Int, limit <= SequenceLimit,
         NEW p \in Packet, NEW q \in Packet, Older(seqs, id, p, q), Recent(seqs, id, limit, p)
  PROVE  /\ p.channel = q.channel => Before(p.sequence, q.sequence)
         /\ p.id > 0 /\ q.id > 0 => p.id # q.id
<1>1. p.id > 0 /\ q.id > 0 => p.id # q.id
  <2>1. p.id = q.id => IdAge(id, p) = IdAge(id, q)
    BY DEF IdAge
  <2>2. IdAge(id, p) \in Nat
    BY AgesTyped
  <2> QED
    BY <2>1, <2>2 DEF Older
<1>2. ASSUME p.channel = q.channel PROVE Before(p.sequence, q.sequence)
  <2> DEFINE m == 2 * SequenceLimit
             now == seqs[p.channel]
             a == SeqAge(seqs, p)
             b == SeqAge(seqs, q)
  <2>1. /\ SequenceLimit \in Nat \ {0} /\ m \in Nat \ {0} /\ now \in Int
        /\ p.sequence \in Int /\ q.sequence \in Int
    BY ExchangeAssumption DEF Seqs, Packet, SequenceNumber
  <2>2. a \in Nat /\ b \in Nat /\ a > b /\ a < SequenceLimit
    <3>1. a \in Nat /\ b \in Nat
      BY AgesTyped
    <3>2. a > b /\ a < limit
      BY <1>2 DEF Older, Recent
    <3> HIDE DEF a, b
    <3> QED
      BY <2>1, <3>1, <3>2
  <2>3. a = (now - 1 - p.sequence) % m /\ b = (now - 1 - q.sequence) % m
    BY <1>2 DEF SeqAge, Age
  <2> HIDE DEF m, now, a, b
  <2>0. now - 1 - p.sequence \in Int /\ now - 1 - q.sequence \in Int
    BY <2>1
  <2>4. PICK c \in Int : now - 1 - p.sequence = c * m + a
    BY <2>0, <2>1, <2>3, DivMod
  <2>5. PICK d \in Int : now - 1 - q.sequence = d * m + b
    BY <2>0, <2>1, <2>3, DivMod
  <2>6. q.sequence - p.sequence = (c - d) * m + (a - b)
    <3> DEFINE cm == c * m
               dm == d * m
               all == (c - d) * m
    <3>1. all = cm - dm /\ cm \in Int /\ dm \in Int
      BY <2>1
    <3>2. now - 1 - p.sequence = cm + a /\ now - 1 - q.sequence = dm + b
      BY <2>4, <2>5
    <3> HIDE DEF cm, dm, all
    <3>3. q.sequence - p.sequence = all + (a - b)
      BY <2>1, <2>2, <3>1, <3>2
    <3> QED
      BY <3>3 DEF all
  <2>7. a - b \in 1 .. SequenceLimit - 1 /\ a - b \in 0 .. m - 1 /\ c - d \in Int
    BY <2>1, <2>2 DEF m
  <2>8. ((c - d) * m + (a - b)) % m = a - b
    BY <2>1, <2>7, Remainder
  <2> QED
    BY <2>6, <2>7, <2>8 DEF Before, m
<1> QED
  BY <1>1, <1>2

-----------------------------------------------------------------------------
(* The pings that node n may yet have to answer.                           *)
Token == Node \X Channel \X SequenceNumber

IsPing(p, t) == p.type = "Ping" /\ p.channel = t[2] /\ p.sequence = t[3]

Pings(n) ==
  {t \in Token :
     /\ t[1] # n
     /\ \/ \E j \in 1 .. Len(link[t[1]][n]) : IsPing(link[t[1]][n][j], t)
        \/ \E j \in 1 .. Len(outbox[t[1]]) : IsPing(outbox[t[1]][j].packet, t)}

(* A call made that is not accounted for by a packet under way or a ping   *)
(* to come leaves room for what it gives out.                              *)
NodeInv(n) ==
  /\ IsFiniteSet(Pings(n)) /\ Cardinality(Pings(n)) <= made
  /\ InFlight(sequence[n], invoke[n], made - Cardinality(Pings(n)), link[n], outbox[n])

(* No application has a connection to itself.                              *)
SelfFree == \A n \in Node : link[n][n] = <<>> /\ route[n][n] # n

(* The order of what is under way: a packet is no older than the packets   *)
(* and invokes made, where a ping that has still to be answered does not   *)
(* count for who has to answer it: the echo will use up a number then.     *)
OrderInv == RouteInv /\ SelfFree /\ \A n \in Node : NodeInv(n)

(* While fewer than half the sequence numbers, and not all ids, have been  *)
(* used up, an age is told from any other.                                 *)
RangesSuffice == MaxMade <= SequenceLimit /\ MaxMade <= MaxInvokeId

(* Types of what one engine keeps.                                         *)
LEMMA Typed ==
  ASSUME RouteInv, NEW n \in Node
  PROVE  /\ sequence[n] \in Seqs /\ invoke[n] \in Ids /\ link[n] \in Links /\ outbox[n] \in Sends
         /\ made \in Nat /\ made <= MaxMade /\ MaxMade \in Nat
BY ExchangeAssumption
   DEF RouteInv, CountersOK, LinksOK, RestOK, Seqs, Ids, Links, Sends

(* The same after a step.                                                  *)
LEMMA TypedNext ==
  ASSUME RouteInv', NEW n \in Node
  PROVE  /\ sequence'[n] \in Seqs /\ invoke'[n] \in Ids
         /\ link'[n] \in Links /\ outbox'[n] \in Sends
         /\ made' \in Nat /\ made' <= MaxMade /\ MaxMade \in Nat
BY ExchangeAssumption
   DEF RouteInv, CountersOK, LinksOK, RestOK, Seqs, Ids, Links, Sends

(* What one engine keeps after a step, its pings counted before.           *)
LEMMA NodeNext ==
  ASSUME NEW n \in Node, NEW pings, pings = Pings(n)', IsFiniteSet(pings),
         Cardinality(pings) <= made',
         InFlight(sequence'[n], invoke'[n], made' - Cardinality(pings), link'[n], outbox'[n])
  PROVE  NodeInv(n)'
<1>1. IsFiniteSet(Pings(n))' /\ Cardinality(Pings(n))' = Cardinality(pings)
  OBVIOUS
<1>2. InFlight(sequence[n], invoke[n], made - Cardinality(Pings(n)), link[n], outbox[n])'
  BY <1>1 DEF InFlight, AllRecent, AllOrdered, AllApart, Recent, Older, Apart, SeqAge, IdAge, Age
<1> QED
  BY <1>1, <1>2 DEF NodeInv

(* A node whose engine is not called.                                      *)
LEMMA NodeQuiet ==
  ASSUME OrderInv, RouteInv', NEW n \in Node,
         sequence'[n] = sequence[n], invoke'[n] = invoke[n],
         \A m \in Node : Thinned(link'[n][m], link[n][m]), Thinned(outbox'[n], outbox[n]),
         NEW pings, pings = Pings(n)', IsFiniteSet(pings),
         made' - Cardinality(pings) >= made - Cardinality(Pings(n))
  PROVE  NodeInv(n)'
<1> DEFINE count == Cardinality(Pings(n))
           limit == made - count
           limit2 == made' - Cardinality(pings)
<1>1. /\ count \in Nat /\ Cardinality(pings) \in Nat /\ made \in Nat /\ made' \in Nat
      /\ count <= made
  BY FS_CardinalityType, Typed, TypedNext DEF OrderInv, NodeInv
<1>2. limit \in Int /\ limit2 \in Int /\ limit <= limit2 /\ Cardinality(pings) <= made'
  BY <1>1
<1>3. InFlight(sequence[n], invoke[n], limit, link[n], outbox[n])
  BY DEF OrderInv, NodeInv
<1> HIDE DEF limit, limit2
<1>4. /\ sequence[n] \in Seqs /\ invoke[n] \in Ids /\ link[n] \in Links /\ outbox[n] \in Sends
      /\ link'[n] \in Links /\ outbox'[n] \in Sends
  BY Typed, TypedNext DEF OrderInv
<1>5. InFlight(sequence[n], invoke[n], limit2, link'[n], outbox'[n])
  BY <1>2, <1>3, <1>4, ThinnedInOrder
<1> QED
  BY <1>2, <1>5, NodeNext DEF limit2

(* What a call gives out on node n.                                        *)
Called(n, ch, count, k) ==
  /\ sequence'[n] = Moved(sequence[n], ch, count) /\ invoke'[n] = NextInvoke(invoke[n], k)
  /\ Len(outbox'[n]) <= count
  /\ \A j \in 1 .. Len(outbox'[n]) :
       NewPacket(Moved(sequence[n], ch, count), NextInvoke(invoke[n], k), ch, count, k, j,
                 outbox'[n][j].packet)

(* The node whose engine is called.                                        *)
LEMMA NodeCalled ==
  ASSUME OrderInv, RouteInv', RangesSuffice, NEW n \in Node, outbox[n] = <<>>,
         NEW ch \in Channel, NEW count \in Nat, NEW k \in Nat, Called(n, ch, count, k),
         \A m \in Node : Thinned(link'[n][m], link[n][m]),
         NEW pings, pings = Pings(n)', IsFiniteSet(pings),
         made' - Cardinality(pings) >= made - Cardinality(Pings(n)) + count,
         made' - Cardinality(pings) >= made - Cardinality(Pings(n)) + k
  PROVE  NodeInv(n)'
<1> DEFINE limit == made - Cardinality(Pings(n))
           limit2 == made' - Cardinality(pings)
           seqs2 == Moved(sequence[n], ch, count)
           id2 == NextInvoke(invoke[n], k)
<1>1. /\ Cardinality(Pings(n)) \in Nat /\ Cardinality(pings) \in Nat
      /\ made \in Nat /\ made' \in Nat /\ made' <= MaxMade /\ MaxMade \in Nat
      /\ Cardinality(Pings(n)) <= made
  BY FS_CardinalityType, Typed, TypedNext DEF OrderInv, NodeInv
<1>2. SequenceLimit \in Nat /\ MaxInvokeId \in Nat
  BY ExchangeAssumption
<1>3. /\ limit >= 0 /\ limit \in Int /\ limit2 \in Int /\ Cardinality(pings) <= made'
      /\ Bounds(limit, limit2, count, k)
  BY <1>1, <1>2 DEF Bounds, RangesSuffice
<1>4. InFlight(sequence[n], invoke[n], limit, link[n], <<>>)
  BY DEF OrderInv, NodeInv
<1> HIDE DEF limit, limit2, seqs2, id2
<1>5. /\ sequence[n] \in Seqs /\ invoke[n] \in Ids /\ link[n] \in Links /\ <<>> \in Sends
      /\ link'[n] \in Links /\ outbox'[n] \in Sends
  BY Typed, TypedNext DEF OrderInv, Sends
<1>6. InFlight(sequence[n], invoke[n], limit, link'[n], <<>>)
  <2>1. Thinned(<<>>, <<>>)
    BY <1>5, ThinnedSame DEF Sends
  <2>2. limit <= limit
    BY <1>3
  <2> QED
    BY <1>3, <1>4, <1>5, <2>1, <2>2, ThinnedInOrder
<1>7. InFlight(seqs2, id2, limit2, link'[n], outbox'[n])
  BY <1>3, <1>5, <1>6, CallInOrder DEF seqs2, id2, Called
<1>8. InFlight(sequence'[n], invoke'[n], limit2, link'[n], outbox'[n])
  BY <1>7 DEF seqs2, id2, Called
<1> QED
  BY <1>3, <1>8, NodeNext DEF limit2

-----------------------------------------------------------------------------
(* What is on its way, read or lost.                                       *)
LinksThinned == \A n, m \in Node : Thinned(link'[n][m], link[n][m])

CallsNobody(n) == sequence'[n] = sequence[n] /\ invoke'[n] = invoke[n] /\ outbox'[n] = outbox[n]

NoPings(sends) == \A j \in 1 .. Len(sends) : sends[j].packet.type # "Ping"

(* An application that has no connection to itself gets none.              *)
LEMMA NoSelfLink ==
  ASSUME RouteInv', SelfFree, LinksThinned,
         \A n \in Node : route'[n][n] = route[n][n] \/ route'[n][n] # n
  PROVE  SelfFree'
<1> SUFFICES ASSUME NEW n \in Node PROVE link'[n][n] = <<>> /\ route'[n][n] # n
  BY DEF SelfFree
<1>1. link'[n][n] \in Seq(Packet)
  BY TypedNext DEF Links
<1>2. Thinned(link'[n][n], <<>>)
  BY DEF LinksThinned, SelfFree
<1>3. 1 .. Len(<<>>) = {}
  OBVIOUS
<1>4. Len(link'[n][n]) = 0
  <2>1. \A j \in 1 .. Len(link'[n][n]) : FALSE
    BY <1>2, <1>3, ThinnedElement
  <2>2. Len(link'[n][n]) \in Nat
    BY <1>1
  <2> QED
    BY <2>1, <2>2
<1>5. link'[n][n] = <<>>
  BY <1>1, <1>4, EmptySeq
<1> QED
  BY <1>5 DEF SelfFree

(* Steps that make no ping leave no more to be answered.                   *)
LEMMA PingsKept ==
  ASSUME LinksThinned,
         \A x \in Node : outbox'[x] = outbox[x] \/ NoPings(outbox'[x]),
         NEW n \in Node
  PROVE  Pings(n)' \subseteq Pings(n)
<1> SUFFICES ASSUME NEW t \in Token, t \in Pings(n)' PROVE t \in Pings(n)
  BY DEF Pings, Token, SequenceNumber, Channel
<1>1. /\ t[1] \in Node /\ t[1] # n
      /\ \/ \E j \in 1 .. Len(link'[t[1]][n]) : IsPing(link'[t[1]][n][j], t)
         \/ \E j \in 1 .. Len(outbox'[t[1]]) : IsPing(outbox'[t[1]][j].packet, t)
  BY DEF Pings, Token, IsPing
<1>2. CASE \E j \in 1 .. Len(link'[t[1]][n]) : IsPing(link'[t[1]][n][j], t)
  <2>1. PICK j \in 1 .. Len(link'[t[1]][n]) : IsPing(link'[t[1]][n][j], t)
    BY <1>2
  <2>2. Thinned(link'[t[1]][n], link[t[1]][n])
    BY <1>1 DEF LinksThinned
  <2>3. PICK l \in 1 .. Len(link[t[1]][n]) : link'[t[1]][n][j] = link[t[1]][n][l]
    BY <2>2, ThinnedElement
  <2> QED
    BY <1>1, <2>1, <2>3 DEF Pings
<1>3. CASE \E j \in 1 .. Len(outbox'[t[1]]) : IsPing(outbox'[t[1]][j].packet, t)
  <2>1. PICK j \in 1 .. Len(outbox'[t[1]]) : IsPing(outbox'[t[1]][j].packet, t)
    BY <1>3
  <2>2. ~NoPings(outbox'[t[1]])
    BY <2>1 DEF NoPings, IsPing
  <2>3. outbox'[t[1]] = outbox[t[1]]
    BY <1>1, <2>2
  <2> QED
    BY <1>1, <2>1, <2>3 DEF Pings
<1> QED
  BY <1>1, <1>2, <1>3

(* Fewer pings leave as much room.                                         *)
LEMMA Fewer ==
  ASSUME OrderInv, RouteInv', NEW n \in Node, NEW pings, pings \subseteq Pings(n)
  PROVE  /\ IsFiniteSet(pings) /\ Cardinality(pings) \in Nat /\ Cardinality(Pings(n)) \in Nat
         /\ Cardinality(pings) <= Cardinality(Pings(n))
         /\ made \in Nat /\ made' \in Nat
         /\ \A k \in Nat : made' >= made + k =>
              made' - Cardinality(pings) >= made - Cardinality(Pings(n)) + k
<1>1. IsFiniteSet(Pings(n))
  BY DEF OrderInv, NodeInv
<1>2. IsFiniteSet(pings) /\ Cardinality(pings) <= Cardinality(Pings(n))
  BY <1>1, FS_Subset
<1>3. Cardinality(pings) \in Nat /\ Cardinality(Pings(n)) \in Nat
  BY <1>1, <1>2, FS_CardinalityType
<1>4. made \in Nat /\ made' \in Nat
  BY Typed, TypedNext DEF OrderInv
<1> QED
  BY <1>2, <1>3, <1>4

(* Steps that call no engine, or one that makes nothing.                   *)
LEMMA QuietKeeps ==
  ASSUME OrderInv, RouteInv', SelfFree', LinksThinned, made' = made,
         \A n \in Node : CallsNobody(n)
  PROVE  OrderInv'
<1>1. ASSUME NEW n \in Node PROVE NodeInv(n)'
  <2>1. PICK pings : pings = Pings(n)'
    OBVIOUS
  <2>2. pings \subseteq Pings(n)
    BY <2>1, PingsKept DEF CallsNobody
  <2>3. IsFiniteSet(pings) /\ made' - Cardinality(pings) >= made - Cardinality(Pings(n))
    BY <2>2, Fewer
  <2>4. Thinned(outbox'[n], outbox[n])
    BY Typed, ThinnedSame DEF OrderInv, Sends, CallsNobody
  <2>5. \A m \in Node : Thinned(link'[n][m], link[n][m])
    BY DEF LinksThinned
  <2> QED
    BY <2>1, <2>3, <2>4, <2>5, NodeQuiet DEF CallsNobody
<1> QED
  BY <1>1 DEF OrderInv

(* Steps that call one engine, which makes what is counted in `made`.      *)
LEMMA CallKeeps ==
  ASSUME OrderInv, RouteInv', SelfFree', RangesSuffice, LinksThinned,
         NEW n \in Node, outbox[n] = <<>>, NoPings(outbox'[n]),
         \A m \in Node \ {n} : CallsNobody(m),
         NEW ch \in Channel, NEW count \in Nat, NEW k \in Nat, Called(n, ch, count, k),
         made' >= made + count, made' >= made + k
  PROVE  OrderInv'
<1>1. ASSUME NEW m \in Node PROVE NodeInv(m)'
  <2>1. PICK pings : pings = Pings(m)'
    OBVIOUS
  <2>2. pings \subseteq Pings(m)
    BY <2>1, PingsKept DEF CallsNobody
  <2>3. /\ IsFiniteSet(pings) /\ made' >= made
        /\ made' - Cardinality(pings) >= made - Cardinality(Pings(m))
        /\ made' - Cardinality(pings) >= made - Cardinality(Pings(m)) + count
        /\ made' - Cardinality(pings) >= made - Cardinality(Pings(m)) + k
    BY <2>2, Fewer
  <2>4. \A o \in Node : Thinned(link'[m][o], link[m][o])
    BY DEF LinksThinned
  <2>5. CASE m = n
    BY <2>1, <2>3, <2>4, <2>5, NodeCalled
  <2>6. CASE m # n
    <3>1. CallsNobody(m)
      BY <2>6
    <3>2. Thinned(outbox'[m], outbox[m])
      BY <3>1, Typed, ThinnedSame DEF OrderInv, Sends, CallsNobody
    <3> QED
      BY <2>1, <2>3, <2>4, <3>1, <3>2, NodeQuiet DEF CallsNobody
  <2> QED
    BY <2>5, <2>6
<1> QED
  BY <1>1 DEF OrderInv

-----------------------------------------------------------------------------
(* What the calls give out.                                                *)
LEMMA NothingMoved ==
  ASSUME NEW seqs \in Seqs, NEW id \in Ids
  PROVE  /\ NextInvoke(id, 0) = id
         /\ \A ch \in Channel : Wrap(seqs[ch]) = seqs[ch] /\ Moved(seqs, ch, 0) = seqs
<1>1. NextInvoke(id, 0) = id
  <2> DEFINE m == MaxInvokeId
             r == id - 1
  <2>1. m \in Nat \ {0} /\ r \in 0 .. m - 1 /\ id = r + 1 /\ id - 1 + 0 = r
    BY ExchangeAssumption DEF Ids
  <2> HIDE DEF m, r
  <2>2. 0 * m + r = r /\ 0 \in Int
    BY <2>1
  <2>3. (0 * m + r) % m = r
    BY <2>1, <2>2, Remainder
  <2>4. r % m = r
    BY <2>2, <2>3
  <2> QED
    BY <2>1, <2>4 DEF NextInvoke, m
<1>2. ASSUME NEW ch \in Channel PROVE Wrap(seqs[ch]) = seqs[ch] /\ Moved(seqs, ch, 0) = seqs
  <2> DEFINE m == 2 * SequenceLimit
             s == seqs[ch]
             r == s + SequenceLimit
  <2>1. /\ m \in Nat \ {0} /\ r \in 0 .. m - 1 /\ s \in Int /\ r - SequenceLimit = s
        /\ s + 0 = s /\ SequenceLimit \in Int
    BY ExchangeAssumption DEF Seqs, SequenceNumber
  <2> HIDE DEF m, r
  <2>2. 0 * m + r = r /\ 0 \in Int
    BY <2>1
  <2>3. (0 * m + r) % m = r
    BY <2>1, <2>2, Remainder
  <2>4. r % m = r
    BY <2>2, <2>3
  <2>5. Wrap(s) = s
    BY <2>1, <2>4 DEF Wrap, m, r
  <2>6. [seqs EXCEPT ![ch] = s] = seqs
    BY DEF Seqs
  <2> QED
    BY <2>1, <2>5, <2>6 DEF Moved
<1> QED
  BY <1>1, <1>2

(* make_packet to a registered device uses up one number and no id.        *)
LEMMA PacketCalled ==
  ASSUME RouteInv, RouteInv', NEW n \in Node, NEW D, NEW target \in D, NEW ch \in Channel,
         NEW rel, NEW type, MadePacket(n, D, target, ch, rel, type)
  PROVE  /\ Called(n, ch, 1, 0)
         /\ \A m \in Node \ {n} : CallsNobody(m)
         /\ type # "Ping" => NoPings(outbox'[n])
         /\ \A j \in 1 .. Len(outbox'[n]) :
              /\ outbox'[n][j].packet.channel = ch
              /\ outbox'[n][j].packet.sequence = sequence[n][ch]
<1>1. /\ sequence[n] \in Seqs /\ invoke[n] \in Ids /\ outbox'[n] \in Sends
      /\ sequence \in [Node -> Seqs] /\ outbox \in [Node -> Sends]
  BY Typed, TypedNext DEF RouteInv, CountersOK, Seqs, Sends
<1> DEFINE sent == [from |-> Sender(n, target), channel |-> ch, reliability |-> rel,
                    type |-> type, sequence |-> sequence[n][ch], id |-> 0]
           sends == <<[to |-> target, packet |-> sent]>>
<1>2. /\ sequence' = [sequence EXCEPT ![n][ch] = Wrap(sequence[n][ch] + 1)]
      /\ outbox' = [outbox EXCEPT ![n] = <<>>] \/ outbox' = [outbox EXCEPT ![n] = sends]
      /\ invoke' = invoke
  BY DEF MadePacket
<1>3. sequence'[n] = Moved(sequence[n], ch, 1)
  BY <1>1, <1>2 DEF Moved
<1>4. invoke'[n] = NextInvoke(invoke[n], 0)
  BY <1>1, <1>2, NothingMoved
<1>5. outbox'[n] = <<>> \/ outbox'[n] = sends
  BY <1>1, <1>2
<1>6. \A m \in Node \ {n} : CallsNobody(m)
  BY <1>1, <1>2 DEF CallsNobody
<1>7. Len(outbox'[n]) <= 1 /\ \A j \in 1 .. Len(outbox'[n]) : j = 1 /\ outbox'[n][j].packet = sent
  <2> HIDE DEF sent
  <2>1. Len(<<>>) = 0 /\ Len(sends) = 1 /\ sends[1].packet = sent
    OBVIOUS
  <2> HIDE DEF sends
  <2>2. CASE outbox'[n] = <<>>
    BY <2>1, <2>2
  <2>3. CASE outbox'[n] = sends
    BY <2>1, <2>3
  <2> QED
    BY <1>5, <2>2, <2>3
<1>8. ASSUME NEW j \in 1 .. Len(outbox'[n])
      PROVE  NewPacket(Moved(sequence[n], ch, 1), NextInvoke(invoke[n], 0), ch, 1, 0, j,
                       outbox'[n][j].packet)
  <2>1. j = 1 /\ outbox'[n][j].packet = sent /\ sent \in Packet
    BY <1>1, <1>7, SendsPackets
  <2>2. sent.channel = ch /\ sent.id = 0 /\ sent.sequence = sequence[n][ch]
    OBVIOUS
  <2> HIDE DEF sent
  <2>3. sent.sequence = Wrap(sequence[n][ch])
    BY <1>1, <2>2, NothingMoved
  <2>4. SeqAge(Moved(sequence[n], ch, 1), sent) = 0
    BY <1>1, <2>1, <2>2, <2>3, OnlySeqAge DEF Moved
  <2> QED
    BY <2>1, <2>2, <2>4 DEF NewPacket
<1>9. type # "Ping" => NoPings(outbox'[n])
  BY <1>7 DEF NoPings
<1> HIDE DEF sent
<1>10. \A j \in 1 .. Len(outbox'[n]) : /\ outbox'[n][j].packet.channel = ch
                                      /\ outbox'[n][j].packet.sequence = sequence[n][ch]
  BY <1>7 DEF sent
<1> QED
  BY <1>3, <1>4, <1>6, <1>7, <1>8, <1>9, <1>10 DEF Called

(* make_message_invoke to several uses up as many numbers as ids.          *)
LEMMA InvokesCalled ==
  ASSUME RouteInv, RouteInv', RangesSuffice, NEW n \in Node, NEW targets \in Seq(Node),
         MadeInvokes(n, targets)
  PROVE  /\ Called(n, Message, Len(targets), Len(targets))
         /\ \A m \in Node \ {n} : CallsNobody(m)
         /\ NoPings(outbox'[n])
         /\ made' = made + Len(targets)
<1> DEFINE count == Len(targets)
           sent(j) == [from |-> Sender(n, targets[j]), channel |-> Message,
                       reliability |-> 1, type |-> "Data",
                       sequence |-> Wrap(sequence[n][Message] + j - 1),
                       id |-> NextInvoke(invoke[n], j - 1)]
           sends == [j \in 1 .. count |-> [to |-> targets[j], packet |-> sent(j)]]
<1>1. /\ sequence[n] \in Seqs /\ invoke[n] \in Ids /\ outbox'[n] \in Sends
      /\ sequence \in [Node -> Seqs] /\ outbox \in [Node -> Sends]
      /\ invoke \in [Node -> Ids]
  BY Typed, TypedNext DEF RouteInv, CountersOK, Seqs, Sends, Ids
<1>2. /\ sequence' = [sequence EXCEPT ![n][Message] = Wrap(sequence[n][Message] + count)]
      /\ invoke' = [invoke EXCEPT ![n] = NextInvoke(invoke[n], count)]
      /\ outbox' = [outbox EXCEPT ![n] = <<>>] \/ outbox' = [outbox EXCEPT ![n] = sends]
      /\ made' = made + count
  BY DEF MadeInvokes
<1>3. /\ count \in Nat /\ count <= SequenceLimit /\ count <= MaxInvokeId /\ Message \in Channel
      /\ sequence[n][Message] \in Int
  <2>1. count \in Nat
    OBVIOUS
  <2>2. made \in Nat /\ made' \in Nat /\ made' <= MaxMade /\ MaxMade \in Nat
    BY Typed, TypedNext
  <2> HIDE DEF count
  <2> QED
    BY <1>1, <1>2, <2>1, <2>2, ExchangeAssumption
       DEF RangesSuffice, Channel, Seqs, SequenceNumber
<1>4. /\ sequence'[n] = Moved(sequence[n], Message, count)
      /\ invoke'[n] = NextInvoke(invoke[n], count)
  BY <1>1, <1>2, <1>3 DEF Moved
<1>5. outbox'[n] = <<>> \/ outbox'[n] = sends
  BY <1>1, <1>2
<1>6. \A m \in Node \ {n} : CallsNobody(m)
  BY <1>1, <1>2 DEF CallsNobody
<1> HIDE DEF sent, count
<1>7. /\ Len(outbox'[n]) <= count
      /\ \A j \in 1 .. Len(outbox'[n]) : j \in 1 .. count /\ outbox'[n][j].packet = sent(j)
  <2>1. Len(<<>>) = 0 /\ Len(sends) = count
    BY <1>3
  <2>2. \A j \in 1 .. count : sends[j].packet = sent(j)
    OBVIOUS
  <2> QED
    BY <1>3, <1>5, <2>1, <2>2
<1>8. ASSUME NEW j \in 1 .. Len(outbox'[n])
      PROVE  NewPacket(Moved(sequence[n], Message, count), NextInvoke(invoke[n], count),
                       Message, count, count, j, outbox'[n][j].packet)
  <2>1. j \in 1 .. count /\ outbox'[n][j].packet = sent(j) /\ sent(j) \in Packet
    BY <1>1, <1>7, SendsPackets
  <2>2. /\ sent(j).channel = Message /\ sent(j).id = NextInvoke(invoke[n], j - 1)
        /\ sent(j).sequence = Wrap(sequence[n][Message] + j - 1)
    BY DEF sent
  <2>3. sequence[n][Message] + j - 1 = sequence[n][Message] + (j - 1)
    BY <1>3, <2>1
  <2>4. SeqAge(Moved(sequence[n], Message, count), sent(j)) = count - j
    BY <1>1, <1>3, <2>1, <2>2, <2>3, NewSeqAge DEF Moved
  <2>5. IdAge(NextInvoke(invoke[n], count), sent(j)) = count - j
    BY <1>1, <1>3, <2>1, <2>2, NewIdAge
  <2> QED
    BY <1>3, <2>1, <2>2, <2>4, <2>5 DEF NewPacket
<1>9. NoPings(outbox'[n])
  <2>1. \A j : sent(j).type # "Ping"
    BY DEF sent
  <2> QED
    BY <1>7, <2>1 DEF NoPings
<1> QED
  BY <1>2, <1>4, <1>6, <1>7, <1>8, <1>9 DEF Called, count

(* A refused invoke uses up an id and no number.                           *)
LEMMA RefusedCalled ==
  ASSUME RouteInv, NEW n \in Node, RefusedInvoke(n)
  PROVE  /\ Called(n, Message, 0, 1)
         /\ \A m \in Node \ {n} : CallsNobody(m)
         /\ NoPings(outbox'[n])
         /\ made' = made + 1 /\ Message \in Channel
<1>1. sequence[n] \in Seqs /\ invoke \in [Node -> Ids] /\ outbox \in [Node -> Sends]
  BY Typed DEF RouteInv, CountersOK, Seqs, Sends, Ids
<1>2. Message \in Channel
  BY DEF Channel
<1>3. sequence'[n] = Moved(sequence[n], Message, 0)
  BY <1>1, <1>2, NothingMoved DEF RefusedInvoke, Ids
<1>4. outbox'[n] = <<>> /\ Len(<<>>) = 0 /\ invoke'[n] = NextInvoke(invoke[n], 1)
  BY <1>1 DEF RefusedInvoke
<1>5. \A m \in Node \ {n} : CallsNobody(m)
  BY <1>1 DEF RefusedInvoke, CallsNobody
<1>6. Called(n, Message, 0, 1) /\ NoPings(outbox'[n])
  BY <1>3, <1>4 DEF Called, NoPings
<1> QED
  BY <1>2, <1>5, <1>6 DEF RefusedInvoke

-----------------------------------------------------------------------------
(* The order, step by step.                                                *)
LEMMA LinksStay ==
  ASSUME RouteInv, link' = link
  PROVE  LinksThinned
<1> SUFFICES ASSUME NEW n \in Node, NEW m \in Node PROVE Thinned(link[n][m], link[n][m])
  BY DEF LinksThinned
<1>1. link[n][m] \in Seq(Packet)
  BY DEF RouteInv, LinksOK
<1> QED
  BY <1>1, ThinnedSame

(* A connection a packet is read from or lost on.                          *)
LEMMA LinkTaken ==
  ASSUME RouteInv, NEW n \in Node, NEW m \in Node, NEW i \in 1 .. Len(link[n][m]),
         link' = [link EXCEPT ![n][m] = Without(link[n][m], i)]
  PROVE  LinksThinned
<1> SUFFICES ASSUME NEW a \in Node, NEW b \in Node PROVE Thinned(link'[a][b], link[a][b])
  BY DEF LinksThinned
<1>1. link \in [Node -> [Node -> Seq(Packet)]] /\ link[a][b] \in Seq(Packet)
  BY DEF RouteInv, LinksOK
<1>2. CASE a = n /\ b = m
  <2>1. link'[a][b] = Without(link[n][m], i)
    BY <1>1, <1>2
  <2> QED
    BY <1>1, <1>2, <2>1, ThinnedWithout
<1>3. CASE ~(a = n /\ b = m)
  <2>1. link'[a][b] = link[a][b]
    BY <1>1, <1>3
  <2> QED
    BY <1>1, <2>1, ThinnedSame
<1> QED
  BY <1>2, <1>3

(* init_local_device sends nothing.                                        *)
LEMMA InitLocalOrders ==
  ASSUME OrderInv, NEW n \in Node, NEW core \in Core, InitLocal(n, core)
  PROVE  OrderInv'
<1>1. RouteInv'
  BY InitLocalKeeps DEF OrderInv
<1>2. LinksThinned
  BY LinksStay DEF OrderInv, InitLocal
<1>3. SelfFree'
  BY <1>1, <1>2, NoSelfLink DEF OrderInv, InitLocal
<1> QED
  BY <1>1, <1>2, <1>3, QuietKeeps DEF InitLocal, CallsNobody

(* A connection is opened to another device.                               *)
LEMMA RegisterOrders ==
  ASSUME OrderInv, NEW n \in Node, NEW m \in Node, n # m, Register(n, m)
  PROVE  OrderInv'
<1>1. RouteInv'
  BY RegisterKeeps DEF OrderInv
<1>2. LinksThinned
  BY LinksStay DEF OrderInv, Register
<1>3. \A x \in Node : route'[x][x] = route[x][x]
  BY DEF OrderInv, RouteInv, RoutesOK, Register
<1>4. SelfFree'
  BY <1>1, <1>2, <1>3, NoSelfLink DEF OrderInv
<1> QED
  BY <1>1, <1>2, <1>4, QuietKeeps DEF Register, CallsNobody

(* The loss of a packet leaves the others in order.                        *)
LEMMA LoseOrders ==
  ASSUME OrderInv, NEW n \in Node, NEW m \in Node, NEW i \in 1 .. Len(link[n][m]), Lose(n, m, i)
  PROVE  OrderInv'
<1>1. RouteInv'
  BY LoseKeeps DEF OrderInv
<1>2. LinksThinned
  BY LinkTaken DEF OrderInv, Lose
<1>3. SelfFree'
  BY <1>1, <1>2, NoSelfLink DEF OrderInv, Lose
<1> QED
  BY <1>1, <1>2, <1>3, QuietKeeps DEF Lose, engineVars, CallsNobody

(* The loss of a connection leaves the others in order.                    *)
LEMMA BreakOrders ==
  ASSUME OrderInv, NEW n \in Node, NEW m \in Node, Break(n, m)
  PROVE  OrderInv'
<1>1. RouteInv'
  BY BreakKeeps DEF OrderInv
<1>2. LinksThinned
  <2> SUFFICES ASSUME NEW a \in Node, NEW b \in Node PROVE Thinned(link'[a][b], link[a][b])
    BY DEF LinksThinned
  <2>1. link \in [Node -> [Node -> Seq(Packet)]] /\ link[a][b] \in Seq(Packet)
    BY DEF OrderInv, RouteInv, LinksOK
  <2>2. link'[a][b] = link[a][b] \/ link'[a][b] = <<>>
    BY <2>1 DEF Break
  <2> QED
    BY <2>1, <2>2, ThinnedSame
<1>3. SelfFree'
  BY <1>1, <1>2, NoSelfLink DEF OrderInv, Break
<1> QED
  BY <1>1, <1>2, <1>3, QuietKeeps DEF Break, engineVars, CallsNobody

(* A call that makes invokes for some, refused or not.                     *)
LEMMA InvokesOrder ==
  ASSUME OrderInv, RouteInv', SelfFree', RangesSuffice, LinksThinned,
         NEW n \in Node, outbox[n] = <<>>,
         \/ \E targets \in Seq(Node) : MadeInvokes(n, targets)
         \/ RefusedInvoke(n)
  PROVE  OrderInv'
<1>1. made \in Nat
  BY Typed DEF OrderInv
<1>2. ASSUME NEW targets \in Seq(Node), MadeInvokes(n, targets) PROVE OrderInv'
  <2> DEFINE count == Len(targets)
  <2>1. /\ Called(n, Message, count, count)
        /\ \A m \in Node \ {n} : CallsNobody(m)
        /\ NoPings(outbox'[n])
        /\ made' = made + count
    BY <1>2, InvokesCalled DEF OrderInv
  <2>2. count \in Nat /\ Message \in Channel
    BY DEF Channel
  <2> HIDE DEF count
  <2>3. made' >= made + count
    BY <1>1, <2>1, <2>2
  <2> QED
    BY <2>1, <2>2, <2>3, CallKeeps
<1>3. CASE RefusedInvoke(n)
  <2>1. /\ Called(n, Message, 0, 1)
        /\ \A m \in Node \ {n} : CallsNobody(m)
        /\ NoPings(outbox'[n])
        /\ made' = made + 1 /\ Message \in Channel
    BY <1>3, RefusedCalled DEF OrderInv
  <2>2. PICK none \in Nat, one \in Nat : none = 0 /\ one = 1
    OBVIOUS
  <2>3. Called(n, Message, none, one) /\ made' >= made + none /\ made' >= made + one
    BY <1>1, <2>1, <2>2
  <2>4. none \in Nat /\ one \in Nat
    OBVIOUS
  <2> QED
    BY <2>1, <2>3, <2>4, CallKeeps
<1> QED
  BY <1>2, <1>3

(* The builders of invokes count the id they use up.                       *)
LEMMA MakeInvokeOrders ==
  ASSUME OrderInv, RangesSuffice, NEW n \in Node, NEW target \in Node, MakeInvoke(n, target)
  PROVE  OrderInv'
<1>1. RouteInv'
  BY MakeInvokeKeeps DEF OrderInv
<1>2. LinksThinned
  BY LinksStay DEF OrderInv, MakeInvoke
<1>3. SelfFree'
  BY <1>1, <1>2, NoSelfLink DEF OrderInv, MakeInvoke
<1>4. <<target>> \in Seq(Node)
  OBVIOUS
<1>5. \/ \E targets \in Seq(Node) : MadeInvokes(n, targets)
      \/ RefusedInvoke(n)
  BY <1>4 DEF MakeInvoke
<1> QED
  BY <1>1, <1>2, <1>3, <1>5, InvokesOrder DEF MakeInvoke, Ready

(* The orders of a broadcast are sequences.                                *)
LEMMA BroadcastTargets ==
  ASSUME RouteInv, NEW n \in Node, NEW D \in SUBSET Node,
         \E targets \in Orders(D, MaxMade - made) : MadeInvokes(n, targets)
  PROVE  \E targets \in Seq(Node) : MadeInvokes(n, targets)
<1>1. MaxMade - made \in Nat
  BY ExchangeAssumption DEF RouteInv, RestOK
<1> QED
  BY <1>1, OrdersOK

(* drop_device may tell all other devices, each with an id of its own.     *)
LEMMA DropOrders ==
  ASSUME OrderInv, RangesSuffice, NEW n \in Node, NEW d \in Node, Drop(n, d)
  PROVE  OrderInv'
<1>1. RouteInv'
  BY DropKeeps DEF OrderInv
<1>2. LinksThinned
  BY LinksStay DEF OrderInv, Drop
<1>3. \A x \in Node : route'[x][x] = route[x][x] \/ route'[x][x] # x
  BY ExchangeAssumption DEF OrderInv, RouteInv, RoutesOK, Drop
<1>4. SelfFree'
  BY <1>1, <1>2, <1>3, NoSelfLink DEF OrderInv
<1>5. \E targets \in Seq(Node) : MadeInvokes(n, targets)
  <2>1. known[n] \ {d} \in SUBSET Node
    BY DEF OrderInv, RouteInv, RestOK
  <2> QED
    BY <2>1, BroadcastTargets DEF OrderInv, Drop
<1> QED
  BY <1>1, <1>2, <1>4, <1>5, InvokesOrder DEF Drop, Ready

(* The engine that is called has one ping less to answer than before, or   *)
(* makes no more than is counted; each other one at most as many more as   *)
(* are counted.                                                            *)
LEMMA OneCalled ==
  ASSUME OrderInv, RouteInv', SelfFree', RangesSuffice, LinksThinned,
         NEW n \in Node, outbox[n] = <<>>, \A m \in Node \ {n} : CallsNobody(m),
         NEW ch \in Channel, Called(n, ch, 1, 0),
         NEW pings, \A m \in Node : pings[m] = Pings(m)' /\ IsFiniteSet(pings[m]),
         \A m \in Node \ {n} : made' - Cardinality(pings[m]) >= made - Cardinality(Pings(m)),
         made' - Cardinality(pings[n]) >= made - Cardinality(Pings(n)) + 1
  PROVE  OrderInv'
<1>1. \A m, o \in Node : Thinned(link'[m][o], link[m][o])
  BY DEF LinksThinned
<1>2. NodeInv(n)'
  <2>1. PICK none \in Nat, one \in Nat : none = 0 /\ one = 1
    OBVIOUS
  <2>2. PICK these : these = pings[n]
    OBVIOUS
  <2>3. /\ made \in Nat /\ made' \in Nat
        /\ Cardinality(Pings(n)) \in Nat /\ Cardinality(these) \in Nat
    BY <2>2, Typed, TypedNext, FS_CardinalityType DEF OrderInv, NodeInv
  <2>4. /\ Called(n, ch, one, none)
        /\ made' - Cardinality(these) >= made - Cardinality(Pings(n)) + one
        /\ made' - Cardinality(these) >= made - Cardinality(Pings(n)) + none
    BY <2>1, <2>2, <2>3
  <2>5. these = Pings(n)' /\ IsFiniteSet(these)
    BY <2>2
  <2>6. none \in Nat /\ one \in Nat
    OBVIOUS
  <2> QED
    BY <1>1, <2>4, <2>5, <2>6, NodeCalled
<1>3. ASSUME NEW m \in Node \ {n} PROVE NodeInv(m)'
  <2>1. PICK these : these = pings[m]
    OBVIOUS
  <2>2. these = Pings(m)' /\ IsFiniteSet(these)
    BY <2>1
  <2>3. made' - Cardinality(these) >= made - Cardinality(Pings(m)) /\ CallsNobody(m)
    BY <2>1
  <2>4. Thinned(outbox'[m], outbox[m])
    BY <2>3, Typed, ThinnedSame DEF OrderInv, Sends, CallsNobody
  <2> QED
    BY <1>1, <2>2, <2>3, <2>4, NodeQuiet DEF CallsNobody
<1> QED
  BY <1>2, <1>3 DEF OrderInv

(* A set that may have got one element more.                               *)
LEMMA OneMore ==
  ASSUME NEW S, IsFiniteSet(S), NEW x, NEW T, T \subseteq S \cup {x}
  PROVE  /\ IsFiniteSet(T) /\ Cardinality(T) \in Nat /\ Cardinality(S) \in Nat
         /\ Cardinality(T) <= Cardinality(S) + 1
<1> DEFINE more == S \cup {x}
           size == Cardinality(S)
<1>1. IsFiniteSet(more) /\ Cardinality(more) = IF x \in S THEN size ELSE size + 1
  BY FS_AddElement
<1>2. size \in Nat
  BY FS_CardinalityType
<1> HIDE DEF more, size
<1>3. Cardinality(more) <= size + 1 /\ Cardinality(more) \in Nat
  BY <1>1, <1>2
<1>4. T \subseteq more
  BY DEF more
<1>5. IsFiniteSet(T) /\ Cardinality(T) <= Cardinality(more)
  BY <1>1, <1>4, FS_Subset
<1>6. Cardinality(T) \in Nat
  BY <1>5, FS_CardinalityType
<1> QED
  BY <1>2, <1>3, <1>5, <1>6 DEF size

(* A set that lost one element.                                            *)
LEMMA OneLess ==
  ASSUME NEW S, IsFiniteSet(S), NEW x \in S, NEW T, T \subseteq S, x \notin T
  PROVE  /\ IsFiniteSet(T) /\ Cardinality(T) \in Nat /\ Cardinality(S) \in Nat
         /\ Cardinality(T) <= Cardinality(S) - 1
<1> DEFINE less == S \ {x}
           size == Cardinality(S)
<1>1. IsFiniteSet(less) /\ Cardinality(less) = IF x \in S THEN size - 1 ELSE size
  BY FS_RemoveElement
<1>2. size \in Nat /\ T \subseteq less
  BY FS_CardinalityType
<1> HIDE DEF less, size
<1>3. IsFiniteSet(T) /\ Cardinality(T) <= Cardinality(less)
  BY <1>1, <1>2, FS_Subset
<1>4. Cardinality(T) \in Nat
  BY <1>3, FS_CardinalityType
<1>5. Cardinality(less) = size - 1
  BY <1>1
<1> QED
  BY <1>2, <1>3, <1>4, <1>5 DEF size

(* Making one packet makes at most one ping.                               *)
LEMMA PingAdded ==
  ASSUME LinksThinned, NEW n \in Node, \A m \in Node \ {n} : CallsNobody(m),
         NEW ch, NEW number,
         \A j \in 1 .. Len(outbox'[n]) : /\ outbox'[n][j].packet.channel = ch
                                         /\ outbox'[n][j].packet.sequence = number,
         NEW m \in Node
  PROVE  /\ Pings(m)' \subseteq Pings(m) \cup {<<n, ch, number>>}
         /\ m = n => Pings(m)' \subseteq Pings(m)
<1> SUFFICES ASSUME NEW t \in Token, t \in Pings(m)'
             PROVE  t \in Pings(m) \/ (m # n /\ t = <<n, ch, number>>)
  BY DEF Pings, Token, SequenceNumber, Channel
<1>1. /\ t[1] \in Node /\ t[1] # m
      /\ \/ \E j \in 1 .. Len(link'[t[1]][m]) : IsPing(link'[t[1]][m][j], t)
         \/ \E j \in 1 .. Len(outbox'[t[1]]) : IsPing(outbox'[t[1]][j].packet, t)
  BY DEF Pings, Token, IsPing
<1>2. CASE \E j \in 1 .. Len(link'[t[1]][m]) : IsPing(link'[t[1]][m][j], t)
  <2>1. PICK j \in 1 .. Len(link'[t[1]][m]) : IsPing(link'[t[1]][m][j], t)
    BY <1>2
  <2>2. Thinned(link'[t[1]][m], link[t[1]][m])
    BY <1>1 DEF LinksThinned
  <2>3. PICK l \in 1 .. Len(link[t[1]][m]) : link'[t[1]][m][j] = link[t[1]][m][l]
    BY <2>2, ThinnedElement
  <2> QED
    BY <1>1, <2>1, <2>3 DEF Pings
<1>3. CASE \E j \in 1 .. Len(outbox'[t[1]]) : IsPing(outbox'[t[1]][j].packet, t)
  <2>1. PICK j \in 1 .. Len(outbox'[t[1]]) : IsPing(outbox'[t[1]][j].packet, t)
    BY <1>3
  <2>2. CASE t[1] = n
    <3>1. t = <<n, t[2], t[3]>> /\ t[2] = ch /\ t[3] = number
      BY <2>1, <2>2 DEF Token, IsPing
    <3> QED
      BY <1>1, <2>2, <3>1
  <2>3. CASE t[1] # n
    <3>1. outbox'[t[1]] = outbox[t[1]]
      BY <1>1, <2>3 DEF CallsNobody
    <3> QED
      BY <1>1, <2>1, <3>1 DEF Pings
  <2> QED
    BY <2>2, <2>3
<1> QED
  BY <1>1, <1>2, <1>3

(* make_packet counts the number it uses up, for the ping that it may be.  *)
LEMMA MakePacketOrders ==
  ASSUME OrderInv, RangesSuffice, NEW n \in Node, NEW target \in Node, NEW ch \in Channel,
         NEW rel \in Reliability, NEW type \in PacketType, MakePacket(n, target, ch, rel, type)
  PROVE  OrderInv'
<1>1. RouteInv'
  BY MakePacketKeeps DEF OrderInv
<1>2. LinksThinned
  BY LinksStay DEF OrderInv, MakePacket
<1>3. SelfFree'
  BY <1>1, <1>2, NoSelfLink DEF OrderInv, MakePacket
<1>4. /\ Called(n, ch, 1, 0)
      /\ \A m \in Node \ {n} : CallsNobody(m)
      /\ \A j \in 1 .. Len(outbox'[n]) :
           /\ outbox'[n][j].packet.channel = ch
           /\ outbox'[n][j].packet.sequence = sequence[n][ch]
  BY <1>1, PacketCalled DEF OrderInv, MakePacket
<1>5. PICK pings : \A m \in Node : pings[m] = Pings(m)'
  <2>1. \A m \in Node : [x \in Node |-> Pings(x)'][m] = Pings(m)'
    OBVIOUS
  <2> QED
    BY <2>1
<1>6. made' = made + 1 /\ made \in Nat
  BY Typed DEF OrderInv, MakePacket
<1>7. ASSUME NEW m \in Node
      PROVE  /\ IsFiniteSet(pings[m])
             /\ made' - Cardinality(pings[m]) >= made - Cardinality(Pings(m))
             /\ m = n => made' - Cardinality(pings[m]) >= made - Cardinality(Pings(m)) + 1
  <2>1. /\ pings[m] \subseteq Pings(m) \cup {<<n, ch, sequence[n][ch]>>}
        /\ m = n => pings[m] \subseteq Pings(m)
    BY <1>2, <1>4, <1>5, PingAdded
  <2>2. IsFiniteSet(Pings(m))
    BY DEF OrderInv, NodeInv
  <2>3. /\ IsFiniteSet(pings[m]) /\ Cardinality(pings[m]) \in Nat /\ Cardinality(Pings(m)) \in Nat
        /\ Cardinality(pings[m]) <= Cardinality(Pings(m)) + 1
    BY <2>1, <2>2, OneMore
  <2>4. m = n => Cardinality(pings[m]) <= Cardinality(Pings(m))
    BY <2>1, <2>2, FS_Subset
  <2> QED
    BY <1>6, <2>3, <2>4
<1>8. outbox[n] = <<>>
  BY DEF MakePacket, Ready
<1> QED
  BY <1>1, <1>2, <1>3, <1>4, <1>5, <1>7, <1>8, OneCalled

(* Nothing is sent to oneself; what is sent leaves the outbox in its order.*)
LEMMA CarryOutOrders ==
  ASSUME OrderInv, NEW n \in Node, CarryOut(n)
  PROVE  OrderInv'
<1> DEFINE send == Head(outbox[n])
           conn == route[n][send.to]
           longer == Append(link[n][conn], send.packet)
<1>1. RouteInv'
  BY CarryOutKeeps DEF OrderInv
<1>2. /\ outbox[n] \in Seq(Send) /\ outbox[n] # <<>>
      /\ outbox \in [Node -> Seq(Send)] /\ link \in [Node -> [Node -> Seq(Packet)]]
  BY DEF OrderInv, RouteInv, CountersOK, LinksOK, CarryOut
<1>3. send \in Send /\ send = outbox[n][1] /\ 1 \in 1 .. Len(outbox[n])
  BY <1>2
<1>4. send.to \in Node /\ send.packet \in Packet
  BY <1>3 DEF Send
<1>5. /\ outbox' = [outbox EXCEPT ![n] = Tail(outbox[n])]
      /\ UNCHANGED <<sequence, invoke, route, made>>
      /\ \/ conn = NoRoute /\ link' = link
         \/ conn # NoRoute /\ link' = [link EXCEPT ![n][conn] = longer]
  BY DEF CarryOut
<1> HIDE DEF send
<1>6. conn # NoRoute => conn \in Node /\ conn # n
  BY <1>4 DEF OrderInv, RouteInv, RoutesOK, RoutesTrue, SelfFree
<1> HIDE DEF conn, longer
<1>7. /\ \A m \in Node \ {n} : link'[m] = link[m] /\ outbox'[m] = outbox[m]
      /\ outbox'[n] = Tail(outbox[n]) /\ link'[n][n] = link[n][n]
      /\ \A m \in Node : link'[n][m] = link[n][m] \/ (m = conn /\ link'[n][m] = longer)
  BY <1>2, <1>5, <1>6
<1>8. SelfFree'
  BY <1>5, <1>7 DEF OrderInv, SelfFree
<1>9. ASSUME NEW j \in 1 .. Len(outbox'[n])
      PROVE  \E k \in 1 .. Len(outbox[n]) : outbox'[n][j] = outbox[n][k]
  BY <1>2, <1>7, ThinnedTail, ThinnedElement
<1>10. ASSUME NEW m \in Node PROVE Pings(m)' \subseteq Pings(m)
  <2> SUFFICES ASSUME NEW t \in Token, t \in Pings(m)' PROVE t \in Pings(m)
    BY DEF Pings, Token, SequenceNumber, Channel
  <2>1. /\ t[1] \in Node /\ t[1] # m
        /\ \/ \E j \in 1 .. Len(link'[t[1]][m]) : IsPing(link'[t[1]][m][j], t)
           \/ \E j \in 1 .. Len(outbox'[t[1]]) : IsPing(outbox'[t[1]][j].packet, t)
    BY DEF Pings, Token, IsPing
  <2>2. CASE t[1] # n
    BY <1>7, <2>1, <2>2 DEF Pings
  <2>3. CASE t[1] = n /\ \E j \in 1 .. Len(outbox'[n]) : IsPing(outbox'[n][j].packet, t)
    BY <1>9, <2>1, <2>3 DEF Pings
  <2>4. CASE t[1] = n /\ \E j \in 1 .. Len(link'[n][m]) : IsPing(link'[n][m][j], t)
    <3>1. PICK j \in 1 .. Len(link'[n][m]) : IsPing(link'[n][m][j], t)
      BY <2>4
    <3>2. CASE link'[n][m] = link[n][m]
      BY <2>1, <2>4, <3>1, <3>2 DEF Pings
    <3>3. CASE m = conn /\ link'[n][m] = longer
      <4>1. link[n][m] \in Seq(Packet) /\ j \in 1 .. Len(Append(link[n][m], send.packet))
        BY <1>2, <3>1, <3>3 DEF longer
      <4>2. \/ j \in 1 .. Len(link[n][m]) /\ link'[n][m][j] = link[n][m][j]
            \/ link'[n][m][j] = outbox[n][1].packet
        BY <1>3, <1>4, <3>3, <4>1, AppendProperties DEF longer
      <4> QED
        BY <1>3, <2>1, <2>4, <3>1, <4>2 DEF Pings
    <3> QED
      BY <1>7, <3>2, <3>3
  <2> QED
    BY <2>1, <2>2, <2>3, <2>4
<1>11. ASSUME NEW m \in Node PROVE NodeInv(m)'
  <2>1. PICK pings : pings = Pings(m)'
    OBVIOUS
  <2>2. pings \subseteq Pings(m)
    BY <1>10, <2>1
  <2>3. /\ IsFiniteSet(pings) /\ made' = made /\ made \in Nat
        /\ Cardinality(pings) \in Nat /\ Cardinality(Pings(m)) \in Nat
        /\ Cardinality(pings) <= Cardinality(Pings(m))
    BY <1>1, <1>5, <2>2, Fewer
  <2>4. made' - Cardinality(pings) >= made - Cardinality(Pings(m))
    BY <2>3
  <2>5. \A a \in Node, b \in Node : Thinned(link[a][b], link[a][b])
    BY <1>2, ThinnedSame
  <2>6. \A a \in Node : Thinned(outbox[a], outbox[a])
    BY <1>2, ThinnedSame
  <2>7. CASE m # n
    <3>1. /\ Thinned(outbox'[m], outbox[m])
          /\ \A b \in Node : Thinned(link'[m][b], link[m][b])
      BY <1>7, <2>5, <2>6, <2>7
    <3> QED
      BY <1>1, <1>5, <2>1, <2>3, <2>4, <3>1, NodeQuiet
  <2>8. CASE m = n /\ conn = NoRoute
    <3>1. /\ Thinned(outbox'[m], outbox[m])
          /\ \A b \in Node : Thinned(link'[m][b], link[m][b])
      BY <1>2, <1>5, <1>7, <2>5, <2>8, ThinnedTail
    <3> QED
      BY <1>1, <1>5, <2>1, <2>3, <2>4, <3>1, NodeQuiet
  <2>9. CASE m = n /\ conn # NoRoute
    <3> DEFINE limit == made - Cardinality(Pings(n))
               limit2 == made - Cardinality(pings)
    <3>1. limit \in Int /\ limit2 \in Int /\ limit <= limit2 /\ Cardinality(pings) <= made
      <4>1. Cardinality(Pings(m)) <= made
        BY DEF OrderInv, NodeInv
      <4> QED
        BY <2>3, <2>9, <4>1
    <3>2. InFlight(sequence[n], invoke[n], limit, link[n], outbox[n])
      BY DEF OrderInv, NodeInv
    <3> HIDE DEF limit, limit2
    <3>3. /\ sequence[n] \in Seqs /\ invoke[n] \in Ids /\ link[n] \in Links /\ outbox[n] \in Sends
      BY Typed DEF OrderInv
    <3>4. InFlight(sequence[n], invoke[n], limit2, link[n], outbox[n])
      BY <2>5, <2>6, <3>1, <3>2, <3>3, ThinnedInOrder
    <3>5. /\ conn \in Node
          /\ link'[n] = [link[n] EXCEPT
                           ![conn] = Append(link[n][conn], Head(outbox[n]).packet)]
      BY <1>2, <1>5, <1>6, <2>9 DEF longer, send
    <3>6. InFlight(sequence[n], invoke[n], limit2, link'[n], Tail(outbox[n]))
      BY <1>2, <3>1, <3>3, <3>4, <3>5, SentInOrder
    <3>7. InFlight(sequence'[n], invoke'[n], made' - Cardinality(pings), link'[n], outbox'[n])
      BY <1>5, <1>7, <3>6 DEF limit2
    <3> QED
      BY <1>5, <2>1, <2>3, <2>9, <3>1, <3>7, NodeNext
  <2> QED
    BY <2>7, <2>8, <2>9
<1> QED
  BY <1>1, <1>8, <1>11 DEF OrderInv

(* Two pings of an engine that are under way differ.                       *)
LEMMA PingsDiffer ==
  ASSUME OrderInv, NEW n \in Node, NEW m \in Node, NEW i \in 1 .. Len(link[n][m]),
         NEW q \in Packet, q.channel = link[n][m][i].channel,
         \/ \E l \in (1 .. Len(link[n][m])) \ {i} : q = link[n][m][l]
         \/ \E k \in 1 .. Len(outbox[n]) : q = outbox[n][k].packet
  PROVE  q.sequence # link[n][m][i].sequence
<1> DEFINE p == link[n][m][i]
           seqs == sequence[n]
           id == invoke[n]
<1>1. AllOrdered(seqs, id, link[n], outbox[n])
  BY DEF OrderInv, NodeInv, InFlight
<1>2. p \in Packet /\ seqs \in Seqs /\ id \in Ids
  BY Typed DEF OrderInv, Links
<1> HIDE DEF seqs, id
<1>3. Older(seqs, id, p, q) \/ Older(seqs, id, q, p)
  <2>1. CASE \E l \in (1 .. Len(link[n][m])) \ {i} : q = link[n][m][l]
    <3>1. PICK l \in (1 .. Len(link[n][m])) \ {i} : q = link[n][m][l]
      BY <2>1
    <3>2. i < l \/ l < i
      OBVIOUS
    <3> QED
      BY <1>1, <3>1, <3>2 DEF AllOrdered
  <2>2. CASE \E k \in 1 .. Len(outbox[n]) : q = outbox[n][k].packet
    BY <1>1, <2>2 DEF AllOrdered
  <2> QED
    BY <2>1, <2>2
<1>4. SeqAge(seqs, p) \in Nat /\ SeqAge(seqs, q) \in Nat
  BY <1>2, AgesTyped
<1> HIDE DEF p
<1>5. p.channel = q.channel
  BY DEF p
<1>6. SeqAge(seqs, p) # SeqAge(seqs, q)
  BY <1>3, <1>4, <1>5 DEF Older
<1> QED
  BY <1>5, <1>6 DEF SeqAge, p

(* An answered ping is no longer there to be answered.                     *)
LEMMA PingTaken ==
  ASSUME OrderInv, NEW n \in Node, NEW m \in Node, n # m, NEW i \in 1 .. Len(link[n][m]),
         link[n][m][i].type = "Ping",
         link' = [link EXCEPT ![n][m] = Without(link[n][m], i)], outbox'[n] = outbox[n]
  PROVE  \E t \in Pings(m) : t \notin Pings(m)'
<1> DEFINE p == link[n][m][i]
           t == <<n, p.channel, p.sequence>>
           rest == Without(link[n][m], i)
<1>1. /\ link[n][m] \in Seq(Packet) /\ link \in [Node -> [Node -> Seq(Packet)]]
      /\ outbox[n] \in Sends
  BY Typed DEF OrderInv, RouteInv, LinksOK
<1>2. p \in Packet
  BY <1>1
<1>3. t \in Token /\ t[1] = n /\ t[2] = p.channel /\ t[3] = p.sequence
  BY <1>2 DEF Token, Packet
<1>4. t \in Pings(m)
  BY <1>3 DEF Pings, IsPing
<1>5. link'[n][m] = rest
  BY <1>1
<1>6. rest \in Seq(Packet) /\ \A j \in 1 .. Len(rest) :
        \E l \in (1 .. Len(link[n][m])) \ {i} : rest[j] = link[n][m][l]
  BY <1>1, ThinnedWithout
<1> HIDE DEF rest, t
<1>7. ASSUME NEW j \in 1 .. Len(rest) PROVE ~IsPing(rest[j], t)
  <2>1. rest[j] \in Packet /\ \E l \in (1 .. Len(link[n][m])) \ {i} : rest[j] = link[n][m][l]
    BY <1>6
  <2>2. rest[j].channel = p.channel => rest[j].sequence # p.sequence
    BY <2>1, PingsDiffer
  <2> QED
    BY <1>3, <2>2 DEF IsPing
<1>8. ASSUME NEW k \in 1 .. Len(outbox[n]) PROVE ~IsPing(outbox[n][k].packet, t)
  <2>1. outbox[n][k].packet \in Packet
    BY <1>1, SendsPackets
  <2>2. outbox[n][k].packet.channel = p.channel => outbox[n][k].packet.sequence # p.sequence
    BY <2>1, PingsDiffer
  <2> QED
    BY <1>3, <2>2 DEF IsPing
<1>9. t \notin Pings(m)'
  BY <1>3, <1>5, <1>7, <1>8 DEF Pings, IsPing
<1> QED
  BY <1>4, <1>9

(* An echo takes the room of the ping that it answers.                     *)
LEMMA EchoOrders ==
  ASSUME OrderInv, RouteInv', SelfFree', RangesSuffice,
         NEW n \in Node, NEW m \in Node, n # m, NEW i \in 1 .. Len(link[n][m]),
         link[n][m][i].type = "Ping", outbox[m] = <<>>,
         link' = [link EXCEPT ![n][m] = Without(link[n][m], i)], made' = made,
         NEW D, NEW target \in D, NEW ch \in Channel, NEW rel,
         MadePacket(m, D, target, ch, rel, "Echo")
  PROVE  OrderInv'
<1>1. LinksThinned
  BY LinkTaken DEF OrderInv
<1>2. /\ Called(m, ch, 1, 0)
      /\ \A x \in Node \ {m} : CallsNobody(x)
      /\ NoPings(outbox'[m])
  BY PacketCalled DEF OrderInv
<1>3. PICK pings : \A x \in Node : pings[x] = Pings(x)'
  <2>1. \A x \in Node : [y \in Node |-> Pings(y)'][x] = Pings(x)'
    OBVIOUS
  <2> QED
    BY <2>1
<1>4. ASSUME NEW x \in Node
      PROVE  /\ pings[x] \subseteq Pings(x) /\ IsFiniteSet(pings[x])
             /\ made' - Cardinality(pings[x]) >= made - Cardinality(Pings(x))
  <2>1. pings[x] \subseteq Pings(x)
    BY <1>1, <1>2, <1>3, PingsKept DEF CallsNobody
  <2>2. /\ IsFiniteSet(pings[x]) /\ Cardinality(pings[x]) \in Nat /\ made \in Nat
        /\ Cardinality(Pings(x)) \in Nat /\ Cardinality(pings[x]) <= Cardinality(Pings(x))
    BY <2>1, Fewer
  <2> QED
    BY <2>1, <2>2
<1>5. made' - Cardinality(pings[m]) >= made - Cardinality(Pings(m)) + 1
  <2>1. outbox'[n] = outbox[n]
    BY <1>2 DEF CallsNobody
  <2>2. PICK t \in Pings(m) : t \notin pings[m]
    BY <1>3, <2>1, PingTaken
  <2>3. IsFiniteSet(Pings(m)) /\ pings[m] \subseteq Pings(m)
    BY <1>4 DEF OrderInv, NodeInv
  <2>4. /\ Cardinality(pings[m]) \in Nat /\ Cardinality(Pings(m)) \in Nat
        /\ Cardinality(pings[m]) <= Cardinality(Pings(m)) - 1
    BY <2>2, <2>3, OneLess
  <2>5. made \in Nat
    BY Typed DEF OrderInv
  <2> QED
    BY <2>4, <2>5
<1> QED
  BY <1>1, <1>2, <1>3, <1>4, <1>5, OneCalled

(* What is read leaves the rest in order; what it makes comes last.        *)
LEMMA ReceiveOrders ==
  ASSUME OrderInv, RangesSuffice, NEW n \in Node, NEW m \in Node,
         NEW i \in 1 .. Len(link[n][m]), Receive(n, m, i)
  PROVE  OrderInv'
<1> DEFINE p == link[n][m][i]
<1>1. RouteInv'
  BY ReceiveKeeps DEF OrderInv
<1>2. /\ Handle(m, p) /\ outbox[m] = <<>>
      /\ route' = [route EXCEPT ![m][p.from] = n]
      /\ link' = [link EXCEPT ![n][m] = Without(link[n][m], i)]
  BY DEF Receive, Ready
<1>3. LinksThinned
  BY <1>2, LinkTaken DEF OrderInv
<1>4. n # m
  BY DEF OrderInv, SelfFree
<1>5. p \in Packet
  BY DEF OrderInv, RouteInv, LinksOK
<1>6. p.from \in Node /\ p.channel \in Channel
  BY <1>5 DEF Packet
<1> HIDE DEF p
<1>7. \A x \in Node : route'[x][x] = route[x][x] \/ route'[x][x] # x
  BY <1>2, <1>4, <1>6 DEF OrderInv, RouteInv, RoutesOK
<1>8. SelfFree'
  BY <1>1, <1>3, <1>7, NoSelfLink DEF OrderInv
<1>9. CASE p.type = "Ping" /\ UNCHANGED made
           /\ MadePacket(m, Filed(m, p.from), p.from, p.channel,
                         DefaultReliability(p.channel), "Echo")
  <2>1. p.from \in Filed(m, p.from)
    BY DEF Filed
  <2> QED
    BY <1>1, <1>2, <1>4, <1>6, <1>8, <1>9, <2>1, EchoOrders DEF p
<1>10. CASE UNCHANGED <<sequence, invoke, outbox, made>>
  BY <1>1, <1>3, <1>8, <1>10, QuietKeeps DEF CallsNobody
<1>11. CASE \E targets \in Orders(Filed(m, p.from), MaxMade - made) : MadeInvokes(m, targets)
  <2>1. Filed(m, p.from) \in SUBSET Node
    BY <1>6 DEF Filed, OrderInv, RouteInv, RestOK
  <2>2. \E targets \in Seq(Node) : MadeInvokes(m, targets)
    BY <1>11, <2>1, BroadcastTargets DEF OrderInv
  <2> QED
    BY <1>1, <1>2, <1>3, <1>8, <2>2, InvokesOrder
<1>12. CASE RefusedInvoke(m)
  BY <1>1, <1>2, <1>3, <1>8, <1>12, InvokesOrder
<1> QED
  BY <1>2, <1>9, <1>10, <1>11, <1>12 DEF Handle

(* New engines and applications satisfy the order.                         *)
LEMMA OrderInvInit == ExchangeInit => OrderInv
<1> SUFFICES ASSUME ExchangeInit PROVE OrderInv
  OBVIOUS
<1>1. RouteInv
  BY RouteInvInit
<1>2. SelfFree
  BY ExchangeAssumption DEF ExchangeInit, SelfFree
<1>3. ASSUME NEW n \in Node PROVE NodeInv(n)
  <2>1. /\ outbox = [x \in Node |-> <<>>] /\ link = [x \in Node |-> [m \in Node |-> <<>>]]
        /\ Len(<<>>) = 0 /\ 1 .. 0 = {}
    BY DEF ExchangeInit
  <2>2. Pings(n) = {}
    BY <2>1 DEF Pings, Token
  <2>3. IsFiniteSet(Pings(n)) /\ Cardinality(Pings(n)) = 0
    BY <2>2, FS_EmptySet
  <2>4. Cardinality(Pings(n)) <= made
    BY <2>3 DEF ExchangeInit
  <2>5. InFlight(sequence[n], invoke[n], made - Cardinality(Pings(n)), link[n], outbox[n])
    <3>1. link[n] = [m \in Node |-> <<>>] /\ outbox[n] = <<>>
      BY <2>1
    <3>2. \A m \in Node : 1 .. Len(link[n][m]) = {}
      BY <2>1, <3>1
    <3>3. 1 .. Len(outbox[n]) = {}
      BY <2>1, <3>1
    <3> QED
      BY <3>2, <3>3 DEF InFlight, AllRecent, AllOrdered, AllApart
  <2> QED
    BY <2>3, <2>4, <2>5 DEF NodeInv
<1> QED
  BY <1>1, <1>2, <1>3 DEF OrderInv

(* Every step keeps the order while the numbers suffice.                   *)
LEMMA OrderInvStep ==
  ASSUME RangesSuffice, OrderInv, [ExchangeNext]_exchangeVars
  PROVE  OrderInv'
<1>1. CASE UNCHANGED exchangeVars
  <2>1. RouteInv'
    BY RouteInvStep DEF OrderInv
  <2>2. LinksThinned /\ SelfFree'
    BY <1>1, LinksStay DEF exchangeVars, OrderInv, SelfFree
  <2> QED
    BY <1>1, <2>1, <2>2, QuietKeeps DEF exchangeVars, engineVars, CallsNobody
<1>2. ASSUME NEW n \in Node, NEW core \in Core, InitLocal(n, core) PROVE OrderInv'
  BY <1>2, InitLocalOrders
<1>3. ASSUME NEW n \in Node, NEW m \in Node, n # m, Register(n, m) PROVE OrderInv'
  BY <1>3, RegisterOrders
<1>4. ASSUME NEW n \in Node, NEW m \in Node, NEW ch \in Channel, NEW rel \in Reliability,
             NEW type \in PacketType \ {"Echo"}, MakePacket(n, m, ch, rel, type)
      PROVE  OrderInv'
  BY <1>4, MakePacketOrders
<1>5. ASSUME NEW n \in Node, NEW m \in Node, MakeInvoke(n, m) PROVE OrderInv'
  BY <1>5, MakeInvokeOrders
<1>6. ASSUME NEW n \in Node, NEW m \in Node, Drop(n, m) PROVE OrderInv'
  BY <1>6, DropOrders
<1>7. ASSUME NEW n \in Node, CarryOut(n) PROVE OrderInv'
  BY <1>7, CarryOutOrders
<1>8. ASSUME NEW n \in Node, NEW m \in Node, NEW i \in 1 .. Len(link[n][m]), Receive(n, m, i)
      PROVE  OrderInv'
  BY <1>8, ReceiveOrders
<1>9. ASSUME NEW n \in Node, NEW m \in Node, NEW i \in 1 .. Len(link[n][m]), Lose(n, m, i)
      PROVE  OrderInv'
  BY <1>9, LoseOrders
<1>10. ASSUME NEW n \in Node, NEW m \in Node, Break(n, m) PROVE OrderInv'
  BY <1>10, BreakOrders
<1> QED
  BY <1>1, <1>2, <1>3, <1>4, <1>5, <1>6, <1>7, <1>8, <1>9, <1>10 DEF ExchangeNext

(* The order tells a receiver what was sent first, and invokes apart.      *)
LEMMA OrderImplies ==
  ASSUME RangesSuffice, OrderInv
  PROVE  NumbersAscend /\ InvokesApart
<1>1. ASSUME NEW n \in Node
      PROVE  \E limit \in Int : /\ limit <= SequenceLimit
                                /\ InFlight(sequence[n], invoke[n], limit, link[n], outbox[n])
  <2> DEFINE limit == made - Cardinality(Pings(n))
  <2>1. /\ made \in Nat /\ made <= MaxMade /\ MaxMade \in Nat
        /\ Cardinality(Pings(n)) \in Nat
    BY Typed, FS_CardinalityType DEF OrderInv, NodeInv
  <2>2. limit \in Int /\ limit <= SequenceLimit
    BY <2>1, ExchangeAssumption DEF RangesSuffice
  <2>3. InFlight(sequence[n], invoke[n], limit, link[n], outbox[n])
    BY DEF OrderInv, NodeInv
  <2> QED
    BY <2>2, <2>3
<1>2. ASSUME NEW n \in Node, NEW m \in Node,
             NEW i \in 1 .. Len(link[n][m]), NEW j \in 1 .. Len(link[n][m]), i < j
      PROVE  /\ link[n][m][i].channel = link[n][m][j].channel
                  => Before(link[n][m][i].sequence, link[n][m][j].sequence)
             /\ link[n][m][i].id > 0 /\ link[n][m][j].id > 0
                  => link[n][m][i].id # link[n][m][j].id
  <2>1. PICK limit \in Int : /\ limit <= SequenceLimit
                             /\ InFlight(sequence[n], invoke[n], limit, link[n], outbox[n])
    BY <1>1
  <2>2. /\ Older(sequence[n], invoke[n], link[n][m][i], link[n][m][j])
        /\ Recent(sequence[n], invoke[n], limit, link[n][m][i])
    BY <1>2, <2>1 DEF InFlight, AllRecent, AllOrdered
  <2>3. /\ sequence[n] \in Seqs /\ invoke[n] \in Ids
        /\ link[n][m][i] \in Packet /\ link[n][m][j] \in Packet
    BY Typed DEF OrderInv, Links
  <2> QED
    BY <2>1, <2>2, <2>3, OrderTells
<1>3. NumbersAscend
  BY <1>2 DEF NumbersAscend
<1>4. ASSUME NEW n \in Node, NEW m \in Node, NEW o \in Node,
             NEW i \in 1 .. Len(link[n][m]), NEW j \in 1 .. Len(link[n][o]),
             link[n][m][i].id > 0, link[n][m][i].id = link[n][o][j].id
      PROVE  m = o /\ i = j
  <2>1. CASE m = o
    BY <1>2, <1>4, <2>1
  <2>2. CASE m # o
    <3>1. Apart(sequence[n], invoke[n], link[n][m][i], link[n][o][j])
      BY <1>1, <2>2 DEF InFlight, AllApart
    <3> QED
      BY <1>4, <3>1 DEF Apart, IdAge
  <2> QED
    BY <2>1, <2>2
<1>5. InvokesApart
  BY <1>4 DEF InvokesApart
<1> QED
  BY <1>3, <1>5

(* For any nodes and counter widths, while an engine uses up no more than  *)
(* half the sequence numbers: a receiver can tell which of two packets of  *)
(* a channel was sent first, whatever was lost or read in between.         *)
THEOREM NumbersInOrder == ASSUME RangesSuffice PROVE ExchangeSpec => []NumbersAscend
<1>1. OrderInv /\ [ExchangeNext]_exchangeVars => OrderInv'
  BY OrderInvStep
<1>2. OrderInv => NumbersAscend
  BY OrderImplies
<1> QED
  BY <1>1, <1>2, OrderInvInit, PTL DEF ExchangeSpec

(* For any nodes and counter widths, while no more ids are used up than    *)
(* there are: two invokes of an engine that are under way, to whomever,    *)
(* have different ids.                                                     *)
THEOREM InvokesDiffer == ASSUME RangesSuffice PROVE ExchangeSpec => []InvokesApart
<1>1. OrderInv /\ [ExchangeNext]_exchangeVars => OrderInv'
  BY OrderInvStep
<1>2. OrderInv => InvokesApart
  BY OrderImplies
<1> QED
  BY <1>1, <1>2, OrderInvInit, PTL DEF ExchangeSpec
=============================================================================
