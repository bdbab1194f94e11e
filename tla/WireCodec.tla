------------------------------ MODULE WireCodec ------------------------------
(***************************************************************************)
(* What travels between two engines: serialize_packet and                  *)
(* deserialize_packet, the handshake, Object::encode and decode with every *)
(* message class, and the first part of process_incoming, over a           *)
(* connection that cuts and joins.  A buffer is a sequence of cells        *)
(* <<kind, value>>, one for each write_X of the code; a read_X takes one.  *)
(* A cell that is read as another kind than it was written is "garbled".   *)
(* Text, floats and bytes are abstract; their widths are kept.             *)
(***************************************************************************)
EXTENDS Integers, SequencesExt

CONSTANTS
  Header,         \* the packet headers that are sent
  Object,         \* the objects that are sent
  Version,        \* the versions of handshakes: <<major, minor, build>>
  Base,           \* 2^8 in the code: a version byte
  MaxUtf,         \* i16::MAX in the code: the longest string
  MaxItems,       \* i16::MAX in the code: the longest BMArray
  MaxFrame        \* 100 MB in the code: the largest frame taken

VARIABLES
  buffer,         \* the cells of the transfer the receiver reads next
  sent,           \* what the sender meant, and what happened to it on the way
  outcome         \* what process_incoming made of it

wireVars == <<buffer, sent, outcome>>

ShortLimit == 32768

(* BMVersion: a byte, a byte and two bytes.                                *)
BMVersion == (0 .. Base - 1) \X (0 .. Base - 1) \X (0 .. Base * Base - 1)

ASSUME WireAssumption ==
  /\ Base \in Nat \ {0} /\ MaxUtf \in Nat /\ MaxItems \in Nat /\ MaxFrame \in Nat
  /\ Version \subseteq BMVersion

-----------------------------------------------------------------------------
(* Cells: io.rs.                                                           *)

Cell(kind, v) == <<kind, v>>
Refused == Cell("refused", 0)

(* write_utf                                                               *)
Utf(s) == IF Len(s) > MaxUtf THEN Refused ELSE Cell("utf", s)

FixedWidth == [bool |-> 1, short |-> 2, int |-> 4, uint |-> 4, float |-> 4, double |-> 8]

CellWidth(c) == CASE c[1] \in DOMAIN FixedWidth -> FixedWidth[c[1]]
                  [] c[1] = "utf" -> 2 + Len(c[2])
                  [] c[1] \in {"bytes", "part", "refused"} -> c[2]

Width(cells) == FoldLeft(LAMBDA w, c : w + CellWidth(c), 0, cells)

(* The first n bytes.                                                      *)
FirstBytes(cells, n) ==
  LET whole == Max({i \in 0 .. Len(cells) : Width(SubSeq(cells, 1, i)) <= n})
      kept  == SubSeq(cells, 1, whole)
  IN  IF whole = Len(cells) \/ Width(kept) = n THEN kept
      ELSE Append(kept, Cell("part", n - Width(kept)))

Got(v, rest) == [ok |-> TRUE, got |-> v, rest |-> rest]
Failed(why) == [ok |-> FALSE, why |-> why]
Then(r, Next(_, _)) == IF r.ok THEN Next(r.got, r.rest) ELSE r

(* The four zero bytes of an int read as something shorter.                *)
ZeroInt == Cell("int", 0)
ZeroShort == Cell("short", 0)

(* read_X of Cursor                                                        *)
ReadCell(kind, s) ==
  CASE s = <<>> -> Failed("end")
    [] s # <<>> /\ s[1][1] = kind -> Got(s[1][2], Tail(s))
    [] s # <<>> /\ s[1][1] = "part" -> Failed("end")
    [] s # <<>> /\ s[1] = ZeroInt /\ kind = "utf" -> Got("", <<ZeroShort>> \o Tail(s))
    [] s # <<>> /\ s[1] = ZeroShort /\ kind = "utf" -> Got("", Tail(s))
    [] OTHER -> Failed("garbled")

(* as i16 of a u16                                                         *)
AsShort(v) == ((v + ShortLimit) % (2 * ShortLimit)) - ShortLimit

(* as u16 of an i16                                                        *)
AsUnsigned(v) == v % (2 * ShortLimit)

-----------------------------------------------------------------------------
(* Class and type codes.                                                   *)

ClassCode ==
  [BMPacket |-> 0, BMAddress |-> 1, BMParameter |-> 3, BMInvoke |-> 4, Acceleration |-> 5,
   TouchSet |-> 6, AckPacket |-> 9, Ping |-> 11, StringLiteral |-> 12, Shake |-> 13,
   BMByteChunk |-> 14, BMRegistryInfo |-> 19, BMArray |-> 21, BMGyro |-> 22,
   Orientation |-> 23, DPadUpdate |-> 24]

DeviceCode == [Any |-> 0, Unity |-> 1, IPhone |-> 2, Flash |-> 3, Android |-> 4,
               Native |-> 5, Palm |-> 6, Server |-> 7]

PacketCode == [Data |-> 0, Ping |-> 1, Ack |-> 2, Echo |-> 3, Analysis |-> 4, KeepAlive |-> 5]

TouchCode == [Began |-> 1, Moved |-> 2, Stationary |-> 3, Ended |-> 4, Cancelled |-> 5]

(* The class BMRegistryInfo::write_to announces for its device.            *)
DeviceClass == [Any |-> 18, Unity |-> 8, IPhone |-> 7, Flash |-> 18, Android |-> 10,
                Native |-> 15, Palm |-> 16, Server |-> 17]

CodeTable == [device_type |-> DeviceCode, packet_type |-> PacketCode, touch_state |-> TouchCode]

Named(table, code) == {name \in DOMAIN table : table[name] = code}

-----------------------------------------------------------------------------
(* Message classes: the fields in the order they are written and read,     *)
(* each with its kind.  A field without a name is not kept.                *)

XYZ(kind) == << <<"x", kind>>, <<"y", kind>>, <<"z", kind>> >>

WriteAcceleration == XYZ("double")
ReadAcceleration == XYZ("double")
WriteGyro == XYZ("float")
ReadGyro == XYZ("float")
WriteOrientation == Append(XYZ("float"), <<"w", "float">>)
ReadOrientation == Append(XYZ("float"), <<"w", "float">>)
WriteDPad == << <<"x", "short">>, <<"y", "short">> >>
ReadDPad == << <<"x", "short">>, <<"y", "short">> >>
WriteLiteral == << <<"value", "utf">> >>
ReadLiteral == << <<"value", "utf">> >>

WriteAddress == << <<"address", "utf">>, <<"unreliable", "int">>, <<"reliable", "int">> >>
ReadAddress == << <<"address", "utf">>, <<"unreliable", "int">>, <<"reliable", "int">> >>

WriteDevice == << <<"type", "device_type">>, <<"id", "utf">>, <<"name", "utf">> >>
ReadDevice == << <<"type", "device_type">>, <<"id", "utf">>, <<"name", "utf">> >>

WritePing == << <<"id", "utf">>, <<"", "address_class">>, <<"address", "BMAddress">> >>
ReadPing == << <<"id", "utf">>, <<"", "address_class">>, <<"address", "BMAddress">> >>

WriteAck == << <<"device", "DeviceCore">>, <<"", "address_class">>, <<"address", "BMAddress">> >>
ReadAck == << <<"device", "DeviceCore">>, <<"", "address_class">>, <<"address", "BMAddress">> >>

WriteTouch == << <<"x", "float">>, <<"y", "float">>, <<"width", "short">>,
                 <<"height", "short">>, <<"state", "touch_state">>, <<"id", "int">> >>

ReadTouch == << <<"x", "float">>, <<"y", "float">>, <<"width", "short">>,
                <<"height", "short">>, <<"state", "touch_state">>, <<"id", "int">> >>

WriteInfo == << <<"device", "announced">>, <<"", "at">>, <<"", "address_short">>,
                <<"address", "BMAddress">>, <<"app", "utf">>, <<"slot", "slot">> >>
ReadInfo == << <<"", "utf">>, <<"", "short">>, <<"device", "DeviceCore">>,
               <<"", "utf">>, <<"", "short">>, <<"address", "BMAddress">>,
               <<"app", "utf">>, <<"slot", "slot">> >>

WriteInvoke == << <<"id", "int">>, <<"method", "utf">>, <<"return", "optional">>,
                  <<"params", "params">> >>
ReadInvoke == << <<"id", "int">>, <<"method", "utf">>, <<"return", "optional">>,
                 <<"params", "params">> >>

WritePacket == << <<"channel", "int">>, <<"sequence", "int">>, <<"timestamp", "double">>,
                  <<"rtt", "double">>, <<"type", "packet_type">>, <<"device", "device_type">>,
                  <<"id", "utf">>, <<"name", "utf">>, <<"has_message", "bool">> >>
ReadPacket == << <<"channel", "int">>, <<"sequence", "int">>, <<"timestamp", "double">>,
                 <<"rtt", "double">>, <<"type", "packet_type">>, <<"device", "device_type">>,
                 <<"id", "utf">>, <<"name", "utf">>, <<"has_message", "bool">> >>

Written == [Acceleration |-> WriteAcceleration, BMGyro |-> WriteGyro,
            Orientation |-> WriteOrientation, DPadUpdate |-> WriteDPad,
            StringLiteral |-> WriteLiteral, BMAddress |-> WriteAddress,
            DeviceCore |-> WriteDevice, Ping |-> WritePing, AckPacket |-> WriteAck,
            Touch |-> WriteTouch, BMRegistryInfo |-> WriteInfo, BMInvoke |-> WriteInvoke,
            BMPacket |-> WritePacket]
Readable == [Acceleration |-> ReadAcceleration, BMGyro |-> ReadGyro,
             Orientation |-> ReadOrientation, DPadUpdate |-> ReadDPad,
             StringLiteral |-> ReadLiteral, BMAddress |-> ReadAddress,
             DeviceCore |-> ReadDevice, Ping |-> ReadPing, AckPacket |-> ReadAck,
             Touch |-> ReadTouch, BMRegistryInfo |-> ReadInfo, BMInvoke |-> ReadInvoke,
             BMPacket |-> ReadPacket]

-----------------------------------------------------------------------------
(* Writing.  Write(kind, v) is the cells of the value v of a kind.         *)

RECURSIVE Write(_, _)

WriteFields(fields, rec) ==
  FlattenSeq([i \in DOMAIN fields |->
    Write(fields[i][2], IF fields[i][1] = "" THEN "" ELSE rec[fields[i][1]])])

WriteMany(kind, vs) == FlattenSeq([i \in DOMAIN vs |-> Write(kind, vs[i])])

(* Values are <<tag, v>> with the tags of BMEncoding.                      *)
TagKind == [i |-> "int", I |-> "uint", s |-> "short", S |-> "ushort", f |-> "float",
            d |-> "double", B |-> "bool"]

(* BMEncoding::encode                                                      *)
WriteValue(value) ==
  <<Utf(value[1])>> \o
    (CASE value[1] = "@" -> Write("object", value[2])
       [] value[1] = "*" -> <<Utf(value[2])>>
       [] value[1] \in DOMAIN TagKind -> Write(TagKind[value[1]], value[2]))

(* BMRegistryInfo::write_to: the players of a game with a slot.            *)
WriteSlot(game) ==
  <<Cell("short", game.slot)>> \o
    (IF game.slot <= 0 THEN <<>>
     ELSE [i \in 1 .. 2 |-> Cell("short", IF game.players = <<>> THEN 0 ELSE game.players[i])])

WriteArray(items) ==
  IF Len(items) > MaxItems THEN <<Refused>>
  ELSE <<Cell("short", Len(items))>> \o WriteMany("value", items)

WriteTouchSet(touches) ==
  <<Cell("int", Cardinality(touches))>>
    \o WriteMany("Touch", SetToSortSeq(touches, LAMBDA s, t : s.id < t.id))

WriteChunk(chunk) ==
  <<Utf(chunk.set), Cell("int", chunk.start), Cell("int", chunk.size),
    Cell("int", chunk.total), Cell("bytes", chunk.data)>>

WriteShake == <<ZeroInt>>

(* Objects are <<class, fields>>.  encode_with_marker and encode.          *)
WriteObject(object) ==
  <<Utf("@"), Cell("short", ClassCode[object[1]])>> \o Write(object[1], object[2])

(* The parameters of an invoke, each as a BMParameter.                     *)
WriteParams(params) ==
  <<Cell("int", Len(params))>>
    \o WriteMany("object", [i \in DOMAIN params |-> <<"BMParameter", params[i]>>])

Write(kind, v) ==
  CASE kind \in DOMAIN FixedWidth -> <<Cell(kind, v)>>
    [] kind = "utf" -> <<Utf(v)>>
    [] kind = "ushort" -> <<Cell("short", AsShort(v))>>
    [] kind \in DOMAIN CodeTable -> <<Cell("int", CodeTable[kind][v])>>
    [] kind = "optional" -> <<Utf(IF v = <<>> THEN "" ELSE v[1])>>
    [] kind = "at" -> <<Utf("@")>>
    [] kind = "address_class" -> <<Cell("uint", ClassCode.BMAddress)>>
    [] kind = "address_short" -> <<Cell("short", ClassCode.BMAddress)>>
    [] kind = "announced" ->
         <<Utf("@"), Cell("short", DeviceClass[v.type])>> \o Write("DeviceCore", v)
    [] kind = "slot" -> WriteSlot(v)
    [] kind \in {"value", "BMParameter"} -> WriteValue(v)
    [] kind = "object" -> WriteObject(v)
    [] kind = "params" -> WriteParams(v)
    [] kind = "BMArray" -> WriteArray(v)
    [] kind = "TouchSet" -> WriteTouchSet(v)
    [] kind = "BMByteChunk" -> WriteChunk(v)
    [] kind = "Shake" -> WriteShake
    [] kind \in DOMAIN Written -> WriteFields(Written[kind], v)

-----------------------------------------------------------------------------
(* Reading.  Read(kind, s) is the value at the head of s and what follows. *)

RECURSIVE Read(_, _), ReadFields(_, _, _), ReadMany(_, _, _, _)

ReadFields(fields, rec, s) ==
  IF fields = <<>> THEN Got(rec, s)
  ELSE LET name == fields[1][1]
       IN  Then(Read(fields[1][2], s), LAMBDA v, rest :
             ReadFields(Tail(fields), IF name = "" THEN rec ELSE (name :> v) @@ rec, rest))

ReadMany(kind, n, vs, s) ==
  IF n = 0 THEN Got(vs, s)
  ELSE Then(Read(kind, s), LAMBDA v, rest : ReadMany(kind, n - 1, Append(vs, v), rest))

(* PacketType::from_i32, DeviceType::for_value, TouchState::from_value     *)
ReadCode(table, s) ==
  Then(ReadCell("int", s), LAMBDA code, rest :
    IF Named(table, code) = {} THEN Failed("code")
    ELSE Got(CHOOSE name \in Named(table, code) : TRUE, rest))

(* BMEncoding::decode                                                      *)
ReadValue(s) ==
  Then(ReadCell("utf", s), LAMBDA tag, rest :
    CASE tag = "@" -> Then(Read("object", rest), LAMBDA o, left : Got(<<tag, o>>, left))
      [] tag = "*" -> Then(ReadCell("utf", rest), LAMBDA v, left : Got(<<tag, v>>, left))
      [] tag \in DOMAIN TagKind ->
           Then(Read(TagKind[tag], rest), LAMBDA v, left : Got(<<tag, v>>, left))
      [] OTHER -> Failed("tag"))

(* Mutation of ReadSlot: players follow slot 0 too.                        *)
ReadSlotFromZero(s) ==
  Then(ReadCell("short", s), LAMBDA slot, rest :
    IF slot < 0 THEN Got([slot |-> slot, players |-> <<>>], rest)
    ELSE Then(ReadMany("short", 2, <<>>, rest), LAMBDA players, left :
           Got([slot |-> slot, players |-> players], left)))

ReadSlot(s) ==
  Then(ReadCell("short", s), LAMBDA slot, rest :
    IF slot <= 0 THEN Got([slot |-> slot, players |-> <<>>], rest)
    ELSE Then(ReadMany("short", 2, <<>>, rest), LAMBDA players, left :
           Got([slot |-> slot, players |-> players], left)))

ReadArray(s) ==
  Then(ReadCell("short", s), LAMBDA n, rest : ReadMany("value", n, <<>>, rest))

(* Touches are kept by id: the last one of an id stays.                    *)
ReadTouchSet(s) ==
  Then(ReadCell("int", s), LAMBDA n, rest :
    Then(ReadMany("Touch", n, <<>>, rest), LAMBDA ts, left :
      Got({ts[i] : i \in {j \in DOMAIN ts : \A k \in DOMAIN ts : ts[k].id = ts[j].id => k <= j}},
          left)))

(* read_bytes(n)                                                           *)
ReadBytes(n, s) ==
  CASE s # <<>> /\ s[1] = Cell("bytes", n) -> Got(n, Tail(s))
    [] s = <<>> \/ s[1][1] = "part" -> Failed("end")
    [] OTHER -> Failed("garbled")

ReadChunk(s) ==
  Then(ReadCell("utf", s), LAMBDA set, s1 :
    Then(ReadMany("int", 3, <<>>, s1), LAMBDA sizes, s2 :
      Then(ReadBytes(sizes[2], s2), LAMBDA data, s3 :
        Got([set |-> set, start |-> sizes[1], size |-> sizes[2], total |-> sizes[3],
             data |-> data], s3))))

ReadShake(s) == Got(<<>>, s)

(* Object::decode                                                          *)
ReadObject(s) ==
  Then(ReadCell("utf", s), LAMBDA marker, s1 :
    IF marker # "@" THEN Failed("marker")
    ELSE Then(ReadCell("short", s1), LAMBDA code, s2 :
           IF Named(ClassCode, code) \ {"BMPacket"} = {} THEN Failed("class")
           ELSE LET class == CHOOSE c \in Named(ClassCode, code) : TRUE
                IN  Then(Read(class, s2), LAMBDA v, s3 : Got(<<class, v>>, s3))))

(* BMInvoke::read_from: anything else than a BMParameter is an object.     *)
ReadParams(s) ==
  Then(ReadCell("int", s), LAMBDA n, rest :
    Then(ReadMany("object", n, <<>>, rest), LAMBDA os, left :
      Got([i \in DOMAIN os |-> IF os[i][1] = "BMParameter" THEN os[i][2] ELSE <<"@", os[i]>>],
          left)))

Read(kind, s) ==
  CASE kind \in DOMAIN FixedWidth \cup {"utf"} -> ReadCell(kind, s)
    [] kind = "ushort" ->
         Then(ReadCell("short", s), LAMBDA v, rest : Got(AsUnsigned(v), rest))
    [] kind \in DOMAIN CodeTable -> ReadCode(CodeTable[kind], s)
    [] kind = "optional" ->
         Then(ReadCell("utf", s), LAMBDA v, rest : Got(IF v = "" THEN <<>> ELSE <<v>>, rest))
    [] kind = "address_class" ->
         Then(ReadCell("uint", s), LAMBDA c, rest :
           IF c = ClassCode.BMAddress THEN Got(c, rest) ELSE Failed("class"))
    [] kind = "slot" -> ReadSlot(s)
    [] kind \in {"value", "BMParameter"} -> ReadValue(s)
    [] kind = "object" -> ReadObject(s)
    [] kind = "params" -> ReadParams(s)
    [] kind = "BMArray" -> ReadArray(s)
    [] kind = "TouchSet" -> ReadTouchSet(s)
    [] kind = "BMByteChunk" -> ReadChunk(s)
    [] kind = "Shake" -> ReadShake(s)
    [] kind \in DOMAIN Readable -> ReadFields(Readable[kind], <<>>, s)

-----------------------------------------------------------------------------
(* Packets and handshakes.                                                 *)

(* serialize_packet, without the length before it; message: cells.         *)
Body(header, message) ==
  <<Utf("@"), Cell("short", ClassCode.BMPacket)>> \o Write("BMPacket", header) \o message

Framed(body) == <<Cell("uint", Width(body))>> \o body

(* BMVersion::to_u32 and from_u32                                          *)
VersionCode(v) == (v[1] * Base + v[2]) * Base * Base + v[3]

VersionOf(code) ==
  <<code \div (Base * Base * Base), (code \div (Base * Base)) % Base, code % (Base * Base)>>

(* Handshake::to_bytes                                                     *)
HandshakeFrame(current, minimum) ==
  <<Cell("uint", 8), Cell("uint", VersionCode(current)), Cell("uint", VersionCode(minimum))>>

(* Mutation of IsHandshake: 12 bytes or more.                              *)
IsHandshakeLong(s) == Width(s) >= 12 /\ s[1] = Cell("uint", 8)

(* The first test of process_incoming, with Handshake::from_bytes.         *)
IsHandshake(s) == Width(s) = 12 /\ s[1] = Cell("uint", 8)

Versions(s) ==
  Then(ReadMany("uint", 2, <<>>, Tail(s)), LAMBDA codes, rest :
    Got([i \in 1 .. 2 |-> VersionOf(codes[i])], rest))

(* Mutation of DecodePacket: whatever is in the buffer is the payload.     *)
DecodePacketAll(s) ==
  Then(ReadCell("uint", s), LAMBDA size, rest :
    IF size > MaxFrame THEN Failed("frame")
    ELSE Then(ReadFields(<< <<"", "utf">>, <<"", "short">> >>, <<>>, rest), LAMBDA e, s1 :
           Read("BMPacket", s1)))

(* deserialize_packet.  The message is what is left of the payload.        *)
DecodePacket(s) ==
  Then(ReadCell("uint", s), LAMBDA size, rest :
    IF size > MaxFrame \/ size > Width(rest) THEN Failed("frame")
    ELSE Then(ReadCell("utf", FirstBytes(rest, size)), LAMBDA marker, s1 :
           Then(ReadCell("short", s1), LAMBDA class, s2 :
             IF marker # "@" \/ class # ClassCode.BMPacket THEN Failed("envelope")
             ELSE Read("BMPacket", s2))))

(* handle_deserialized_packet and handle_data, as far as the object.       *)
Taken(header, message) ==
  IF header.type # "Data" \/ ~header.has_message \/ message = <<>> THEN <<"none">>
  ELSE LET r == Read("object", message)
       IN  IF r.ok THEN <<"object", r.got>> ELSE <<r.why>>

(* process_incoming                                                        *)
Process(s) ==
  IF IsHandshake(s)
  THEN LET v == Versions(s)
       IN  IF v.ok THEN <<"handshake", v.got[1], v.got[2]>> ELSE <<"handshake", v.why>>
  ELSE LET p == DecodePacket(s)
       IN  IF p.ok THEN <<"packet", p.got, Taken(p.got, p.rest)>> ELSE <<"log", p.why>>

(* process_incoming_udp                                                    *)
ProcessUdp(s) == Process(Framed(s))

-----------------------------------------------------------------------------
(* The way from one engine to the other.                                   *)

Medium == {"tcp", "udp"}
Pending == outcome = <<"pending">>

Nothing == [medium |-> "tcp", what |-> <<"nothing">>, cut |-> 0, tail |-> FALSE]

WireInit == buffer = <<>> /\ sent = Nothing /\ outcome = <<"idle">>

Transfer(medium, what, frame) ==
  /\ outcome = <<"idle">>
  /\ \A i \in DOMAIN frame : frame[i] # Refused
  /\ buffer' = frame
  /\ sent' = [medium |-> medium, what |-> what, cut |-> 0, tail |-> FALSE]
  /\ outcome' = <<"pending">>

(* A datagram carries a frame without its length.                          *)
Carried(medium, frame) == IF medium = "tcp" THEN frame ELSE Tail(frame)

SendHandshake(medium, current, minimum) ==
  Transfer(medium, <<"handshake", current, minimum>>,
           Carried(medium, HandshakeFrame(current, minimum)))

(* A packet with a message or without (message: at most one object).       *)
SendPacket(medium, header, message) ==
  /\ header.has_message <=> message # <<>>
  /\ Transfer(medium, <<"packet", header, message>>,
              Carried(medium, Framed(Body(header, WriteMany("object", message)))))

(* The application reads before all of it has come, or into a buffer that  *)
(* is too small for it.                                                    *)
Cut(n) ==
  /\ Pending /\ sent.cut = 0 /\ ~sent.tail /\ n < Width(buffer)
  /\ buffer' = FirstBytes(buffer, n)
  /\ sent' = [sent EXCEPT !.cut = n]
  /\ UNCHANGED outcome

(* The application reads when the next frame has come as well.             *)
Join(frame) ==
  /\ Pending /\ sent.cut = 0 /\ ~sent.tail /\ sent.medium = "tcp"
  /\ buffer' = buffer \o frame
  /\ sent' = [sent EXCEPT !.tail = TRUE]
  /\ UNCHANGED outcome

Receive ==
  /\ Pending
  /\ outcome' = IF sent.medium = "tcp" THEN Process(buffer) ELSE ProcessUdp(buffer)
  /\ buffer' = <<>>
  /\ UNCHANGED sent

(* The application carries out the actions and goes on; nothing that was   *)
(* received changes how the next transfer is read.                         *)
CarryOut ==
  /\ outcome[1] \notin {"idle", "pending"}
  /\ sent' = Nothing /\ outcome' = <<"idle">>
  /\ UNCHANGED buffer

Messages == {<<>>} \cup {<<o>> : o \in Object}

WireNext ==
  \/ \E m \in Medium, v, w \in Version : SendHandshake(m, v, w)
  \/ \E m \in Medium, h \in Header, msg \in Messages : SendPacket(m, h, msg)
  \/ Pending /\ \E n \in 1 .. Width(buffer) : Cut(n)
  \/ \E v, w \in Version : Join(HandshakeFrame(v, w))
  \/ \E h \in Header : ~h.has_message /\ Join(Framed(Body(h, <<>>)))
  \/ Receive
  \/ CarryOut

WireSpec == WireInit /\ [][WireNext]_wireVars

-----------------------------------------------------------------------------
(* What should arrive.                                                     *)

RECURSIVE Normal(_), NormalValue(_), Leaves(_), Misread(_)

(* An object as the receiver has it: no return method is the same as an    *)
(* empty one, and players belong to games with a slot.                     *)
Normal(o) ==
  CASE o[1] = "BMInvoke" ->
         <<o[1], [o[2] EXCEPT !["return"] = IF @ = <<"">> THEN <<>> ELSE @,
                              !.params = [i \in DOMAIN @ |-> NormalValue(@[i])]]>>
    [] o[1] = "BMRegistryInfo" ->
         <<o[1], [o[2] EXCEPT !.slot.players =
                    IF o[2].slot.slot <= 0 THEN <<>> ELSE IF @ = <<>> THEN <<0, 0>> ELSE @]>>
    [] o[1] = "BMArray" -> <<o[1], [i \in DOMAIN o[2] |-> NormalValue(o[2][i])]>>
    [] o[1] = "BMParameter" -> <<o[1], NormalValue(o[2])>>
    [] OTHER -> o

NormalValue(v) == IF v[1] = "@" THEN <<"@", Normal(v[2])>> ELSE v

(* The values inside an object.                                            *)
Inside(o) == CASE o[1] = "BMInvoke" -> o[2].params
               [] o[1] = "BMArray" -> o[2]
               [] o[1] = "BMParameter" -> <<o[2]>>
               [] OTHER -> <<>>

ObjectsInside(o) == [i \in DOMAIN Inside(o) |->
                       IF Inside(o)[i][1] = "@" THEN <<Inside(o)[i][2]>> ELSE <<>>]

(* The reader leaves the int of a Shake at the end behind.                 *)
Leaves(o) ==
  \/ o[1] = "Shake"
  \/ LET os == ObjectsInside(o)
     IN  os # <<>> /\ Last(os) # <<>> /\ Leaves(Last(os)[1])

(* ... and stumbles over it when something follows.                        *)
Misread(o) ==
  LET os == ObjectsInside(o)
  IN  \E i \in DOMAIN os : /\ os[i] # <<>>
                           /\ Misread(os[i][1]) \/ (i < Len(os) /\ Leaves(os[i][1]))

Received == outcome[1] \notin {"idle", "pending"}
IsPacket == sent.what[1] = "packet"
TooLarge == Width(Body(sent.what[2], WriteMany("object", sent.what[3]))) > MaxFrame

TakenRight(what) ==
  LET header == what[2]
      message == what[3]
  IN  /\ outcome[2] = header
      /\ CASE header.type # "Data" \/ message = <<>> -> outcome[3] = <<"none">>
           [] OTHER -> IF Misread(message[1]) THEN outcome[3][1] \in {"tag", "marker"}
                       ELSE outcome[3] = <<"object", Normal(message[1])>>

-----------------------------------------------------------------------------
(* Properties.                                                             *)

(* Whatever was written is read as it was meant (protocol.rs, Object and   *)
(* every read_from and write_to): a packet that comes whole gives its      *)
(* header and its object, whatever follows it in the buffer; only a Shake  *)
(* with something behind it makes its message unreadable, and a frame that *)
(* is too large is refused.  A handshake gives its versions, unless        *)
(* something follows it in the buffer: then it is lost.                    *)
DecodedAsSent ==
  Received /\ sent.cut = 0 =>
    CASE IsPacket /\ TooLarge -> outcome[1] = "log"
      [] IsPacket /\ ~TooLarge -> outcome[1] = "packet" /\ TakenRight(sent.what)
      [] ~IsPacket /\ sent.tail -> outcome[1] = "log"
      [] OTHER -> outcome = sent.what

(* A transfer that was cut is never taken for an object: process_incoming  *)
(* refuses the frame.  A datagram has no length of its own, so its header  *)
(* counts once it is whole, but its message is then refused or empty,      *)
(* unless all that is missing is the int of a Shake, which nobody reads.   *)
CutIsNotTaken ==
  Received /\ sent.cut > 0 =>
    \/ outcome[1] # "packet"
    \/ /\ sent.medium = "udp" /\ outcome[2] = sent.what[2]
       /\ outcome[3][1] = "object" =>
            /\ Leaves(sent.what[3][1])
            /\ outcome[3][2] = Normal(sent.what[3][1])

(* Handshakes and packets are told apart by their length alone             *)
(* (process_incoming, 12 bytes and a length of 8): an input is taken for a *)
(* handshake exactly if it is a whole handshake with nothing behind it, or *)
(* the first 8 bytes of a datagram.                                        *)
HandshakeApart ==
  Received => (outcome[1] = "handshake" <=>
                 \/ sent.what[1] = "handshake" /\ sent.cut = 0 /\ ~sent.tail
                 \/ IsPacket /\ sent.medium = "udp" /\ sent.cut = 8)
=============================================================================
