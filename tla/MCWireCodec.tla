----------------------------- MODULE MCWireCodec -----------------------------
(* WireCodec with one or more objects of every class, nested and at the    *)
(* limits.                                                                 *)
EXTENDS WireCodec

Head1(type, has) == [channel |-> 3, sequence |-> 5, timestamp |-> 1, rtt |-> 0, type |-> type,
                     device |-> "Flash", id |-> "d1", name |-> "", has_message |-> has]
MCHeader == {Head1("Data", TRUE), Head1("Data", FALSE), Head1("Ping", FALSE), Head1("Echo", TRUE)}

MCVersion == {<<1, 3, 0>>, <<0, 2, 7>>}

Address == [address |-> "host", unreliable |-> 7, reliable |-> 0]
Device(type) == [type |-> type, id |-> "d1", name |-> "pad"]
Info(type, slot, players) ==
  <<"BMRegistryInfo", [device |-> Device(type), address |-> Address, app |-> "a",
                       slot |-> [slot |-> slot, players |-> players]]>>
Touch(id, state) == [x |-> 1, y |-> 2, width |-> 3, height |-> 4, state |-> state, id |-> id]
Invoke(return, params) ==
  <<"BMInvoke", [id |-> 1, method |-> "m", return |-> return, params |-> params]>>

Shaken == <<"@", <<"Shake", <<>>>>>>
Pad == <<"@", <<"DPadUpdate", [x |-> 1, y |-> -1]>>>>
Simple == {<<"*", "">>, <<"B", TRUE>>, <<"s", -1>>, <<"S", ShortLimit>>, <<"S", 2 * ShortLimit - 1>>,
           <<"i", 0>>, <<"I", 4>>, <<"f", 0>>, <<"d", 1>>}

MCObject ==
  {<<"Acceleration", [x |-> 1, y |-> 2, z |-> 3]>>,
   <<"BMGyro", [x |-> 1, y |-> 2, z |-> 3]>>,
   <<"Orientation", [x |-> 1, y |-> 2, z |-> 3, w |-> 0]>>,
   <<"DPadUpdate", [x |-> 1, y |-> 0]>>,
   <<"StringLiteral", [value |-> "text"]>>,
   <<"StringLiteral", [value |-> "longer than MaxUtf"]>>,
   <<"BMAddress", Address>>,
   <<"Ping", [id |-> "d1", address |-> Address]>>,
   <<"AckPacket", [device |-> Device("Palm"), address |-> Address]>>,
   <<"TouchSet", {}>>,
   <<"TouchSet", {Touch(2, "Moved"), Touch(1, "Cancelled")}>>,
   <<"BMByteChunk", [set |-> "blob", start |-> 0, size |-> 9, total |-> 12, data |-> 9]>>,
   <<"BMByteChunk", [set |-> "blob", start |-> 0, size |-> 90, total |-> 90, data |-> 90]>>,
   <<"Shake", <<>>>>,
   Info("Any", 0, <<3, 4>>), Info("Flash", 2, <<>>), Info("Server", 2, <<3, 4>>),
   <<"BMArray", <<>>>>,
   <<"BMArray", <<Pad, <<"S", ShortLimit>>>>>>,
   <<"BMArray", <<Shaken, Pad>>>>,
   <<"BMArray", <<Pad, Shaken>>>>,
   <<"BMArray", <<Pad, Pad, Pad>>>>,
   <<"BMParameter", Pad>>,
   Invoke(<<>>, <<>>), Invoke(<<"">>, <<Pad>>), Invoke(<<"r">>, <<Shaken, Pad>>),
   Invoke(<<"r">>, <<Pad, Shaken>>),
   Invoke(<<>>, <<<<"@", <<"BMArray", <<Shaken>>>>>>, <<"i", 0>>>>),
   Invoke(<<>>, <<<<"@", Info("Unity", 1, <<1, 2>>)>>>>)}
  \cup {<<"BMParameter", v>> : v \in Simple}
=============================================================================
