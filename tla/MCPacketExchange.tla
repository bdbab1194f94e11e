--------------------------- MODULE MCPacketExchange ---------------------------
(* A small instance of PacketExchange for TLC.                             *)
EXTENDS PacketExchange, TLC

CONSTANTS n1, n2, n3

(* An engine without a name, one it knows beforehand, and one that comes.  *)
MCOpens == {<<n1, n2>>, <<n2, n1>>, <<n3, n1>>}
=============================================================================
