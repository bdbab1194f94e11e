--------------------------- MODULE MCControlConfig ---------------------------
EXTENDS ControlConfig
CONSTANTS text

(* 10.01 ms, which becomes 10; 12 ms that becomes 11 or 12; and one longer *)
(* than IntMax milliseconds.                                               *)
Sec(tenths, short) == [tenths |-> tenths, short |-> short]
MCSeconds == {Sec(101, FALSE), Sec(120, TRUE), Sec(5000000, FALSE)}
MCNumber == {0, 2}
MCCapability == {5}
MCText == {text}
=============================================================================
