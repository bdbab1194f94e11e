---------------------------- MODULE MCFfiBoundary ----------------------------
(* A game, a viewer whose invokes name a return method with a NUL byte,    *)
(* and one with a NUL byte in its id.                                      *)
EXTENDS FfiBoundary
CONSTANTS game, viewer, odd

MCDevice == {game, viewer, odd}
MCViewer == {viewer, odd}
MCNulText == {<<odd, "device_id">>, <<viewer, "invoke_return_method">>}
MCStruct == {"info", "invoke"}
=============================================================================
