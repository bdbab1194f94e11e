---------------------------- MODULE MCSchemeParser ----------------------------
(* SchemeParser with text that can be decoded and text that cannot.        *)
EXTENDS SchemeParser

MCSample == {"nearest"}
MCPiece == {"good", "broken"}
MCBroken == {"broken"}
=============================================================================
