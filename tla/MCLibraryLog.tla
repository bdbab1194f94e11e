----------------------------- MODULE MCLibraryLog -----------------------------
(* LibraryLog with two threads of either sort.                             *)
EXTENDS LibraryLog, TLC

CONSTANTS c1, c2, p1, p2
MCCThread == {c1, c2}
MCPyThread == {p1, p2}
MCSymmetry == Permutations(MCCThread) \cup Permutations(MCPyThread)
=============================================================================
