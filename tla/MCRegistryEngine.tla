-------------------------- MODULE MCRegistryEngine --------------------------
(* A small instance of RegistryEngine for TLC.                             *)
EXTENDS RegistryEngine, TLC

CONSTANTS d1, d2, d3

Given(d, k, s, p) == [dev |-> d, kind |-> k, slot |-> s, players |-> p]

(* A game d1, a viewer d3, and d2, a game that may come back as a viewer   *)
(* and that may register d1 as well.                                       *)
RegisterCalls == {<<d1, Given(d1, "game", 0, NoPlayers)>>,
                  <<d2, Given(d1, "game", 0, NoPlayers)>>,
                  <<d2, Given(d2, "game", 0, NoPlayers)>>,
                  <<d2, Given(d2, "viewer", 0, NoPlayers)>>,
                  <<d3, Given(d3, "viewer", 0, NoPlayers)>>}
UpdateInfos == {Given(d1, "game", 0, NoPlayers), Given(d1, "game", 1, 1),
                Given(d1, "game", 2, 1)}
=============================================================================
