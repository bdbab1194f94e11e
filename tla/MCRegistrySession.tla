------------------------- MODULE MCRegistrySession -------------------------
(* Small instances of RegistrySession for TLC.                             *)
EXTENDS RegistrySession, TLC

CONSTANTS g1, g2, c1

(* The first game and the controller may reconnect, the second may not.    *)
Reconnects == g1 :> 2 @@ g2 :> 1 @@ c1 :> 1
OneGame == g1 :> 2 @@ c1 :> 2
GameReturns == g1 :> 2 @@ c1 :> 1

(* What the clients of a session send, as the engine's inputs.             *)
SessionRegisterCalls == {<<d, OwnInfo(d, 0, NoPlayers)>> : d \in DeviceId}
SessionUpdateInfos == {OwnInfo(g, s, p) : g \in Game, s \in 1 .. MaxSlot, p \in Counts}
=============================================================================
