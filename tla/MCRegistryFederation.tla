------------------------ MODULE MCRegistryFederation ------------------------
(* A small instance of RegistryFederation for TLC.                         *)
EXTENDS RegistryFederation, TLC
=============================================================================
