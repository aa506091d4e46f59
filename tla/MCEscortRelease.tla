-------------------------- MODULE MCEscortRelease --------------------------
(* Instances of EscortRelease for TLC. *)
EXTENDS EscortRelease, TLC

MCPrograms == 1..2
MCOne == 1..1
=============================================================================
