------------------------------- MODULE MCTones -------------------------------
(* Tones for TLC. *)
EXTENDS Tones
=============================================================================
