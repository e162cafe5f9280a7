------------------------------- MODULE MCAdcs -------------------------------
(* The ADCS manager on every control mode, for TLC. *)
EXTENDS Adcs

AllModes == ControlModes
=============================================================================
