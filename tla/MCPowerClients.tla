---------------------------- MODULE MCPowerClients ----------------------------
(***************************************************************************)
(* Values of PowerClients's constants for TLC.                             *)
(***************************************************************************)
EXTENDS PowerClients

\* Both packs low, in between, and high.
Charges == {<<0, 0>>, <<1, 3>>, <<3, 3>>}
=============================================================================
