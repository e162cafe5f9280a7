--------------------------- MODULE MCNodeManager ---------------------------
(***************************************************************************)
(* Values of NodeManager's constants for TLC: a satellite with one card,   *)
(* an STM32 or an Octavo.                                                  *)
(***************************************************************************)
EXTENDS NodeManager

CONSTANTS octavo, stm

OneStm == <<stm>>
OneOctavo == <<octavo>>
Childless == [n \in Nodes |-> NoNode]
ProcessorOf == [n \in Nodes |-> IF n = octavo THEN "octavo" ELSE "stm32"]
Boot1 == [n \in Nodes |-> 1]
Boot2 == [n \in Nodes |-> 2]
=============================================================================
