----------------------------- MODULE MCC3State -----------------------------
(***************************************************************************)
(* Values of C3State's constants for TLC.                                  *)
(***************************************************************************)
EXTENDS C3State, TLC

StatusFirst == <<"status", "deployed", "key">>
StatusLast == <<"deployed", "lastTx", "txEnable", "status">>
StatusOnly == <<"status", "txEnable">>
NoSteps == {}
BackAndForth == {-2, 2}
StepBack == {-2}
WriterSymmetry == Permutations(Writers)
=============================================================================
