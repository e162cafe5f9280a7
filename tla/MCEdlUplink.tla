---------------------------- MODULE MCEdlUplink ----------------------------
(* Values of EdlUplink's constants for model checking. *)
EXTENDS EdlUplink

AdCommand == [vc |-> "command", bypass |-> FALSE, form |-> "good"]
BdCommand == [AdCommand EXCEPT !.bypass = TRUE]
BadCommand == [AdCommand EXCEPT !.form = "bad"]
Unreadable == [AdCommand EXCEPT !.form = "raises"]
File == [vc |-> "file", bypass |-> TRUE, form |-> "good"]
StrayPdu == [File EXCEPT !.form = "stray"]
Idle == [vc |-> "idle", bypass |-> TRUE, form |-> "good"]

EveryKind == {AdCommand, BdCommand, BadCommand, Unreadable, File, StrayPdu, Idle}
FileAfterCommand == {AdCommand, File}
=============================================================================
