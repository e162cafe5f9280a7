----------------------------- MODULE MCOpdNode -----------------------------
(***************************************************************************)
(* Values of OpdNode's constants for TLC: the calls the two threads make.  *)
(***************************************************************************)
EXTENDS OpdNode

EveryCall == [t \in Threads |->
                IF t = Manager
                THEN {"rescan", "enable", "bootloader", "disable", "status"}
                ELSE {"probe", "enable", "disable", "reset3", "connect"}]
=============================================================================
