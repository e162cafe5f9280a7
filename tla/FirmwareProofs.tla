--------------------------- MODULE FirmwareProofs ---------------------------
(***************************************************************************)
(* Proofs about Firmware, for any image, and any number of faults, resets  *)
(* and repeated commands.                                                  *)
(***************************************************************************)
EXTENDS Firmware, TLAPS

-----------------------------------------------------------------------------
(* Typing.  What is sent to a node is a set of segments because the file   *)
(* is there: nobody but the flasher takes it away, and only at its end.    *)
Flashing == {"begin", "clear", "load", "start", "finish", "remove"}
FileThere == step \in Flashing => OnDisk

FileOK == indexed \in BOOLEAN /\ (disk \in SUBSET Segments \/ disk = NoFile)
UploadOK ==
    /\ upload \in {"idle", "receiving", "dead"}
    /\ ground \in {"upload", "send", "command", "wait"}
FlasherOK ==
    /\ queue \in Seq(Commands) /\ step \in FlashSteps
    /\ cmd \in Commands \cup {NoCommand} /\ patched \in BOOLEAN /\ updating \in BOOLEAN
NodeOK == slot \subseteq Segments /\ running \in {"old", "new"}
CountsOK == repeats \in 0..upsets /\ upsets \in 0..MaxUpsets
TypeInv == FileOK /\ UploadOK /\ FlasherOK /\ NodeOK /\ CountsOK /\ FileThere

LEMMA InitType == Init => TypeInv
<1> SUFFICES ASSUME Init PROVE TypeInv
  OBVIOUS
<1>1. MaxUpsets \in Nat
  BY UpsetsAssumption DEF UpsetsAssumption
<1>2. CountsOK
  BY <1>1 DEF Init, CountsOK
<1>3. indexed = FALSE /\ disk = NoFile /\ slot = {} /\ patched = FALSE /\ updating = FALSE
  BY DEF Init
<1>4. FileOK /\ UploadOK /\ NodeOK
  <2>1. UploadOK /\ running \in {"old", "new"}
    BY DEF Init, UploadOK
  <2>2. FileOK
    BY <1>3, Zenon DEF FileOK
  <2> QED BY <1>3, <2>1, <2>2 DEF NodeOK
<1>5. queue = <<>> /\ step = "idle" /\ cmd = NoCommand
  BY DEF Init
<1>6. FlasherOK /\ FileThere
  <2>1. queue \in Seq(Commands) /\ step \in FlashSteps /\ FileThere
    BY <1>5 DEF FlashSteps, FileThere, Flashing
  <2> QED BY <1>3, <1>5, <2>1 DEF FlasherOK
<1> QED BY <1>2, <1>4, <1>6 DEF TypeInv

\* A fault is counted, up to the bound.
LEMMA CountsType ==
    ASSUME CountsOK, Calm \/ Upset,
           repeats' = repeats \/ (Upset /\ repeats' = repeats + 1)
    PROVE  CountsOK'
BY UpsetsAssumption DEF CountsOK, Calm, Upset, UpsetsAssumption

\* Files only grow, start afresh or are empty, but for the flasher's removal.
LEMMA ReceiverType ==
    ASSUME TypeInv, Receiver
    PROVE  TypeInv'
<1> USE DEF TypeInv
<1>1. UNCHANGED <<flasher, node, repeats>> /\ (Calm \/ Upset)
  BY DEF Receiver, Metadata, WriteData, Complete, StoreRaises, LoseTransfer
<1>2. FileOK' /\ (OnDisk => OnDisk')
  <2>1. CASE Metadata
    <3>1. disk' = {} /\ indexed' = TRUE
      BY <2>1 DEF Metadata, Truncated, Created
    <3> QED BY <3>1, SegmentsAssumption DEF FileOK, OnDisk, SegmentsAssumption
  <2>2. ASSUME NEW s \in Segments, WriteData(s) PROVE FileOK' /\ (OnDisk => OnDisk')
    <3>1. disk' = disk \cup {s} /\ indexed' = indexed /\ disk # NoFile
      BY <2>2 DEF WriteData, OnDisk
    <3>2. disk \in SUBSET Segments
      BY <3>1, Zenon DEF FileOK
    <3>3. disk' \in SUBSET Segments
      BY <3>1, <3>2
    <3> QED BY <3>1, <3>3, SegmentsAssumption DEF FileOK, OnDisk, SegmentsAssumption
  <2>3. CASE Complete \/ StoreRaises \/ LoseTransfer
    BY <2>3 DEF Complete, StoreRaises, LoseTransfer, files, FileOK, OnDisk
  <2> QED BY <2>1, <2>2, <2>3 DEF Receiver
<1>3. UploadOK'
  BY DEF Receiver, Metadata, WriteData, Complete, StoreRaises, LoseTransfer, UploadOK
<1>4. CountsOK'
  BY <1>1, CountsType
<1>5. FlasherOK' /\ NodeOK' /\ FileThere'
  BY <1>1, <1>2 DEF flasher, node, FlasherOK, NodeOK, FileThere
<1> QED BY <1>2, <1>3, <1>4, <1>5

LEMMA FlasherType ==
    ASSUME TypeInv, Flasher
    PROVE  TypeInv'
<1> USE DEF TypeInv
<1>1. UNCHANGED <<upload, ground, indexed, repeats>> /\ (Calm \/ Upset)
  BY DEF Flasher, Take, Check, Begin, Clear, Load, StartProgram, Finish, Remove, At
<1>2. CountsOK' /\ UploadOK'
  BY <1>1, CountsType DEF UploadOK
<1>3. CASE Take
  <2>1. /\ cmd' = Head(queue) /\ queue' = Tail(queue) /\ queue # <<>> /\ step' = "check"
        /\ UNCHANGED <<patched, updating, disk, node>>
    BY <1>3 DEF Take
  <2>2. Head(queue) \in Commands /\ Tail(queue) \in Seq(Commands)
    BY <2>1 DEF FlasherOK
  <2>3. FlasherOK' /\ FileThere'
    BY <2>1, <2>2 DEF FlasherOK, FlashSteps, FileThere, Flashing
  <2> QED BY <1>1, <1>2, <2>1, <2>3 DEF FileOK, NodeOK, node
<1>4. CASE Check
  <2>1. /\ patched' \in BOOLEAN /\ step' \in {"begin", "idle"}
        /\ step' = "begin" => OnDisk
        /\ UNCHANGED <<disk, queue, cmd, updating, node>>
    BY <1>4 DEF Check, Accepted
  <2>2. FlasherOK' /\ FileThere'
    BY <2>1 DEF FlasherOK, FlashSteps, FileThere, Flashing, OnDisk
  <2> QED BY <1>1, <1>2, <2>1, <2>2 DEF FileOK, NodeOK, node
<1>5. CASE Begin \/ Clear \/ Load \/ StartProgram
  <2>1. /\ OnDisk /\ step' \in {"clear", "load", "start", "finish"}
        /\ updating' \in {updating, TRUE}
        /\ UNCHANGED <<disk, queue, cmd, patched>>
    BY <1>5 DEF Begin, Clear, Load, StartProgram, At, FileThere, Flashing
  <2>2. FlasherOK' /\ FileThere' /\ FileOK'
    BY <1>1, <2>1 DEF FlasherOK, FlashSteps, FileThere, OnDisk, FileOK
  <2>3. disk \in SUBSET Segments
    BY <2>1, Zenon DEF FileOK, OnDisk
  <2>4. slot' \subseteq Segments
    BY <1>5, <2>3 DEF Begin, Clear, Load, StartProgram, NodeOK, node
  <2>5. running' \in {running, "new"}
    BY <1>5 DEF Begin, Clear, Load, StartProgram, node, Boots
  <2> QED BY <1>2, <2>2, <2>4, <2>5 DEF NodeOK
<1>6. CASE Finish
  <2>1. /\ patched' \in {patched, FALSE} /\ updating' = FALSE /\ step' = "remove"
        /\ OnDisk /\ UNCHANGED <<disk, queue, cmd, node>>
    BY <1>6 DEF Finish, Unpatched, At, FileThere, Flashing
  <2>2. FlasherOK' /\ FileThere'
    BY <2>1 DEF FlasherOK, FlashSteps, FileThere, OnDisk
  <2> QED BY <1>1, <1>2, <2>1, <2>2 DEF FileOK, NodeOK, node
<1>7. CASE Remove
  <2>1. /\ disk' = NoFile /\ step' = "idle" /\ cmd' = NoCommand
        /\ UNCHANGED <<queue, patched, updating, node>>
    BY <1>7 DEF Remove
  <2>2. FlasherOK' /\ FileThere'
    BY <2>1 DEF FlasherOK, FlashSteps, FileThere, Flashing
  <2>3. FileOK'
    BY <1>1, <2>1, Zenon DEF FileOK
  <2>4. NodeOK'
    BY <2>1 DEF NodeOK, node
  <2> QED BY <1>2, <2>2, <2>3, <2>4
<1> QED BY <1>3, <1>4, <1>5, <1>6, <1>7 DEF Flasher

LEMMA OperatorType ==
    ASSUME TypeInv, Operator \/ (\E c \in Commands : Repeat(c)) \/ Restart
    PROVE  TypeInv'
<1> USE DEF TypeInv
<1>1. ASSUME NEW c \in Commands, Command(c) \/ Repeat(c) PROVE TypeInv'
  <2>1. /\ queue' = Append(queue, c) /\ upload' = upload /\ ground' \in {ground, "wait"}
        /\ UNCHANGED <<files, step, cmd, patched, updating, node>>
        /\ Calm \/ Upset
        /\ repeats' = repeats \/ (Upset /\ repeats' = repeats + 1)
    BY <1>1 DEF Command, Repeat
  <2>2. CountsOK' /\ FileOK' /\ UploadOK' /\ NodeOK'
    BY <2>1, CountsType DEF FileOK, UploadOK, NodeOK, files, node
  <2>3. FlasherOK' /\ FileThere'
    BY <2>1 DEF FlasherOK, FileThere, OnDisk, files
  <2> QED BY <2>2, <2>3
<1>2. CASE Look
  <2>1. /\ ground' = "upload" /\ Calm
        /\ UNCHANGED <<files, upload, flasher, node, repeats>>
    BY <1>2 DEF Look
  <2>2. CountsOK' /\ FileOK' /\ UploadOK' /\ NodeOK'
    BY <2>1, CountsType DEF FileOK, UploadOK, NodeOK, files, node
  <2> QED BY <2>1, <2>2 DEF FlasherOK, FileThere, OnDisk, files, flasher
<1>3. CASE Restart
  <2>1. /\ indexed' = OnDisk /\ disk' = disk /\ upload' = "idle" /\ ground' = "upload"
        /\ queue' = <<>> /\ step' = "idle" /\ cmd' = NoCommand
        /\ patched' = FALSE /\ updating' = FALSE /\ UNCHANGED <<node, repeats>>
        /\ Calm \/ Upset
    BY <1>3 DEF Restart
  <2>2. CountsOK' /\ FileOK' /\ UploadOK' /\ NodeOK'
    BY <2>1, CountsType DEF FileOK, UploadOK, NodeOK, OnDisk, node
  <2>3. queue' \in Seq(Commands) /\ step' \in FlashSteps /\ FileThere'
    BY <2>1 DEF FlashSteps, FileThere, Flashing
  <2>4. FlasherOK'
    BY <2>1, <2>3, Zenon DEF FlasherOK
  <2> QED BY <2>2, <2>3, <2>4
<1> QED BY <1>1, <1>2, <1>3 DEF Operator

LEMMA TypeNext == TypeInv /\ [Next]_vars => TypeInv'
<1> SUFFICES ASSUME TypeInv, [Next]_vars PROVE TypeInv'
  OBVIOUS
<1>1. CASE UNCHANGED vars
  BY <1>1 DEF TypeInv, vars, files, flasher, node, FileOK, UploadOK, FlasherOK, NodeOK,
              CountsOK, FileThere, OnDisk
<1> QED BY <1>1, ReceiverType, FlasherType, OperatorType DEF Next

LEMMA Typed == Spec => []TypeInv
BY InitType, TypeNext, PTL DEF Spec

\* TypeOK: the model keeps its types, and a flash under way always has its file
\* (node_flasher.py:182), for every image and any number of upsets.
THEOREM Typing == Spec => [](TypeOK /\ FileThere)
<1>1. TypeInv => TypeOK /\ FileThere
  <2>1. FileOK => indexed \in BOOLEAN /\ disk \in (SUBSET Segments) \cup {NoFile}
    BY Zenon DEF FileOK
  <2> QED BY <2>1, Zenon DEF TypeInv, TypeOK, UploadOK, FlasherOK, NodeOK, CountsOK
<1> QED BY <1>1, Typed, PTL
-----------------------------------------------------------------------------
(* What a flash leaves behind.  The flasher is the only one who touches    *)
(* the send function and the node's status; between the steps that change  *)
(* them and the one that changes them back, no exception ends the flash.   *)
TidyInv ==
    /\ patched => cmd = "throttled" /\ step \in {"begin", "clear", "load", "start", "finish"}
    /\ updating => step \in {"clear", "load", "start", "finish"}

LEMMA TidyNext == TidyInv /\ [Next]_vars => TidyInv'
<1> SUFFICES ASSUME TidyInv, [Next]_vars PROVE TidyInv'
  OBVIOUS
<1> USE DEF TidyInv
<1>1. CASE Take
  BY <1>1 DEF Take, At
<1>2. CASE Check
  <2>1. /\ patched' => step' = "begin" /\ cmd = "throttled"
        /\ step = "check" /\ UNCHANGED <<cmd, updating>>
    BY <1>2 DEF Check, At
  <2> QED BY <2>1
<1>3. CASE Begin \/ Clear \/ Load \/ StartProgram
  BY <1>3 DEF Begin, Clear, Load, StartProgram, At
<1>4. CASE Finish
  <2>1. ~patched' /\ ~updating'
    BY <1>4 DEF Finish, Unpatched
  <2> QED BY <2>1
<1>5. CASE Remove
  BY <1>5 DEF Remove, At
<1>6. CASE Restart
  BY <1>6 DEF Restart
<1>7. CASE Receiver \/ Look \/ UNCHANGED vars
  BY <1>7 DEF Receiver, Metadata, WriteData, Complete, StoreRaises, LoseTransfer, Look,
              vars, flasher
<1>8. ASSUME NEW c \in Commands, Command(c) \/ Repeat(c) PROVE TidyInv'
  BY <1>8 DEF Command, Repeat
<1> QED BY <1>1, <1>2, <1>3, <1>4, <1>5, <1>6, <1>7, <1>8 DEF Next, Flasher, Operator

\* LeftAsFound: whatever a flash ran into, when the flasher is done the CAN bus has its
\* own send function and the node manager looks after the node (node_flasher.py:220).
THEOREM Tidy == Spec => []LeftAsFound
<1>1. Init => TidyInv
  BY DEF Init, TidyInv
<1>2. TidyInv => LeftAsFound
  BY DEF TidyInv, LeftAsFound
<1> QED BY <1>1, <1>2, TidyNext, PTL DEF Spec
-----------------------------------------------------------------------------
(* Which file is flashed.  With no command repeated, what the operator is  *)
(* about says where the flasher and the receiver are: one command at most  *)
(* is under way, after a whole upload, and no upload meanwhile.            *)
QuietFlasher == queue = <<>> /\ step = "idle"
InTurn ==
    /\ upload = "receiving" => ground = "send"
    /\ ground \in {"upload", "send"} => QuietFlasher
    /\ ground = "command" => QuietFlasher /\ Whole
    /\ ground = "wait" =>
          \/ QuietFlasher
          \/ step = "idle" /\ Len(queue) = 1 /\ Whole
          \/ step # "idle" /\ queue = <<>> /\ Whole
TurnInv == repeats = 0 => InTurn

LEMMA TurnNext == TypeInv /\ TurnInv /\ [Next]_vars => TurnInv'
<1> SUFFICES ASSUME TypeInv, TurnInv, [Next]_vars, repeats' = 0 PROVE InTurn'
  BY DEF TurnInv
<1> USE DEF InTurn, QuietFlasher, Whole
<1>0. repeats \in Nat /\ upsets \in Nat /\ queue \in Seq(Commands)
  BY UpsetsAssumption DEF TypeInv, CountsOK, FlasherOK, UpsetsAssumption
<1>1. ASSUME NEW c \in Commands PROVE ~Repeat(c)
  BY <1>0 DEF Repeat
<1>2. repeats = 0 /\ InTurn
  <2>1. repeats' = repeats
    BY <1>1 DEF Next, Receiver, Metadata, WriteData, Complete, StoreRaises, LoseTransfer,
       Flasher, Take, Check, Begin, Clear, Load, StartProgram, Finish, Remove, At,
       Operator, Command, Look, Restart, vars
  <2> QED BY <2>1 DEF TurnInv
<1>3. CASE Metadata
  BY <1>2, <1>3 DEF Metadata, flasher
<1>4. ASSUME NEW s \in Segments, WriteData(s) PROVE InTurn'
  BY <1>2, <1>4 DEF WriteData, flasher
<1>5. CASE Complete
  BY <1>2, <1>5 DEF Complete, Verified, flasher, files
<1>6. CASE StoreRaises \/ LoseTransfer
  BY <1>2, <1>6 DEF StoreRaises, LoseTransfer, flasher, files
<1>7. CASE Take
  <2>1. queue # <<>> /\ step = "idle" /\ UNCHANGED <<upload, ground, disk>>
        /\ queue' = Tail(queue) /\ step' = "check"
    BY <1>7 DEF Take, At
  <2>2. Len(queue) = 1 /\ Whole /\ ground = "wait"
    BY <1>2, <2>1 DEF TypeInv, UploadOK
  <2> QED BY <1>0, <1>2, <2>1, <2>2
<1>8. CASE Check \/ Begin \/ Clear \/ Load \/ StartProgram \/ Finish
  <2>1. step # "idle" /\ UNCHANGED <<upload, ground, disk, queue>>
    BY <1>8 DEF Check, Begin, Clear, Load, StartProgram, Finish, At
  <2> QED BY <1>2, <2>1
<1>9. CASE Remove
  <2>1. step = "remove" /\ step' = "idle" /\ UNCHANGED <<upload, ground, queue>>
    BY <1>9 DEF Remove, At
  <2> QED BY <1>2, <2>1
<1>10. ASSUME NEW c \in Commands, Command(c) PROVE InTurn'
  <2>1. ground = "command" /\ queue' = Append(queue, c) /\ ground' = "wait"
        /\ UNCHANGED <<upload, step, disk>>
    BY <1>10 DEF Command, files
  <2> QED BY <1>0, <1>2, <2>1
<1>11. CASE Look
  BY <1>2, <1>11 DEF Look, flasher
<1>12. CASE Restart
  BY <1>12 DEF Restart
<1>13. CASE UNCHANGED vars
  BY <1>2, <1>13 DEF vars, files, flasher
<1> QED BY <1>1, <1>3, <1>4, <1>5, <1>6, <1>7, <1>8, <1>9, <1>10, <1>11, <1>12, <1>13
           DEF Next, Receiver, Flasher, Operator

\* ClearedForWhole: as long as no flash command is repeated, no node is stopped and
\* cleared for a file that is not whole (node_flasher.py:182), whatever fails.
THEOREM OnlyWhole == Spec => []ClearedForWhole
<1>1. Init => TurnInv
  BY DEF Init, TurnInv, InTurn, QuietFlasher
<1>2. TypeInv /\ TurnInv => ClearedForWhole
  BY DEF TypeInv, UploadOK, TurnInv, InTurn, QuietFlasher, ClearedForWhole
<1> QED BY <1>1, <1>2, TurnNext, Typed, PTL DEF Spec
=============================================================================
