------------------------------- MODULE Firmware -------------------------------
(***************************************************************************)
(* New firmware for a node, from the ground to its bootloader: the ground  *)
(* uploads the image over CFDP into the cache store                        *)
(* (oresat_c3/protocols/cachestore.py) and has it flashed by CO_NODE_FLASH *)
(* (oresat_c3/services/node_flasher.py), which removes the file.           *)
(*                                                                         *)
(* The cache store keeps an index of its names, _data, and looks there     *)
(* first.  The flasher, in a thread of its own, goes past the store, to    *)
(* the file: after a flash the index has a name the disk has not.          *)
(*                                                                         *)
(* The CFDP destination handler is a library: what it does with an         *)
(* exception of the store is left open, it fails the transfer or the       *)
(* thread ends, which the watchdog does not look at.                       *)
(***************************************************************************)
EXTENDS Integers, Sequences

CONSTANTS
    Segments,  \* the segments of the image
    NoFile,    \* what is on disk when nothing is
    MaxUpsets  \* bound: faults, repeated commands and resets

VARIABLES
    indexed,  \* the name is in CacheStore._data
    disk,     \* the segments in the file, or NoFile
    upload,   \* the destination handler: idle, receiving, or its thread dead
    ground,   \* what the operator is about
    queue,    \* the commands in command_queue
    step,     \* where the flasher is
    cmd,      \* the command it is at
    patched,  \* network._network.bus.send is the throttled one
    updating, \* the node manager takes the node to be updating
    slot,     \* what the node's upgrade slot holds
    running,  \* the image the node runs
    repeats,  \* flash commands the operator has repeated
    upsets    \* upsets so far

files   == <<indexed, disk>>
flasher == <<queue, step, cmd, patched, updating>>
node    == <<slot, running>>
vars == <<files, upload, ground, flasher, node, repeats, upsets>>

FlashSteps == {"idle", "check", "begin", "clear", "load", "start", "finish", "remove"}

\* CO_NODE_FLASH for the node, with or without a delay between the CAN frames,
\* or for a node the C3 does not know.
Commands == {"plain", "throttled", "unknown"}
NoCommand == "none"

ASSUME SegmentsAssumption == Segments # {} /\ \A d \in SUBSET Segments : NoFile # d
ASSUME UpsetsAssumption == MaxUpsets \in Nat
-----------------------------------------------------------------------------
OnDisk == disk # NoFile
Whole == disk = Segments

Upset == upsets < MaxUpsets /\ upsets' = upsets + 1
Calm == UNCHANGED upsets

Init ==
    /\ indexed = FALSE /\ disk = NoFile
    /\ upload = "idle" /\ ground = "upload"
    /\ queue = <<>> /\ step = "idle" /\ cmd = NoCommand
    /\ patched = FALSE /\ updating = FALSE
    /\ slot = {} /\ running = "old"
    /\ repeats = 0 /\ upsets = 0
-----------------------------------------------------------------------------
(* The upload: the destination handler's calls of the cache store *)

\* open(.., "w") makes the file anew when only its name is left.
TruncatedInPlace == IF OnDisk THEN {} ELSE NoFile
Truncated == {}
Created == {}

Metadata ==
    /\ ground = "upload" /\ upload = "idle"
    /\ disk' = IF indexed THEN Truncated ELSE Created
    /\ indexed' = TRUE
    /\ upload' = "receiving"
    /\ ground' = "send"
    /\ Calm
    /\ UNCHANGED <<flasher, node, repeats>>

WriteData(s) ==
    /\ upload = "receiving" /\ OnDisk
    /\ s \notin disk
    /\ disk' = disk \cup {s}
    /\ Calm
    /\ UNCHANGED <<indexed, upload, ground, flasher, node, repeats>>

AnyData == disk # {}
Verified == Whole

Complete ==
    /\ upload = "receiving" /\ OnDisk /\ Verified
    /\ upload' = "idle"
    /\ ground' = "command"
    /\ Calm
    /\ UNCHANGED <<files, flasher, node, repeats>>

\* The flasher has removed the file: writing and checksumming raise.
StoreRaises ==
    /\ upload = "receiving" /\ ~OnDisk
    /\ upload' \in {"idle", "dead"}
    /\ ground' = "upload"
    /\ Calm
    /\ UNCHANGED <<files, flasher, node, repeats>>

LoseTransfer ==
    /\ upload = "receiving"
    /\ upload' = "idle"
    /\ ground' = "upload"
    /\ Upset
    /\ UNCHANGED <<files, flasher, node, repeats>>
-----------------------------------------------------------------------------
(* The operator *)

Command(c) ==
    /\ ground = "command"
    /\ queue' = Append(queue, c)
    /\ ground' = "wait"
    /\ Calm
    /\ UNCHANGED <<files, upload, step, cmd, patched, updating, node, repeats>>

\* A command sent a second time, out of turn, or wrong.
Repeat(c) ==
    /\ queue' = Append(queue, c)
    /\ repeats' = repeats + 1
    /\ Upset
    /\ UNCHANGED <<files, upload, ground, step, cmd, patched, updating, node>>

\* The operator waits for longer than a flash takes, then starts over.
Look ==
    /\ ground = "wait" /\ queue = <<>> /\ step = "idle"
    /\ ground' = "upload"
    /\ Calm
    /\ UNCHANGED <<files, upload, flasher, node, repeats>>

\* The C3 is reset, because uploads are no longer answered or for any other
\* reason.  The store makes its index from the directory.
Restart ==
    /\ IF upload = "dead" THEN Calm ELSE Upset
    /\ indexed' = OnDisk
    /\ upload' = "idle" /\ ground' = "upload"
    /\ queue' = <<>> /\ step' = "idle" /\ cmd' = NoCommand
    /\ patched' = FALSE /\ updating' = FALSE
    /\ UNCHANGED <<disk, node, repeats>>
-----------------------------------------------------------------------------
(* The flasher's loop *)

At(here) == step = here /\ UNCHANGED <<upload, ground, indexed, repeats>>

Take ==
    /\ At("idle") /\ queue # <<>>
    /\ cmd' = Head(queue)
    /\ queue' = Tail(queue)
    /\ step' = "check"
    /\ Calm
    /\ UNCHANGED <<disk, patched, updating, node>>

\* Without a file or a node the command is given up, and nothing is cleaned up.
Accepted == OnDisk /\ cmd # "unknown"

Check ==
    /\ At("check")
    /\ step' = IF Accepted THEN "begin" ELSE "idle"
    /\ patched' = (Accepted /\ cmd = "throttled")
    /\ Calm
    /\ UNCHANGED <<disk, queue, cmd, updating, node>>

Begin ==
    /\ At("begin")
    /\ updating' = TRUE
    /\ \/ step' = "clear" /\ Calm
       \/ step' = "finish" /\ Upset
    /\ UNCHANGED <<disk, queue, cmd, patched, node>>

Clear ==
    /\ At("clear")
    /\ \/ slot' = {} /\ step' = "load" /\ Calm
       \/ slot' \in {slot, {}} /\ step' = "finish" /\ Upset
    /\ UNCHANGED <<disk, queue, cmd, patched, updating, running>>

\* The file is read as it is now, and sent to the node.
Load ==
    /\ At("load")
    /\ \/ slot' = disk /\ step' = "start" /\ Calm
       \/ slot' \in SUBSET disk /\ step' = "finish" /\ Upset
    /\ UNCHANGED <<disk, queue, cmd, patched, updating, running>>

\* The bootloader takes the new image when its hash is right.
Boots == IF slot = Segments THEN "new" ELSE running

StartProgram ==
    /\ At("start")
    /\ \/ running' = Boots /\ Calm
       \/ running' \in {running, Boots} /\ Upset
    /\ step' = "finish"
    /\ UNCHANGED <<disk, queue, cmd, patched, updating, slot>>

(* finally: the send function, the node's status, then the file *)

StillPatched == patched
Unpatched == IF cmd = "throttled" THEN FALSE ELSE patched

Finish ==
    /\ At("finish")
    /\ patched' = Unpatched
    /\ updating' = FALSE
    /\ step' = "remove"
    /\ Calm
    /\ UNCHANGED <<disk, queue, cmd, node>>

Remove ==
    /\ At("remove")
    /\ disk' = NoFile
    /\ cmd' = NoCommand
    /\ step' = "idle"
    /\ Calm
    /\ UNCHANGED <<queue, patched, updating, node>>
-----------------------------------------------------------------------------
Receiver ==
    \/ Metadata \/ Complete \/ StoreRaises \/ LoseTransfer
    \/ \E s \in Segments : WriteData(s)

Flasher ==
    \/ Take \/ Check \/ Begin \/ Clear \/ Load \/ StartProgram
    \/ Finish \/ Remove

Operator ==
    \/ \E c \in Commands \ {"unknown"} : Command(c)
    \/ Look

Next ==
    \/ Receiver \/ Flasher \/ Operator
    \/ \E c \in Commands : Repeat(c)
    \/ Restart

Spec == Init /\ [][Next]_vars

\* The threads run, PDUs arrive in the end, the operator goes on trying and
\* resets a C3 that takes no more uploads.
FairSpec ==
    /\ Spec
    /\ WF_vars(Receiver) /\ WF_vars(Flasher) /\ WF_vars(Operator)
    /\ WF_vars(upload = "dead" /\ Restart)
-----------------------------------------------------------------------------
TypeOK ==
    /\ indexed \in BOOLEAN /\ disk \in (SUBSET Segments) \cup {NoFile}
    /\ upload \in {"idle", "receiving", "dead"}
    /\ ground \in {"upload", "send", "command", "wait"}
    /\ queue \in Seq(Commands) /\ step \in FlashSteps
    /\ cmd \in Commands \cup {NoCommand} /\ patched \in BOOLEAN /\ updating \in BOOLEAN
    /\ slot \subseteq Segments /\ running \in {"old", "new"}
    /\ repeats \in 0..upsets /\ upsets \in 0..MaxUpsets

(* An operator who goes on trying gets the image onto the node, whatever   *)
(* failed before: a flash that failed has removed its file and left its    *)
(* name in the index (node_flasher.py:228), and neither stops the next     *)
(* upload of that name or its flash.                                       *)
EventuallyFlashed == <>(running = "new")

(* As long as every command waits for its upload and is sent once, no node *)
(* is stopped and cleared for a file that is not whole: an upload that     *)
(* failed, or is being repeated, is never flashed (node_flasher.py:182).   *)
ClearedForWhole ==
    repeats = 0 /\ step \in {"begin", "clear", "load", "start"} => Whole

(* Whatever the flash ran into, when the flasher is done the CAN bus has   *)
(* its own send function again, and the node manager looks after the node  *)
(* (node_flasher.py:220).                                                  *)
LeftAsFound == step = "idle" => ~patched /\ ~updating
=============================================================================
