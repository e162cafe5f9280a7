------------------------------- MODULE OpdCard -------------------------------
(***************************************************************************)
(* A card on the OPD and what each operation of OpdNode and its subclasses *)
(* (oresat_c3/subsystems/opd.py) makes of it, when nothing else touches    *)
(* its MAX7310 meanwhile.  OpdNode, access by access to the registers,     *)
(* implements these operations; NodeManager uses them.                     *)
(***************************************************************************)

OpdNodeStates == {"DISABLED", "ENABLED", "FAULT", "NOT_FOUND"}

\* OpdNode, OpdStm32Node, OpdMcxnNode and OpdOctavoNode, by Card.processor.
Processors == {"none", "stm32", "mcxn", "octavo"}

\* present: its MAX7310 answers; pin, boot: the enable and bootloader bits of the
\* output register; ready: the enable pin is an output, as it is once configured;
\* tripped: the fault input; hung: powered, but sends no heartbeat;
\* st: OpdNode._status.
Cards == [present : BOOLEAN, pin : BOOLEAN, boot : BOOLEAN, ready : BOOLEAN,
          tripped : BOOLEAN, hung : BOOLEAN, st : OpdNodeStates]

\* Stands for a card that is not looked at.
NoCard == [present |-> FALSE, pin |-> FALSE, boot |-> FALSE, ready |-> FALSE,
           tripped |-> FALSE, hung |-> FALSE, st |-> "NOT_FOUND"]

\* OpdNode.status, and the fault bit it may set.
StatusRead(c) ==
    IF ~c.present THEN [c EXCEPT !.st = "NOT_FOUND"]
    ELSE IF c.pin /\ c.tripped THEN [c EXCEPT !.st = "FAULT"]
    ELSE c

Unpowered(c) == [c EXCEPT !.pin = FALSE, !.boot = FALSE, !.ready = TRUE,
                          !.hung = FALSE, !.st = "DISABLED"]

\* OpdNode.probe.  Only a card that was missing, or a reset, is configured anew.
Probed(c, reset) ==
    IF ~c.present THEN [c EXCEPT !.st = "NOT_FOUND"]
    ELSE IF reset \/ c.st = "NOT_FOUND" THEN Unpowered(c)
    ELSE [c EXCEPT !.st = "DISABLED"]

\* The overrides of enable and disable that write the whole configuration, and so
\* make an output of the enable pin again.
Rewrites(processor) == processor \in {"stm32", "mcxn"}

\* OpdNode.enable and its overrides: the class of a card with a processor writes
\* its boot pin first, whether or not the card was found.
PoweredOn(c, processor, bootloader) ==
    LET wired == [c EXCEPT !.boot = bootloader, !.ready = @ \/ Rewrites(processor)]
    IN  IF c.present /\ c.st # "NOT_FOUND" THEN [wired EXCEPT !.pin = TRUE,
                                                              !.st = "ENABLED"]
        ELSE IF c.present THEN wired
        ELSE IF processor # "none" \/ c.st # "NOT_FOUND"
        THEN [c EXCEPT !.st = "FAULT"]
        ELSE c

\* OpdNode.disable and its overrides.
MarkedOff(c, processor) ==
    [c EXCEPT !.st = IF c.present THEN "DISABLED" ELSE "FAULT"]
PoweredOff(c, processor) ==
    IF c.present THEN [Unpowered(c) EXCEPT !.ready = c.ready \/ Rewrites(processor)]
    ELSE [c EXCEPT !.st = "FAULT"]

\* OpdNode.reset, the pulse on the circuit breaker's reset pin, which may or may
\* not cure the card.  The enable pin is not touched.
PulseOutcomes(c) ==
    IF c.present
    THEN {[c EXCEPT !.tripped = t, !.hung = h,
                    !.st = IF t THEN "FAULT" ELSE "ENABLED"]
          : t \in {FALSE, c.tripped}, h \in {FALSE, c.hung}}
    ELSE {[c EXCEPT !.st = "FAULT"]}

\* A brown-out: the registers of the MAX7310 return to their defaults.
BrownedOut(c) == [c EXCEPT !.pin = FALSE, !.boot = FALSE, !.ready = FALSE,
                           !.hung = FALSE]

HasPower(c) == c.pin /\ c.ready
=============================================================================
