------------------------------ MODULE OpdCalls ------------------------------
(***************************************************************************)
(* What the callers of one OpdNode may count on: as long as the registers  *)
(* of its MAX7310 are known, each call acts on the card in one step, as    *)
(* OpdCard says.  They are no longer known once two calls overlap or the   *)
(* chip is lost or found during a call, until a call configures it anew.   *)
(***************************************************************************)
EXTENDS OpdCard

VARIABLES processor, known, card

\* The card may be told to enter its bootloader if it is an STM32.
BootModes == {FALSE} \cup {processor = "stm32"}

\* Connecting a card to the UART only shows in its status when it fails.
UartFailed(c) ==
    IF c.present \/ processor = "none" THEN c ELSE [c EXCEPT !.st = "FAULT"]

Results(c) ==
    {Probed(c, reset) : reset \in BOOLEAN}
    \cup {PoweredOn(c, processor, bootloader) : bootloader \in BootModes}
    \cup {PoweredOff(c, processor), StatusRead(c), UartFailed(c)}
    \cup PulseOutcomes(c)

Init == processor \in Processors /\ known = FALSE /\ card = NoCard

Call == known /\ card' \in Results(card) /\ known' = TRUE

Configured ==
    /\ ~known /\ known'
    /\ \E c \in Cards : c.present /\ card' = Unpowered(c)

LoseTrack == known' = FALSE /\ card' = NoCard

\* The chip stops or begins to answer, or browns out; the circuit breaker trips.
World ==
    /\ known /\ known'
    /\ \/ \E present \in BOOLEAN : card' = [card EXCEPT !.present = present]
       \/ HasPower(card) /\ card' = [card EXCEPT !.tripped = TRUE]
       \/ card' = BrownedOut(card)

Next == UNCHANGED processor /\ (Call \/ Configured \/ LoseTrack \/ World)
Spec == Init /\ [][Next]_<<processor, known, card>>
=============================================================================
