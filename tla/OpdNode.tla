------------------------------- MODULE OpdNode -------------------------------
(***************************************************************************)
(* One card on the OPD (oresat_c3/subsystems/opd.py) and the registers of  *)
(* its MAX7310 (oresat_c3/drivers/max7310.py), between two threads that    *)
(* call the same OpdNode object without a lock: the node manager's loop,   *)
(* and the EDL service or an SDO callback.                                 *)
(*                                                                         *)
(* One access to the chip on the I2C bus, with the code up to the next, is *)
(* one step: setting or clearing an output is a read and then a write.  An *)
(* access fails exactly while the chip does not answer.  What a call has   *)
(* left to do is a sequence of try blocks, each a sequence of accesses.    *)
(* Left out of the registers: the timeout and the polarity, which nothing  *)
(* here depends on, and the pins for the I2C bootloader, always inputs.    *)
(***************************************************************************)
EXTENDS OpdCard, Integers, Sequences

CONSTANTS
    Classes,   \* bound: the classes explored, a subset of Processors
    Manager, Ground, \* the two threads
    CallsOf,   \* bound: the calls each makes
    MaxUpsets  \* bound: how often the chip is lost, browns out, or the breaker trips

VARIABLES
    processor, \* the class of the card's object
    present,   \* the chip answers
    tripped,   \* the fault input
    out,       \* the output register, as the set of its pins set
    inputs,    \* the configuration register, as the set of the pins that are inputs
    st,        \* OpdNode._status
    call,      \* what each thread's call is and has left to do
    upsets,    \* upsets so far
    mixed,     \* history: the threads whose call overlapped another
    upset,     \* history: those during whose call an upset happened
    known,     \* history: see OpdCalls
    before,    \* history: the card when the call in progress began
    cut        \* history: disable answered DISABLED and no enable began since; whether
               \* no other call overlapped it

chip == <<present, tripped, out, inputs>>
history == <<mixed, upset, known, before, cut>>
vars == <<processor, chip, st, call, upsets, history>>

Threads == {Manager, Ground}
Pins == {"enable", "cbReset", "boot", "uart"}
Calls == {"probe", "rescan", "enable", "bootloader", "disable", "reset", "reset3",
          "status", "connect", "disconnect"}

ASSUME OpdNodeAssumption ==
    /\ Classes \subseteq Processors /\ Classes # {} /\ Manager # Ground
    /\ CallsOf \in [Threads -> SUBSET Calls] /\ MaxUpsets \in Nat
-----------------------------------------------------------------------------
\* The accesses of the driver.

Set(pin) == [do |-> "set", on |-> {pin}]
Clear(pin) == [do |-> "clear", on |-> {pin}]
Output(pins) == [do |-> "output", on |-> pins]
Configuration(pins) == [do |-> "configuration", on |-> pins]
Valid == [do |-> "valid", on |-> {}]     \* is_valid: reads the inputs
Enabled == [do |-> "enabled", on |-> {}] \* output_status of the enable pin
Fault == [do |-> "fault", on |-> {}]     \* input_status of the fault pin
Other == [do |-> "other", on |-> {}]     \* a write of the timeout or the polarity

\* Max7310.configure and Max7310.reset.
Configure(pins) == <<Output({}), Configuration(pins)>>
ResetRegisters == <<Configuration(Pins), Output({}), Other>>

\* The pins that are inputs in each mode.
On(class) == IF class = "mcxn" THEN {"boot"} ELSE {}
Off(class) == IF class = "stm32" THEN {"boot"} ELSE {}
-----------------------------------------------------------------------------
\* A try block: the status it leaves if its accesses succeed or if one fails, and
\* with which of the two outcomes the call ends; "found" if it is only entered
\* when the status is not NOT_FOUND.
Keep == "keep"
Try(steps, ok, bad, last) ==
    [steps |-> steps, ok |-> ok, bad |-> bad, last |-> last, found |-> FALSE]

ConfigureCall(class) == <<Try(Configure(Off(class)), "DISABLED", "FAULT", {})>>
RescanCall(class) ==
    <<Try(ResetRegisters, Keep, "NOT_FOUND", {"failed"})>> \o ConfigureCall(class)

\* The end of probe, whatever its configure left in the status.
Settled(blocks) == IF blocks = <<>> THEN <<>>
                   ELSE [blocks EXCEPT ![Len(blocks)] =
                           [@ EXCEPT !.ok = "DISABLED", !.bad = "DISABLED"]]

\* What probe does once the chip answers, while its status is s.
Found(class, s, reset) ==
    Settled((IF s = "NOT_FOUND" THEN ConfigureCall(class) ELSE <<>>)
            \o (IF reset THEN RescanCall(class) ELSE <<>>))

Straps(class, bootloader) ==
    CASE class = "none" -> <<>>
      [] class = "stm32" /\ bootloader  -> <<Configuration(On(class)), Set("boot")>>
      [] class = "stm32" /\ ~bootloader -> <<Clear("boot"), Configuration(Off(class))>>
      [] class = "mcxn" /\ bootloader   -> <<Clear("boot"), Configuration(On(class))>>
      [] class = "mcxn" /\ ~bootloader  -> <<Configuration(Off(class)), Set("boot")>>
      [] class = "octavo" -> <<Set("boot")>>

PowersAnyway(class, bootloader) ==
    (IF class = "none" THEN <<>>
     ELSE <<Try(Straps(class, bootloader), Keep, Keep, {})>>)
    \o <<[Try(<<Set("enable")>>, "ENABLED", "FAULT", {"done"}) EXCEPT !.found = TRUE]>>
EnableCall(class, bootloader) ==
    (IF class = "none" THEN <<>>
     ELSE <<Try(Straps(class, bootloader), Keep, "FAULT", {"failed"})>>)
    \o <<[Try(<<Set("enable")>>, "ENABLED", "FAULT", {"done"}) EXCEPT !.found = TRUE]>>

OnlyStraps(class) == <<Try(<<Clear("boot")>>, "DISABLED", "FAULT", {})>>
DisableCall(class) ==
    (IF Rewrites(class) THEN <<Try(Straps(class, FALSE), Keep, Keep, {})>> ELSE <<>>)
    \o <<Try(<<Clear("enable")>>, "DISABLED", "FAULT", {})>>

Unchecked == Try(<<Set("cbReset"), Clear("cbReset")>>, "ENABLED", "FAULT", {"done"})
Attempt == Try(<<Set("cbReset"), Clear("cbReset"), Fault>>, "ENABLED", "FAULT",
               {"done"})
StatusCall == <<Try(<<Valid>>, Keep, "NOT_FOUND", {"failed"}),
                Try(<<Enabled>>, Keep, "FAULT", {"failed"}),
                Try(<<Fault>>, Keep, "FAULT", {})>>

UartCall(class, step) ==
    IF class = "none" THEN <<>> ELSE <<Try(<<step>>, Keep, "FAULT", {})>>

NoCall == [op |-> "status", todo |-> <<>>]

\* What a call does first; a probe learns the rest from its first access.
Body(class, op) ==
    CASE op \in {"probe", "rescan"} -> <<Try(<<Valid>>, Keep, "NOT_FOUND", {"failed"})>>
      [] op = "enable"     -> EnableCall(class, FALSE)
      [] op = "bootloader" -> EnableCall(class, TRUE)
      [] op = "disable"    -> DisableCall(class)
      [] op = "reset"      -> <<Attempt>>
      [] op = "reset3"     -> <<Attempt, Attempt, Attempt>>
      [] op = "status"     -> StatusCall
      [] op = "connect"    -> UartCall(class, Set("uart"))
      [] op = "disconnect" -> UartCall(class, Clear("uart"))
-----------------------------------------------------------------------------
Idle(t) == call[t].todo = <<>>
Busy == \E t \in Threads : ~Idle(t)
Power == "enable" \in out \ inputs

\* OpdCard's view of the card.
View == [present |-> present, pin |-> "enable" \in out,
         boot |-> processor = "stm32" /\ "boot" \in out,
         ready |-> "enable" \notin inputs, tripped |-> tripped, hung |-> FALSE, st |-> st]

StepKinds == {"set", "clear", "output", "configuration", "valid", "enabled", "fault",
              "other"}
TypeOK ==
    /\ processor \in Classes /\ present \in BOOLEAN /\ tripped \in BOOLEAN
    /\ out \subseteq Pins /\ inputs \subseteq Pins /\ st \in OpdNodeStates
    /\ \A t \in Threads :
         /\ call[t].op \in Calls
         /\ \A i \in DOMAIN call[t].todo :
              /\ call[t].todo[i].steps # <<>>
              /\ \A j \in DOMAIN call[t].todo[i].steps :
                   LET step == call[t].todo[i].steps[j]
                   IN  step.do \in StepKinds /\ step.on \subseteq Pins
    /\ upsets \in 0..MaxUpsets /\ mixed \subseteq Threads /\ upset \subseteq Threads
    /\ known \in BOOLEAN /\ before \in Cards /\ cut \in {"no", "mixed", "alone"}

\* The chip has its defaults, or what an earlier run of the program left in it.
Init ==
    /\ processor \in Classes /\ present \in BOOLEAN /\ tripped = FALSE
    /\ \/ out = {} /\ inputs = Pins
       \/ out = {"enable"} /\ inputs = Off(processor)
    /\ st = "NOT_FOUND"
    /\ call = [t \in Threads |-> NoCall]
    /\ upsets = 0 /\ mixed = {} /\ upset = {} /\ known = FALSE
    /\ before = NoCard /\ cut = "no"
-----------------------------------------------------------------------------
\* The threads.

Powering == {"enable", "bootloader"}

\* A call enters the next of its blocks, unless that is enable's and the card is
\* NOT_FOUND just then.
Entered(blocks, s) ==
    IF blocks # <<>> /\ s = "NOT_FOUND" /\ Head(blocks).found THEN <<>> ELSE blocks

Begin(t, op) ==
    LET blocks == Entered(Body(processor, op), st)
    IN  /\ Idle(t) /\ op \in CallsOf[t]
        /\ op = "bootloader" => processor = "stm32"
        /\ blocks # <<>>
        /\ call' = [call EXCEPT ![t] = [op |-> op, todo |-> blocks]]
        /\ mixed' = IF Busy THEN Threads ELSE {}
        /\ known' = (known /\ ~Busy)
        /\ before' = IF Busy THEN NoCard ELSE View
        /\ cut' = IF op \in Powering THEN "no" ELSE cut
        /\ UNCHANGED <<processor, chip, st, upsets, upset>>

\* The thread's step, and the call's and the node's state after it.
Block(t) == Head(call[t].todo)
Step(t) == Head(Block(t).steps)

Continue(t, blocks, status) ==
    /\ st' = status
    /\ call' = [call EXCEPT ![t] = IF blocks = <<>> THEN NoCall
                                   ELSE [@ EXCEPT !.todo = blocks]]

Leave(t, outcome, status) ==
    LET now == IF status = Keep THEN st ELSE status
    IN  Continue(t, IF outcome \in Block(t).last THEN <<>>
                    ELSE Entered(Tail(call[t].todo), now), now)

Succeed(t) ==
    IF Len(Block(t).steps) > 1
    THEN Continue(t, [call[t].todo EXCEPT ![1].steps = Tail(@)], st)
    ELSE Leave(t, "done", Block(t).ok)

\* A failed read of the enable bit leaves a card NOT_FOUND so.
Fail(t) ==
    Leave(t, "failed", IF Step(t).do = "enabled" /\ st = "NOT_FOUND"
                       THEN Keep ELSE Block(t).bad)

Probing(t) == call[t].op \in {"probe", "rescan"} /\ Step(t).do = "valid"

ProbeFinds(t) ==
    LET blocks == Found(processor, st, call[t].op = "rescan")
    IN  Continue(t, blocks, IF blocks = <<>> THEN "DISABLED" ELSE st)

\* output_set and output_clear read the register, then write what they read changed.
Reads(t) ==
    /\ Step(t).do \in {"set", "clear"}
    /\ LET value == IF Step(t).do = "set" THEN out \cup Step(t).on ELSE out \ Step(t).on
       IN  Continue(t, [call[t].todo EXCEPT ![1].steps[1] = Output(value)], st)
    /\ UNCHANGED chip

\* The end of a pulse on its reset pin may cure the circuit breaker.
Writes(t) ==
    /\ \/ /\ Step(t).do = "output" /\ out' = Step(t).on
          /\ \/ tripped' = tripped
             \/ "cbReset" \in (out \ out') \ inputs /\ tripped' = FALSE
          /\ UNCHANGED inputs
       \/ /\ Step(t).do = "configuration" /\ inputs' = Step(t).on
          /\ UNCHANGED <<tripped, out>>
       \/ Step(t).do = "other" /\ UNCHANGED <<tripped, out, inputs>>
    /\ Succeed(t)
    /\ UNCHANGED present

Tests(t) ==
    /\ \/ Step(t).do = "valid" /\ IF Probing(t) THEN ProbeFinds(t) ELSE Succeed(t)
       \/ /\ Step(t).do = "enabled"
          /\ IF "enable" \in out THEN Succeed(t) ELSE Continue(t, <<>>, st)
       \/ Step(t).do = "fault" /\ IF tripped THEN Fail(t) ELSE Succeed(t)
    /\ UNCHANGED chip

Ends(t) == ~Idle(t) /\ call'[t].todo = <<>>
Calm(t) == t \notin mixed \cup upset

Access(t) ==
    /\ ~Idle(t)
    /\ \/ present /\ (Reads(t) \/ Writes(t) \/ Tests(t))
       \/ ~present /\ Fail(t) /\ UNCHANGED chip
    /\ known' = (known \/ /\ Ends(t) /\ Calm(t)
                          /\ call[t].op = "rescan" /\ st' = "DISABLED")
    /\ cut' = IF /\ Ends(t) /\ call[t].op = "disable" /\ st' = "DISABLED"
                 /\ \A s \in Threads : Idle(s) \/ call[s].op \notin Powering
              THEN IF t \in mixed THEN "mixed" ELSE "alone"
              ELSE cut
    /\ IF Ends(t)
       THEN mixed' = mixed \ {t} /\ upset' = upset \ {t} /\ before' = NoCard
       ELSE UNCHANGED <<mixed, upset, before>>
    /\ UNCHANGED <<processor, upsets>>
-----------------------------------------------------------------------------
\* The chip and the circuit breaker.

Happens ==
    /\ upset' = {t \in Threads : ~Idle(t)} \cup upset
    /\ known' = (known /\ ~Busy)
    /\ UNCHANGED <<processor, st, call, mixed, before, cut>>

Upset == /\ \/ present /\ present' = FALSE /\ UNCHANGED <<tripped, out, inputs>>
            \/ Power /\ ~tripped /\ tripped' = TRUE /\ UNCHANGED <<present, out, inputs>>
            \/ present /\ out' = {} /\ inputs' = Pins /\ UNCHANGED <<present, tripped>>
         /\ upsets < MaxUpsets /\ upsets' = upsets + 1
         /\ Happens

Return == /\ ~present /\ present' = TRUE
          /\ Happens /\ UNCHANGED <<tripped, out, inputs, upsets>>

Next == \/ \E t \in Threads : (\E op \in Calls : Begin(t, op)) \/ Access(t)
        \/ Upset \/ Return
Spec == Init /\ [][Next]_vars
-----------------------------------------------------------------------------
\* Properties.

\* While no two calls overlap, whatever is lost and found in between, what NodeManager
\* takes for one step on the card is one: the accesses of a call, their order and
\* their failures add up to the operation OpdCard gives it.
Sequential == INSTANCE OpdCalls
              WITH card <- IF ~known THEN NoCard ELSE IF Busy THEN before ELSE View
ImplementsCalls == Sequential!Spec

\* Once disable has answered DISABLED without another call beside it, the card has no
\* power until someone enables it: however calls overlap after that, whatever the
\* registers held before, and whatever happens to the chip.
CutStaysOff == cut = "alone" => ~Power

\* A card is given power in the mode the caller asked for: its boot pin is what the
\* processor reads when it starts, and nothing that happens to the chip during the
\* call lets it start with another.  (A write that a brown-out overtook can leave the
\* enable bit set under a pin that is an input: not then.)
Strapped(op) ==
    CASE processor = "stm32" -> IF op = "bootloader" THEN "boot" \in out' \ inputs'
                                ELSE "boot" \in inputs' \ out'
      [] processor \in {"mcxn", "octavo"} -> "boot" \in out' \ inputs'
      [] OTHER -> TRUE
BootsAsAsked ==
    [][\A t \in Threads :
         ~Idle(t) /\ call[t].op \in Powering /\ t \notin mixed /\ ~before.pin
           /\ ~Power /\ Power' => Strapped(call[t].op)]_vars
-----------------------------------------------------------------------------
\* What the documentation says, and the code does not do.

\* opd.py:323-335, "Disable the OPD node", and :30, "OPD Node is off": once disable has
\* answered DISABLED the card has no power until someone enables it, also if another
\* call was in progress, whose write of the output register may bring it back.
DisableTurnsOff == cut # "no" => ~Power

\* opd.py:32, "OPD Node is on": an undisturbed enable that answers ENABLED gave the card
\* power, also when the configure inside an earlier probe had failed.
EnabledIsOn ==
    [][\A t \in Threads :
         Ends(t) /\ call[t].op \in Powering /\ st' = "ENABLED" /\ Calm(t) => Power']_vars
=============================================================================
