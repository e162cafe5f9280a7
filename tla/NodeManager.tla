----------------------------- MODULE NodeManager -----------------------------
(***************************************************************************)
(* The node manager (oresat_c3/services/node_manager.py): once a second it *)
(* surveys the cards of the satellite, then resets those in error, probes  *)
(* for those missing, and powers the ones that must always be on, through  *)
(* the OPD (oresat_c3/subsystems/opd.py).  Three other threads act on the  *)
(* same objects without a lock: the SDO callbacks and services that call   *)
(* the manager, the EDL service, which calls the OPD behind the manager's  *)
(* back, and the node flasher.                                             *)
(*                                                                         *)
(* One call on one card's MAX7310 is one step here, and so is a command on *)
(* the whole OPD.  The survey asks the OPD for a card's status up to four  *)
(* times before it decides, and assigns what it decided in a step of its   *)
(* own; the two ends of a reset, half a second apart, are two steps, and   *)
(* so are the two writes of a thread that powers a card, or ends its       *)
(* reflash, and then restarts its clock.                                   *)
(*                                                                         *)
(* Times are ages, monotonic() - t, that stop growing once past the        *)
(* timeout they are compared with.                                         *)
(***************************************************************************)
EXTENDS Integers, Sequences, OpdCard

CONSTANTS
    NodeOrder,   \* the cards but the C3, in the order of _data
    OnOpd,       \* those with an OPD address
    CanOpen,     \* those with a node id
    Processor,   \* the processor of each, which is the class of its OPD object
    AlwaysOn,    \* opd_always_on
    Child,       \* the card powered along with a card, or NoNode
    NoNode,
    MaxResets,   \* _MAX_CO_RESETS
    BootTimeout, \* _STM32_BOOT_TIMEOUT or _OCTAVO_BOOT_TIMEOUT, by card
    HbTimeout,   \* _RESET_TIMEOUT_S and _HB_TIMEOUT
    ProbeEvery,  \* missing cards are probed for every ProbeEvery loops (10)
    FlightMode,  \* flight_mode
    Commands,    \* bound: the commands explored
    Flashed,     \* bound: the cards that may be reflashed
    Upsets,      \* bound: the upsets explored, see UpsetKinds
    MaxUpsets    \* bound: how many upsets

VARIABLES
    opd,      \* Opd._status
    card,     \* the cards' hardware and OpdNode._status
    busUp,    \* bus_state is NETWORK_UP
    status,   \* Node.status
    resets,   \* Node.opd_resets
    updating, \* Node.is_updating
    stamping, \* the cards whose last_enable a thread is about to set
    bootAge,  \* monotonic() - Node.last_enable
    hbAge,    \* time since the last heartbeat
    pc,       \* where the manager's thread is
    cur,      \* the card its loop is at, an index of NodeOrder
    silent,   \* the survey it is at read no recent heartbeat of that card
    found,    \* the state the survey found for that card
    loops,    \* self._loops, modulo ProbeEvery
    upsets,   \* upsets so far
    rest,     \* history: time since the card was powered, reset or reflashed
    shielded  \* history: cards this loop has no reason to reset, see Wake

nodeVars == <<status, resets, updating, stamping>>
loopVars == <<pc, cur, silent, found, loops>>
ages     == <<bootAge, hbAge, rest>>
vars == <<opd, card, busUp, nodeVars, loopVars, ages, upsets, shielded>>

Nodes == {NodeOrder[i] : i \in DOMAIN NodeOrder}
NodeStates == {"OFF", "BOOT", "ON", "ERROR", "NOT_FOUND", "BOOTLOADER",
               "UPDATING", "DEAD"}
\* Opd.reset and the states only it leads to are never used.
OpdStates == {"DISABLED", "ENABLED"}
\* The survey of a card: its first tests, then the reads of the card's MAX7310.
Surveying == {"survey", "fault", "missing", "off", "on", "boot"}
Steps == Surveying \cup {"idle", "assign", "tally", "act", "resetting"}
UpsetKinds == {"trip", "hang", "lose", "brownout", "bus"}
CommandKinds == {"enable", "disable", "opd", "sysenable", "scan", "probe",
                 "power", "cut", "reset"}

ASSUME OrderAssumption ==
    /\ NodeOrder \in Seq(Nodes) /\ NodeOrder # <<>>
    /\ \A i, j \in DOMAIN NodeOrder : NodeOrder[i] = NodeOrder[j] => i = j
ASSUME CardsAssumption ==
    /\ OnOpd \subseteq Nodes /\ CanOpen \subseteq Nodes
    /\ OnOpd \cup CanOpen = Nodes
    /\ Processor \in [Nodes -> Processors] /\ AlwaysOn \subseteq OnOpd
    /\ \A n \in Nodes : n \in CanOpen <=> Processor[n] # "none"
ASSUME ChildAssumption ==
    NoNode \notin Nodes /\ Child \in [Nodes -> OnOpd \cup {NoNode}]
ASSUME TimeAssumption ==
    /\ BootTimeout \in [Nodes -> Nat \ {0}] /\ HbTimeout \in Nat
    /\ MaxResets \in Nat \ {0} /\ ProbeEvery \in Nat \ {0} /\ MaxUpsets \in Nat
ASSUME BoundsAssumption ==
    /\ FlightMode \in BOOLEAN
    /\ Commands \subseteq CommandKinds /\ Flashed \subseteq CanOpen /\ Upsets \subseteq UpsetKinds
-----------------------------------------------------------------------------
\* Opd.enable and Opd.disable, on every card.
OpdEnabled == [n \in Nodes |-> IF opd = "DISABLED" /\ n \in OnOpd
                               THEN Probed(card[n], TRUE) ELSE card[n]]
OpdDisabled ==
    [n \in Nodes |->
        IF n \notin OnOpd THEN card[n]
        ELSE LET read == StatusRead(card[n])
             IN  IF read.st = "NOT_FOUND" THEN read ELSE PoweredOff(read, Processor[n])]
-----------------------------------------------------------------------------
\* What the survey makes of a card.

Silent(n) == hbAge[n] > HbTimeout
Booting(n) == bootAge[n] < BootTimeout[n]

UpdatesIgnored(n) ==
    IF Booting(n) THEN IF silent THEN "BOOT" ELSE "ON"
    ELSE IF status[n] = "ERROR" \/ (FlightMode /\ busUp /\ silent)
         THEN "ERROR" ELSE "ON"

\* _check_co_nodes_state, of the card whose heartbeat was read.  In the first test
\* on DEAD the code has is_booting, the absence of heartbeats, where its comment
\* wants their return.
CheckCoNodesState(n) ==
    IF updating[n] THEN "UPDATING"
    ELSE IF status[n] = "DEAD" THEN IF silent THEN "ON" ELSE "DEAD"
    ELSE IF Booting(n) THEN IF silent THEN "BOOT" ELSE "ON"
    ELSE IF status[n] = "ERROR" \/ (FlightMode /\ busUp /\ silent)
         THEN "ERROR" ELSE "ON"

Stm32(n) == Processor[n] = "stm32"

OneMore(n) == resets[n] > MaxResets
GivenUp(n) == resets[n] >= MaxResets

\* _get_nodes_state, of a card that is not on the OPD.
BusNodeState(n) ==
    IF updating[n] THEN "UPDATING" ELSE IF Silent(n) THEN "OFF" ELSE "ON"

\* The card the loop is at.
Current == NodeOrder[cur]

\* A card rests since its power was last raised.
Rested == [n \in Nodes |-> IF card'[n].pin /\ ~card[n].pin THEN 0 ELSE rest[n]]
-----------------------------------------------------------------------------
HardwareOK == /\ opd \in OpdStates /\ card \in [Nodes -> Cards]
              /\ busUp \in BOOLEAN /\ upsets \in 0..MaxUpsets
NodesOK == /\ status \in [Nodes -> NodeStates]
           /\ resets \in [Nodes -> 0..MaxResets]
           /\ updating \in [Nodes -> BOOLEAN] /\ stamping \subseteq Nodes
AgesOK == /\ bootAge \in [Nodes -> Nat] /\ rest \in [Nodes -> Nat]
          /\ \A n \in Nodes : bootAge[n] <= BootTimeout[n] /\ rest[n] <= BootTimeout[n]
          /\ hbAge \in [Nodes -> 0..HbTimeout + 1]
LoopOK == /\ pc \in Steps /\ cur \in DOMAIN NodeOrder
          /\ silent \in BOOLEAN /\ found \in NodeStates
          /\ loops \in -1..ProbeEvery - 1 /\ shielded \subseteq Nodes
TypeOK == HardwareOK /\ NodesOK /\ AgesOK /\ LoopOK

\* After on_start: opd.enable() has reset every MAX7310 that answers.
Init ==
    /\ opd = "ENABLED" /\ busUp = TRUE
    /\ \E there \in SUBSET OnOpd :
         card = [n \in Nodes |->
                   [present |-> n \in there, pin |-> FALSE, boot |-> FALSE,
                    ready |-> n \in there, tripped |-> FALSE, hung |-> FALSE,
                    st |-> IF n \in there THEN "DISABLED" ELSE "NOT_FOUND"]]
    /\ status = [n \in Nodes |-> "NOT_FOUND"]
    /\ resets = [n \in Nodes |-> 0]
    /\ updating = [n \in Nodes |-> FALSE] /\ stamping = {}
    /\ bootAge \in {BootTimeout, [n \in Nodes |-> 0]} \* since the C3's own boot
    /\ rest = BootTimeout
    /\ hbAge = [n \in Nodes |-> HbTimeout + 1]
    /\ pc = "idle" /\ cur = 1 /\ silent = FALSE /\ found = "NOT_FOUND" /\ loops = -1
    /\ upsets = 0 /\ shielded = {}
-----------------------------------------------------------------------------
\* The manager's thread.

Older(age, cap) == IF age < cap THEN age + 1 ELSE age

TimePasses ==
    /\ bootAge' = [n \in Nodes |-> Older(bootAge[n], BootTimeout[n])]
    /\ rest' = [n \in Nodes |-> Older(rest[n], BootTimeout[n])]
    /\ hbAge' = [n \in Nodes |-> Older(hbAge[n], HbTimeout + 1)]

\* on_loop begins with a second's sleep.  A card is shielded if it is then being
\* reflashed or still has boot time left; it loses its shield when the survey
\* sees a fault, comes between the two writes, or falls back on an old ERROR.
Wake ==
    /\ pc = "idle"
    /\ pc' = "survey" /\ cur' = 1 /\ loops' = (loops + 1) % ProbeEvery
    /\ TimePasses
    /\ shielded' = {n \in OnOpd : updating[n] \/ rest'[n] < BootTimeout[n]}
    /\ UNCHANGED <<opd, card, busUp, nodeVars, silent, found, upsets>>

Decide(state) == pc' = "assign" /\ found' = state

\* _get_nodes_state, given the card's last heartbeat, up to its first look at the
\* card's MAX7310.
Survey ==
    /\ pc = "survey" /\ silent' = Silent(Current)
    /\ IF Current \notin OnOpd THEN Decide(BusNodeState(Current))
       ELSE IF opd = "DISABLED" THEN Decide("NOT_FOUND")
       ELSE IF GivenUp(Current) THEN Decide("DEAD")
       ELSE pc' = "fault" /\ found' = found
    /\ UNCHANGED <<opd, card, busUp, nodeVars, cur, loops, ages, upsets, shielded>>

\* Each test on opd.status reads it anew.
Answer == StatusRead(card[Current])

Ask(at, st, state, then) ==
    /\ pc = at
    /\ card' = [card EXCEPT ![Current] = Answer]
    /\ IF Answer.st = st THEN Decide(state) ELSE pc' = then /\ found' = found
    /\ UNCHANGED <<opd, busUp, nodeVars, cur, silent, loops, ages, upsets>>

AskFault   == /\ Ask("fault", "FAULT", "ERROR", "missing")
              /\ shielded' = IF pc' = "assign" THEN shielded \ {Current} ELSE shielded
AskMissing == Ask("missing", "NOT_FOUND", "NOT_FOUND", "off") /\ shielded' = shielded
AskOff     == Ask("off", "DISABLED", "OFF", "on") /\ shielded' = shielded

\* Only a card with a node id is judged by its heartbeat.
CheckHeartbeat ==
    IF Current \in CanOpen
    THEN /\ Decide(CheckCoNodesState(Current))
         /\ shielded' = shielded \ (stamping \cap {Current})
    ELSE Decide("ON") /\ shielded' = shielded

\* If no read was the answer to its own question, the card keeps its last state.
AskOn ==
    /\ pc = "on"
    /\ card' = [card EXCEPT ![Current] = Answer]
    /\ IF Answer.st # "ENABLED"
       THEN /\ Decide(status[Current])
            /\ shielded' = IF status[Current] = "ERROR"
                           THEN shielded \ {Current} ELSE shielded
       ELSE IF Stm32(Current)
       THEN pc' = "boot" /\ UNCHANGED <<found, shielded>>
       ELSE CheckHeartbeat
    /\ UNCHANGED <<opd, busUp, nodeVars, cur, silent, loops, ages, upsets>>

\* in_bootloader_mode, which takes an I2C error for a no.
AskBoot ==
    LET c == card[Current] IN
    /\ pc = "boot"
    /\ card' = [card EXCEPT ![Current].st = IF c.present THEN @ ELSE "FAULT"]
    /\ IF c.present /\ c.boot THEN Decide("BOOTLOADER") /\ shielded' = shielded
                              ELSE CheckHeartbeat
    /\ UNCHANGED <<opd, busUp, nodeVars, cur, silent, loops, ages, upsets>>

Assign ==
    /\ pc = "assign"
    /\ status' = [status EXCEPT ![Current] = found] /\ silent' = FALSE
    /\ IF cur < Len(NodeOrder)
       THEN pc' = "survey" /\ cur' = cur + 1
       ELSE pc' = "tally" /\ cur' = 1
    /\ UNCHANGED <<opd, card, busUp, resets, updating, stamping, found, loops, ages,
                   upsets, shielded>>

\* The OPD may be off: nothing to monitor.  (The code also restarts its count of
\* loops when every entry of _data is NOT_FOUND, but the C3's never is.)
Tally ==
    /\ pc = "tally"
    /\ IF opd = "DISABLED" THEN pc' = "idle" /\ loops' = -1
                           ELSE pc' = "act" /\ loops' = loops
    /\ UNCHANGED <<opd, card, busUp, nodeVars, cur, silent, found, ages, upsets,
                   shielded>>

Advance ==
    IF cur < Len(NodeOrder) THEN pc' = "act" /\ cur' = cur + 1
                            ELSE pc' = "idle" /\ cur' = 1

\* Only an STM32 is asked for its bootloader.
Given(n, bootloader) ==
    PoweredOn(card[n], Processor[n], bootloader /\ Stm32(n))
Cut(n) == PoweredOff(card[n], Processor[n])

\* NodeManagerService.enable, unless the card is refused, up to the assignment of
\* last_enable.
Enable(n, bootloader) ==
    LET child == Child[n] IN
    /\ card' = [m \in Nodes |->
                  IF m = n THEN Given(n, bootloader)
                  ELSE IF m = child
                  THEN Given(m, bootloader /\ Stm32(n))
                  ELSE card[m]]
    /\ rest' = Rested

NotRunning(n) == n \in OnOpd /\ status[n] \in {"OFF", "DEAD"}
CanEnable(n) == n \in OnOpd /\ status[n] = "OFF"

\* What on_loop does about a card that is not on the OPD, or whose status asks
\* for nothing.
ActNothing ==
    /\ pc = "act"
    /\ \/ Current \notin OnOpd
       \/ status[Current] \in {"BOOT", "BOOTLOADER", "UPDATING"}
    /\ Advance
    /\ UNCHANGED <<opd, card, busUp, nodeVars, silent, found, loops, ages, upsets,
                   shielded>>

NeverAgain == loops = -1
ProbeDue == loops = 0

ActNotFound ==
    /\ pc = "act" /\ Current \in OnOpd /\ status[Current] = "NOT_FOUND"
    /\ card' = IF ProbeDue
               THEN [card EXCEPT ![Current] = Probed(@, TRUE)] ELSE card
    /\ Advance
    /\ UNCHANGED <<opd, busUp, nodeVars, silent, found, loops, ages, upsets,
                   shielded>>

ActOff ==
    /\ pc = "act" /\ Current \in OnOpd /\ status[Current] = "OFF"
    /\ IF Current \in AlwaysOn
       THEN Enable(Current, FALSE) /\ bootAge' = [bootAge EXCEPT ![Current] = 0]
       ELSE UNCHANGED <<card, bootAge, rest>>
    /\ resets' = [resets EXCEPT ![Current] = 0]
    /\ Advance
    /\ UNCHANGED <<opd, busUp, status, updating, stamping, silent, found, loops,
                   hbAge, upsets, shielded>>

ActOn ==
    /\ pc = "act" /\ Current \in OnOpd /\ status[Current] = "ON"
    /\ resets' = [resets EXCEPT ![Current] = 0]
    /\ Advance
    /\ UNCHANGED <<opd, card, busUp, status, updating, stamping, silent, found,
                   loops, ages, upsets, shielded>>

\* is_enabled, then disable.
ActDead ==
    /\ pc = "act" /\ Current \in OnOpd /\ status[Current] = "DEAD"
    /\ LET c == card[Current] IN
       card' = [card EXCEPT ![Current] =
                  IF ~c.present
                  THEN [c EXCEPT !.st = IF @ = "NOT_FOUND" THEN @ ELSE "FAULT"]
                  ELSE IF c.pin THEN Cut(Current) ELSE c]
    /\ Advance
    /\ UNCHANGED <<opd, busUp, nodeVars, silent, found, loops, ages, upsets,
                   shielded>>

Uncounted(n) == resets' = resets
AfterReset(n) == resets' = [resets EXCEPT ![n] = @ + 1]

ResetEnds(n) ==
    /\ \E c \in PulseOutcomes(card[n]) : card' = [card EXCEPT ![n] = c]
    /\ AfterReset(n)
    /\ bootAge' = [bootAge EXCEPT ![n] = 0]
    /\ rest' = [rest EXCEPT ![n] = 0]
    /\ Advance
    /\ UNCHANGED <<opd, busUp, status, updating, stamping, silent, found, loops,
                   hbAge, upsets, shielded>>

\* opd.reset(1) begins: it fails at once, or sleeps before the pulse's other edge.
ActError ==
    /\ pc = "act" /\ Current \in OnOpd /\ status[Current] = "ERROR"
    /\ \/ /\ card[Current].present
          /\ pc' = "resetting"
          /\ UNCHANGED <<opd, card, busUp, nodeVars, cur, silent, found, loops,
                         ages, upsets, shielded>>
       \/ ~card[Current].present /\ ResetEnds(Current)

ResetDone == pc = "resetting" /\ ResetEnds(Current)

Reads == AskFault \/ AskMissing \/ AskOff \/ AskOn \/ AskBoot
Manager == \/ Wake \/ Survey \/ Reads \/ Assign \/ Tally
           \/ ActNothing \/ ActNotFound \/ ActOff \/ ActOn \/ ActDead
           \/ ActError \/ ResetDone
-----------------------------------------------------------------------------
\* The callers of the manager and of the OPD, and the flasher.

\* _set_node_status(ON or BOOTLOADER), and the services that call enable.
CommandEnable(n, bootloader) ==
    /\ "enable" \in Commands /\ CanEnable(n) /\ n \notin stamping
    /\ Enable(n, bootloader)
    /\ stamping' = stamping \cup {n}
    /\ UNCHANGED <<opd, busUp, status, resets, updating, loopVars, bootAge, hbAge,
                   upsets, shielded>>

\* last_enable = monotonic(), at the end of enable or of set_node_updating.
Stamp(n) ==
    /\ n \in stamping
    /\ bootAge' = [bootAge EXCEPT ![n] = 0] /\ stamping' = stamping \ {n}
    /\ UNCHANGED <<opd, card, busUp, status, resets, updating, loopVars, hbAge,
                   rest, upsets, shielded>>

\* disable, which refuses a card whose status is OFF or DEAD.
CommandDisable(n) ==
    /\ "disable" \in Commands /\ n \in OnOpd /\ status[n] \notin {"OFF", "DEAD"}
    /\ card' = [m \in Nodes |-> IF m \in {n, Child[n]} THEN Cut(m) ELSE card[m]]
    /\ UNCHANGED <<opd, busUp, nodeVars, loopVars, ages, upsets, shielded>>

\* _set_opd_status(0 and 1).
CommandOpdOff ==
    /\ "opd" \in Commands
    /\ opd' = "DISABLED" /\ card' = OpdDisabled
    /\ status' = [n \in Nodes |-> IF n \in OnOpd THEN "NOT_FOUND" ELSE status[n]]
    /\ UNCHANGED <<busUp, resets, updating, stamping, loopVars, ages, upsets,
                   shielded>>

CommandOpdOn ==
    /\ "opd" \in Commands /\ opd = "DISABLED"
    /\ opd' = "ENABLED" /\ card' = OpdEnabled
    /\ bootAge' = [n \in Nodes |-> 0]
    /\ UNCHANGED <<busUp, nodeVars, loopVars, hbAge, rest, upsets, shielded>>

\* OPD_SYSENABLE, OPD_SCAN, OPD_PROBE, OPD_ENABLE and OPD_RESET of the EDL
\* service, which go around the manager.
EdlSysEnable ==
    /\ "sysenable" \in Commands
    /\ \/ opd' = "ENABLED" /\ card' = OpdEnabled
       \/ opd' = "DISABLED" /\ card' = OpdDisabled
    /\ UNCHANGED <<busUp, nodeVars, loopVars, ages, upsets, shielded>>

EdlScan ==
    /\ "scan" \in Commands
    /\ card' = [n \in Nodes |-> IF n \in OnOpd THEN Probed(card[n], FALSE)
                                               ELSE card[n]]
    /\ UNCHANGED <<opd, busUp, nodeVars, loopVars, ages, upsets, shielded>>

EdlCard(n, after, command) ==
    /\ command \in Commands /\ n \in OnOpd
    /\ card' = [card EXCEPT ![n] = after]
    /\ rest' = Rested
    /\ UNCHANGED <<opd, busUp, nodeVars, loopVars, bootAge, hbAge, upsets,
                   shielded>>

EdlProbe(n) == EdlCard(n, Probed(card[n], FALSE), "probe")
EdlPower(n) == EdlCard(n, StatusRead(Given(n, FALSE)), "power")
EdlCut(n) == EdlCard(n, StatusRead(Cut(n)), "cut")
EdlReset(n) ==
    \E c \in PulseOutcomes(card[n]) : EdlCard(n, StatusRead(c), "reset")

\* The flasher's thread: set_node_updating(n, True) when a flash starts, and
\* set_node_updating(n, False) however it ends.
FlashStart(n) ==
    /\ n \in Flashed
    /\ \A m \in Nodes : ~updating[m]
    /\ updating' = [updating EXCEPT ![n] = TRUE]
    /\ status' = [status EXCEPT ![n] = "UPDATING"]
    /\ UNCHANGED <<opd, card, busUp, resets, stamping, loopVars, ages, upsets,
                   shielded>>

FlashEnd(n) ==
    /\ updating[n] /\ n \notin stamping
    /\ updating' = [updating EXCEPT ![n] = FALSE]
    /\ stamping' = stamping \cup {n} /\ rest' = [rest EXCEPT ![n] = 0]
    /\ UNCHANGED <<opd, card, busUp, status, resets, loopVars, bootAge, hbAge,
                   upsets, shielded>>
-----------------------------------------------------------------------------
\* The cards, the bus and the clock.

Powered(n) == \/ n \notin OnOpd
              \/ opd = "ENABLED" /\ HasPower(card[n]) /\ ~card[n].tripped

Beat(n) ==
    /\ n \in CanOpen /\ Powered(n) /\ ~card[n].hung /\ ~card[n].boot /\ busUp
    /\ hbAge[n] > 0
    /\ hbAge' = [hbAge EXCEPT ![n] = 0]
    /\ UNCHANGED <<opd, card, busUp, nodeVars, loopVars, bootAge, rest, upsets,
                   shielded>>

Upset(kind) == /\ kind \in Upsets /\ upsets < MaxUpsets
               /\ upsets' = upsets + 1

\* A powered card trips its circuit breaker or hangs; its MAX7310 stops answering
\* on I2C, or loses its outputs.
CardFails(n) ==
    /\ n \in OnOpd
    /\ \/ /\ Upset("trip") /\ Powered(n)
          /\ card' = [card EXCEPT ![n].tripped = TRUE]
       \/ /\ Upset("hang") /\ Powered(n) /\ ~card[n].hung
          /\ card' = [card EXCEPT ![n].hung = TRUE]
       \/ /\ Upset("lose") /\ card[n].present
          /\ card' = [card EXCEPT ![n].present = FALSE]
       \/ /\ Upset("brownout") /\ card[n].pin
          /\ card' = [card EXCEPT ![n] = BrownedOut(@)]
    /\ UNCHANGED <<opd, busUp, nodeVars, loopVars, ages, shielded>>

CardReturns(n) ==
    /\ n \in OnOpd /\ ~card[n].present
    /\ card' = [card EXCEPT ![n].present = TRUE]
    /\ UNCHANGED <<opd, busUp, nodeVars, loopVars, ages, upsets, shielded>>

BusChange ==
    /\ \/ busUp /\ Upset("bus")
       \/ ~busUp /\ upsets' = upsets
    /\ busUp' = ~busUp
    /\ UNCHANGED <<opd, card, nodeVars, loopVars, ages, shielded>>

\* More time passes where the manager's thread sleeps.
Tick ==
    /\ pc \in {"idle", "resetting"}
    /\ TimePasses
    /\ UNCHANGED <<opd, card, busUp, nodeVars, loopVars, upsets, shielded>>

Others == \/ \E n \in Nodes : \/ \E bootloader \in BOOLEAN :
                                     CommandEnable(n, bootloader)
                              \/ CommandDisable(n) \/ Stamp(n)
                              \/ EdlProbe(n) \/ EdlPower(n) \/ EdlCut(n)
                              \/ EdlReset(n)
                              \/ FlashStart(n) \/ FlashEnd(n)
                              \/ Beat(n) \/ CardFails(n) \/ CardReturns(n)
          \/ CommandOpdOff \/ CommandOpdOn \/ EdlSysEnable \/ EdlScan
          \/ BusChange \/ Tick

Next == Manager \/ Others
Spec == Init /\ [][Next]_vars

\* The manager's loop runs for ever, a thread writes what it was about to, and a
\* flash ends: each of the flasher's waits has a timeout, and its finally clause
\* clears UPDATING.
FairSpec == /\ Spec
            /\ WF_vars(Manager)
            /\ \A n \in Nodes : WF_vars(FlashEnd(n)) /\ WF_vars(Stamp(n))
-----------------------------------------------------------------------------
\* Properties.

\* A loop does not reset a card that was being reflashed when the loop began, or
\* that had been powered, reset or reflashed less than its boot timeout before,
\* unless the survey saw a fault, came before the restart of the card's clock (see
\* FlashThenBoots), or read four answers of its MAX7310 that changed meanwhile and
\* so kept an ERROR of the loop before: neither silence nor another card's trouble
\* is a reason to.
ShieldHolds ==
    [][\A n \in Nodes : resets'[n] > resets[n] => n \notin shielded]_vars

\* Once a card has had MaxResets resets that did not bring it back, nothing gives
\* it power again but the ground going around the manager, and it never leaves
\* that condition, whatever else happens: the OPD cycled, its MAX7310 lost and
\* found, a flash.  (A card that is another's child is powered with its parent.)
Retired(n) == resets[n] >= MaxResets
Childs == {Child[n] : n \in Nodes}
RetiredStaysOff ==
    [][\A n \in OnOpd \ Childs :
         Retired(n) => Retired(n)' /\ (card'[n].pin => card[n].pin)]_vars

\* The manager works against the commands it is not told of, so what it must do in
\* the end it must do once they cease.
Commanded ==
    \/ \E n \in Nodes : \/ CommandDisable(n) \/ FlashStart(n) \/ EdlProbe(n)
                         \/ EdlPower(n) \/ EdlCut(n) \/ EdlReset(n)
    \/ CommandOpdOff \/ CommandOpdOn \/ EdlSysEnable \/ EdlScan
CommandsCease == <>[][~Commanded]_vars

\* A retired card that has power, because the ground or its parent's enabling gave
\* it back, is cut off again.
RetiredIsCut ==
    CommandsCease =>
    \A n \in OnOpd :
        Retired(n) /\ card[n].pin ~> (~card[n].pin \/ ~card[n].present
                                     \/ opd = "DISABLED")

\* An OPD_PROBE of the ground marks a card as DISABLED and leaves it its power: one
\* that is not always on is then taken for a card that is OFF.
TakenForOff(n) == n \notin AlwaysOn /\ card[n].st = "DISABLED"

\* In flight, a card that hangs is brought back or cut off, unless its MAX7310 is
\* lost, the bus is down, or a probe hid it.
HungIsDealtWith ==
    CommandsCease =>
    \A n \in OnOpd \cap CanOpen :
        card[n].hung ~> (~card[n].hung \/ ~card[n].present \/ ~busUp
                           \/ TakenForOff(n))

\* A card whose MAX7310 lost its outputs, or was commanded before the probe that
\* would have configured them, is still ENABLED for the OPD.  Only the silence of
\* a card with a node id tells, and only in flight with the bus up.
Unwatched(n) == card[n].st = "ENABLED" /\ ~(n \in CanOpen /\ FlightMode /\ busUp)

\* A card that must always be on gets its power, after whatever brown-outs, losses
\* of its MAX7310 and commands, while the OPD is on and the MAX7310 answers, unless
\* it is retired or unwatched.
AlwaysOnPowered ==
    CommandsCease =>
    \A n \in AlwaysOn :
        card[n].present ~> (HasPower(card[n]) \/ ~card[n].present \/ Retired(n)
                            \/ opd = "DISABLED" \/ Unwatched(n))
-----------------------------------------------------------------------------
\* Inductive invariants.

\* The indices of the cards this loop has surveyed and not yet acted on, and of
\* those it has not surveyed yet.
Assessed == CASE pc \in Surveying \cup {"assign"} -> 1..cur - 1
              [] pc \in {"tally", "act", "resetting"} -> cur..Len(NodeOrder)
              [] OTHER -> {}
Awaiting == CASE pc \in Surveying -> cur..Len(NodeOrder)
              [] pc = "assign" -> cur + 1..Len(NodeOrder)
              [] OTHER -> {}

\* A card about to be reset, or asked for its state, has not had all its resets.
ErrorInv ==
    /\ \A i \in Assessed : status[NodeOrder[i]] = "ERROR" => ~GivenUp(NodeOrder[i])
    /\ pc \in Surveying \ {"survey"} => ~GivenUp(Current)
    /\ pc = "assign" /\ found = "ERROR" => ~GivenUp(Current)
    /\ pc = "resetting" => ~GivenUp(Current)

\* A card that has had them all is never taken for one that is ON or OFF, which
\* is what would reset its count or let it be enabled.
Recovered == {"ON", "OFF"}
RetiredInv ==
    /\ \A n \in OnOpd : GivenUp(n) => status[n] \notin Recovered
    /\ pc = "assign" /\ Current \in OnOpd /\ GivenUp(Current)
         => found \notin Recovered
    /\ pc = "resetting" => Current \in OnOpd /\ status[Current] \notin Recovered

\* The code's clock of a card is never ahead of the card's, but until it is restarted.
ClockInv ==
    \A n \in OnOpd \cap CanOpen : n \notin stamping => bootAge[n] <= rest[n]

Spared(n) == updating[n] \/ Booting(n) \/ n \in stamping

\* A shielded card waiting for its survey is still reflashed or booting, or about
\* to be known to boot; one that was surveyed was not found in ERROR.
ShieldInv ==
    /\ shielded \subseteq OnOpd
    /\ \A i \in Awaiting : NodeOrder[i] \in shielded \cap CanOpen
                             => Spared(NodeOrder[i])
    /\ \A i \in Assessed : NodeOrder[i] \in shielded
                             => status[NodeOrder[i]] # "ERROR"
    /\ pc = "assign" /\ Current \in shielded => found # "ERROR"
    /\ pc = "resetting" => Current \notin shielded
-----------------------------------------------------------------------------
\* What the documentation says, and the code does not do.

\* node_manager.py:57, "Node has failed to clear errors after multiple resets":
\* a card declared DEAD is one that still has its error.
DeadStillFails ==
    [][\A n \in OnOpd : status'[n] = "DEAD" /\ status[n] = "ERROR"
                          => card[n].tripped \/ card[n].hung]_vars

\* node_manager.py:151, "Heartbeat monitoring paused": a card being reflashed is
\* not reset for its silence.
FlashNotReset ==
    [][\A n \in OnOpd : ActError /\ n = Current /\ updating[n]
                          => card[n].st = "FAULT"]_vars

\* node_manager.py:154, "Reset last_enable so the bootup timeout applies while it
\* reboots from the flash": within that timeout, only a fault puts it in ERROR.
FlashThenBoots ==
    [][\A n \in OnOpd : Reads /\ pc' = "assign" /\ n = Current /\ found' = "ERROR"
                          => card'[n].st = "FAULT" \/ rest[n] >= BootTimeout[n]]_vars

\* node_manager.py:43, "Node is powered off": a card found OFF has no power.
OffIsOff ==
    [][\A n \in OnOpd : Assign /\ n = Current /\ found = "OFF"
                          => ~card[n].pin]_vars

\* opd.py:182, "disable and then re-enable it", and :32, "OPD Node is on": a reset
\* that succeeds leaves the card with power.
ResetRepowers ==
    [][\A n \in OnOpd : card'[n].st = "ENABLED" /\ card[n].st # "ENABLED"
                          => card'[n].pin]_vars

\* node_manager.py:26, "OFF --> BOOT : Enable", and :31, the only way to ERROR: a
\* card that was OFF is in ERROR only for a fault.
OffThenBoots ==
    [][\A n \in OnOpd : status[n] = "OFF" /\ status'[n] = "ERROR"
                          => card[n].st = "FAULT"]_vars
=============================================================================
