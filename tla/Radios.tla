-------------------------------- MODULE Radios --------------------------------
(***************************************************************************)
(* The radios service (oresat_c3/services/radios.py) in flight mode: the   *)
(* loop that keeps the UHF radio going and runs the S-band session, and    *)
(* the callback of sdr_ctrl.should_enable, which starts and ends the same  *)
(* session from the thread of the command, without a lock.                 *)
(*                                                                         *)
(* Around it: the node manager that powers the SDR's card, the services    *)
(* that send through the radios, and the watchdog thread, which stops      *)
(* petting once a service has failed.                                      *)
(*                                                                         *)
(* The attributes _sband_send_time, last_frame and sband_lock never get a  *)
(* first value.  A pass that comes to the S-band's queue, and a sender     *)
(* that is to use the S-band, raise; nothing behind those lines runs.      *)
(***************************************************************************)
EXTENDS Integers, FiniteSets

CONSTANTS
    FaultLimit,  \* SDO_FAULT_LIMIT: SDO errors before the session gives up
    MaxCommands, \* bound: writes of should_enable
    Upsets,      \* bound: which of "trip", "stop" are explored
    MaxUpsets    \* bound: how many of them

VARIABLES
    want,     \* od["sdr_ctrl"]["should_enable"]
    downlink, \* od["sdr_ctrl"]["sband_downlink"]
    sband,    \* SbandRadio._state
    faults,   \* SbandRadio._sdo_fault
    stamp,    \* _sband_timeout_timestamp: no value yet, past, or ahead
    pc,       \* where each thread is
    failed,   \* the services that have FAILED
    uhfOn,    \* the UHF power domain and its amplifier are on
    tripped,  \* the UHF time-out timer has stopped the transmitter
    powered,  \* the OPD powers the SDR
    card,     \* the node manager's status of the SDR
    commands, \* writes of should_enable so far
    bites,    \* resets by the watchdog so far
    upsets    \* upsets so far

session == <<want, sband, faults, stamp>>
uhf     == <<uhfOn, tripped>>
sdr     == <<powered, card>>
counts  == <<commands, bites, upsets>>
vars == <<session, downlink, pc, failed, uhf, sdr, counts>>

Threads == {"loop", "command"}
Off == 0
PoweringOn == 1
Starting == 2
Ready == 3
ShuttingDown == 4
Broken == 255
SbandStates == {Off, PoweringOn, Starting, Ready, ShuttingDown, Broken}
CardStates == {"OFF", "BOOT", "ON", "ERROR", "DEAD"}
Senders == {"beacon", "router"}
Services == Senders \cup {"radios"}

\* enable() and disable(), which both threads run.
EnableSteps == {"enable", "power", "look", "ask", "nap"}
DisableSteps == {"disable", "shutdown", "clear"}
Steps == EnableSteps \cup DisableSteps
    \cup {"top", "uhfReset", "uhfOff", "sband", "wanted", "boot", "timeout", "recv", "failed",
          "idle", "down"}

ASSUME BoundsAssumption == {MaxCommands, MaxUpsets} \subseteq Nat
ASSUME FaultAssumption == FaultLimit \in Nat \ {0, 1}
ASSUME UpsetsAssumption == Upsets \subseteq {"trip", "stop"}
-----------------------------------------------------------------------------
Up == pc["command"] # "down"
Goto(t, step) == pc' = [pc EXCEPT ![t] = step]
Return(t, loop, command) == Goto(t, IF t = "loop" THEN loop ELSE command)

\* An exception ends the service whose loop it leaves.  The EDL service
\* catches what a command raises.
Raise(t) ==
    /\ Return(t, "failed", "idle")
    /\ failed' = IF t = "loop" THEN failed \cup {"radios"} ELSE failed

Init ==
    /\ want = FALSE /\ downlink = FALSE
    /\ sband = Off /\ faults = 0 /\ stamp = "unset"
    /\ pc = [t \in Threads |-> IF t = "loop" THEN "top" ELSE "idle"]
    /\ failed = {}
    /\ uhfOn = TRUE /\ tripped = FALSE
    /\ powered = FALSE /\ card = "OFF"
    /\ commands = 0 /\ bites = 0 /\ upsets = 0
-----------------------------------------------------------------------------
(* SbandRadio.enable: one step of the boot, by either thread. *)

\* How many SDO errors one call may meet.
StartErrors == 0..1
StopErrors == 0..1
StatusErrors == 0..1

Enable(t) ==
    /\ pc[t] = "enable"
    /\ \/ /\ sband = Off /\ Goto(t, "power") /\ UNCHANGED sband
       \/ /\ sband = PoweringOn /\ Goto(t, "look") /\ UNCHANGED sband
       \/ /\ sband = Starting /\ Goto(t, "ask") /\ UNCHANGED sband
       \/ /\ sband \in {Ready, ShuttingDown, Broken}
          /\ sband' = Broken
          /\ Goto(t, "nap")
    /\ UNCHANGED <<want, faults, stamp, downlink, failed, uhf, sdr, counts>>

\* The node manager enables no card unless it has seen it OFF.
PowerSdr(t) ==
    /\ pc[t] = "power"
    /\ powered' = (powered \/ card = "OFF")
    /\ sband' = PoweringOn
    /\ faults' = 0
    /\ Goto(t, "nap")
    /\ UNCHANGED <<want, stamp, card, downlink, failed, uhf, counts>>

\* The start command may fail, and may be one failure too many: the state is
\* Starting all the same.
LookAtCard(t) ==
    /\ pc[t] = "look"
    /\ \/ /\ card = "ON"
          /\ \E told \in StartErrors : faults' = faults + told
          /\ sband' = Starting
          /\ Goto(t, "nap")
          /\ UNCHANGED failed
       \/ /\ card = "DEAD"
          /\ sband' = Broken
          /\ Raise(t)
          /\ UNCHANGED faults
       \/ /\ card \notin {"ON", "DEAD"}
          /\ Goto(t, "nap")
          /\ UNCHANGED <<sband, faults, failed>>
    /\ UNCHANGED <<want, stamp, downlink, uhf, sdr, counts>>

\* The SDR is asked for its status and, when it is off or does not answer,
\* told again to start.
AskSdr(t) ==
    /\ pc[t] = "ask"
    /\ \/ \E asked \in StatusErrors, told \in StartErrors :
              /\ faults' = faults + asked + told
              /\ sband' = IF asked + told > 0 /\ faults' >= FaultLimit
                             THEN Broken ELSE sband
              /\ Goto(t, "nap")
              /\ UNCHANGED failed
       \/ /\ sband' = Ready
          /\ Goto(t, "nap")
          /\ UNCHANGED <<faults, failed>>
       \/ /\ sband' = Broken
          /\ Raise(t)
          /\ UNCHANGED faults
    /\ UNCHANGED <<want, stamp, downlink, uhf, sdr, counts>>

\* After its sleep the loop goes on to the timeout; the callback, only now,
\* sets it.
Nap(t) ==
    /\ pc[t] = "nap"
    /\ Return(t, "timeout", "idle")
    /\ stamp' = IF t = "loop" THEN stamp ELSE "ahead"
    /\ UNCHANGED <<want, sband, faults, downlink, failed, uhf, sdr, counts>>

(* _sband_should_enable_cb(False): SbandRadio.disable, then no timeout. *)

Disable(t) ==
    /\ pc[t] = "disable"
    /\ sband' = ShuttingDown
    /\ faults' \in StopErrors
    /\ Goto(t, "shutdown")
    /\ UNCHANGED <<want, stamp, downlink, failed, uhf, sdr, counts>>

\* In the five seconds of the sleep the node manager sees what is powered.
Seen == powered => card # "OFF"

ShutDown(t) ==
    /\ pc[t] = "shutdown"
    /\ Seen
    /\ powered' = (powered /\ card \in {"OFF", "DEAD"})
    /\ sband' = Off
    /\ Goto(t, "clear")
    /\ UNCHANGED <<want, faults, stamp, card, downlink, failed, uhf, counts>>

ClearTimeout(t) ==
    /\ pc[t] = "clear"
    /\ stamp' = "past"
    /\ Return(t, "recv", "idle")
    /\ UNCHANGED <<want, sband, faults, downlink, failed, uhf, sdr, counts>>
-----------------------------------------------------------------------------
(* RadiosService.on_loop *)

UhfOk == ~tripped
\* Enabling the radio clears its timer.
UhfStarted == uhfOn' = TRUE /\ tripped' = FALSE

CheckUhf ==
    /\ pc["loop"] = "top"
    /\ Goto("loop", IF UhfOk THEN "sband" ELSE "uhfReset")
    /\ UNCHANGED <<session, downlink, failed, uhf, sdr, counts>>

DisableUhf ==
    /\ pc["loop"] = "uhfReset"
    /\ uhfOn' = FALSE
    /\ Goto("loop", "uhfOff")
    /\ UNCHANGED <<session, downlink, failed, tripped, sdr, counts>>

EnableUhf ==
    /\ pc["loop"] = "uhfOff"
    /\ UhfStarted
    /\ Goto("loop", "sband")
    /\ UNCHANGED <<session, downlink, failed, sdr, counts>>

SbandWanted == want
SbandBusy == want \/ sband # Off

CheckSband ==
    /\ pc["loop"] = "sband"
    /\ Goto("loop", IF SbandBusy THEN "wanted" ELSE "recv")
    /\ UNCHANGED <<session, downlink, failed, uhf, sdr, counts>>

CheckWanted ==
    /\ pc["loop"] = "wanted"
    /\ Goto("loop", IF ~want /\ sband # Off THEN "disable" ELSE "boot")
    /\ UNCHANGED <<session, downlink, failed, uhf, sdr, counts>>

ContinueBoot ==
    /\ pc["loop"] = "boot"
    /\ \/ /\ want /\ sband = Broken
          /\ want' = FALSE
          /\ Goto("loop", "disable")
       \/ /\ want /\ sband \notin {Ready, Broken}
          /\ Goto("loop", "enable")
          /\ UNCHANGED want
       \/ /\ ~want \/ sband = Ready
          /\ Goto("loop", "timeout")
          /\ UNCHANGED want
    /\ UNCHANGED <<sband, faults, stamp, downlink, failed, uhf, sdr, counts>>

\* The comparison raises as long as the timestamp has no value, and a session
\* that has time left comes to _sband_send_time, which has none either.
CheckTimeout ==
    /\ pc["loop"] = "timeout"
    /\ \/ /\ stamp = "past"
          /\ want' = FALSE
          /\ Goto("loop", "disable")
          /\ UNCHANGED failed
       \/ /\ stamp # "past"
          /\ Raise("loop")
          /\ UNCHANGED want
    /\ UNCHANGED <<sband, faults, stamp, downlink, uhf, sdr, counts>>

Receive ==
    /\ pc["loop"] = "recv"
    /\ Goto("loop", "top")
    /\ UNCHANGED <<session, downlink, failed, uhf, sdr, counts>>

\* The timeout of the session comes.
Expire ==
    /\ Up /\ stamp = "ahead"
    /\ stamp' = "past"
    /\ UNCHANGED <<want, sband, faults, downlink, pc, failed, uhf, sdr, counts>>
-----------------------------------------------------------------------------
(* The other threads, and the world *)

WriteShouldEnable(value) ==
    /\ pc["command"] = "idle" /\ commands < MaxCommands
    /\ want' = value
    /\ Goto("command", IF value THEN "enable" ELSE "disable")
    /\ commands' = commands + 1
    /\ UNCHANGED <<sband, faults, stamp, downlink, failed, uhf, sdr, bites, upsets>>

WriteDownlink ==
    /\ Up /\ downlink' = ~downlink
    /\ UNCHANGED <<session, pc, failed, uhf, sdr, counts>>

ThroughSband == downlink /\ sband = Ready

\* try_send_sband comes to sband_lock, which has no value.
TrySend(s) == failed' = failed \cup {s}

\* Sending by UHF changes nothing here.
SendBySband(s) ==
    /\ Up /\ s \notin failed
    /\ ThroughSband
    /\ TrySend(s)
    /\ UNCHANGED <<session, downlink, pc, uhf, sdr, counts>>

\* A powered card boots, runs, or is in error; one that was reset too often is
\* DEAD for good, and its power is cut.
Survey ==
    /\ Up
    /\ card' \in IF card = "DEAD" THEN {"DEAD"}
                 ELSE IF powered THEN CardStates \ {"OFF"} ELSE {"OFF"}
    /\ powered' = (powered /\ card' # "DEAD")
    /\ UNCHANGED <<session, downlink, pc, failed, uhf, counts>>

Trip ==
    /\ "trip" \in Upsets /\ upsets < MaxUpsets
    /\ Up /\ uhfOn /\ ~tripped
    /\ tripped' = TRUE
    /\ upsets' = upsets + 1
    /\ UNCHANGED <<session, downlink, pc, failed, uhfOn, sdr, commands, bites>>

\* on_stop, between two passes: the UHF radio is powered off.  The SDR is not.
Stop ==
    /\ "stop" \in Upsets /\ upsets < MaxUpsets
    /\ pc["loop"] \in {"top", "failed"}
    /\ uhfOn' = FALSE
    /\ pc' = [t \in Threads |-> "down"]
    /\ upsets' = upsets + 1
    /\ UNCHANGED <<session, downlink, failed, tripped, sdr, commands, bites>>

\* The watchdog is not petted as long as any service has FAILED.
AllFailed == failed = Services
Unwell == failed # {}

Bite ==
    /\ Up /\ Unwell
    /\ pc' = [t \in Threads |-> "down"]
    /\ bites' = bites + 1
    /\ UNCHANGED <<session, downlink, failed, uhf, sdr, commands, upsets>>

\* should_enable is not among the saved objects: it is the dictionary's default.
KeepWant == want' = want
ForgetWant == want' = FALSE

\* The services start anew.  The scan of the OPD switches every card off;
\* enabling the UHF radio clears its timer.
Start ==
    /\ ~Up
    /\ ForgetWant /\ downlink' = FALSE
    /\ sband' = Off /\ faults' = 0 /\ stamp' = "unset"
    /\ pc' = [t \in Threads |-> IF t = "loop" THEN "top" ELSE "idle"]
    /\ failed' = {}
    /\ UhfStarted
    /\ powered' = FALSE /\ card' = "OFF"
    /\ UNCHANGED counts
-----------------------------------------------------------------------------
Procedures(t) ==
    \/ Enable(t) \/ PowerSdr(t) \/ LookAtCard(t) \/ AskSdr(t) \/ Nap(t)
    \/ Disable(t) \/ ShutDown(t) \/ ClearTimeout(t)

Loop ==
    \/ CheckUhf \/ DisableUhf \/ EnableUhf \/ CheckSband \/ CheckWanted
    \/ ContinueBoot \/ CheckTimeout \/ Receive
    \/ Procedures("loop")

Next ==
    \/ Loop
    \/ Procedures("command")
    \/ \E value \in BOOLEAN : WriteShouldEnable(value)
    \/ \E s \in Senders : SendBySband(s)
    \/ Expire \/ WriteDownlink \/ Survey \/ Trip
    \/ Stop \/ Bite \/ Start

Spec == Init /\ [][Next]_vars

\* The threads run, the node manager surveys every second, an unpetted
\* watchdog bites, and the C3 starts again.
FairSpec ==
    /\ Spec
    /\ WF_vars(Loop) /\ WF_vars(Procedures("command"))
    /\ WF_vars(Survey) /\ WF_vars(Bite) /\ WF_vars(Start)
-----------------------------------------------------------------------------
TypeOK ==
    /\ want \in BOOLEAN /\ downlink \in BOOLEAN
    /\ sband \in SbandStates /\ faults \in Nat
    /\ stamp \in {"unset", "past", "ahead"}
    /\ pc \in [Threads -> Steps]
    /\ failed \subseteq Services
    /\ uhfOn \in BOOLEAN /\ tripped \in BOOLEAN
    /\ powered \in BOOLEAN /\ card \in CardStates
    /\ commands \in 0..MaxCommands
    /\ bites \in Nat /\ upsets \in 0..MaxUpsets

(* What the S-band brings down, it brings down once: a reset by the        *)
(* watchdog needs a new write of should_enable (radios.py:237), so the C3  *)
(* cannot go round in a loop of resets.  A write of False is enough: a     *)
(* pass that comes between the state's reset (560) and the timestamp's     *)
(* first value (247) raises.                                               *)
RestartsNeedCommands == bites <= commands

(* Whatever a session does to the services, and however often the UHF's    *)
(* timer trips, the loop gets back to receiving with the UHF radio on      *)
(* (on_loop, radios.py:117).                                               *)
LinkRestored == []<>(pc["loop"] = "recv" /\ uhfOn /\ ~tripped)

(* The SDR is not left powered: not by a callback and a loop that start    *)
(* and end the session at once, not by a service that fails in a session,  *)
(* and not by a stop of the C3 (radios.py:250, 557).                       *)
SessionEnds == powered ~> ~powered
=============================================================================
