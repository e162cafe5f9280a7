------------------------------ MODULE C3State ------------------------------
(***************************************************************************)
(* The C3's main state machine (oresat_c3/services/state.py) with the      *)
(* threads that share its objects in the object dictionary: the writers of *)
(* tx_control (EDL command, SDO callback), the beacon thread, the receiver *)
(* of EDL packets, and the F-RAM it is saved to, one object at a time, and *)
(* restored from after a reset.                                            *)
(*                                                                         *)
(* The threads take no lock.  A step below is what one thread does between *)
(* two places where another thread can make a difference.                  *)
(*                                                                         *)
(* A timestamp is represented by its age on the wall clock, time() - ts,   *)
(* which is all the code computes from it.  The age of the timestamp 0 is  *)
(* epoch: Never, older than every timeout, until a factory reset sets the  *)
(* clock to 0.  Ages stop growing once past the timeout they are compared  *)
(* with, so time is not bounded.                                           *)
(***************************************************************************)
EXTENDS Integers, Sequences

CONSTANTS
    PreDeployTimeout, \* antennas.pre_attempt_timeout
    Attempts,         \* antennas.attempts
    ReattemptTimeout, \* antennas.reattempt_timeout
    TxTimeout,        \* tx_control.timeout
    EdlTimeout,       \* edl.timeout
    ResetTimeout,     \* reset_timeout
    StoreEvery,       \* state is saved every StoreEvery loops (10 in the code)
    FlightMode,       \* flight_mode
    BatteryGood,      \* the battery packs are above BAT_LEVEL_LOW
    Writers,          \* threads that write tx_control: EDL service, SDO callback
    FramOrder,        \* the saved objects, in the order they are saved
    ClockSteps,       \* by how much RTC_SET_TIME may move the wall clock
    MaxAhead,         \* bound: how far in the future a timestamp may be
    OperatorStates,   \* what an operator may write to the status object
    Keys,             \* the crypto keys an operator may set
    Environment,      \* bound: which of the other threads' steps are explored
    Upsets,           \* bound: which upsets are explored, see UpsetKinds
    MaxUpsets,        \* bound: how many upsets
    Never,            \* an age beyond every timeout
    NoKey             \* the key of a cleared F-RAM, all zeros

VARIABLES
    c3,          \* od["status"]
    txEnable,    \* od["tx_control"]["enable"]
    lastTx,      \* age of od["tx_control"]["last_enable_timestamp"]
    lastEdl,     \* age of od["edl"]["last_timestamp"]
    deployed,    \* od["antennas"]["deployed"]
    updating,    \* od["updater"]["status"] is UPDATING
    key,         \* od["edl"]["crypto_key_0"] and its kin
    epoch,       \* the age of the timestamp 0: time() itself
    fram,        \* the saved objects but the keys
    framKey,     \* the saved keys
    pc,          \* where the state thread is
    next,        \* the state it is handling, then the one it decided on
    idx,         \* object being saved
    loops,       \* self._loops
    attempts,    \* self._attempts
    sinceDeploy, \* monotonic() - self._last_antennas_deploy
    uptime,      \* monotonic() - self._start_time
    stopping,    \* the NodeStop requested, if any
    watchdog,    \* the watchdog app is running
    writer,      \* what each writer of tx_control is doing
    beaconer,    \* what the beacon thread is doing
    upsets,      \* upsets so far
    silenced,    \* history: tx was disabled and nothing enabled it since
    late,        \* history: beacons started since then
    stale,       \* history: tx has been timed out since this loop began, and
                 \* no operator wrote the status
    unread,      \* restore_state raised: the objects it had not come to have
                 \* their defaults
    keyed,       \* history: the F-RAM got a key, and has not lost it to a
                 \* factory reset cut short, nor to the defaults of a start
                 \* that was unread
    recorded,    \* history: the F-RAM showed that deployment is over, and has
                 \* not lost it to a factory reset, nor to such defaults
    linked       \* history: EDL has been active since this loop began, and no
                 \* operator wrote the status

odVars   == <<c3, txEnable, lastTx, lastEdl, deployed>>
loopVars == <<pc, next, idx, loops>>
antVars  == <<attempts, sinceDeploy>>
sysVars  == <<uptime, stopping, watchdog, updating>>
history  == <<silenced, late, stale, linked>>
keyVars  == <<key, framKey, keyed, unread, recorded>>
vars == <<odVars, fram, loopVars, antVars, sysVars, writer, beaconer, upsets,
          history, keyVars, epoch>>

PostDeploy == {"STANDBY", "BEACON", "EDL"}
C3States == {"OFFLINE", "PRE_DEPLOY", "DEPLOY"} \cup PostDeploy
Handled == C3States \ {"OFFLINE"}
\* What the status byte can hold: ZERO is a cleared F-RAM (and, in the OD, no
\* power), INVALID any other number that is not a C3State.
Statuses == C3States \cup {"ZERO", "INVALID"}
FramObjs == {"status", "deployed", "txEnable", "lastTx", "lastEdl", "key"}
Ages == Int \cup {Never}
UpsetKinds == {"crash", "fault", "reset", "factory"}
StateSteps == {"top", "expire", "gate", "handle", "stamp", "firing", "settle",
               "reset", "txRead", "commit", "wrap", "store"}
StopSteps == {"failed", "stopStore", "halt", "rekey", "off"}

ASSUME TimeoutsAssumption ==
    {PreDeployTimeout, Attempts, ReattemptTimeout, TxTimeout, EdlTimeout,
     ResetTimeout, MaxUpsets} \subseteq Nat
ASSUME UpsetsAssumption == Upsets \subseteq UpsetKinds
ASSUME StoreAssumption == StoreEvery \in Nat \ {0}
ASSUME FlagsAssumption == FlightMode \in BOOLEAN /\ BatteryGood \in BOOLEAN
ASSUME ClockAssumption == ClockSteps \subseteq Int /\ MaxAhead \in Nat
ASSUME NeverAssumption == Never \notin Int
ASSUME KeysAssumption == NoKey \notin Keys
ASSUME OperatorAssumption == OperatorStates \subseteq Statuses \ {"ZERO"}
ASSUME FramAssumption == FramOrder \in Seq(FramObjs) /\ FramOrder # <<>>
-----------------------------------------------------------------------------
TxCap == TxTimeout + 1
EdlCap == EdlTimeout
EpochCap == IF TxCap > EdlCap THEN TxCap ELSE EdlCap
UptimeCap == IF PreDeployTimeout > ResetTimeout THEN PreDeployTimeout
                                                ELSE ResetTimeout + 1
DeployCap == ReattemptTimeout + 1

Older(age, cap) == IF age = Never \/ age >= cap THEN age ELSE age + 1

\* The ages a timestamp can have after the wall clock moves by d.  An age at
\* its cap stands for every greater one.
Moved(age, cap, d) ==
    IF age = Never THEN {Never}
    ELSE IF age + d > cap THEN {cap}
    ELSE IF age = cap THEN (age + d)..cap
    ELSE {age + d}

\* has_tx_timed_out, has_edl_timed_out (which is true while EDL is *active*),
\* has_reset_timed_out, is_bat_lvl_good.
TxTimedOut == lastTx = Never \/ lastTx > TxTimeout
EdlActive == lastEdl # Never /\ lastEdl < EdlTimeout
ResetTimedOut == FlightMode /\ uptime > ResetTimeout
IsBatLvlGood == TRUE

Powered == pc # "off"
Running == pc \notin {"rekey", "off"}

AntennasDone == deployed \/ attempts >= Attempts
SameAttempt == attempts
NextAttempts == attempts + 1

\* The branch _standby, _beacon and _edl take before the tx timestamp matters.
ResetBeforeEdl ==
    IF ResetTimedOut /\ c3 # "EDL" THEN "reset"
    ELSE IF EdlActive THEN "edl" ELSE "tx"
DeafBeacon ==
    IF EdlActive /\ c3 # "BEACON" THEN "edl"
    ELSE IF ResetTimedOut /\ c3 # "EDL" THEN "reset" ELSE "tx"
ResetOnlyFromBeacon ==
    IF EdlActive THEN "edl"
    ELSE IF ResetTimedOut /\ c3 = "BEACON" THEN "reset" ELSE "tx"
Branch ==
    IF EdlActive THEN "edl"
    ELSE IF ResetTimedOut /\ c3 # "EDL" THEN "reset" ELSE "tx"

\* Where the tx timestamp takes the state s.
BeaconForever(s) == IF s = "BEACON" \/ ~TxTimedOut THEN "BEACON" ELSE "STANDBY"
AfterTx(s) == IF ~TxTimedOut /\ IsBatLvlGood THEN "BEACON" ELSE "STANDBY"

\* The watchdog thread of __main__ pets the watchdog app.
PetAlways == TRUE
Petted == ~FlightMode \/ pc # "failed"

\* What the beacon thread asks of tx_control.
IgnoreTx == TRUE
TxAllowsBeacon == txEnable
-----------------------------------------------------------------------------
BlankFram == [status |-> "ZERO", deployed |-> FALSE, txEnable |-> FALSE,
              lastTx |-> Never, lastEdl |-> Never]

\* The F-RAM after object o of the object dictionary is written to it.
Saved(o) ==
    [status   |-> IF o = "status" THEN c3 ELSE fram.status,
     deployed |-> IF o = "deployed" THEN deployed ELSE fram.deployed,
     txEnable |-> IF o = "txEnable" THEN txEnable ELSE fram.txEnable,
     lastTx   |-> IF o = "lastTx" THEN lastTx ELSE fram.lastTx,
     lastEdl  |-> IF o = "lastEdl" THEN lastEdl ELSE fram.lastEdl]

SavedKey(o) == IF o = "key" THEN key ELSE framKey

\* The F-RAM shows that deployment is over, however few of the objects a
\* power cut let through.
FramSaysDone == fram.deployed \/ fram.status \in PostDeploy

\* The state on_start leaves: EDL becomes STANDBY, a value that is not a
\* C3State (a cleared F-RAM) becomes PRE_DEPLOY.
StartOver(s) == "PRE_DEPLOY"
ResumeSession(s) == IF s \notin C3States THEN "PRE_DEPLOY" ELSE s
Restored(s) ==
    CASE s = "EDL" -> "STANDBY"
      [] s \notin C3States -> "PRE_DEPLOY"
      [] OTHER -> s

Init ==
    /\ c3 = "ZERO" /\ txEnable = FALSE /\ lastTx = Never /\ lastEdl = Never
    /\ deployed = FALSE /\ updating = FALSE
    /\ fram = BlankFram
    /\ key = NoKey /\ framKey = NoKey /\ keyed = FALSE /\ epoch = Never
    /\ unread = FALSE /\ recorded = FALSE
    /\ pc = "off" /\ next = "ZERO" /\ idx = 1 /\ loops = 0
    /\ attempts = 0 /\ sinceDeploy = 0 /\ uptime = 0
    /\ stopping = "no" /\ watchdog = TRUE
    /\ writer = [w \in Writers |-> "idle"] /\ beaconer = "idle"
    /\ upsets = 0
    /\ silenced = FALSE /\ late = 0 /\ stale = FALSE /\ linked = FALSE

\* The process ends: everything but the F-RAM and the wall clock is lost.
PowerOff ==
    /\ c3' = "ZERO" /\ txEnable' = FALSE /\ lastTx' = Never /\ lastEdl' = Never
    /\ deployed' = FALSE /\ updating' = FALSE /\ key' = NoKey /\ unread' = FALSE
    /\ pc' = "off" /\ next' = "ZERO" /\ idx' = 1 /\ loops' = 0
    /\ attempts' = 0 /\ sinceDeploy' = 0 /\ uptime' = 0
    /\ stopping' = "no" /\ watchdog' = TRUE
    /\ writer' = [w \in Writers |-> "idle"] /\ beaconer' = "idle"
    /\ stale' = FALSE /\ linked' = FALSE
    /\ UNCHANGED <<silenced, late>>

\* on_start: restore_state, then make the restored objects consistent.  After
\* a restart of the app only, monotonic() is already past any timeout counted
\* from _last_antennas_deploy = 0.
Boot ==
    /\ pc = "off"
    /\ c3' = Restored(fram.status)
    /\ txEnable' = fram.txEnable
    /\ lastTx' = IF fram.txEnable THEN fram.lastTx ELSE epoch
    /\ lastEdl' = fram.lastEdl
    /\ deployed' = fram.deployed
    /\ key' = framKey
    /\ sinceDeploy' \in {0, DeployCap}
    /\ pc' = "top"
    /\ silenced' = (silenced /\ ~fram.txEnable)
    /\ UNCHANGED <<fram, next, idx, loops, attempts, sysVars, writer, beaconer,
                   upsets, late, stale, linked, framKey, keyed, unread,
                   recorded, epoch>>

\* An I2C read of restore_state raises after n objects: they have the values in
\* the F-RAM, the others their defaults, and the service has FAILED before
\* on_start makes anything consistent.
BootFault ==
    /\ pc = "off" /\ "fault" \in Upsets /\ upsets < MaxUpsets
    /\ \E n \in 0..(Len(FramOrder) - 1) :
         LET read == {FramOrder[i] : i \in 1..n}
         IN  /\ c3' = IF "status" \in read THEN fram.status ELSE "ZERO"
             /\ txEnable' = ("txEnable" \in read /\ fram.txEnable)
             /\ lastTx' = IF "lastTx" \in read THEN fram.lastTx ELSE epoch
             /\ lastEdl' = IF "lastEdl" \in read THEN fram.lastEdl ELSE epoch
             /\ deployed' = ("deployed" \in read /\ fram.deployed)
             /\ key' = IF "key" \in read THEN framKey ELSE NoKey
    /\ pc' = "failed"
    /\ unread' = TRUE
    /\ upsets' = upsets + 1
    /\ silenced' = (silenced /\ ~txEnable')
    /\ UNCHANGED <<fram, next, idx, loops, antVars, sysVars, writer, beaconer,
                   late, stale, linked, framKey, keyed, recorded, epoch>>
-----------------------------------------------------------------------------
(* on_loop of the state service.                                           *)

\* `if self.has_tx_timed_out and ...`: the timestamp is read first.
Top ==
    /\ pc = "top" /\ stopping = "no"
    /\ pc' = IF TxTimedOut THEN "expire" ELSE "gate"
    /\ stale' = TxTimedOut
    /\ linked' = (EdlActive /\ c3 \in PostDeploy)
    /\ UNCHANGED <<odVars, fram, next, idx, loops, antVars, sysVars, writer,
                   beaconer, upsets, silenced, late, keyVars, epoch>>

\* `... and self._tx_enable_obj.value`: tx is disabled.
Expire ==
    /\ pc = "expire"
    /\ txEnable' = FALSE
    /\ pc' = "gate"
    /\ UNCHANGED <<c3, lastTx, lastEdl, deployed, fram, next, idx, loops,
                   antVars, sysVars, writer, beaconer, upsets, history,
                   keyVars, epoch>>

\* The state change is logged with C3State(state_a).name, which raises for a
\* value that is no C3State: the exception ends the thread (FAILED).
Gate ==
    /\ pc = "gate"
    /\ pc' = IF c3 \in C3States THEN "handle" ELSE "failed"
    /\ UNCHANGED <<odVars, fram, next, idx, loops, antVars, sysVars, writer,
                   beaconer, upsets, history, keyVars, epoch>>

\* _pre_deploy
PreDeploy ==
    /\ pc = "handle" /\ c3 = "PRE_DEPLOY"
    /\ \/ /\ uptime < PreDeployTimeout
          /\ pc' = IF txEnable THEN "wrap" ELSE "stamp"
          /\ txEnable' = TRUE
          /\ silenced' = (silenced /\ txEnable)
          /\ UNCHANGED next
       \/ /\ uptime >= PreDeployTimeout
          /\ next' = "DEPLOY"
          /\ pc' = "commit"
          /\ UNCHANGED <<txEnable, silenced>>
    /\ UNCHANGED <<c3, lastTx, lastEdl, deployed, fram, idx, loops, antVars,
                   sysVars, writer, beaconer, upsets, late, stale, linked,
                   keyVars, epoch>>

\* _pre_deploy's second write, the timestamp
Stamp ==
    /\ pc = "stamp"
    /\ lastTx' = 0
    /\ pc' = "wrap"
    /\ stale' = FALSE
    /\ UNCHANGED <<c3, txEnable, lastEdl, deployed, fram, next, idx, loops,
                   antVars, sysVars, writer, beaconer, upsets, silenced, late,
                   linked, keyVars, epoch>>

\* _deploy: fire the antennas, wait for the next attempt, or be done
Deploy ==
    /\ pc = "handle" /\ c3 = "DEPLOY"
    /\ pc' = IF AntennasDone THEN "settle"
             ELSE IF sinceDeploy > ReattemptTimeout /\ IsBatLvlGood THEN "firing"
             ELSE "wrap"
    /\ UNCHANGED <<odVars, fram, next, idx, loops, antVars, sysVars, writer,
                   beaconer, upsets, history, keyVars, epoch>>

\* self._antennas.deploy(...) returns
Fired ==
    /\ pc = "firing"
    /\ attempts' = NextAttempts
    /\ sinceDeploy' = 0
    /\ pc' = "wrap"
    /\ UNCHANGED <<odVars, fram, next, idx, loops, sysVars, writer, beaconer,
                   upsets, history, keyVars, epoch>>

\* _deploy's else branch
Settle ==
    /\ pc = "settle"
    /\ c3' = "STANDBY"
    /\ deployed' = TRUE
    /\ attempts' = 0
    /\ pc' = "wrap"
    /\ UNCHANGED <<txEnable, lastTx, lastEdl, fram, next, idx, loops,
                   sinceDeploy, sysVars, writer, beaconer, upsets, history,
                   keyVars, epoch>>

\* _standby, _beacon and _edl up to where they read the tx timestamp
Session ==
    /\ pc = "handle" /\ c3 \in PostDeploy
    /\ \/ /\ Branch = "edl"
          /\ next' = "EDL"
          /\ pc' = IF c3 = "EDL" THEN "wrap" ELSE "commit"
       \/ /\ Branch = "reset"
          /\ pc' = "reset"
          /\ UNCHANGED next
       \/ /\ Branch = "tx"
          /\ pc' = "txRead"
          /\ next' = c3
    /\ UNCHANGED <<odVars, fram, idx, loops, antVars, sysVars, writer,
                   beaconer, upsets, history, keyVars, epoch>>

\* `self.has_tx_timed_out`, read in the state `next`
TxRead ==
    /\ pc = "txRead"
    /\ next' = AfterTx(next)
    /\ pc' = IF next' = next THEN "wrap" ELSE "commit"
    /\ UNCHANGED <<odVars, fram, idx, loops, antVars, sysVars, writer,
                   beaconer, upsets, history, keyVars, epoch>>

\* The assignment of the new state
Commit ==
    /\ pc = "commit"
    /\ c3' = next
    /\ pc' = "wrap"
    /\ UNCHANGED <<txEnable, lastTx, lastEdl, deployed, fram, next, idx, loops,
                   antVars, sysVars, writer, beaconer, upsets, history,
                   keyVars, epoch>>

\* on_loop's else branch: it returns at once, without saving
Invalid ==
    /\ pc = "handle" /\ c3 \notin Handled
    /\ c3' = "PRE_DEPLOY"
    /\ pc' = "top"
    /\ UNCHANGED <<txEnable, lastTx, lastEdl, deployed, fram, next, idx, loops,
                   antVars, sysVars, writer, beaconer, upsets, history,
                   keyVars, epoch>>

\* _reset: nothing while the updater is busy; else stop the watchdog app, and
\* stop the node when even that fails
Reset ==
    /\ pc = "reset"
    /\ pc' = "wrap"
    /\ \/ updating /\ UNCHANGED <<watchdog, stopping>>
       \/ ~updating /\ watchdog' = FALSE /\ UNCHANGED stopping
       \/ ~updating /\ stopping' = "reset" /\ UNCHANGED watchdog
    /\ UNCHANGED <<odVars, fram, next, idx, loops, antVars, uptime, updating,
                   writer, beaconer, upsets, history, keyVars, epoch>>

CountLoops == loops + 1
NextLoop == (loops + 1) % StoreEvery

\* The end of on_loop: save the state every StoreEvery loops, not in PRE_DEPLOY
Wrap ==
    /\ pc = "wrap"
    /\ loops' = NextLoop
    /\ pc' = IF loops' = 0 /\ c3 # "PRE_DEPLOY" THEN "store" ELSE "top"
    /\ next' = "ZERO"
    /\ UNCHANGED <<odVars, fram, idx, antVars, sysVars, writer, beaconer,
                   upsets, history, keyVars, epoch>>

\* One write of store_state, on the loop or on_stop
StoreObject ==
    /\ pc \in {"store", "stopStore"}
    /\ fram' = Saved(FramOrder[idx])
    /\ framKey' = SavedKey(FramOrder[idx])
    /\ keyed' = ((keyed /\ ~unread) \/ framKey' # NoKey)
    /\ recorded' = ((recorded /\ ~unread) \/ FramSaysDone')
    /\ IF idx < Len(FramOrder)
         THEN idx' = idx + 1 /\ UNCHANGED pc
         ELSE idx' = 1 /\ pc' = IF pc = "store" THEN "top" ELSE "halt"
    /\ UNCHANGED <<odVars, next, loops, antVars, sysVars, writer, beaconer,
                   upsets, history, key, unread, epoch>>

\* An I2C write to the F-RAM raises: the thread ends, on_stop is cut short
StoreFault ==
    /\ pc \in {"store", "stopStore"} /\ "fault" \in Upsets /\ upsets < MaxUpsets
    /\ upsets' = upsets + 1
    /\ idx' = 1
    /\ pc' = IF pc = "store" THEN "failed" ELSE "halt"
    /\ UNCHANGED <<odVars, fram, next, loops, antVars, sysVars, writer,
                   beaconer, history, keyVars, epoch>>

\* The node stops: the thread ends at the top of its loop, then on_stop saves
Stop ==
    /\ pc \in {"top", "failed"} /\ stopping # "no"
    /\ pc' = IF c3 = "PRE_DEPLOY" THEN "halt" ELSE "stopStore"
    /\ UNCHANGED <<odVars, fram, next, idx, loops, antVars, sysVars, writer,
                   beaconer, upsets, history, keyVars, epoch>>

\* All services have stopped, and the process ends
Halt ==
    /\ pc = "halt" /\ stopping # "factory"
    /\ PowerOff
    /\ UNCHANGED <<fram, framKey, keyed, recorded, epoch, upsets>>

\* A factory reset clears the F-RAM first (clear_state) ...
Clear ==
    /\ pc = "halt" /\ stopping = "factory"
    /\ fram' = BlankFram
    /\ framKey' = NoKey
    /\ keyed' = (keyed /\ ~unread)
    /\ recorded' = FALSE
    /\ pc' = "rekey"
    /\ UNCHANGED <<odVars, next, idx, loops, antVars, sysVars, writer, beaconer,
                   upsets, history, key, unread, epoch>>

\* ... then writes the keys to it again from the object dictionary ...
ForgetKeys == NoKey
KeptKeys == key

\* ... and sets the clock to 0, which makes the timestamp 0 a recent one.
Rekey ==
    /\ pc = "rekey"
    /\ framKey' = KeptKeys
    /\ epoch' = 0
    /\ fram' = [fram EXCEPT !.lastTx = 0, !.lastEdl = 0]
    /\ PowerOff
    /\ keyed' = (key # NoKey)
    /\ UNCHANGED <<upsets, recorded>>

\* A write of clear_state raises: the process ends where it is
ClearFault ==
    /\ pc \in {"halt", "rekey"} /\ stopping = "factory"
    /\ "fault" \in Upsets /\ upsets < MaxUpsets
    /\ upsets' = upsets + 1
    /\ PowerOff
    /\ keyed' = (keyed /\ pc # "rekey")
    /\ UNCHANGED <<fram, framKey, recorded, epoch>>

StateThread ==
    \/ Boot \/ Top \/ Expire \/ Gate \/ PreDeploy \/ Stamp \/ Deploy \/ Fired
    \/ Settle \/ Session \/ TxRead \/ Commit \/ Invalid \/ Reset \/ Wrap
    \/ StoreObject \/ Stop \/ Halt \/ Clear \/ Rekey
-----------------------------------------------------------------------------
(* The other threads, the ground and the hardware.                         *)

\* TX_CTRL over EDL, or an SDO write of tx_control.enable: two writes each
EnableTx(w) ==
    /\ Powered /\ writer[w] = "idle"
    /\ txEnable' = TRUE
    /\ writer' = [writer EXCEPT ![w] = "enabling"]
    /\ silenced' = FALSE
    /\ UNCHANGED <<c3, lastTx, lastEdl, deployed, fram, loopVars, antVars,
                   sysVars, beaconer, upsets, late, stale, linked, keyVars,
                   epoch>>

StampTx(w) ==
    /\ writer[w] = "enabling"
    /\ lastTx' = 0
    /\ writer' = [writer EXCEPT ![w] = "idle"]
    /\ stale' = FALSE
    /\ UNCHANGED <<c3, txEnable, lastEdl, deployed, fram, loopVars, antVars,
                   sysVars, beaconer, upsets, silenced, late, linked, keyVars,
                   epoch>>

DisableTx(w) ==
    /\ Powered /\ writer[w] = "idle"
    /\ txEnable' = FALSE
    /\ writer' = [writer EXCEPT ![w] = "disabling"]
    /\ UNCHANGED <<c3, lastTx, lastEdl, deployed, fram, loopVars, antVars,
                   sysVars, beaconer, upsets, history, keyVars, epoch>>

ClearTx(w) ==
    /\ writer[w] = "disabling"
    /\ lastTx' = epoch
    /\ writer' = [writer EXCEPT ![w] = "idle"]
    /\ stale' = (stale /\ TxTimedOut')
    /\ silenced' = (silenced \/ ~txEnable)
    /\ late' = IF silenced THEN late ELSE 0
    /\ UNCHANGED <<c3, txEnable, lastEdl, deployed, fram, loopVars, antVars,
                   sysVars, beaconer, upsets, linked, keyVars, epoch>>

\* The beacon thread's on_loop reads tx_control.enable, then status, then sends
BeaconArm ==
    /\ Powered /\ "beacon" \in Environment /\ beaconer = "idle" /\ TxAllowsBeacon
    /\ beaconer' = "armed"
    /\ UNCHANGED <<odVars, fram, loopVars, antVars, sysVars, writer, upsets,
                   history, keyVars, epoch>>

BeaconSend ==
    /\ beaconer = "armed"
    /\ beaconer' = IF c3 = "BEACON" THEN "sending" ELSE "idle"
    /\ late' = IF c3 = "BEACON" /\ silenced THEN late + 1 ELSE late
    /\ UNCHANGED <<odVars, fram, loopVars, antVars, sysVars, writer, upsets,
                   silenced, stale, linked, keyVars, epoch>>

BeaconSent ==
    /\ beaconer = "sending"
    /\ beaconer' = "idle"
    /\ UNCHANGED <<odVars, fram, loopVars, antVars, sysVars, writer, upsets,
                   history, keyVars, epoch>>

\* EdlService accepts a packet: last_timestamp = now
EdlPacket ==
    /\ Powered /\ "packet" \in Environment
    /\ lastEdl' = 0
    /\ linked' = (linked /\ EdlActive')
    /\ UNCHANGED <<c3, txEnable, lastTx, deployed, fram, loopVars, antVars,
                   sysVars, writer, beaconer, upsets, silenced, late, stale,
                   keyVars, epoch>>

\* RTC_SET_TIME over EDL: the wall clock moves by d, and every age with it
SetClock(d) ==
    /\ Powered
    /\ lastTx' \in Moved(lastTx, TxCap, d)
    /\ \E a \in Moved(fram.lastTx, TxCap, d), b \in Moved(fram.lastEdl, EdlCap, d) :
          fram' = [fram EXCEPT !.lastTx = a, !.lastEdl = b]
    /\ lastEdl' \in Moved(lastEdl, EdlCap, d)
    /\ epoch' \in Moved(epoch, EpochCap, d)
    /\ \A a \in {lastTx', lastEdl', fram'.lastTx, fram'.lastEdl, epoch'} :
          a # Never => a >= -MaxAhead
    /\ stale' = (stale /\ TxTimedOut')
    /\ linked' = (linked /\ EdlActive')
    /\ UNCHANGED <<c3, txEnable, deployed, loopVars, antVars, sysVars, writer,
                   beaconer, upsets, silenced, late, keyVars>>

\* A unit of time passes, on both clocks
Tick ==
    /\ lastTx' = Older(lastTx, TxCap)
    /\ lastEdl' = Older(lastEdl, EdlCap)
    /\ fram' = [fram EXCEPT !.lastTx = Older(@, TxCap), !.lastEdl = Older(@, EdlCap)]
    /\ epoch' = Older(epoch, EpochCap)
    /\ uptime' = IF Powered THEN Older(uptime, UptimeCap) ELSE uptime
    /\ sinceDeploy' = IF Powered THEN Older(sinceDeploy, DeployCap) ELSE sinceDeploy
    /\ linked' = (linked /\ EdlActive')
    /\ UNCHANGED <<c3, txEnable, deployed, loopVars, attempts, stopping,
                   watchdog, updating, writer, beaconer, upsets, silenced,
                   late, stale, keyVars>>

\* The status object is written over SDO or the REST API
OperatorWrite(s) ==
    /\ Powered
    /\ c3' = s
    /\ stale' = FALSE /\ linked' = FALSE
    /\ UNCHANGED <<txEnable, lastTx, lastEdl, deployed, fram, loopVars,
                   antVars, sysVars, writer, beaconer, upsets, silenced, late,
                   keyVars, epoch>>

\* A crypto key is written over SDO
SetKey(k) ==
    /\ Powered
    /\ key' = k
    /\ UNCHANGED <<odVars, fram, loopVars, antVars, sysVars, writer, beaconer,
                   upsets, history, framKey, keyed, unread, recorded,
                   epoch>>

\* The updater starts or ends an update
ToggleUpdate ==
    /\ Powered /\ "update" \in Environment
    /\ updating' = ~updating
    /\ UNCHANGED <<odVars, fram, loopVars, antVars, uptime, stopping, watchdog,
                   writer, beaconer, upsets, history, keyVars, epoch>>

\* C3_SOFT_RESET, C3_HARD_RESET or C3_FACTORY_RESET over EDL
StopRequest(kind) ==
    /\ Powered /\ pc \notin {"stopStore", "halt", "rekey"} /\ stopping = "no"
    /\ upsets < MaxUpsets
    /\ upsets' = upsets + 1
    /\ stopping' = kind
    /\ UNCHANGED <<odVars, fram, loopVars, antVars, uptime, watchdog, updating,
                   writer, beaconer, history, keyVars, epoch>>

\* Power is lost, at any step
Crash ==
    /\ Powered /\ "crash" \in Upsets /\ upsets < MaxUpsets
    /\ upsets' = upsets + 1
    /\ PowerOff
    /\ keyed' = (keyed /\ pc # "rekey")
    /\ UNCHANGED <<fram, framKey, recorded, epoch>>

\* Nobody pets the watchdog: its app was stopped by _reset, or in flight mode
\* the watchdog thread (__main__) sees a FAILED service
WatchdogBite ==
    /\ Powered
    /\ ~watchdog \/ ~Petted
    /\ PowerOff
    /\ keyed' = (keyed /\ pc # "rekey")
    /\ UNCHANGED <<fram, framKey, recorded, epoch, upsets>>

Next ==
    \/ StateThread
    \/ \E w \in Writers : EnableTx(w) \/ StampTx(w) \/ DisableTx(w) \/ ClearTx(w)
    \/ BeaconArm \/ BeaconSend \/ BeaconSent
    \/ EdlPacket
    \/ \E d \in ClockSteps : SetClock(d)
    \/ Tick
    \/ \E s \in OperatorStates : OperatorWrite(s)
    \/ \E k \in Keys : SetKey(k)
    \/ ToggleUpdate
    \/ \E kind \in Upsets \ {"crash", "fault"} : StopRequest(kind)
    \/ BootFault \/ StoreFault \/ ClearFault \/ Crash \/ WatchdogBite

Spec == Init /\ [][Next]_vars

\* The state thread is scheduled, time passes, and the watchdog circuit bites.
Fairness == WF_vars(StateThread) /\ WF_vars(Tick) /\ WF_vars(WatchdogBite)

FairSpec == Spec /\ Fairness
-----------------------------------------------------------------------------
(* What should hold.                                                       *)

FlagsOK ==
    /\ txEnable \in BOOLEAN /\ deployed \in BOOLEAN /\ updating \in BOOLEAN
    /\ watchdog \in BOOLEAN
    /\ silenced \in BOOLEAN /\ stale \in BOOLEAN /\ linked \in BOOLEAN
StatusOK ==
    /\ c3 \in Statuses /\ next \in Statuses
    /\ lastTx \in Ages /\ lastEdl \in Ages /\ epoch \in Ages
FramOK ==
    /\ fram \in [status : Statuses, deployed : BOOLEAN, txEnable : BOOLEAN,
                 lastTx : Ages, lastEdl : Ages]
    /\ idx \in 1..Len(FramOrder)
LoopOK ==
    /\ pc \in StateSteps \cup StopSteps
    /\ loops \in 0..(StoreEvery - 1)
    /\ attempts \in Nat /\ sinceDeploy \in 0..DeployCap /\ uptime \in 0..UptimeCap
ThreadsOK ==
    /\ stopping \in {"no", "reset", "factory"}
    /\ writer \in [Writers -> {"idle", "enabling", "disabling"}]
    /\ beaconer \in {"idle", "armed", "sending"}
    /\ upsets \in 0..MaxUpsets /\ late \in Nat

KeysOK ==
    /\ key \in Keys \cup {NoKey} /\ framKey \in Keys \cup {NoKey}
    /\ keyed \in BOOLEAN /\ unread \in BOOLEAN /\ recorded \in BOOLEAN

\* The type invariant: in particular the loop counter stays below StoreEvery,
\* so a state is saved again and again (state.py, on_loop).
TypeOK == KeysOK /\ FlagsOK /\ StatusOK /\ FramOK /\ LoopOK /\ ThreadsOK

\* Once a disable of tx is complete and nothing enables tx again, the beacon
\* thread starts at most one more beacon: the one whose check of
\* tx_control.enable came before (beacon.py reads enable and status at
\* different times, and the state leaves BEACON only a loop later).
AtMostOneLateBeacon == silenced => late <= 1

\* If tx has been timed out since a loop began, that loop leaves BEACON, for
\* whatever the other threads write between its reads and its assignment,
\* unless the periodic reset is due, which the code tests before tx, or an
\* operator writes the status in between.
NoBeaconWhenStale == pc = "top" /\ stale /\ ~ResetTimedOut => c3 # "BEACON"

\* If EDL has been active since a loop began in STANDBY, BEACON or EDL, that
\* loop ends in EDL, unless an operator writes the status in between.
SessionEntersEdl == pc = "top" /\ linked => c3 = "EDL"

\* The periodic reset of the system is never begun by a loop during the whole
\* of which EDL was active.
NoResetInSession == pc = "reset" => ~linked

\* Once the F-RAM has shown that deployment is over the antennas are not fired
\* again, through any crashes, torn saves and restarts, also those whose
\* restore fails, until a factory reset, or until a C3 whose restore_state
\* raised is stopped: on_stop writes the defaults of the objects it did not
\* read over the record (state.py:101, :299).
NoRefire == pc = "firing" => ~recorded

\* Once the F-RAM has held a crypto key it does not lose it, through factory
\* resets, which clear the keys and write them back, crashes and restarts, and
\* the C3 runs with one, unless its restore_state raised: it runs without
\* then, but the F-RAM keeps the key until on_stop or a factory reset of that
\* C3 writes its default over it (state.py:101, :320).  A factory reset that is
\* cut short in between (power, watchdog, F-RAM error) loses the keys too.
KeyKept == keyed => (IF Powered /\ ~unread THEN key ELSE framKey) # NoKey

\* With finitely many upsets the C3 gets through PRE_DEPLOY and DEPLOY to an
\* operational state.
EventuallyOperational == <>(c3 \in PostDeploy)

\* When the reset timeout has passed in STANDBY or BEACON the C3 restarts,
\* unless a session or an update begins.
ResetHappens ==
    (c3 \in {"STANDBY", "BEACON"} /\ ResetTimedOut)
        ~> (~Powered \/ EdlActive \/ updating)

\* A state thread that died of an exception in flight is restarted: the
\* watchdog is no longer petted and resets the C3.
FailedIsReset == pc = "failed" ~> pc # "failed"
-----------------------------------------------------------------------------
(* Inductive strengthenings of the properties above, for the proofs.       *)

\* While the keys are being written back they are only in the object
\* dictionary; one that did not read them does not count on having them.
KeyInv ==
    /\ framKey # NoKey => keyed /\ pc # "rekey"
    /\ keyed => /\ Powered /\ ~unread => key # NoKey
                /\ pc # "rekey" => framKey # NoKey
                /\ pc = "rekey" => ~unread

\* A C3 whose restore failed runs no loop, and what it has of the record it has
\* from the F-RAM.
UnreadInv ==
    /\ unread => pc \in {"failed", "stopStore", "halt", "rekey"}
    /\ unread => c3 \notin {"INVALID", "OFFLINE"}
    /\ unread /\ pc \in {"failed", "stopStore"} =>
          (deployed => fram.deployed) /\ (c3 \in PostDeploy => fram.status = c3)

\* While tx is silenced it is disabled, and the one late beacon is spent
\* before the beacon thread can be past its check again.
LateInv ==
    silenced => ~txEnable /\ (late = 0 \/ (late = 1 /\ beaconer # "armed"))

\* What the place in the loop says of the state, without operator writes.
FlowInv ==
    /\ Powered /\ ~unread => c3 \in Handled
    /\ UnreadInv
    /\ fram.status \notin {"INVALID", "OFFLINE"}
    /\ pc = "stamp" => c3 = "PRE_DEPLOY"
    /\ pc \in {"firing", "settle"} => c3 = "DEPLOY"
    /\ pc \in {"txRead", "reset"} => c3 \in PostDeploy
    /\ pc = "txRead" => next = c3
    /\ pc = "commit" => \/ c3 \in PostDeploy /\ next \in PostDeploy
                        \/ c3 = "PRE_DEPLOY" /\ next = "DEPLOY"

\* How the F-RAM lags behind the object dictionary.
RecordInv ==
    /\ Running /\ ~unread =>
          /\ fram.deployed => deployed
          /\ deployed => fram.deployed \/ c3 \in PostDeploy
          /\ fram.status \in PostDeploy => c3 \in PostDeploy
    /\ recorded => FramSaysDone
    /\ pc = "firing" => ~deployed

\* A loop during the whole of which EDL was active is on its way to EDL, and
\* one during the whole of which tx was timed out on its way out of BEACON or
\* to the reset, without operator writes.
TowardsEdl ==
    /\ pc \notin {"off", "reset", "txRead", "stamp", "firing", "settle"}
    /\ pc \in {"expire", "gate", "handle"} => c3 \in PostDeploy
    /\ pc = "commit" => next = "EDL"
    /\ pc \in {"wrap", "store", "top"} => c3 = "EDL"
SessionInv == linked => EdlActive /\ TowardsEdl

OutOfBeacon ==
    /\ pc # "off"
    /\ pc = "commit" => next # "BEACON"
    /\ pc = "reset" => ResetTimedOut
    /\ pc \in {"wrap", "store", "top"} /\ ~ResetTimedOut => c3 # "BEACON"
StaleInv == stale => TxTimedOut /\ OutOfBeacon
-----------------------------------------------------------------------------
(* What the documentation and the comments say, and the code does not do.  *)

\* docs/state.rst: STANDBY -> BEACON and EDL -> BEACON when tx is enabled.
\* In BEACON, between two loops and with no command under way, tx is enabled
\* or its timestamp has run out and the next loop leaves.
TxEnabledInBeacon ==
    pc = "top" /\ c3 = "BEACON" /\ (\A w \in Writers : writer[w] = "idle")
        => txEnable \/ TxTimedOut

\* docs/state.rst: PRE_DEPLOY -> DEPLOY after a timeout and a good battery
\* level.
DeployOnGoodBattery ==
    [][c3 = "PRE_DEPLOY" /\ c3' = "DEPLOY" => BatteryGood]_vars

\* docs/state.rst: BEACON -> STANDBY after a timeout.  A loop that begins and
\* ends with tx timed out, and begins no reset of the system, leaves BEACON.
BeaconEndsAtTimeout ==
    pc = "top" /\ stale /\ watchdog /\ stopping = "no" => c3 # "BEACON"

\* docs/state.rst: "On a reset, the last state will be the initial state."
\* on_start makes EDL a STANDBY.
LastStateIsInitial ==
    [][pc = "off" /\ pc' = "top" /\ fram.status \in C3States => c3' = fram.status]_vars

\* state.py's error message: "C3 invalid state, resetting to PRE_DEPLOY".
InvalidStatusReset == (c3 = "INVALID") ~> (c3 = "PRE_DEPLOY")
-----------------------------------------------------------------------------
(* The mission the state machine carries out.                              *)

Mission == INSTANCE C3Mission WITH
    mode   <- IF Running /\ ~unread THEN c3 ELSE "OFF",
    done   <- FramSaysDone,
    firing <- pc = "firing"

\* Every step is a step of the mission, or none: docs/state.rst's transitions,
\* and its restarts but for one.  A restart resumes the operational state in the
\* F-RAM, as :21 of that file says, except that EDL becomes STANDBY (state.py:85),
\* which it does not say (LastStateIsInitial); a C3 whose restore failed carries
\* out no mission.
ImplementsMission == Mission!Spec
=============================================================================
