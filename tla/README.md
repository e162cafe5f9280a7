# TLA+ models of the OreSat C3 software

The C3 is the flight computer of the OreSat CubeSats. Its software (`oresat_c3/`,
Python) is a set of *services*, each a thread of the `olaf` framework that calls
`on_loop` again and again, around one object dictionary (OD) that every thread, the
ground (through EDL commands) and an operator (through SDO) read and write. There
are no locks around the OD, the OPD or the services' own fields. What is hard about
this code is hence what happens *between* two of its lines: what another thread, a
power cut, a lost packet or a failing card does there.

The project models that: one module per part, with one action per handler or per
stretch of a handler in which no other thread can make a difference; TLC
configurations that check each module on small instances; and proofs, checked by
TLAPS, of the safety properties that matter most, for every value of the constants.

Reading order: this file, `C3Mission`, `C3State`, `OpdCard`, `NodeManager`, `OpdNode` with
`OpdCalls`, `Radios`, `EdlUplink`, `FileTransfer`, `Firmware`, `Adcs`, then `PowerClients`
with its three parts; the proofs after the module they are about. The `MC...` modules give
constants their values for TLC.

## 1. Inventory

| Part (source) | State it keeps | Operations | Talks to | Hard behaviour | What makes it correct |
|---|---|---|---|---|---|
| State service (`services/state.py`) | `status`, `tx_control`, `antennas.deployed`, `edl.last_timestamp`, the crypto keys, attempts, loop count; the F-RAM copy | the seven states, store/restore, reset, factory reset | beacon and EDL threads write its objects; F-RAM, antennas, updater, watchdog | three threads on two objects; saves torn by resets; wall clock moved; I2C errors in a save and in the restore | antennas not fired again, tx obeyed and timed out, sessions and keys kept, reset and recovery in the end |
| Watchdog thread (`__main__.py`) | none | pets while no service has FAILED | every service, `olaf` | a dead thread nobody sees; one that dies again after every restart | a dead thread leads to a restart, and not to a loop of them |
| Beacon service (`services/beacon.py`) | none of its own | periodic beacon, LEOP burst | state, `tx_control`, radios | check, then send | not on the air once tx is off |
| Node manager (`services/node_manager.py`) | per card: status, resets, `is_updating`, `last_enable` | survey, reset, probe, keep on; enable/disable | OPD, CAN heartbeats, SDO, flasher, clients | four reads of one status that may disagree; decisions on a survey that is stale when acted on | reset what hangs, nothing else; keep on what must be on; give up for good |
| OPD (`subsystems/opd.py`, `drivers/max7310.py`) | per card: status, output register | probe, enable, disable, reset, status | node manager, EDL, SDO | I2C faults half-way; two threads on one register; status against pin | a call is one step when alone; cut stays off; starts in the mode asked for |
| Node flasher (`services/node_flasher.py`) | the flash under way | queue and do a flash: stop, clear, load, start, clean up | EDL, node manager, CAN, the cache's files | a step that fails half-way; a file removed behind the cache store's index | no node cleared for half an image; bus and status left as found; the image gets there in the end |
| Radios (`services/radios.py`) | sockets, UHF power, S-band state, its timeout and faults | receive, send, reset the UHF, boot, time out and shut down the S-band | router, beacon, node manager, the callback of `should_enable` | lost, doubled packets; a callback and a loop on one session; an exception that takes the uplink with it | the link comes back; one restart per command at most; the SDR does not stay powered |
| Channel router (`services/channel_router.py`) | queues | route a frame, send responses | radios, COP, EDL | one thread waits for frames and sends | nothing routed to the wrong channel |
| COP manager (`services/cop_manager.py`) | FARM-1: V(R), buffer | admit, pass on | router, EDL service | admission one loop before delivery | in order, no gap, nothing lost |
| EDL service (`services/edl.py`, `protocols/edl_*.py`, `sdls.py`, `uslp.py`) | sequence count | accept a packet, run a command, save the count | router, COP, every service | one count for two channels; reset between run and save; a packet whose unpacking ends the service | no old packet again; what was acknowledged runs or is taken back |
| CFDP (`protocols/cfdp.py`), cache store (`protocols/cachestore.py`) | transactions, put requests, file lists | receive, send, proxy, list | EDL service, mission database, `cfdppy` | retransmissions, a file overwritten or removed while it is sent | files arrive whole; every request is dealt with; no transaction waits for ever |
| Payload (`services/payload.py`) | state, power indicator, handler | three missions' handlers | node manager, battery, I2C | state read, then overwritten; hysteresis; a card the manager does not see running | off when told, off when low, no bouncing |
| Mission database (`services/mission_database.py`) | points, GPS clock | power the GPS, record, rest | node manager, battery, OD | the card is someone else's too | the GPS rests |
| ADCS manager (`services/adcs_manager.py`) | mode, samples, filter | seven control modes | CAN callbacks, magnetorquers | a command of three writes, each failing alone; mode written meanwhile; samples asked for in one place and taken in another | all axes or none, at rest when idle, no end for want of a sample |
| Antennas, RTC, GPIO, F-RAM, Si41xx | hardware | I/O | state service, EDL, radios | failing accesses | |
| ADCS mathematics, packet formats, templates, scripts | none | conversions | | | |

`PROJECT.json` lists the same parts with what is modelled of each, and the hazards at
their lines. Parts outside the repository (`olaf`, `canopen`, `ccsds_cop`, `cfdppy`,
`spacepackets`, `oresat_configs`) are modelled from how `src/` uses them. One fact
about `olaf` is used throughout: an exception that leaves `on_loop` ends that service.

## 2. The modules

### C3State, C3Mission: the state machine

`C3State` follows the thread of the state service through one loop: `Top` (check of
the EDL timestamp), `Gate`, the handler of the current state (`PreDeploy`/`Stamp`,
`Deploy`/`Fired`/`Settle`, `Session`/`TxRead`), `Commit`, `Wrap`, `StoreObject` for
each saved object, `Reset` and `Stop`. The other threads are `EnableTx`/`StampTx` and
`DisableTx`/`ClearTx` (the two writes of TX_CTRL and of the SDO callback),
`BeaconArm`/`BeaconSend`/`BeaconSent` (one send, or one LEOP burst), `EdlPacket`,
`SetClock` (RTC_SET_TIME), `OperatorWrite`, `ToggleUpdate`, `StopRequest`, `Crash`,
`StoreFault`, `BootFault`, `WatchdogBite` and `Tick`. A timestamp is its age on the wall clock,
capped just past the timeout it is compared with: exact, as the code only compares.

`Boot` is on_start when every read of `restore_state` succeeds. `BootFault` is one that
raises: the objects before it have the values in the F-RAM, those from there on their
defaults, and the service has FAILED before on_start makes anything consistent. No loop
runs then. The watchdog bites, and the next start reads the F-RAM afresh; but a stop or a
factory reset that comes first has on_stop save what this C3 has (`state.py:101`), and
writes the defaults over what it could not read. `unread` marks such a C3.

A factory reset is `Stop`, the saves of on_stop, then `Clear` (the F-RAM is blank),
`Rekey` (the keys are written back and the clock is set to 0); `ClearFault` and `Crash`
may end it at any of them. `key` stands for all crypto keys, `framKey` for their copy;
they are read, written and lost together. `epoch` is the age of the timestamp 0: beyond
every timeout, until a factory reset makes 1970 the present and a cleared timestamp a
recent one. `keyed` and `recorded` are history: the F-RAM got a key, or has shown that
deployment is over, and has not lost it in one of the ways in which the code does lose it.
For the key these are a factory reset cut short after its clear (`state.py:311`) and what
an `unread` C3 saves; for the record a factory reset and the same. They are the exceptions
`KeyKept` and `NoRefire` make, besides that a C3 runs without its key while it is `unread`.

`silenced`, `late`, `linked`, `stale` are history variables: tx was disabled and
nothing enabled it since; beacons begun since; EDL was active, or tx timed out, during
the whole of the current loop. An operator's write clears the last two.

`C3Mission` is the abstract specification: off or on, waiting, deploying, firing or
operating, done or not. It says that a firing happens only while deploying, that
operating comes after deployment and that a restart resumes where the F-RAM is, except
that EDL becomes STANDBY (`state.py:85`). That is not what `docs/state.rst:21` says ("the
last state will be the initial state"): see section 5. A C3 whose restore failed
carries out no mission (mode OFF), and when it saves its defaults the record may be gone
(`Forget`). `ImplementsMission` is the refinement, and it is proved.

### NodeManager: the cards

One loop of the manager is `Wake` (with its second of sleep), the survey of each card,
`Tally`, then one of `ActNothing`, `ActNotFound`, `ActOff`, `ActOn`, `ActDead`,
`ActError`/`ResetDone` per card. Others: the SDO commands (`CommandEnable`,
`CommandDisable`, `CommandOpdOn/Off`), the EDL commands that go around the manager
(`EdlSysEnable`, `EdlScan`, `EdlProbe`, `EdlPower`, `EdlCut`, `EdlReset`), `Stamp`
(the write of `last_enable` that follows an enable or a flash), `FlashStart`,
`FlashEnd`, and the cards: `Beat`, `CardFails` (trips, hangs, is lost, has a
brown-out), `CardReturns`, `BusChange`, `Tick`.

`_get_nodes_state` is given the card's heartbeat and then reads `opd.status` up to four
times, over I2C, once per test (`node_manager.py:214`-`:220`), and the boot pin of an
STM32: `Survey` (with `silent`, what the heartbeat said), `AskFault`, `AskMissing`,
`AskOff`, `AskOn`, `AskBoot`, `Assign`, each a step. If no read is the answer to its
own question, because a probe or an upset came between two of them, the card keeps its last
status (`:229`): an ERROR of the loop before, for instance, for which it is reset.

What an operation of `OpdNode` makes of a card is `OpdCard`'s, by the card's class
(`Processor`); one operation is one step, and so is a command on the whole OPD.
EDL_RESET's half second and the sleep within `Wake` are not split. A brown-out returns
the registers of a card's MAX7310 to their defaults, after which setting the enable bit
gives no power until something makes the pin an output again (`ready`). `rest` and
`shielded` are history: time since the card really was powered, reset or flashed; the
cards the loop has no reason to reset. A card loses its shield when a read finds a
fault, when the survey comes between the two writes that restart its clock, and when it
falls back on an old ERROR. The SPR8 pseudo-card, the UART selection, and
the addresses without a fault pin are left out.

### OpdCard, OpdCalls, OpdNode: one card, access by access

`OpdNode` is one object of the OPD between two threads, the manager's and one of the
others, each with its own set of calls. A call is a sequence of try blocks, a try block
a sequence of I2C accesses with the status it leaves when they succeed and when one
fails; `EnableCall`, `DisableCall` and the others spell the methods and their overrides
out that way. `Access` does the next: `output_set` and `output_clear` are two, a read
(`Reads`) and a write of what was read (`Writes`). `Upset` takes the chip away, trips its
breaker or lets it brown out, once, at any point; `Return` brings it back.

`OpdCalls` is the abstract specification: a call is one step, as `OpdCard` has it and as
`NodeManager` uses it. The mapping shows the card as it was when the call began until it
ends. It holds while the registers are `known`: from a rescan that found the card until
two calls overlap, or an upset comes within a call. `cut` is history too, for the
disables: whether one was the last word, and whether it was alone.

### Radios: the UHF link and the S-band session

`Loop` is one pass of the service: `CheckUhf` with `DisableUhf`/`EnableUhf`,
`CheckSband`, `CheckWanted`, `ContinueBoot`, `CheckTimeout`, `Receive`. The session's own
steps (`Procedures`: `Enable`, `PowerSdr`, `LookAtCard`, `AskSdr`, `Nap`; `Disable`,
`ShutDown`, `ClearTimeout`) are run by that loop and by `WriteShouldEnable`, the callback
of the command, on the same fields. `Survey` is the node manager, `SendBySband` the
beacon and the router, `WriteDownlink` the ground, `Trip` the UHF's timer; `Bite`, `Stop`
and `Start` end and begin the process. What a service raises ends it (`Raise`), and the
watchdog is not petted from then on (`Unwell`).

Three attributes never get a value, so a pass that comes to the S-band's queue, and a
sender that is to use it, raise; the model has the exceptions and nothing of what the
code has behind them. A timestamp is unset, past or ahead. SDO errors count up to
`SDO_FAULT_LIMIT`. The callback's long sleep lets the manager see the card (`Seen`): the
model takes its five seconds to be longer than a survey.

### EdlUplink: from the antenna to the command

The ground `Send`s; `Receive` delivers any packet sent so far any number of times, or
garbage; `Router`, `Cop` and `Edl` are the three threads with their queues (`recvQ`, `copQ`,
`cmdQ`, `fileQ`), `farm`/`fdu`/`vr` the FARM-1 state, `count` the sequence count; `Save` and
`Reset` the F-RAM. Polling, running and polling the file queue are separate steps of the EDL
thread. A packet's `form` is "good", "bad" (the HMAC or the header is refused, and
`_frame_to_packet` drops it), "raises" (a request whose `unpack` raises something else,
`edl_command.py:465`, outside any try: the service ends, pc "failed") or, on the file
channel, "stray" (a PDU without a destination, which ends the service once it is accepted).
In flight the watchdog then resets the C3 (`Bite`), and what FARM-1 admitted behind that
packet is lost with V(R). Left out: lockout and window of FARM-1 and its directives, CLCWs,
the sending of files, `rejected_count`, saves in PRE_DEPLOY (none happen there). On a reset
`executed` (a history) is cut to what was saved.

### FileTransfer: files to the ground

The source thread is `IdleHandling`, `TransactionStart`, `SendData`, `SendEof`,
`SourceTimedOut` and what arrives for it (`Acknowledged`, `Finished`,
`Retransmission`); the dest thread `ListDirectory`, `DestTimedOut`, `DestGivesUp`
and `HandleMetadata`, `HandleEof`, `HandleAck`. One step is one call of a state machine or
one access to the cache, whose lock is held no longer. `UpdateFiles` is the mission
database removing its oldest file. A file is a version and a length, its checksum the
segments read for it; `gnd` is what the ground has of the transaction.

Much of the behaviour is `cfdppy`'s. It is modelled as far as the overrides in `cfdp.py` and
the counts in `tests/protocols/test_cfdp.py` show it: with a limit of two, an EOF is sent
twice, the transaction cancelled, the cancelling EOF sent twice, the transaction abandoned.
Nothing there times out the wait for Finished of an entity in acknowledged mode
(`edl.py:130`), so it lasts until the PDU comes or the request is cancelled. The queues of
PDUs only delay what the link delays and loses anyway, so a PDU arrives when its thread
takes it. `rewritten` is history: the listing was written while its checksum was taken.
`since` says which listing answers a request. Files sent by the ground are in Firmware; the
EDL packets around the PDUs and suspension are left out.

### Firmware: from an upload to the bootloader

The ground uploads an image (`Metadata`, `WriteData`, `Complete`, with `LoseTransfer` and
`StoreRaises` for a transfer that fails), sends CO_NODE_FLASH (`Command`, and `Repeat` for
a command sent twice or wrong), waits, and starts over (`Look`). The flasher is `Take`,
`Check`, `Begin`, `Clear`, `Load`, `StartProgram`, each of which may fail, and its
`finally`: `Finish`, `Remove`. `indexed` and `disk` are the two halves of one file: its
name in the cache store's list and what the file system has, which the flasher uses
directly, without the store and its lock. After `Remove` the list has a name that no
file goes with, until the next upload truncates the file into being (`Truncated`) or a
restart reads the directory again. `Boots` is MCUboot, which takes a whole image only.
NodeManager has the same flash as the manager sees it.

### Adcs: attitude control

`OnData` is the decorated callback that puts a sample together and publishes it; `Top`,
`StartFilter` and `Guide` are the loop up to the control modes: whether every sensor has
reported, the filter started from their samples, the data guidance needs. The samples are
looked at in each of them, with the callbacks in between. `Control` the mode's branch by the
mode *as it is then*; `SetAxis`/`OffAxis` one SDO write of `_command_magnetorquer_current`
each; `Sent` what the branch does afterwards. Reads of the mode with nothing blocking
between them are one read. `RW_POINTING` and `THERMAL_REORIENT` multiply an `ODVariable`,
not its value, and so always raise: the model has that. `coil` says whether an axis is off,
at this command's setpoint or at an older one; `refused` which axes failed last.

### PowerClients: payload and mission database on one battery

`CardService` is the node manager as its clients see it (enable, disable, status, a survey
that follows later); `Payload` and `MissionDatabase` are the two services; `PowerClients`
composes them and states the properties. A pass of the payload is: read the state, the
handler, the battery check. An OPD_PROBE of a running card leaves its power and makes the
OPD take it for disabled ("marked"): the survey says OFF until it is enabled again, and
neither `disable` nor `_idle` does anything about it. Packs have levels 0..3 around the two
thresholds. `missed`, `topped`, `foreign` are history: PiPlasma's powersave met a powered
card that the manager did not see running, or the ground chose that state or gave the power;
both packs were high since; someone else powered the GPS. The points, files and science data
are left out.

## 3. What the runs check

| Run | Question | Properties |
|---|---|---|
| C3StateRadio | tx, beacons and sessions under races, a clock set back, a bad status | TypeOK, AtMostOneLateBeacon, NoBeaconWhenStale, SessionEntersEdl, NoResetInSession |
| C3StateMission | the mission under two of: power cuts, torn or failed saves, failed restores, resets, factory resets | NoRefire, KeyKept, ImplementsMission, EventuallyOperational, ResetHappens, FailedIsReset |
| NodeManagerCard | one STM32 under every upset, SDO commands, probes, scans, cuts and flashes, between any two reads of its survey | TypeOK, ShieldHolds, RetiredStaysOff |
| NodeManagerLive | recovery of one Octavo in flight, from hangs, brown-outs, losses and a bus that goes down, and from the commands behind the manager's back | HungIsDealtWith, AlwaysOnPowered, RetiredIsCut |
| OpdNode | two threads on one card of each class, with upsets | CutStaysOff, ImplementsCalls, BootsAsAsked |
| Radios | a session by two threads, what it raises, and the way back | RestartsNeedCommands, LinkRestored, SessionEnds |
| EdlUplink | the uplink on a bad link with resets and packets that end the service | InOrder, NoneOlder, AcknowledgedArrives |
| FileTransfer | two requests over a lossy link, files rewritten and removed | AcceptedWhole, Quiesces, DestEnds |
| Firmware | uploads and flashes that fail, repeat and overlap | ClearedForWhole, LeftAsFound, EventuallyFlashed |
| PowerClients | two clients, one battery | NoBounce, OffObeyed, PowersaveCuts, GpsRests |
| AdcsManager | modes, late samples, failing writes | NotStarved, AllOrNothing, QuietIdle, DetumbleEnds |
| EdlUplinkOrderDoc | a statement of the repository the code does not keep | AcknowledgedRuns: violated |

Every module keeps its `TypeOK`. Only C3State's and the node manager's are in a run.
Those of C3State, NodeManager, OpdNode, EdlUplink, FileTransfer, Radios and Firmware are
proved; Adcs's and those of PowerClients and its parts hold under the same configurations.

What Radios shows needs saying: every S-band session that reaches its queue ends in an
exception, which takes the receiving thread with it, and the uplink only comes back
because the watchdog then resets the C3. That cannot go on by itself, as `should_enable`
is not saved: `RestartsNeedCommands`. A command of False can cost a reset too, when a
pass comes between the reset of the state (`radios.py:561`) and the first value of the
timestamp (`:247`).

The properties name the failures the code has as exceptions, and say that there are no
others:

- `KeyKept`, `NoRefire`, `ImplementsMission`: what a C3 whose restore failed saves.
- `ShieldHolds`: the reads of one survey disagree, and the card keeps an old ERROR.
- `HungIsDealtWith`: a probe marks a hung card that is not always on DISABLED
  (`TakenForOff`), and the manager takes it for one that is off. `AlwaysOnPowered`: a card
  whose MAX7310 lost its outputs in a brown-out stays ENABLED for the OPD, and only its
  silence tells, hence not on the ground, with the bus down or without a node id
  (`Unwatched`). Both, and `RetiredIsCut`, are about what follows the last command that
  goes around the manager (`CommandsCease`): a ground that cuts a card off again and again
  has its way.
- `AcknowledgedArrives`: outside flight mode nothing resets a C3 whose EDL service ended.
- `Quiesces`: the ground acknowledged an EOF and then fell silent (`Stranded`), or a
  recording was removed while it was sent.
- `OffObeyed`, `PowersaveCuts`: a powered card that a probe marked OFF; for the second also
  one that was in error when PiPlasma's handler went to save power (`missed`).
- `GpsRests`: the service ends in an AttributeError when someone else powered its card.
- `NotStarved`: the end of THERMAL_DETUMBLE, which starts the filter without asking.

`ClearedForWhole` is limited to operators who send a flash command once, after its
upload: a command repeated while the same name is uploaded again flashes the half that
is there (TLC shows it when `repeats = 0` is dropped). MCUboot then refuses the image, but
the slot was cleared.

**Bounds.** Timeouts are 0 to 2 ticks: with ages capped a tick past the timeout, "not yet",
"exactly" and "past" all occur, and more ticks only repeat them. State is saved every second
loop instead of every tenth, so that loops with and without a save alternate. One writer of
tx_control and two upsets (C3StateMission) suffice for every pair of threads and for an
upset during recovery from another; one key, set again at any time, tells an empty F-RAM
from a full one. A restore may fail at any object. `LateBeacons`, `NeverRefired`,
`KeysSurvive` and `C3StateProofs!Implementation` are proved for any number.
`ReattemptTimeout` is 0 in C3StateMission: the next attempt waits for one tick. The node
manager's runs have one card, as the reads of its survey are steps: an STM32 with its
bootloader and `MaxResets = 2` (one less than the code, so that a last reset differs from a
first) for safety, an Octavo with `MaxResets = 1` for liveness, which also keeps its
timeouts at one tick. The first probes for a missing card in every loop, the other in every
second. One upset comes at any point of the loop, with any number of commands before and
after it. A survey looks at one card at a time, and the theorems are for any list, cards
without node id or OPD address and children included; those are in no run. OpdNode has every
class and every call in both threads, and one upset, which every access of every call may
meet. Two EDL packets (three in the violation) of every form are received up to
four times in any order, numbered without a roll-over, which takes one packet more; the theorems
are for any number of packets and any greatest number.
FileTransfer has two requests, so that one answers while the other is made, files of up to
two segments, so that a listing can be torn, and five PDUs from the ground: a whole
exchange, or two listing requests and a retransmission of the first listing after the
second; after the fifth the ground is silent. PowerClients has three battery situations
(both low, in between, both high) and one upset (a failure or a command, a probe too), and
status values that are valid, powersaving and unknown. Adcs uses two axes instead of three:
a failure on the first, on the last and on both; the theorems are for any number.

Radios has three commands, so that one ends a session, one meets its shutdown and one
follows the reset, two SDO errors to the limit, and two upsets. Firmware has an image of
two segments, so that a half exists, and four upsets: enough for a flash that fails, a
command repeated during the next upload, a lost transfer and a reset in one behaviour.

Deadlock is checked in every run.

**Fairness.** Only threads of the code that loop for ever are fair, time, and what the
hardware does by itself:

- C3State: the state thread, `Tick` and the watchdog circuit. Each is what the watchdog
  exists for: a thread that stops is a `fault`, which the model has.
- NodeManager: the manager's loop; the second of two adjacent writes (`Stamp`); the end
  of a flash, as each wait of the flasher has a timeout and its `finally` ends it.
- Radios: the loop, a command under way, the manager's survey, the watchdog's bite and
  the start after it. Commands, senders and trips may stop at any point; the UHF's timer
  trips finitely often, as does a stop.
- Firmware: the flasher's loop and its `finally`, the destination thread, and an operator
  who goes on trying: PDUs of an upload arrive in the end, unless an upset ends it, and a
  C3 that takes no uploads any more is reset. `EventuallyFlashed` is about such an operator;
  without one there is nothing to ask.
- EdlUplink: the three loops, and the watchdog once the service has ended in flight. Nothing
  is asked of the link: AcknowledgedArrives is about packets FARM-1 admitted.
- OpdNode: none, it is safety only.
- FileTransfer: the two threads. Their timers (for an ACK of an EOF or of a Finished PDU,
  and for what is missing of a request) are `cfdppy`'s and run out in the end; the ground
  may stop at any point.
- PowerClients: both services, time, and the manager's survey of each card.
- Adcs: the loop only; no sensor ever has to report, no write ever has to succeed.

But for Firmware's operator no fairness is assumed of the ground, of packets, of heartbeats
or of repairs; the liveness properties have an escape for the state in which one of these is
missing.

## 4. What is proved

Assumptions are those named `...Assumption` in the modules (timeouts are natural
numbers, the node list has no duplicates, and the like); TLC evaluates each on every run.

| Theorem | States | For |
|---|---|---|
| C3StateProofs!Typing | `[]TypeOK` | all constants |
| C3StateProofs!LateBeacons | at most one beacon begins after tx is disabled | all constants |
| C3StateProofs!SessionSafety, SessionHoldsOffReset, StaleSafety | a session reaches EDL and holds off the reset; a timed out tx leaves BEACON | no operator writes |
| C3StateProofs!NeverRefired | no antenna is fired once the F-RAM says deployment is over, failed restores included; a factory reset, or the save of a C3 that could not read the record, ends that | no operator writes |
| C3StateProofs!KeysSurvive | once the F-RAM held a key it keeps one, and so does a C3 that restored it, unless a factory reset is cut short or a C3 that could not read it saves | all constants |
| C3StateProofs!Implementation | C3State, failed restores included, implements C3Mission | no operator writes |
| NodeManagerProofs!Typing, RetiredForGood | types; a card given up is never powered again (but as a child) | second: no OPD_ENABLE |
| NodeManagerProofs!Shielding | a booting or reflashed card is not reset without a fault, unless the reads of a survey disagree | no OPD_ENABLE, children without processor |
| OpdProofs!Typing, CutHolds, BootsRight | types, each call within the blocks of its class; a disable that was alone stays the last word; a processor is powered with the straps asked for | all constants |
| OpdProofs!Implementation | OpdNode implements OpdCalls | all constants |
| RadiosProofs!Typing, NoRestartLoop | types; the watchdog resets the C3 no more often than the ground wrote should_enable | all constants |
| FirmwareProofs!Typing, Tidy, OnlyWhole | types, and the file is there while it is flashed; bus and card are left as found by a flash; no slot is cleared for half an image while commands are given once | all constants |
| FileTransferProofs!Typing, WholeFiles | types; a file the ground accepts is one whole version of it, of after the request, unless it was rewritten while it was summed | all constants |
| EdlUplinkProofs!Typing, Ordering, Sequence | types and channels; commands numbered without gap; nothing runs after a later packet | all constants |
| AdcsProofs!CommandsAllOrNothing, IdlesQuietly, NeverStarved | magnetorquers all at a command or off; at rest on IDLE; the samples asked for are there when the filter starts | any number of axes |

Along which argument:

- **C3State.** None of the properties is inductive. `FlowInv` says what the place in the
  loop tells of the state (a handler is only left for a state it may choose); `RecordInv`
  how the F-RAM lags behind: it never knows of a deployment the OD does not, and falls
  behind only while the state is operational already, which is what keeps a restart from
  firing. `UnreadInv` is the failed restore's part: such a C3 runs no loop, and what it has
  of the record it has from the F-RAM, so that saving it, object by object, never makes a
  record that was not there. `SessionInv` and `StaleInv` follow one loop: while a session
  was active, or tx timed out, through the whole of it, its place says that it is heading
  for EDL, or out of BEACON. `LateInv` says that the one late beacon is spent once the
  beacon thread can no longer be past its check. `KeyInv` relates the two copies of the key:
  whenever the history says that there is one, the object dictionary has it while the C3 is
  powered and not `unread`, and the F-RAM unless it was just cleared, which an `unread` C3
  does at the price of `keyed`. The restriction to no operator writes is needed: an operator
  may write PRE_DEPLOY after the deployment.
- **NodeManager.** `ErrorInv`: a card the loop is still to act on and found in ERROR
  has resets left; with `RetiredInv`, a card that used them is never found ON or OFF,
  which would forgive it. `ClockInv`: the code's boot clock is not ahead of the card's
  except until `Stamp`; `ShieldInv`: a shielded card was not found in ERROR, or is
  still to be surveyed and booting, or about to be known to boot, whichever of the four reads
  the survey is at. OPD_ENABLE breaks both, hence its exclusion.
- **EdlUplink.** `PipelineInv`: what waits between FARM-1 and the service is exactly
  the numbers from `Len(delivered)` to `vr - 1`, in order; so the next one out is the
  next number. `CountInv`: the count bounds every packet run since the last save.
- **Adcs.** The axes already written hold the new setpoint while all goes well, and are off
  or refused after a failure; a command that has returned has written all. `NeverStarved`:
  the samples asked for at the top (`DataAvailable`) include those the filter takes
  (`Available`), and none is withdrawn before `StartFilter` (`StartHasData`).
- **Radios.** Nothing raises in a run in which nothing was asked of the S-band.
  `OwedInv`: the bites are at most the commands, and fewer in a run that was `Touched`
  by one. `SdrInSession` (no run checks it): an SDR that is powered, is so in a session,
  or the state is an error.
- **Firmware.** `FileThere`: only the end of a flash takes the file away. `TidyInv`:
  between the steps that change the bus and the card and the one that changes them back no
  exception ends the flash. `TurnInv`: with no command repeated, what the operator is about
  says where the receiver and the flasher are (`InTurn`), and that the file is whole
  from the command on.
- **FileTransfer.** `Versions` says which versions of a file a request can be answered
  with; `SumInv` that a checksum taken, sent or received, is of one of them, unless the
  file was rewritten meanwhile; a file accepted then has the contents the sum was taken of.
- **OpdNode.** Each call stays a sequence of the blocks of its class, and the registers
  in the modes those leave (`TypeInv`). Two calls in progress have both overlapped
  another (`Overlaps`). A disable that was alone leaves the enable pin off and the other
  thread with calls that never set it (`CutInv`), as what an overlapping call has left is
  known by its blocks only. A call that is alone powers a processor only after the
  straps were written (`Strapping`), whatever upset comes.
  For the refinement a call is followed by where it leads: `Outcome` computes what the
  blocks it has left make of the registers and the status, each access leaves that as it
  is (`FlowAccess`), and at its beginning it is one of `Results` (`EnableWorks`,
  `DisableWorks` and the others); so it is at its end. `KnownInv` adds the calls that do
  not only write: a probe before its first answer, a status read, the pulses of a reset,
  which may cure the breaker halfway, and a call to a chip that does not answer, which
  ends in FAULT or NOT_FOUND (`Doomed`). `RescanInv` is why the card can be known at all:
  what a rescan writes does not depend on what was there. Each history variable is used:
  without `upset` a brown-out between two writes breaks `Outcome`, without `mixed`
  another thread's write does.

**Only model-checked.** Liveness, as fairness and ENABLED are out of the prover's reach:
EventuallyOperational, ResetHappens, FailedIsReset, HungIsDealtWith, AlwaysOnPowered,
RetiredIsCut, AcknowledgedArrives, Quiesces, DestEnds, OffObeyed, PowersaveCuts, GpsRests,
DetumbleEnds, LinkRestored, SessionEnds, EventuallyFlashed. Safety that has no proof yet:
NoBounce of PowerClients. Of what the theorems exclude, operator writes are in C3StateRadio
and OPD_ENABLE is in NodeManagerLive. Nothing here is recursive over data.

## 5. Where the code and its texts disagree

One is a run of its own: an acknowledged command overtaken by a file packet and lost
(`docs/edl.rst:58`). TLC finds the following violated too; their definitions are in the
modules, under "What the documentation says", without a run of their own:

- `TxEnabledInBeacon` (C3State): the loop clears enable for an old timestamp after a command
  set it and before it stored the new one, and BEACON is entered with tx disabled
  (`docs/state.rst:30`).
- `SourceSurvives` (FileTransfer): a file removed after it was found raises
  FileNotFoundError, which ends the source thread; only SourceFileDoesNotExist is caught
  (`cfdp.py:621`).
- `BeaconEndsAtTimeout`, `DeployOnGoodBattery` (C3State): while an update runs, BEACON
  outlives its timeout (`docs/state.rst:35`); PRE_DEPLOY does not look at the battery
  (`docs/state.rst:28`).
- `LastStateIsInitial` (C3State): EDL is restarted as STANDBY (`state.py:85`), not as the
  last state (`docs/state.rst:21`).
- `InvalidStatusReset`: an unknown status ends the thread in a log message before the
  branch that would mend it (`state.py:217`).
- `FlashThenBoots` (NodeManager): the survey comes between the two writes that end a
  flash, and a rebooting card is found in ERROR (`node_manager.py:154`).
- `DeadStillFails`, `FlashNotReset`, `OffIsOff`, `OffThenBoots`, `ResetRepowers`
  (NodeManager): a card its last reset cured is declared DEAD (`node_manager.py:57`); a
  flash begun after the survey does not hold off a reset (`:151`); a probe makes a
  powered card OFF (`:43`); a card powered by OPD_ENABLE goes from OFF to ERROR
  (`:26`); the reset of a card that could not be enabled leaves it ENABLED without
  power (`opd.py:182`).
- `DisableTurnsOff`, `EnabledIsOn` (OpdNode): a reset that read the output register before
  a disable writes the enable bit back (`opd.py:30`); an enable answers ENABLED although a
  configure that failed within a probe left the enable pin an input (`opd.py:32`).
- `ListingIsOne`, `ListingNotEmpty` (FileTransfer): a listing rewritten while its checksum
  is taken can be accepted as a mixture of two (`test_cfdp.py:462`); one that is truncated
  for the next request when it is looked at is sent as an empty file (`cachestore.py:169`).
- `SpinsOnlyWhileSlow` (Adcs): the magnetorquers keep spinning the satellite up once it is
  fast enough (`adcs_manager.py:675`).
- `OnlyHigherAccepted`, `RollsOver` (EdlUplink): a packet received twice is accepted twice
  (`docs/edl.rst:76`); the count does not roll over (`docs/edl.rst:77`; with a third
  packet).
- `GpsLowShutDown`, `BeeconFollowsState` (PowerClients): a low battery does not shut the
  GPS down while it is being enabled (`mission_database.py:89`); Beecon is not switched
  off by state 0, nor by `enabled` (`payload.py:148`).

The exceptions section 3 lists contradict no text, but some are grave: a C3 that could not
read its F-RAM writes its defaults over keys and record when it is stopped, and one packet
whose request cannot be unpacked ends the EDL service.

Read, not run: `cfdp_seq_num` is only read back through an SDO callback;
`OsirisHandler._startup` never enables its card and `_bootup` always raises; the wheel
modes of the ADCS raise on their first pass; an S-band command repeated when the SDR is
ready, or shutting down, makes the state 0xFF and ends the session; a factory reset sets
the clock to 0, which makes a timestamp cleared to 0 a recent one; the ground
ending a mode by writing IDLE leaves the magnetorquers on, and the service's own IDLE
overwrites a mode the ground wrote while the zeros were sent.

## 6. Plan

Done: the core, the OPD registers, file transfer in both directions, the keys and the
factory reset, the radios with the S-band session, the node flasher, and a proof of
nearly every safety property. Next, in this order:

1. **Proofs**: `NoBounce` of PowerClients; the mission with operator writes confined to
   operational states.
2. **FARM-1 lockout, window and directives**, and CLCWs, as an extension of EdlUplink.
3. **UART exclusivity** and `Opd.disable` going from card to card, on OpdNode.
4. The sequence numbers of the file transfer across resets.

Not planned: the ADCS mathematics (floating point), pure I/O, packet layouts (no state),
the web views and the ground scripts, LBandRadio (nothing makes one), and the S-band
behind its exceptions (`radios.py:243`), until those attributes have first values.
