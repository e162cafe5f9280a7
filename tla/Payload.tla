------------------------------- MODULE Payload -------------------------------
(***************************************************************************)
(* The payload service (oresat_c3/services/payload.py): the handler of the *)
(* mission's science card, driven by the object payload_ctrl.state, which  *)
(* the ground writes and the handler overwrites, and by a power indicator  *)
(* that is set when both battery packs are low and cleared when both are   *)
(* high.                                                                   *)
(*                                                                         *)
(* One pass of on_loop is three steps: the reading of the state, the       *)
(* handler's work on what was read, and the look at the battery.  Files    *)
(* and the bytes of the science data are left out.                         *)
(***************************************************************************)
EXTENDS CardService

CONSTANTS
    Missions,      \* bound: the missions explored
    OperatorStates \* bound: the states the ground writes

VARIABLES
    mission,
    handler,      \* _payload_handler: live, a Beecon without card, or none
    state,        \* payload_ctrl.state
    enabled,      \* payload_ctrl.enabled
    indicator,    \* _power_indicatior_event
    oreBeacon,    \* beacon.delay is its default, not 0
    i2c,          \* the bus of Beecon's MAX7310 works
    port,         \* PiPlasmaHandler._piplasma is open
    fileRegister, \* payload_ctrl.file_register is not empty
    last,         \* OsirisHandler._last_state_val
    pc, seen,     \* where on_loop is, and the state it read
    missed        \* history: PiPlasma's powersave met a card with power that the
                  \* manager did not see running, or the ground wrote that state
                  \* or gave the power

handlerVars == <<oreBeacon, i2c, port, fileRegister, last>>
objects == <<mission, enabled, i2c, fileRegister>>
payloadVars == <<mission, handler, state, enabled, indicator, handlerVars,
                 pc, seen, missed>>

KnownMissions == {"beecon", "prism", "osiris_b1", "osiris_c"}
CommError == 254 \* 0xFE
Dead == 255      \* 0xFF
States == 0..6 \cup {CommError, Dead}

ASSUME MissionsAssumption == Missions \subseteq KnownMissions
ASSUME StatesAssumption == OperatorStates \subseteq States

Is(m) == mission = m
\* The state in which a handler waits for the battery.
Powersaving == CASE Is("beecon") -> 2 [] Is("prism") -> 3 [] OTHER -> 5
-----------------------------------------------------------------------------
PayloadOK ==
    /\ mission \in Missions /\ handler \in {"live", "failed", "none"}
    /\ state \in States /\ seen \in States /\ last \in States
    /\ enabled \in BOOLEAN /\ indicator \in BOOLEAN /\ missed \in BOOLEAN
    /\ oreBeacon \in BOOLEAN /\ i2c \in BOOLEAN /\ port \in BOOLEAN
    /\ fileRegister \in BOOLEAN /\ pc \in {"loop", "handle", "battery"}
    /\ (port => Is("prism")) /\ (~oreBeacon => Is("beecon"))
    /\ pc = "handle" => handler = "live"

\* on_start: the state was kept by the F-RAM; the PiPlasma and Osiris handlers
\* take any state above 1 back to 1.
PayloadInit ==
    /\ mission \in Missions
    /\ handler \in CASE Is("beecon") -> {"live", "failed"}
                     [] Is("osiris_c") -> {"none"}
                     [] OTHER -> {"live"}
    /\ \E kept \in OperatorStates :
         state = IF mission \in {"prism", "osiris_b1"} /\ kept > 1 THEN 1 ELSE kept
    /\ enabled \in BOOLEAN /\ indicator = FALSE
    /\ oreBeacon = TRUE /\ i2c = TRUE /\ port = FALSE /\ fileRegister = FALSE
    /\ last = 0 /\ pc = "loop" /\ seen = 0 /\ missed = FALSE
-----------------------------------------------------------------------------
\* The battery, on on_loop's terms.
PowerLow == packs[1] < BAT_LEVEL_LOW /\ packs[2] < BAT_LEVEL_LOW
AnyHigh == packs[1] > BAT_LEVEL_HIGH \/ packs[2] > BAT_LEVEL_HIGH
PowerHigh == packs[1] > BAT_LEVEL_HIGH /\ packs[2] > BAT_LEVEL_HIGH

\* A Beecon handler that did not find its card does nothing.
Alive == handler = "live"

LoopStart ==
    /\ pc = "loop" /\ (enabled \/ state # 0)
    /\ pc' = IF Alive THEN "handle" ELSE "battery"
    /\ seen' = IF Alive THEN state ELSE 0
    /\ UNCHANGED <<objects, handler, state, indicator, oreBeacon, port, last,
                   missed, packs, cardVars, upsets, topped>>

BatteryCheck ==
    /\ pc = "battery" /\ pc' = "loop"
    /\ indicator' = IF indicator THEN ~PowerHigh ELSE PowerLow
    /\ topped' = (topped /\ ~(PowerLow /\ ~indicator))
    /\ UNCHANGED <<objects, handler, state, oreBeacon, port, last, seen, missed,
                   packs, cardVars, upsets>>

\* What the handlers' steps have in common.
Handles(m, states) ==
    /\ pc = "handle" /\ pc' = "battery" /\ Is(m) /\ seen \in states
    /\ seen' = 0
    /\ UNCHANGED <<mission, enabled, i2c, indicator, packs, status, topped>>

\* The handler raised an exception: on_loop logs it and drops the handler.
Dropped == handler' = "none"
Kept == UNCHANGED handler
-----------------------------------------------------------------------------
\* BeeconHandler drives its own OpdNode.  When the bus fails, the card reads as
\* disabled and cannot be switched.
IsEnabled == Powered("sci") /\ i2c
BeeconLoud == oreBeacon' = TRUE /\ UNCHANGED power
BeeconOff ==
    IF IsEnabled
    THEN oreBeacon' = TRUE /\ power' = [power EXCEPT !["sci"] = "off"]
    ELSE UNCHANGED <<oreBeacon, power>>

BeeconQuiet == /\ Kept /\ UNCHANGED <<port, fileRegister, last, upsets, missed>>

BeeconIdle ==
    /\ Handles("beecon", {0}) /\ BeeconOff /\ UNCHANGED state /\ BeeconQuiet

BeeconOn ==
    /\ Handles("beecon", {1})
    /\ IF IsEnabled THEN UNCHANGED <<oreBeacon, power>>
       ELSE /\ oreBeacon' = FALSE
            /\ power' = IF i2c THEN [power EXCEPT !["sci"] = "on"] ELSE power
    /\ state' = IF indicator THEN 2 ELSE state
    /\ BeeconQuiet

BeeconPowersave ==
    /\ Handles("beecon", {2}) /\ BeeconOff
    /\ state' = IF indicator THEN state ELSE 1
    /\ BeeconQuiet

BeeconIncoherent ==
    /\ Handles("beecon", States \ 0..2)
    /\ UNCHANGED <<oreBeacon, power, state>> /\ BeeconQuiet
-----------------------------------------------------------------------------
\* PiPlasmaHandler.  _idle disables a card that is booting or on.
IdledIfBooting == IF status["sci"] = "BOOT" THEN Disabled("sci") ELSE power
Idled == IF Running("sci") THEN Disabled("sci") ELSE power
Still == UNCHANGED power
PiQuiet == UNCHANGED <<oreBeacon, fileRegister, last>>

PiIdle ==
    /\ Handles("prism", {0}) /\ Kept
    /\ power' = Idled /\ port' = FALSE
    /\ UNCHANGED <<state, upsets, missed>> /\ PiQuiet

PiBoot ==
    /\ Handles("prism", {1}) /\ Kept
    /\ IF status["sci"] = "ON" THEN port' = TRUE /\ state' = 2 /\ Still
       ELSE /\ power' = IF status["sci"] \in {"BOOT", "NOT_FOUND", "DEAD"}
                          THEN power ELSE Enabled("sci")
            /\ UNCHANGED <<port, state>>
    /\ UNCHANGED <<upsets, missed>> /\ PiQuiet

PiProcess ==
    /\ Handles("prism", {2}) /\ Kept
    /\ IF ~port THEN state' = 1 /\ UNCHANGED <<power, port, missed>>
       ELSE IF indicator
       THEN /\ state' = 3 /\ power' = Idled /\ port' = FALSE
            /\ missed' = (missed \/ (Powered("sci") /\ ~Running("sci")))
       ELSE UNCHANGED <<state, power, port, missed>>
    /\ UNCHANGED upsets /\ PiQuiet

PiPowersave ==
    /\ Handles("prism", {3}) /\ Kept
    /\ state' = IF indicator THEN state ELSE 1
    /\ UNCHANGED <<power, port, upsets, missed>> /\ PiQuiet

PiOther ==
    /\ Handles("prism", States \ 0..3) /\ Kept
    /\ UNCHANGED <<state, power, port, upsets, missed>> /\ PiQuiet

\* The serial port or a file cannot be opened, read or written; the handler's
\* __del__ disables the card.
PiFails ==
    /\ \/ Handles("prism", {1}) /\ status["sci"] = "ON"
       \/ Handles("prism", {2})
    /\ Upset /\ Dropped
    /\ power' = Idled /\ port' = FALSE
    /\ UNCHANGED <<state, missed>> /\ PiQuiet
-----------------------------------------------------------------------------
\* OsirisHandler.  A state that became 0 is handled as 4.
Effective == IF seen = 0 /\ last # 0 THEN 4 ELSE seen
OsirisDoes(s) ==
    /\ Handles("osiris_b1", States) /\ Effective = s
    /\ last' = s /\ UNCHANGED <<oreBeacon, port, upsets, missed>>

OsirisIdle == /\ OsirisDoes(0) /\ Kept /\ power' = Idled
              /\ UNCHANGED <<state, fileRegister>>

\* _startup waits out the boot, and does not power the card.
OsirisStartup ==
    /\ OsirisDoes(1) /\ Kept /\ status["sci"] # "BOOT"
    /\ state' = CASE status["sci"] = "DEAD" -> Dead
                  [] status["sci"] = "ON" -> 2
                  [] OTHER -> state
    /\ Still /\ UNCHANGED fileRegister

\* _bootup calls _get_bootstate without its argument.
OsirisBootup ==
    /\ OsirisDoes(2) /\ Dropped /\ Still /\ UNCHANGED <<state, fileRegister>>

\* _active; the command of _send_file is no program, so that it raises.
OsirisActive ==
    /\ OsirisDoes(3)
    /\ IF fileRegister
       THEN Dropped /\ UNCHANGED <<state, power>>
       ELSE /\ Kept
            /\ IF indicator THEN state' = 5 /\ power' = Idled
                            ELSE UNCHANGED <<state, power>>
    /\ UNCHANGED fileRegister

OsirisShutdown ==
    /\ OsirisDoes(4) /\ Kept
    /\ power' = Disabled("sci") /\ state' = 0 /\ UNCHANGED fileRegister

OsirisPowersave ==
    /\ OsirisDoes(5) /\ Kept
    /\ power' = Disabled("sci")
    /\ state' = IF indicator THEN state ELSE 1
    /\ UNCHANGED fileRegister

OsirisOther ==
    /\ \E s \in States \ 0..5 : OsirisDoes(s)
    /\ Kept /\ Still /\ UNCHANGED <<state, fileRegister>>
-----------------------------------------------------------------------------
PayloadThread ==
    \/ LoopStart \/ BatteryCheck
    \/ BeeconIdle \/ BeeconOn \/ BeeconPowersave \/ BeeconIncoherent
    \/ PiIdle \/ PiBoot \/ PiProcess \/ PiPowersave \/ PiOther \/ PiFails
    \/ OsirisIdle \/ OsirisStartup \/ OsirisBootup \/ OsirisActive
    \/ OsirisShutdown \/ OsirisPowersave \/ OsirisOther

\* The ground writes payload_ctrl, at any time.
WriteState ==
    /\ Upset /\ state' \in OperatorStates
    /\ missed' = (missed \/ (Is("prism") /\ state' = Powersaving))
    /\ UNCHANGED <<objects, handler, indicator, oreBeacon, port, last, pc, seen,
                   packs, cardVars, topped>>
WriteEnabled ==
    /\ Upset /\ enabled' = ~enabled
    /\ UNCHANGED <<mission, i2c, fileRegister, handler, state, indicator, oreBeacon,
                   port, last, pc, seen, missed, packs, cardVars, topped>>
WriteFile ==
    /\ Is("osiris_b1") /\ fileRegister' = TRUE
    /\ UNCHANGED <<upsets, mission, i2c, enabled, handler, state, indicator, oreBeacon,
                   port, last, pc, seen, missed, packs, cardVars, topped>>

\* Beecon's I2C bus fails, or works again.
BusFails ==
    /\ Is("beecon") /\ IF i2c THEN Upset ELSE UNCHANGED upsets
    /\ i2c' = ~i2c
    /\ UNCHANGED <<mission, fileRegister, enabled, handler, state, indicator,
                   oreBeacon, port, last, pc, seen, missed, packs, cardVars, topped>>

PayloadEnvironment == WriteState \/ WriteEnabled \/ WriteFile \/ BusFails
=============================================================================
