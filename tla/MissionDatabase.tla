--------------------------- MODULE MissionDatabase ---------------------------
(***************************************************************************)
(* The mission database service (oresat_c3/services/mission_database.py):  *)
(* while mdb.active it powers the GPS card, records a point per pass, and   *)
(* rests the card after active_timeout.  on_loop is cut at its sleeps, and *)
(* between the recording of a point, which may write a file, and the tests *)
(* that follow.  _enabled_time is the age of the last restart of the       *)
(* clock: unset, fresh, or past active_timeout.  Points and files are left *)
(* out.                                                                    *)
(***************************************************************************)
EXTENDS CardService

VARIABLES
    active, \* mdb.active
    age,    \* monotonic() - _enabled_time
    mdbPc,  \* where on_loop is; failed once it raised
    foreign \* history: someone else powered the GPS card

mdbVars == <<active, age, mdbPc, foreign>>

MdbOK ==
    /\ active \in BOOLEAN /\ age \in {"unset", "fresh", "expired"}
    /\ mdbPc \in {"loop", "enabling", "low", "check", "resting", "failed"}
    /\ foreign \in BOOLEAN

MdbInit ==
    /\ active \in BOOLEAN /\ age = "unset"
    /\ mdbPc = "loop" /\ foreign = FALSE
-----------------------------------------------------------------------------
\* is_bat_lvl_good.
IsBatLvlGood == packs[1] > BAT_LEVEL_LOW /\ packs[2] > BAT_LEVEL_LOW

Elsewhere == UNCHANGED <<packs, status, upsets, topped, foreign>>

\* The GPS card is to be power, or the battery is low, or a point is taken.
MdbEnable ==
    /\ mdbPc = "loop" /\ active
    /\ ~Running("gps") /\ IsBatLvlGood
    /\ active' = (status["gps"] # "DEAD")
    /\ power' = Enabled("gps") /\ mdbPc' = "enabling"
    /\ UNCHANGED <<age>> /\ Elsewhere

MdbEnabled ==
    /\ mdbPc = "enabling" /\ age' = "fresh" /\ mdbPc' = "loop"
    /\ UNCHANGED <<active, power>> /\ Elsewhere

MdbLow ==
    /\ mdbPc = "loop" /\ active /\ ~IsBatLvlGood
    /\ active' = (status["gps"] # "DEAD") /\ mdbPc' = "low"
    /\ UNCHANGED <<power, age>> /\ Elsewhere

\* ... and is disabled unless it is running.
MdbLowEnds ==
    /\ mdbPc = "low" /\ mdbPc' = "loop"
    /\ power' = IF Running("gps") THEN power ELSE Disabled("gps")
    /\ UNCHANGED <<active, age>> /\ Elsewhere

\* _set_csv_gps, _set_od_gps and update_files.
MdbRecord ==
    /\ mdbPc = "loop" /\ active /\ Running("gps") /\ IsBatLvlGood
    /\ mdbPc' = "check"
    /\ UNCHANGED <<active, power, age>> /\ Elsewhere

\* The rest of the pass; _enabled_time does not exist before the card was powered
\* here.  _idle disables the card and sleeps.
RestsIfLow == ~IsBatLvlGood
Rests == ~IsBatLvlGood \/ age = "expired"
Unknown == IsBatLvlGood /\ age = "unset"

MdbCheck ==
    /\ mdbPc = "check"
    /\ mdbPc' = CASE Unknown -> "failed" [] Rests -> "resting" [] OTHER -> "loop"
    /\ power' = IF Rests THEN Disabled("gps") ELSE power
    /\ UNCHANGED <<active, age>> /\ Elsewhere

MdbRested ==
    /\ mdbPc = "resting" /\ age' = "fresh" /\ mdbPc' = "loop"
    /\ UNCHANGED <<active, power>> /\ Elsewhere

MdbThread == \/ MdbEnable \/ MdbEnabled \/ MdbLow \/ MdbLowEnds \/ MdbRecord
             \/ MdbCheck \/ MdbRested

\* active_timeout passes.
AgeExpires ==
    /\ age = "fresh" /\ age' = "expired"
    /\ UNCHANGED <<active, power, mdbPc>> /\ Elsewhere

\* The ground writes mdb.active.
WriteActive ==
    /\ Upset /\ active' = ~active
    /\ UNCHANGED <<age, mdbPc, foreign, packs, cardVars, topped>>
=============================================================================
