----------------------------- MODULE C3Mission -----------------------------
(***************************************************************************)
(* What the C3's state machine promises: the transitions of docs/state.rst *)
(* between power-on and operation, and that the antennas are fired only    *)
(* while nothing on record says that deployment is over.                   *)
(***************************************************************************)
VARIABLES
    mode,   \* the C3 state, OFF without power
    done,   \* the record that deployment is over survives a loss of power
    firing  \* the antennas are being fired

vars == <<mode, done, firing>>

Operational == {"STANDBY", "BEACON", "EDL"}

Init == mode = "OFF" /\ done = FALSE /\ firing = FALSE

\* A restart resumes an operational mode only when deployment is on record,
\* and never in the middle of an EDL session.
Wake ==
    /\ mode = "OFF"
    /\ mode' \in {"PRE_DEPLOY", "DEPLOY"}
                \cup (IF done THEN Operational \ {"EDL"} ELSE {})
    /\ UNCHANGED <<done, firing>>

Sleep == mode' = "OFF" /\ firing' = FALSE /\ UNCHANGED done

\* A factory reset forgets the record, and so may the end of a C3 that could not
\* read it and saves its defaults.
Forget == mode' = "OFF" /\ firing' = FALSE /\ done' = FALSE

EndWait ==
    /\ mode = "PRE_DEPLOY"
    /\ mode' = "DEPLOY"
    /\ UNCHANGED <<done, firing>>

Fire ==
    /\ mode = "DEPLOY" /\ ~done /\ ~firing
    /\ firing' = TRUE
    /\ UNCHANGED <<mode, done>>

EndFire ==
    /\ firing
    /\ firing' = FALSE
    /\ UNCHANGED <<mode, done>>

EndDeploy ==
    /\ mode = "DEPLOY" /\ ~firing
    /\ mode' = "STANDBY"
    /\ UNCHANGED <<done, firing>>

\* Operational modes alternate, but a session never begins another way than
\* from STANDBY or BEACON.
Operate ==
    /\ mode \in Operational
    /\ mode' \in Operational \ {mode}
    /\ UNCHANGED <<done, firing>>

Record ==
    /\ mode \in Operational
    /\ done' = TRUE
    /\ UNCHANGED <<mode, firing>>

Next == Wake \/ Sleep \/ Forget \/ EndWait \/ Fire \/ EndFire \/ EndDeploy
        \/ Operate \/ Record

Spec == Init /\ [][Next]_vars
=============================================================================
