-------------------------------- MODULE Adcs --------------------------------
(***************************************************************************)
(* The ADCS manager (services/adcs_manager.py): the samples its CAN        *)
(* callbacks put together from single fields, the loop that acts on the    *)
(* control mode, and the magnetorquers of the ADCS card it commands by one *)
(* SDO write per axis, each of which may fail.  The ground writes the      *)
(* control mode from the CAN thread at any time.                           *)
(*                                                                         *)
(* Quaternions, gains and currents are left out.  A rate is "still" (below *)
(* detumble_comp_threshold), "slow" (below detumble_norm_threshold) or     *)
(* "fast"; whether the pointing error is small, the spin rate reached or   *)
(* the magnetic field zero is left open (spinning up divides by the field: *)
(* of zero it makes a write that fails).  Each new sample of the star      *)
(* tracker has a new timestamp, and guidance mode, pointing reference and  *)
(* control mode are ones the code knows.                                   *)
(***************************************************************************)
EXTENDS Naturals

CONSTANTS GroundModes,  \* the control modes the ground writes
          NumAxes       \* axes with a magnetorquer: three (x, y, z) in the code

VARIABLES mode,     \* od["adcs_manager"]["control_mode"]
          buffer,   \* _sensor_data_buffer: the fields received, by sensor
          sample,   \* _sensor_data: the last whole sample, or no fields
          fresh,    \* the star tracker's timestamp is not last_sensor_time
          filter,   \* filter_initialized
          pc,       \* where the loop is
          omega,    \* the rates this pass goes by
          task,     \* what the current command to the magnetorquers is for
          axis,     \* the axis to be written next
          coil,     \* what each magnetorquer's setpoint is
          refused   \* the axes whose last write failed

vars == <<mode, buffer, sample, fresh, filter, pc, omega, task, axis, coil, refused>>
pass == <<omega, task, axis>>
can == <<mode, buffer, sample, fresh>>

ControlModes == {"IDLE", "RW_POINTING", "MTB_POINTING", "DETUMBLE",
                 "THERMAL_DETUMBLE", "THERMAL_REORIENT", "THERMAL_SPINUP"}
WheelModes == {"RW_POINTING", "THERMAL_REORIENT"}
ASSUME GroundModesAssumption == GroundModes \subseteq ControlModes
ASSUME NumAxesAssumption == NumAxes \in Nat \ {0}

Rates == {"still", "slow", "fast"}
Axes == 1..NumAxes
Sensors == {"star_tracker_1", "adcs", "gps"}

\* The subindices a sample is made of; one stands for all that no step tells
\* apart (the three rates, position and velocity, the orientation).
Fields == [s \in Sensors |->
            CASE s = "star_tracker_1" -> {"orientation", "attitude_known"}
              [] s = "adcs"           -> {"rates"}
              [] s = "gps"            -> {"orbit"}]
Values(f) == CASE f = "attitude_known" -> BOOLEAN
               [] f = "rates"          -> Rates
               [] OTHER                -> {TRUE}
Nothing == [f \in {} |-> TRUE]

Published(s) == DOMAIN sample[s] = Fields[s]
AttitudeKnown == sample["star_tracker_1"]["attitude_known"]
Still(w) == w["rates"] = "still"
Slow(w) == w["rates"] # "fast"

Init ==
    /\ mode = "IDLE"
    /\ buffer = [s \in Sensors |-> Nothing]
    /\ sample = [s \in Sensors |-> Nothing]
    /\ fresh = FALSE /\ filter = FALSE
    /\ pc = "top" /\ omega = Nothing /\ task = "none" /\ axis = 1
    /\ coil = [a \in Axes |-> "off"] /\ refused = {}

-----------------------------------------------------------------------------
(* The CAN thread. *)

\* A field arrives; the sample is published with its last missing field.
Received(s, f, v) ==
    [g \in DOMAIN buffer[s] \cup {f} |-> IF g = f THEN v ELSE buffer[s][g]]
Whole(s, b) == DOMAIN b = Fields[s]
OnData(s, f, v) ==
    LET b == Received(s, f, v) IN
    /\ IF Whole(s, b)
       THEN /\ sample' = [sample EXCEPT ![s] = b]
            /\ buffer' = [buffer EXCEPT ![s] = Nothing]
            /\ fresh' = (fresh \/ s = "star_tracker_1")
       ELSE /\ buffer' = [buffer EXCEPT ![s] = b]
            /\ UNCHANGED <<sample, fresh>>
    /\ UNCHANGED <<mode, filter, pc, pass, coil, refused>>

WriteMode(m) ==
    /\ m # mode /\ mode' = m
    /\ UNCHANGED <<buffer, sample, fresh, filter, pc, pass, coil, refused>>

-----------------------------------------------------------------------------
(* The loop up to the control modes. *)

\* The exceptions nobody catches end the thread.
Ended(p) == pc' = p /\ omega' = Nothing /\ task' = "none" /\ axis' = 1
Dies == Ended("dead")
NextPass == Ended("top")

\* A filter that is to be started waits until every sensor has reported.
Starting == mode \in WheelModes /\ ~filter
StarsAvailable == Published("star_tracker_1")
DataAvailable == \A s \in Sensors : Published(s)

Top ==
    /\ pc = "top" /\ mode # "IDLE"
    /\ IF Starting /\ ~DataAvailable THEN NextPass
       ELSE /\ pc' = IF Starting THEN "start" ELSE "guide"
            /\ UNCHANGED pass
    /\ UNCHANGED <<can, filter, coil, refused>>

\* initialize_filter and the lines before it read two samples, and raise a
\* KeyError if one is not there.  With an unknown attitude the wheels' torque is
\* divided by an ODVariable and not by its value, and the pass raises too.
Available == Published("adcs") /\ Published("star_tracker_1")

StartFilter ==
    /\ pc = "start"
    /\ IF Available /\ AttitudeKnown
       THEN filter' = TRUE /\ pc' = "guide" /\ UNCHANGED pass
       ELSE Dies /\ UNCHANGED filter
    /\ UNCHANGED <<can, coil, refused>>

NeedsData == ~Published("adcs") \/ (mode # "DETUMBLE" /\ ~Published("gps"))

Guide ==
    /\ pc = "guide"
    /\ IF NeedsData THEN NextPass
       ELSE pc' = "control" /\ omega' = sample["adcs"] /\ UNCHANGED <<task, axis>>
    /\ UNCHANGED <<can, filter, coil, refused>>

-----------------------------------------------------------------------------
(* The control modes, by the mode as it is now. *)

\* What the magnetorquers hold is from now on an older command's.
Command(t) ==
    /\ pc' = "set" /\ task' = t /\ axis' = 1
    /\ omega' = IF t = "detumble" THEN omega ELSE Nothing
    /\ coil' = [a \in Axes |-> IF coil[a] = "set" THEN "old" ELSE coil[a]]
Without == UNCHANGED <<mode, buffer, sample, refused>>

\* rw_inertia, an ODVariable, is multiplied by the wheel speeds: always raises.
Wheels ==
    /\ mode \in WheelModes /\ Dies
    /\ fresh' = FALSE /\ UNCHANGED <<filter, coil>>

Detumbled == mode = "DETUMBLE" /\ Slow(omega)
Detumble ==
    /\ mode \in {"DETUMBLE", "THERMAL_DETUMBLE"}
    /\ \/ Detumbled /\ Command("rest")
       \/ ~Detumbled /\ Command("detumble")
       \/ ~Detumbled /\ NextPass /\ UNCHANGED coil        \* no magnetic field
    /\ UNCHANGED <<fresh, filter>>

SpinUp ==
    /\ mode = "THERMAL_SPINUP"
    /\ \/ Command("spin")
       \/ omega["rates"] = "fast" /\ NextPass /\ UNCHANGED coil
    /\ UNCHANGED <<fresh, filter>>

\* get_sensor_data takes a sample once.
Usable == Published("star_tracker_1") /\ fresh /\ AttitudeKnown
MtbPointing ==
    /\ mode = "MTB_POINTING"
    /\ fresh' = FALSE
    /\ filter' = (filter \/ Usable)
    /\ \/ Usable /\ filter /\ Command("point")   \* unless there is no magnetic field
       \/ NextPass /\ UNCHANGED coil

NoMode == mode = "IDLE" /\ NextPass /\ UNCHANGED <<fresh, filter, coil>>

Control ==
    /\ pc = "control"
    /\ Wheels \/ Detumble \/ SpinUp \/ MtbPointing \/ NoMode
    /\ Without

-----------------------------------------------------------------------------
(* _command_magnetorquer_current: one write per axis.  After a failed one   *)
(* each axis is turned off, whatever becomes of the others.                 *)

Setpoint == IF task \in {"rest", "rest again"} THEN "off" ELSE "set"
Answered(a, ok, v) ==
    /\ coil' = IF ok THEN [coil EXCEPT ![a] = v] ELSE coil
    /\ refused' = IF ok THEN refused \ {a} ELSE refused \cup {a}
AxisAfterFailure(a) == 1
AfterOffOneTry(a, ok) == IF ok THEN a + 1 ELSE NumAxes + 1
AfterOff(a, ok) == a + 1

SetAxis ==
    /\ pc = "set" /\ axis \in Axes
    /\ \E ok \in BOOLEAN :
        /\ Answered(axis, ok, Setpoint)
        /\ pc' = IF ok THEN "set" ELSE "off"
        /\ axis' = IF ok THEN axis + 1 ELSE AxisAfterFailure(axis)
    /\ UNCHANGED <<can, filter, omega, task>>

OffAxis ==
    /\ pc = "off" /\ axis \in Axes
    /\ \E ok \in BOOLEAN :
        Answered(axis, ok, "off") /\ axis' = AfterOff(axis, ok)
    /\ UNCHANGED <<can, filter, pc, omega, task>>

-----------------------------------------------------------------------------
(* What a control mode does once its command has returned. *)

ReturnedEarly == pc \in {"set", "off"} /\ axis >= NumAxes
Returned == pc \in {"set", "off"} /\ axis > NumAxes
Failed == pc = "off"

RestedInsists ==
    /\ task \in {"rest", "rest again"}
    /\ IF Failed
       THEN Command("rest again") /\ UNCHANGED mode
       ELSE mode' = "IDLE" /\ NextPass /\ UNCHANGED coil
    /\ UNCHANGED filter
\* The zeros are sent once more if they failed, then the mode becomes IDLE.
Rested ==
    /\ task \in {"rest", "rest again"}
    /\ IF Failed /\ task = "rest"
       THEN Command("rest again") /\ UNCHANGED mode
       ELSE mode' = "IDLE" /\ NextPass /\ UNCHANGED coil
    /\ UNCHANGED filter

\* The filter starts anew, whether or not the star tracker ever reported.
DetumbleSent ==
    /\ task = "detumble"
    /\ IF mode = "THERMAL_DETUMBLE" /\ Still(omega)
       THEN /\ mode' = "THERMAL_REORIENT"
            /\ IF Available
               THEN filter' = TRUE /\ NextPass
               ELSE filter' = filter /\ Dies
       ELSE UNCHANGED <<mode, filter>> /\ NextPass
    /\ UNCHANGED coil

PointSent ==
    /\ task = "point"
    /\ \/ NextPass /\ UNCHANGED coil
       \/ Command("rest")
    /\ UNCHANGED <<mode, filter>>

SpinSent == task = "spin" /\ NextPass /\ UNCHANGED <<mode, filter, coil>>

Sent ==
    /\ Returned
    /\ Rested \/ DetumbleSent \/ PointSent \/ SpinSent
    /\ UNCHANGED <<buffer, sample, fresh, refused>>

-----------------------------------------------------------------------------
Loop == Top \/ StartFilter \/ Guide \/ Control \/ SetAxis \/ OffAxis \/ Sent
Next ==
    \/ Loop
    \/ \E s \in Sensors : \E f \in Fields[s] : \E v \in Values(f) : OnData(s, f, v)
    \/ \E m \in GroundModes : WriteMode(m)

Spec == Init /\ [][Next]_vars
\* The service's thread keeps running; nothing is asked of the ground, of the
\* sensors or of the card.
FairSpec == Spec /\ WF_vars(Loop)

-----------------------------------------------------------------------------
Datum(d) == \A f \in DOMAIN d : d[f] \in Values(f)

TypeOK ==
    /\ mode \in ControlModes
    /\ \A s \in Sensors : /\ DOMAIN buffer[s] \subseteq Fields[s] /\ ~Whole(s, buffer[s])
                          /\ sample[s] = Nothing \/ Published(s)
                          /\ Datum(buffer[s]) /\ Datum(sample[s])
    /\ fresh \in BOOLEAN /\ filter \in BOOLEAN
    /\ pc \in {"top", "start", "guide", "control", "set", "off", "dead"}
    /\ omega = Nothing \/ omega \in [{"rates"} -> Rates]
    /\ task \in {"none", "rest", "rest again", "detumble", "spin", "point"}
    /\ axis \in 1..NumAxes + 1
    /\ coil \in [Axes -> {"off", "old", "set"}] /\ refused \subseteq Axes

(* The service does not end for want of a sample: that every sensor has     *)
(* reported (adcs_manager.py:453) still holds when the filter is started    *)
(* from the samples (462, 468, 298-303), whatever the CAN thread does       *)
(* meanwhile.  It ends in the modes of the wheels, which always raise, and  *)
(* at the end of THERMAL_DETUMBLE, which starts the filter without asking   *)
(* for the star tracker (669).                                              *)
NotStarved ==
    [][(pc # "dead" /\ pc' = "dead")
         => \/ Available
            \/ pc = "control" /\ mode \in WheelModes
            \/ task = "detumble" /\ mode = "THERMAL_DETUMBLE"]_vars

(* Between two commands the magnetorquers all hold the last command, or all *)
(* are off but for those whose last write was refused.  Such an axis may be *)
(* at this command or at an older one: the only way to a mixture is that a  *)
(* write failed and so did the one that was to turn that axis off.          *)
Quiet == \A a \in Axes : coil[a] = "off" \/ a \in refused
AllOrNothing ==
    pc \notin {"set", "off"} => (\A a \in Axes : coil[a] = "set") \/ Quiet

(* The service goes to IDLE, where it looks at nothing any more, only with  *)
(* every magnetorquer off, but for those that refused it twice.             *)
QuietIdle ==
    [][(Loop /\ mode' = "IDLE" /\ mode # "IDLE") => Quiet']_vars

(* "while satellite is spinning slower than set rate about the z axis, spin  *)
(* up" (adcs_manager.py:675): a pass that finds the rate reached must not     *)
(* leave the magnetorquers spinning the satellite up.                         *)
SpinsOnlyWhileSlow ==
    [][(mode = "THERMAL_SPINUP" /\ pc = "control" /\ pc' = "top") => Quiet']_vars

(* A slow satellite does not stay in DETUMBLE, though every write to the    *)
(* card may fail, unless its rates rise or the service has ended.           *)
MeasuredSlow == Published("adcs") /\ Slow(sample["adcs"])
DetumbleEnds ==
    (mode = "DETUMBLE" /\ MeasuredSlow)
        ~> (mode # "DETUMBLE" \/ ~MeasuredSlow \/ pc = "dead")
=============================================================================
