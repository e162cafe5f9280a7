----------------------------- MODULE AdcsProofs -----------------------------
(***************************************************************************)
(* Proofs about Adcs, for every number of axes and whatever the ground     *)
(* writes.                                                                 *)
(***************************************************************************)
EXTENDS Adcs, TLAPS

-----------------------------------------------------------------------------
(* The sensors.  No sample is ever taken away, so what was reported when    *)
(* the loop asked is still there when it starts the filter.                 *)
StartHasData == pc = "start" => Available
DataInv == DOMAIN sample = Sensors /\ StartHasData

LEMMA OnDataKeeps ==
    ASSUME DOMAIN sample = Sensors, NEW s \in Sensors, NEW f, NEW v, OnData(s, f, v)
    PROVE  /\ DOMAIN sample' = Sensors
           /\ \A r \in Sensors : Published(r) => Published(r)'
<1> DEFINE b == Received(s, f, v)
<1>1. CASE Whole(s, b)
  <2>1. sample' = [sample EXCEPT ![s] = b] /\ DOMAIN b = Fields[s]
    BY <1>1 DEF OnData, Whole
  <2> HIDE DEF b
  <2> QED BY <2>1 DEF Published
<1>2. CASE ~Whole(s, b)
  BY <1>2 DEF OnData, Published
<1> QED BY <1>1, <1>2

LEMMA DataInit == Init => DataInv
BY DEF Init, DataInv, StartHasData

LEMMA DataNext == DataInv /\ [Next]_vars => DataInv'
<1> SUFFICES ASSUME DataInv, [Next]_vars PROVE DataInv'
  OBVIOUS
<1> USE DEF DataInv
<1>1. CASE Top
  <2>1. sample' = sample /\ Available' = Available
    BY <1>1 DEF Top, can, Available, Published
  <2>2. pc' = "start" => DataAvailable
    BY <1>1 DEF Top, NextPass, Ended
  <2> QED BY <2>1, <2>2 DEF StartHasData, DataAvailable, Available, Sensors
<1>2. CASE StartFilter \/ Guide \/ Control \/ SetAxis \/ OffAxis \/ Sent
  <2>1. sample' = sample
    BY <1>2 DEF StartFilter, Guide, Control, Without, SetAxis, OffAxis, Sent, can
  <2>2. pc' # "start"
    BY <1>2 DEF StartFilter, Guide, Control, Wheels, Detumble, SpinUp, MtbPointing,
       NoMode, SetAxis, OffAxis, Sent, Rested, DetumbleSent, PointSent, SpinSent,
       Command, Dies, NextPass, Ended
  <2> QED BY <2>1, <2>2 DEF StartHasData
<1>3. ASSUME NEW s \in Sensors, NEW f \in Fields[s], NEW v \in Values(f), OnData(s, f, v)
      PROVE  DataInv'
  <2>1. pc' = pc
    BY <1>3 DEF OnData
  <2> QED BY <1>3, <2>1, OnDataKeeps DEF StartHasData, Available, Sensors
<1>4. ASSUME NEW m \in GroundModes, WriteMode(m) PROVE DataInv'
  BY <1>4 DEF WriteMode, StartHasData, Available, Published
<1>5. CASE UNCHANGED vars
  BY <1>5 DEF vars, StartHasData, Available, Published
<1> QED BY <1>1, <1>2, <1>3, <1>4, <1>5 DEF Next, Loop

(* The service does not end for want of a sample: what it asked of the      *)
(* sensors before it starts the filter (adcs_manager.py:453) holds when it  *)
(* does (462-482), whatever the CAN thread does between the two.            *)
THEOREM NeverStarved == Spec => NotStarved
<1>1. DataInv /\ [Next]_vars
      => [(pc # "dead" /\ pc' = "dead")
            => \/ Available
               \/ pc = "control" /\ mode \in WheelModes
               \/ task = "detumble" /\ mode = "THERMAL_DETUMBLE"]_vars
  <2> SUFFICES ASSUME DataInv, Next, pc # "dead", pc' = "dead"
               PROVE  \/ Available
                      \/ pc = "control" /\ mode \in WheelModes
                      \/ task = "detumble" /\ mode = "THERMAL_DETUMBLE"
    OBVIOUS
  <2>1. CASE Top \/ Guide \/ SetAxis \/ OffAxis
    BY <2>1 DEF Top, Guide, SetAxis, OffAxis, NextPass, Ended
  <2>2. CASE StartFilter
    BY <2>2 DEF StartFilter, DataInv, StartHasData
  <2>3. CASE Control
    BY <2>3 DEF Control, Wheels, Detumble, SpinUp, MtbPointing, NoMode, Command,
       NextPass, Ended
  <2>4. CASE Sent
    BY <2>4 DEF Sent, Rested, DetumbleSent, PointSent, SpinSent, Command, NextPass, Ended
  <2>5. ASSUME NEW s \in Sensors, NEW f \in Fields[s], NEW v \in Values(f), OnData(s, f, v)
        PROVE  FALSE
    BY <2>5 DEF OnData
  <2>6. ASSUME NEW m \in GroundModes, WriteMode(m) PROVE FALSE
    BY <2>6 DEF WriteMode
  <2> QED BY <2>1, <2>2, <2>3, <2>4, <2>5, <2>6 DEF Next, Loop
<1> QED BY DataInit, DataNext, <1>1, PTL DEF Spec, NotStarved

-----------------------------------------------------------------------------
(* The magnetorquers.  What is true of the axes already written: the new    *)
(* setpoint while all goes well, off or refused after a failure.            *)
Tasks == {"none", "rest", "rest again", "detumble", "spin", "point"}
CoilTypes ==
    /\ pc \in {"top", "start", "guide", "control", "set", "off", "dead"}
    /\ task \in Tasks
    /\ axis \in 1..NumAxes + 1
    /\ coil \in [Axes -> {"off", "old", "set"}]
    /\ refused \subseteq Axes
WrittenSoFar == pc = "set" => \A a \in Axes : a < axis => coil[a] = Setpoint
OffSoFar == pc = "off" => \A a \in Axes : a < axis => coil[a] = "off" \/ a \in refused
CoilInv == CoilTypes /\ WrittenSoFar /\ OffSoFar /\ AllOrNothing

LEMMA CoilInit == Init => CoilInv
BY NumAxesAssumption DEF Init, CoilInv, CoilTypes, WrittenSoFar, OffSoFar,
   AllOrNothing, Quiet, Axes, Tasks

\* A command that has returned left the axes together.
LEMMA ReturnedTogether ==
    ASSUME CoilInv, Returned
    PROVE  /\ (\A a \in Axes : coil[a] = "set") \/ Quiet
           /\ task \in {"rest", "rest again"} => Quiet
<1>1. \A a \in Axes : a < axis
  BY NumAxesAssumption DEF Returned, Axes, CoilInv, CoilTypes
<1>2. CASE pc = "set"
  BY <1>1, <1>2 DEF CoilInv, WrittenSoFar, Setpoint, Quiet
<1>3. CASE pc = "off"
  BY <1>1, <1>3 DEF CoilInv, OffSoFar, Quiet
<1> QED BY <1>2, <1>3 DEF Returned

\* A new command starts with no axis written.
LEMMA Starts ==
    ASSUME CoilInv, NEW t \in Tasks, Command(t), refused' = refused
    PROVE  CoilInv'
<1>1. CoilTypes'
  BY NumAxesAssumption DEF CoilInv, CoilTypes, Command
<1>2. pc' = "set" /\ axis' = 1
  BY DEF Command
<1>3. \A a \in Axes : ~(a < axis')
  BY <1>2, NumAxesAssumption DEF Axes
<1> QED BY <1>1, <1>2, <1>3 DEF CoilInv, WrittenSoFar, OffSoFar, AllOrNothing

\* A pass that ends leaves the axes as they are.
LEMMA Ends ==
    ASSUME CoilInv, NEW p \in {"top", "dead"}, Ended(p), coil' = coil, refused' = refused,
           (\A a \in Axes : coil[a] = "set") \/ Quiet
    PROVE  CoilInv'
<1>1. pc' \in {"top", "dead"} /\ task' = "none" /\ axis' = 1
  BY DEF Ended
<1>3. CoilTypes'
  <2>1. pc' \in {"top", "start", "guide", "control", "set", "off", "dead"} /\ task' \in Tasks
    BY <1>1 DEF Tasks
  <2>2. axis' \in 1..(NumAxes + 1)
    BY <1>1, NumAxesAssumption
  <2> QED BY <2>1, <2>2 DEF CoilInv, CoilTypes
<1>2. AllOrNothing'
  BY DEF AllOrNothing, Quiet
<1> QED BY <1>1, <1>2, <1>3 DEF CoilInv, WrittenSoFar, OffSoFar

LEMMA CoilNext == CoilInv /\ [Next]_vars => CoilInv'
<1> SUFFICES ASSUME CoilInv, [Next]_vars PROVE CoilInv'
  OBVIOUS
<1> DEFINE Same == UNCHANGED <<pc, task, axis, coil, refused>>
<1>0. Same => CoilInv'
  BY DEF CoilInv, CoilTypes, WrittenSoFar, OffSoFar, AllOrNothing, Quiet, Setpoint
<1>1. CASE Top \/ StartFilter \/ Guide
  <2>1. (\A a \in Axes : coil[a] = "set") \/ Quiet
    BY <1>1 DEF Top, StartFilter, Guide, CoilInv, AllOrNothing
  <2>2. UNCHANGED <<coil, refused>>
    BY <1>1 DEF Top, StartFilter, Guide
  <2>3. CASE Dies \/ NextPass
    BY <2>1, <2>2, <2>3, Ends DEF Dies, NextPass
  <2>4. CASE pc' \in {"start", "guide", "control"} /\ UNCHANGED <<task, axis>>
    BY <2>1, <2>2, <2>4 DEF CoilInv, CoilTypes, WrittenSoFar, OffSoFar,
       AllOrNothing, Quiet
  <2> QED BY <1>1, <2>3, <2>4 DEF Top, StartFilter, Guide, pass
<1>2. CASE Control
  <2>1. (\A a \in Axes : coil[a] = "set") \/ Quiet
    BY <1>2 DEF Control, CoilInv, AllOrNothing
  <2>2. refused' = refused
    BY <1>2 DEF Control, Without
  <2>3. \/ \E t \in Tasks : Command(t)
        \/ (Dies \/ NextPass) /\ UNCHANGED coil
    BY <1>2 DEF Control, Wheels, Detumble, SpinUp, MtbPointing, NoMode, Tasks
  <2>4. CASE \E t \in Tasks : Command(t)
    BY <2>2, <2>4, Starts
  <2>5. CASE (Dies \/ NextPass) /\ UNCHANGED coil
    BY <2>1, <2>2, <2>5, Ends DEF Dies, NextPass
  <2> QED BY <2>3, <2>4, <2>5
<1>3. CASE SetAxis
  <2>1. PICK ok \in BOOLEAN :
          /\ Answered(axis, ok, Setpoint)
          /\ pc' = IF ok THEN "set" ELSE "off"
          /\ axis' = IF ok THEN axis + 1 ELSE AxisAfterFailure(axis)
    BY <1>3 DEF SetAxis
  <2>2. pc = "set" /\ axis \in Axes /\ task' = task /\ Setpoint' = Setpoint
    BY <1>3 DEF SetAxis, Setpoint
  <2>3. CASE ok
    <3>1. coil' = [coil EXCEPT ![axis] = Setpoint] /\ refused' = refused \ {axis}
          /\ pc' = "set" /\ axis' = axis + 1
      BY <2>1, <2>3 DEF Answered
    <3>2. coil' \in [Axes -> {"off", "old", "set"}]
      <4>1. Setpoint \in {"off", "old", "set"}
        BY DEF Setpoint
      <4> QED BY <2>2, <3>1, <4>1 DEF CoilInv, CoilTypes
    <3>5. CoilTypes'
      BY <2>2, <3>1, <3>2, NumAxesAssumption DEF CoilInv, CoilTypes, Axes
    <3>3. \A a \in Axes : a < axis + 1 => a < axis \/ a = axis
      BY <2>2, NumAxesAssumption DEF Axes
    <3>4. \A a \in Axes : a < axis' => coil'[a] = Setpoint
      BY <2>2, <3>1, <3>3 DEF CoilInv, CoilTypes, WrittenSoFar
    <3> QED BY <2>2, <3>1, <3>4, <3>5 DEF CoilInv, WrittenSoFar, OffSoFar, AllOrNothing
  <2>4. CASE ~ok
    <3>1. coil' = coil /\ refused' = refused \cup {axis} /\ pc' = "off" /\ axis' = 1
      BY <2>1, <2>4 DEF Answered, AxisAfterFailure
    <3>2. CoilTypes'
      BY <2>2, <3>1, NumAxesAssumption DEF CoilInv, CoilTypes
    <3>3. \A a \in Axes : ~(a < axis')
      BY <3>1, NumAxesAssumption DEF Axes
    <3> QED BY <3>1, <3>2, <3>3 DEF CoilInv, WrittenSoFar, OffSoFar, AllOrNothing
  <2> QED BY <2>3, <2>4
<1>4. CASE OffAxis
  <2>1. PICK ok \in BOOLEAN : Answered(axis, ok, "off") /\ axis' = axis + 1
    BY <1>4 DEF OffAxis, AfterOff
  <2>2. pc = "off" /\ pc' = "off" /\ axis \in Axes /\ task' = task
    BY <1>4 DEF OffAxis
  <2>3. /\ coil' \in [Axes -> {"off", "old", "set"}] /\ refused' \subseteq Axes
        /\ \A a \in Axes \ {axis} : /\ coil'[a] = coil[a]
                                    /\ a \in refused' <=> a \in refused
        /\ coil'[axis] = "off" \/ axis \in refused'
    BY <2>1, <2>2 DEF Answered, CoilInv, CoilTypes
  <2>4. CoilTypes'
    BY <2>1, <2>2, <2>3, NumAxesAssumption DEF CoilInv, CoilTypes, Axes
  <2>5. \A a \in Axes : a < axis + 1 => a < axis \/ a = axis
    BY <2>2, NumAxesAssumption DEF Axes
  <2>6. \A a \in Axes : a < axis' => coil'[a] = "off" \/ a \in refused'
    BY <2>1, <2>2, <2>3, <2>5 DEF CoilInv, OffSoFar
  <2> QED BY <2>2, <2>4, <2>6 DEF CoilInv, WrittenSoFar, OffSoFar, AllOrNothing
<1>5. CASE Sent
  <2>1. (\A a \in Axes : coil[a] = "set") \/ Quiet
    BY <1>5, ReturnedTogether DEF Sent
  <2>2. refused' = refused
    BY <1>5 DEF Sent
  <2>3. \/ \E t \in Tasks : Command(t)
        \/ (Dies \/ NextPass) /\ UNCHANGED coil
    BY <1>5 DEF Sent, Rested, DetumbleSent, PointSent, SpinSent, Tasks
  <2>4. CASE \E t \in Tasks : Command(t)
    BY <2>2, <2>4, Starts
  <2>5. CASE (Dies \/ NextPass) /\ UNCHANGED coil
    BY <2>1, <2>2, <2>5, Ends DEF Dies, NextPass
  <2> QED BY <2>3, <2>4, <2>5
<1>6. ASSUME NEW s \in Sensors, NEW f \in Fields[s], NEW v \in Values(f), OnData(s, f, v)
      PROVE  CoilInv'
  BY <1>6, <1>0 DEF OnData, pass
<1>7. ASSUME NEW m \in GroundModes, WriteMode(m) PROVE CoilInv'
  BY <1>7, <1>0 DEF WriteMode, pass
<1>8. CASE UNCHANGED vars
  BY <1>8, <1>0 DEF vars
<1> QED BY <1>1, <1>2, <1>3, <1>4, <1>5, <1>6, <1>7, <1>8 DEF Next, Loop

(* Whichever writes fail, _command_magnetorquer_current leaves no axis at   *)
(* the new command with another at an older one.                            *)
THEOREM CommandsAllOrNothing == Spec => []AllOrNothing
<1>1. CoilInv => AllOrNothing
  BY DEF CoilInv
<1> QED BY CoilInit, CoilNext, <1>1, PTL DEF Spec

(* When the service itself ends a manoeuvre the magnetorquers are off, but  *)
(* for those that refused.                                                  *)
THEOREM IdlesQuietly == Spec => QuietIdle
<1>1. CoilInv /\ [Next]_vars
      => [(Loop /\ mode' = "IDLE" /\ mode # "IDLE") => Quiet']_vars
  <2> SUFFICES ASSUME CoilInv, Loop, mode' = "IDLE", mode # "IDLE" PROVE Quiet'
    OBVIOUS
  <2>1. Sent
    BY DEF Loop, Top, StartFilter, Guide, Control, SetAxis, OffAxis, can, Without
  <2>4. Rested
    BY <2>1 DEF Sent, DetumbleSent, PointSent, SpinSent
  <2>2. Quiet
    BY <2>1, <2>4, ReturnedTogether DEF Sent, Rested
  <2>3. UNCHANGED <<coil, refused>>
    BY <2>1, <2>4 DEF Sent, Rested
  <2> QED BY <2>2, <2>3 DEF Quiet
<1> QED BY CoilInit, CoilNext, <1>1, PTL DEF Spec, QuietIdle
=============================================================================
