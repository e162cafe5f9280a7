---------------------------- MODULE RadiosProofs ----------------------------
(***************************************************************************)
(* Proofs about Radios, for any number of commands, any limit on the SDO   *)
(* errors and any upsets.                                                  *)
(***************************************************************************)
EXTENDS Radios, TLAPS

\* The steps of the loop that belong to a session, and those that do not.
QuietSteps == {"top", "uhfReset", "uhfOff", "sband", "recv"}

LEMMA ThreadsDistinct == "loop" \in Threads /\ "command" \in Threads
                         /\ \A t \in Threads : t = "loop" \/ t = "command"
BY DEF Threads
-----------------------------------------------------------------------------
(* Typing *)

LEMMA Bounds == MaxCommands \in Nat /\ MaxUpsets \in Nat
BY BoundsAssumption DEF BoundsAssumption

LEMMA TypeInit == Init => TypeOK
<1> SUFFICES ASSUME Init PROVE TypeOK
  OBVIOUS
<1>1. pc \in [Threads -> Steps]
  BY DEF Init, Steps
<1>2. failed \subseteq Services
  BY DEF Init
<1>3. /\ want = FALSE /\ downlink = FALSE /\ sband = 0 /\ faults = 0 /\ stamp = "unset"
      /\ uhfOn = TRUE /\ tripped = FALSE /\ powered = FALSE /\ card = "OFF"
      /\ commands = 0 /\ bites = 0 /\ upsets = 0
  BY Zenon DEF Init, Off
<1>4. commands \in 0..MaxCommands /\ upsets \in 0..MaxUpsets /\ faults \in Nat /\ bites \in Nat
  BY <1>3, Bounds
<1>5. want \in BOOLEAN /\ downlink \in BOOLEAN /\ uhfOn \in BOOLEAN /\ tripped \in BOOLEAN
      /\ powered \in BOOLEAN
  BY <1>3
<1>6. sband \in SbandStates /\ stamp \in {"unset", "past", "ahead"} /\ card \in CardStates
  BY <1>3 DEF SbandStates, Off, CardStates
<1> QED BY <1>1, <1>2, <1>4, <1>5, <1>6 DEF TypeOK

\* What Goto and Return make of pc.
LEMMA GotoType ==
    ASSUME pc \in [Threads -> Steps], NEW t \in Threads, NEW step \in Steps, Goto(t, step)
    PROVE  pc' \in [Threads -> Steps]
BY DEF Goto

LEMMA ReturnType ==
    ASSUME pc \in [Threads -> Steps], NEW t \in Threads, NEW a \in Steps, NEW b \in Steps,
           Return(t, a, b)
    PROVE  pc' \in [Threads -> Steps]
BY DEF Return, Goto

LEMMA RaiseType ==
    ASSUME TypeOK, NEW t \in Threads, Raise(t)
    PROVE  pc' \in [Threads -> Steps] /\ failed' \subseteq Services
<1>1. "failed" \in Steps /\ "idle" \in Steps /\ "radios" \in Services
  BY DEF Steps, Services
<1>2. Return(t, "failed", "idle")
  BY DEF Raise
<1>3. pc' \in [Threads -> Steps]
  BY <1>1, <1>2, ReturnType DEF TypeOK
<1> QED BY <1>1, <1>3 DEF Raise, TypeOK

LEMMA ProceduresType ==
    ASSUME TypeOK, NEW t \in Threads, Procedures(t)
    PROVE  TypeOK'
<1> USE DEF TypeOK, SbandStates, Off, PoweringOn, Starting, Ready, ShuttingDown, Broken
<1> DEFINE Reached == {"power", "look", "ask", "nap", "shutdown", "clear"}
<1>1. Reached \subseteq Steps
  BY DEF Steps, EnableSteps, DisableSteps
<1>2. \A step \in Reached : Goto(t, step) => pc' \in [Threads -> Steps]
  BY <1>1, GotoType
<1> HIDE DEF Reached
<1>3. CASE Enable(t)
  <2>1. \E step \in {"power", "look", "ask", "nap"} : Goto(t, step)
    BY <1>3 DEF Enable
  <2>2. pc' \in [Threads -> Steps]
    BY <2>1, <1>2 DEF Reached
  <2> QED BY <1>3, <2>2 DEF Enable, uhf, sdr, counts
<1>4. CASE PowerSdr(t)
  <2>1. pc' \in [Threads -> Steps]
    BY <1>4, <1>2 DEF PowerSdr, Reached
  <2> QED BY <1>4, <2>1 DEF PowerSdr, uhf, counts
<1>5. CASE LookAtCard(t)
  <2>1. Goto(t, "nap") \/ Raise(t)
    BY <1>5 DEF LookAtCard
  <2>2. pc' \in [Threads -> Steps] /\ failed' \subseteq Services
    BY <1>5, <2>1, <1>2, RaiseType DEF LookAtCard, Reached
  <2>3. faults' \in Nat /\ sband' \in SbandStates
    BY <1>5 DEF LookAtCard, StartErrors
  <2> QED BY <1>5, <2>2, <2>3 DEF LookAtCard, uhf, sdr, counts
<1>6. CASE AskSdr(t)
  <2>1. pc' \in [Threads -> Steps] /\ failed' \subseteq Services
    BY <1>6, <1>2, RaiseType DEF AskSdr, Reached
  <2>3. faults' \in Nat /\ sband' \in SbandStates
    BY <1>6 DEF AskSdr, StartErrors, StatusErrors
  <2> QED BY <1>6, <2>1, <2>3 DEF AskSdr, uhf, sdr, counts
<1>7. CASE Nap(t)
  <2>1. "timeout" \in Steps /\ "idle" \in Steps
    BY DEF Steps
  <2>2. pc' \in [Threads -> Steps]
    BY <1>7, <2>1, ReturnType DEF Nap
  <2> QED BY <1>7, <2>2 DEF Nap, uhf, sdr, counts
<1>8. CASE Disable(t)
  <2>1. pc' \in [Threads -> Steps]
    BY <1>8, <1>2 DEF Disable, Reached
  <2> QED BY <1>8, <2>1 DEF Disable, StopErrors, uhf, sdr, counts
<1>9. CASE ShutDown(t)
  <2>1. pc' \in [Threads -> Steps]
    BY <1>9, <1>2 DEF ShutDown, Reached
  <2> QED BY <1>9, <2>1 DEF ShutDown, uhf, counts
<1>10. CASE ClearTimeout(t)
  <2>1. "recv" \in Steps /\ "idle" \in Steps
    BY DEF Steps
  <2>2. pc' \in [Threads -> Steps]
    BY <1>10, <2>1, ReturnType DEF ClearTimeout
  <2> QED BY <1>10, <2>2 DEF ClearTimeout, uhf, sdr, counts
<1> QED BY <1>3, <1>4, <1>5, <1>6, <1>7, <1>8, <1>9, <1>10 DEF Procedures

LEMMA LoopType ==
    ASSUME TypeOK, Loop
    PROVE  TypeOK'
<1> USE DEF TypeOK
<1> DEFINE Reached == {"top", "uhfReset", "uhfOff", "sband", "wanted", "boot", "timeout",
                       "recv", "disable", "enable"}
<1>1. \A step \in Reached : Goto("loop", step) => pc' \in [Threads -> Steps]
  BY GotoType, ThreadsDistinct DEF Steps, EnableSteps, DisableSteps
<1> HIDE DEF Reached
<1>2. CASE CheckUhf \/ DisableUhf \/ CheckSband \/ CheckWanted \/ Receive
  <2>1. \E step \in Reached : Goto("loop", step)
    BY <1>2 DEF CheckUhf, DisableUhf, CheckSband, CheckWanted, Receive, Reached
  <2>2. pc' \in [Threads -> Steps]
    BY <1>1, <2>1
  <2> QED BY <1>2, <2>2 DEF CheckUhf, DisableUhf, CheckSband, CheckWanted, Receive,
                            session, uhf, sdr, counts
<1>3. CASE EnableUhf
  <2>1. pc' \in [Threads -> Steps]
    BY <1>1, <1>3 DEF EnableUhf, Reached
  <2> QED BY <1>3, <2>1 DEF EnableUhf, UhfStarted, session, sdr, counts
<1>4. CASE ContinueBoot
  <2>1. \E step \in Reached : Goto("loop", step)
    BY <1>4 DEF ContinueBoot, Reached
  <2>2. pc' \in [Threads -> Steps]
    BY <1>1, <2>1
  <2> QED BY <1>4, <2>2 DEF ContinueBoot, uhf, sdr, counts
<1>5. CASE CheckTimeout
  <2>1. pc' \in [Threads -> Steps] /\ failed' \subseteq Services
    BY <1>1, <1>5, RaiseType, ThreadsDistinct DEF CheckTimeout, Reached
  <2> QED BY <1>5, <2>1 DEF CheckTimeout, uhf, sdr, counts
<1>6. CASE Procedures("loop")
  BY <1>6, ProceduresType, ThreadsDistinct
<1> QED BY <1>2, <1>3, <1>4, <1>5, <1>6 DEF Loop

LEMMA TypeNext == TypeOK /\ [Next]_vars => TypeOK'
<1> SUFFICES ASSUME TypeOK, [Next]_vars PROVE TypeOK'
  OBVIOUS
<1> USE DEF TypeOK
<1>1. CASE Loop
  BY <1>1, LoopType
<1>2. CASE Procedures("command")
  BY <1>2, ProceduresType, ThreadsDistinct
<1>3. ASSUME NEW value \in BOOLEAN, WriteShouldEnable(value) PROVE TypeOK'
  <2>1. pc' \in [Threads -> Steps]
    BY <1>3, GotoType, ThreadsDistinct DEF WriteShouldEnable, Steps, EnableSteps,
       DisableSteps
  <2>2. commands' \in 0..MaxCommands
    BY <1>3, Bounds DEF WriteShouldEnable
  <2>3. UNCHANGED <<sband, faults, stamp, downlink, failed, uhfOn, tripped, powered, card,
                    bites, upsets>> /\ want' = value
    BY <1>3 DEF WriteShouldEnable, uhf, sdr
  <2> QED BY <2>1, <2>2, <2>3
<1>4. ASSUME NEW s \in Senders, SendBySband(s) PROVE TypeOK'
  BY <1>4 DEF SendBySband, TrySend, Services, session, uhf, sdr, counts
<1>5. CASE Expire \/ WriteDownlink
  BY <1>5 DEF Expire, WriteDownlink, session, uhf, sdr, counts
<1>6. CASE Survey
  <2>1. card' \in CardStates /\ powered' \in BOOLEAN
    BY <1>6 DEF Survey, CardStates
  <2> QED BY <1>6, <2>1 DEF Survey, session, uhf, counts
<1>7. CASE Trip
  BY <1>7, Bounds DEF Trip, session, sdr
<1>8. CASE Stop \/ Bite
  <2>1. pc' \in [Threads -> Steps]
    BY <1>8 DEF Stop, Bite, Steps
  <2>2. CASE Stop
    <3>1. /\ uhfOn' = FALSE /\ upsets < MaxUpsets /\ upsets' = upsets + 1
          /\ UNCHANGED <<session, downlink, failed, tripped, sdr, commands, bites>>
      BY <2>2, Zenon DEF Stop
    <3>2. upsets' \in 0..MaxUpsets
      BY <3>1, Bounds
    <3>3. uhfOn' \in BOOLEAN
      BY <3>1
    <3> QED BY <2>1, <3>1, <3>2, <3>3 DEF session, sdr
  <2>3. CASE Bite
    BY <2>1, <2>3 DEF Bite, session, uhf, sdr
  <2> QED BY <1>8, <2>2, <2>3
<1>9. CASE Start
  <2>1. pc' \in [Threads -> Steps]
    BY <1>9 DEF Start, Steps
  <2> QED BY <1>9, <2>1 DEF Start, ForgetWant, UhfStarted, SbandStates, Off, CardStates,
                            counts
<1>10. CASE UNCHANGED vars
  BY <1>10 DEF vars, session, uhf, sdr, counts
<1> QED BY <1>1, <1>2, <1>3, <1>4, <1>5, <1>6, <1>7, <1>8, <1>9, <1>10 DEF Next

\* TypeOK: every variable keeps its type (radios.py).
THEOREM Typing == Spec => []TypeOK
BY TypeInit, TypeNext, PTL DEF Spec
-----------------------------------------------------------------------------
(* Resets by the watchdog.  As long as nothing was asked of the S-band     *)
(* since the start, nothing raises: whatever could, was Touched by a       *)
(* command of this run, which no bite has been counted against yet.        *)
Touched ==
    \/ want \/ sband # Off \/ stamp # "unset" \/ failed # {}
    \/ pc["command"] # "idle" \/ pc["loop"] \notin QuietSteps

OwedInv == bites <= commands /\ (Up /\ Touched => bites < commands)

\* A step that touches nothing by itself owes no more than before.
LEMMA OwesNoMore ==
    ASSUME OwedInv, UNCHANGED <<bites, commands>>, Up' /\ Touched' => Up /\ Touched
    PROVE  OwedInv'
BY DEF OwedInv

\* A step of a session is one of a run that was touched.
LEMMA ProcedureOwed ==
    ASSUME TypeOK, OwedInv, NEW t \in Threads, Procedures(t)
    PROVE  OwedInv'
<1>1. pc[t] \in EnableSteps \cup DisableSteps
  BY Zenon DEF Procedures, Enable, PowerSdr, LookAtCard, AskSdr, Nap, Disable, ShutDown,
               ClearTimeout, EnableSteps, DisableSteps
<1>2. Touched
  <2>1. CASE t = "loop"
    BY <1>1, <2>1 DEF Touched, QuietSteps, EnableSteps, DisableSteps
  <2>2. CASE t = "command"
    BY <1>1, <2>2 DEF Touched, EnableSteps, DisableSteps
  <2> QED BY <2>1, <2>2, ThreadsDistinct
<1>3. UNCHANGED <<bites, commands>>
  BY Zenon DEF Procedures, Enable, PowerSdr, LookAtCard, AskSdr, Nap, Disable, ShutDown,
               ClearTimeout, counts
<1>4. Up' => Up
  <2>1. CASE t = "command"
    BY <1>1, <2>1 DEF Up, EnableSteps, DisableSteps
  <2>2. CASE t = "loop"
    <3>1. \E step : pc' = [pc EXCEPT ![t] = step]
      BY Zenon DEF Procedures, Enable, PowerSdr, LookAtCard, AskSdr, Nap, Disable, ShutDown,
                   ClearTimeout, Raise, Return, Goto
    <3>2. pc'["command"] = pc["command"]
      BY <2>2, <3>1 DEF TypeOK, Threads
    <3> QED BY <3>2 DEF Up
  <2> QED BY <2>1, <2>2, ThreadsDistinct
<1> QED BY <1>2, <1>3, <1>4, OwesNoMore

LEMMA LoopOwed ==
    ASSUME TypeOK, OwedInv, Loop
    PROVE  OwedInv'
<1> DEFINE Asleep == pc'["command"] = pc["command"]
<1>0. \A step : Goto("loop", step) => pc'["loop"] = step /\ Asleep
  BY DEF Goto, TypeOK, Threads
<1>1. CASE CheckUhf \/ DisableUhf \/ EnableUhf \/ CheckSband \/ Receive
  <2>1. UNCHANGED <<want, sband, stamp, failed, bites, commands>>
    BY <1>1 DEF CheckUhf, DisableUhf, EnableUhf, CheckSband, Receive, session, counts
  <2>2. Asleep /\ pc["loop"] \in QuietSteps
    BY <1>0, <1>1 DEF CheckUhf, DisableUhf, EnableUhf, CheckSband, Receive, QuietSteps
  <2>3. pc'["loop"] \notin QuietSteps => want \/ sband # Off
    BY <1>0, <1>1 DEF CheckUhf, DisableUhf, EnableUhf, CheckSband, Receive, QuietSteps,
                      SbandBusy
  <2>4. Up' /\ Touched' => Up /\ Touched
    BY <2>1, <2>2, <2>3 DEF Up, Touched
  <2> QED BY <2>1, <2>4, OwesNoMore
<1>2. CASE CheckWanted \/ ContinueBoot \/ CheckTimeout
  <2>1. pc["loop"] \in {"wanted", "boot", "timeout"} /\ UNCHANGED <<bites, commands>>
    BY <1>2 DEF CheckWanted, ContinueBoot, CheckTimeout, counts
  <2>2. Asleep
    BY <1>0, <1>2 DEF CheckWanted, ContinueBoot, CheckTimeout, Raise, Return
  <2>3. Touched /\ (Up' => Up)
    BY <2>1, <2>2 DEF Touched, Up, QuietSteps
  <2> QED BY <2>1, <2>3, OwesNoMore
<1>3. CASE Procedures("loop")
  BY <1>3, ProcedureOwed, ThreadsDistinct
<1> QED BY <1>1, <1>2, <1>3 DEF Loop

LEMMA OwedNext == TypeOK /\ OwedInv /\ [Next]_vars => OwedInv'
<1> SUFFICES ASSUME TypeOK, OwedInv, [Next]_vars PROVE OwedInv'
  OBVIOUS
<1>0. commands \in Nat /\ bites \in Nat
  BY Bounds DEF TypeOK
<1>1. CASE Loop
  BY <1>1, LoopOwed
<1>2. CASE Procedures("command")
  BY <1>2, ProcedureOwed, ThreadsDistinct
<1>3. ASSUME NEW value \in BOOLEAN, WriteShouldEnable(value) PROVE OwedInv'
  <2>1. commands' = commands + 1 /\ bites' = bites
    BY <1>3 DEF WriteShouldEnable
  <2> QED BY <1>0, <2>1 DEF OwedInv
<1>4. ASSUME NEW s \in Senders, SendBySband(s) PROVE OwedInv'
  <2>1. Up /\ sband = Ready /\ UNCHANGED <<bites, commands>>
    BY <1>4 DEF SendBySband, ThroughSband, counts
  <2>2. Touched
    BY <2>1 DEF Touched, Ready, Off
  <2> QED BY <2>1, <2>2, OwesNoMore
<1>5. CASE Expire
  <2>1. Up /\ stamp = "ahead" /\ UNCHANGED <<bites, commands>>
    BY <1>5 DEF Expire, counts
  <2> QED BY <2>1, OwesNoMore DEF Touched
<1>6. CASE WriteDownlink \/ Survey \/ Trip \/ UNCHANGED vars
  <2>1. UNCHANGED <<want, sband, stamp, failed, pc, bites, commands>>
    BY <1>6 DEF WriteDownlink, Survey, Trip, vars, session, counts
  <2>2. Up' = Up /\ Touched' = Touched
    BY <2>1 DEF Up, Touched
  <2> QED BY <2>1, <2>2, OwesNoMore
<1>7. CASE Stop
  <2>1. ~Up' /\ UNCHANGED <<bites, commands>>
    BY <1>7 DEF Stop, Up, Threads
  <2> QED BY <2>1, OwesNoMore
<1>8. CASE Bite
  <2>1. bites < commands
    BY <1>8 DEF Bite, Unwell, Touched, OwedInv
  <2>2. ~Up' /\ bites' = bites + 1 /\ commands' = commands
    BY <1>8 DEF Bite, Up, Threads
  <2> QED BY <1>0, <2>1, <2>2 DEF OwedInv
<1>9. CASE Start
  <2>1. ~Touched'
    BY <1>9 DEF Start, ForgetWant, Touched, QuietSteps, Threads
  <2>2. UNCHANGED <<bites, commands>>
    BY <1>9 DEF Start, counts
  <2> QED BY <2>1, <2>2, OwesNoMore
<1> QED BY <1>1, <1>2, <1>3, <1>4, <1>5, <1>6, <1>7, <1>8, <1>9 DEF Next

\* RestartsNeedCommands: a reset by the watchdog has cost a command, so an S-band
\* that raises whenever it is used cannot keep the C3 resetting (radios.py:237).
THEOREM NoRestartLoop == Spec => []RestartsNeedCommands
<1>1. Init => OwedInv
  BY DEF Init, OwedInv, Touched, QuietSteps, Threads, Off
<1>2. OwedInv => RestartsNeedCommands
  BY DEF OwedInv, RestartsNeedCommands
<1> QED BY <1>1, <1>2, OwedNext, Typing, PTL DEF Spec
-----------------------------------------------------------------------------
(* The SDR.  Two threads may boot it and shut it down at once, and the     *)
(* service may fail or be stopped in the middle.                           *)
SdrInv == (powered => sband # Off) /\ (card = "DEAD" => ~powered)

LEMMA SdrNext == TypeOK /\ SdrInv /\ [Next]_vars => SdrInv'
<1> SUFFICES ASSUME TypeOK, SdrInv, [Next]_vars PROVE SdrInv'
  OBVIOUS
<1> USE DEF SdrInv, Off, PoweringOn, Starting, Ready, ShuttingDown, Broken
<1>1. ASSUME NEW t \in Threads, Procedures(t) PROVE SdrInv'
  <2>1. CASE Enable(t) \/ LookAtCard(t) \/ AskSdr(t) \/ Nap(t) \/ Disable(t)
    <3>1. UNCHANGED <<powered, card>> /\ (sband' = sband \/ sband' # Off)
      BY <2>1 DEF Enable, LookAtCard, AskSdr, Nap, Disable, sdr
    <3> QED BY <3>1
  <2>2. CASE PowerSdr(t)
    <3>1. sband' = PoweringOn
      BY <2>2 DEF PowerSdr
    <3>2. powered' = (powered \/ card = "OFF") /\ card' = card
      BY <2>2, Zenon DEF PowerSdr
    <3>3. card = "DEAD" => ~powered'
      BY <3>2
    <3> QED BY <3>1, <3>2, <3>3
  <2>3. CASE ShutDown(t)
    <3>1. powered => card # "OFF"
      BY <2>3, Zenon DEF ShutDown, Seen
    <3>2. powered' = (powered /\ card \in {"OFF", "DEAD"})
      BY <2>3, Zenon DEF ShutDown
    <3>3. ~powered'
      BY <3>1, <3>2
    <3> QED BY <3>3
  <2>4. CASE ClearTimeout(t)
    BY <2>4 DEF ClearTimeout, sdr
  <2> QED BY <1>1, <2>1, <2>2, <2>3, <2>4 DEF Procedures
<1>2. CASE Loop /\ ~Procedures("loop")
  BY <1>2 DEF Loop, CheckUhf, DisableUhf, EnableUhf, CheckSband, CheckWanted, ContinueBoot,
              CheckTimeout, Receive, session, sdr
<1>3. CASE Survey
  <2>1. sband' = sband /\ powered' = (powered /\ card' # "DEAD")
    BY <1>3, Zenon DEF Survey, session
  <2> QED BY <2>1, Zenon
<1>4. CASE Start
  BY <1>4 DEF Start
<1>5. ASSUME NEW value \in BOOLEAN, WriteShouldEnable(value) PROVE SdrInv'
  BY <1>5 DEF WriteShouldEnable, sdr
<1>6. ASSUME NEW s \in Senders, SendBySband(s) PROVE SdrInv'
  BY <1>6 DEF SendBySband, session, sdr
<1>7. CASE Expire \/ WriteDownlink \/ Trip \/ Stop \/ Bite \/ UNCHANGED vars
  BY <1>7 DEF Expire, WriteDownlink, Trip, Stop, Bite, vars, session, sdr
<1> QED BY <1>1, <1>2, <1>3, <1>4, <1>5, <1>6, <1>7, ThreadsDistinct DEF Next, Loop

\* The SDR is powered only while the service takes the S-band to be in use, so that
\* its loop comes back to switch it off (radios.py:130, 557): however the callback
\* and the loop start and end a session at once, and whatever raises in it.
THEOREM SdrInSession == Spec => [](powered => sband # Off)
<1>1. Init => SdrInv
  BY DEF Init, SdrInv
<1>2. SdrInv => (powered => sband # Off)
  BY DEF SdrInv
<1> QED BY <1>1, <1>2, SdrNext, Typing, PTL DEF Spec
=============================================================================
