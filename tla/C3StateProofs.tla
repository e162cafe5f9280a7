--------------------------- MODULE C3StateProofs ---------------------------
(***************************************************************************)
(* Proofs about C3State, for every value of its constants.                 *)
(***************************************************************************)
EXTENDS C3State, TLAPS

\* What the assumptions say of the constants, one by one.
LEMMA Constants ==
    /\ PreDeployTimeout \in Nat /\ Attempts \in Nat /\ ReattemptTimeout \in Nat
    /\ TxTimeout \in Nat /\ EdlTimeout \in Nat /\ ResetTimeout \in Nat
    /\ MaxUpsets \in Nat /\ StoreEvery \in Nat \ {0} /\ MaxAhead \in Nat
    /\ ClockSteps \subseteq Int /\ Never \notin Int
    /\ Len(FramOrder) \in Nat \ {0}
    /\ \A i \in 1..Len(FramOrder) : FramOrder[i] \in FramObjs
    /\ OperatorStates \subseteq Statuses
    /\ Upsets \subseteq {"crash", "fault", "reset", "factory"}
BY TimeoutsAssumption, StoreAssumption, ClockAssumption, NeverAssumption,
   FramAssumption, OperatorAssumption, UpsetsAssumption
   DEF TimeoutsAssumption, StoreAssumption, ClockAssumption, NeverAssumption,
       FramAssumption, OperatorAssumption, UpsetsAssumption, UpsetKinds

\* Ageing and moving the clock keep a timestamp's age in range.
LEMMA Bounds == /\ TxCap \in Int /\ EdlCap \in Int /\ EpochCap \in Int
                /\ UptimeCap \in Nat /\ DeployCap \in Nat
BY Constants DEF TxCap, EdlCap, EpochCap, UptimeCap, DeployCap

LEMMA OlderAge ==
    ASSUME NEW age \in Ages, NEW cap \in Int
    PROVE  Older(age, cap) \in Ages
BY Constants DEF Older, Ages

LEMMA OlderUpTo ==
    ASSUME NEW cap \in Nat, NEW age \in 0..cap
    PROVE  Older(age, cap) \in 0..cap
BY Constants DEF Older

LEMMA MovedAges ==
    ASSUME NEW age \in Ages, NEW cap \in Int, NEW d \in Int
    PROVE  Moved(age, cap, d) \subseteq Ages
BY Constants DEF Moved, Ages

LEMMA FramFields ==
    ASSUME FramOK
    PROVE  /\ fram.status \in Statuses
           /\ fram.deployed \in BOOLEAN /\ fram.txEnable \in BOOLEAN
           /\ fram.lastTx \in Ages /\ fram.lastEdl \in Ages
BY Zenon DEF FramOK

LEMMA SavedOK ==
    ASSUME FlagsOK, StatusOK, FramOK, NEW o
    PROVE  Saved(o) \in [status : Statuses, deployed : BOOLEAN,
                         txEnable : BOOLEAN, lastTx : Ages, lastEdl : Ages]
BY FramFields, Zenon DEF StatusOK, FlagsOK, Saved

LEMMA MovedClock ==
    ASSUME NEW d, SetClock(d)
    PROVE  /\ lastTx' \in Moved(lastTx, TxCap, d)
           /\ lastEdl' \in Moved(lastEdl, EdlCap, d)
           /\ epoch' \in Moved(epoch, EpochCap, d)
           /\ \E a \in Moved(fram.lastTx, TxCap, d),
                 b \in Moved(fram.lastEdl, EdlCap, d) :
                    fram' = [fram EXCEPT !.lastTx = a, !.lastEdl = b]
BY Zenon DEF SetClock

\* The steps that move the keys; any other leaves them where they are, and
\* starts nothing up nor ends a factory reset.
KeyStep == \/ Boot \/ BootFault \/ StoreObject \/ Halt \/ Clear \/ Rekey \/ ClearFault
           \/ Crash \/ WatchdogBite \/ \E k \in Keys : SetKey(k)

LEMMA KeySteps ==
    ASSUME [Next]_vars, ~KeyStep
    PROVE  UNCHANGED keyVars /\ (Powered' => Powered) /\ (pc = "rekey" <=> pc' = "rekey")
<1>. USE DEF keyVars, Powered, loopVars
<1>1. CASE StateThread
  BY <1>1 DEF StateThread, KeyStep, Top, Expire, Gate, PreDeploy, Stamp, Deploy, Fired,
     Settle, Session, TxRead, Commit, Invalid, Reset, Wrap, Stop
<1>2. CASE \E w \in Writers : EnableTx(w) \/ StampTx(w) \/ DisableTx(w) \/ ClearTx(w)
  BY <1>2, Zenon DEF EnableTx, StampTx, DisableTx, ClearTx
<1>3. CASE BeaconArm \/ BeaconSend \/ BeaconSent \/ EdlPacket
  BY <1>3 DEF BeaconArm, BeaconSend, BeaconSent, EdlPacket
<1>4. CASE Tick \/ ToggleUpdate \/ StoreFault
  BY <1>4 DEF Tick, ToggleUpdate, StoreFault
<1>5. CASE \E d \in ClockSteps : SetClock(d)
  BY <1>5, Zenon DEF SetClock
<1>6. CASE \E s \in OperatorStates : OperatorWrite(s)
  BY <1>6, Zenon DEF OperatorWrite
<1>7. CASE \E kind \in Upsets \ {"crash", "fault"} : StopRequest(kind)
  BY <1>7, Zenon DEF StopRequest
<1>8. CASE UNCHANGED vars
  BY <1>8 DEF vars
<1>. QED BY <1>1, <1>2, <1>3, <1>4, <1>5, <1>6, <1>7, <1>8, Zenon DEF Next, KeyStep

\* Every variable keeps its type, whatever the constants.  The Boolean
\* variables come first, as a part of their own.
THEOREM Typing == Spec => []TypeOK
<1>. USE DEF TypeOK, odVars, loopVars, antVars, sysVars, history, keyVars
<1>. DEFINE RestOK == StatusOK /\ FramOK /\ LoopOK /\ ThreadsOK
<1>1. Init => FlagsOK
  BY Zenon DEF Init, FlagsOK
<1>2. Init => RestOK
  BY Constants DEF Init, BlankFram, DeployCap, UptimeCap, StatusOK, FramOK, LoopOK,
     ThreadsOK, Ages, Statuses, C3States, PostDeploy, StateSteps, StopSteps
<1>3. TypeOK /\ [Next]_vars => FlagsOK'
  <2>. SUFFICES ASSUME FlagsOK, FramOK, [Next]_vars PROVE FlagsOK'
    OBVIOUS
  <2>. USE DEF FlagsOK
  <2>1. CASE Boot
    BY <2>1, Zenon DEF Boot, FramOK
  <2>2. CASE Top
    BY <2>2, Zenon DEF Top, TxTimedOut, EdlActive
  <2>3. CASE Expire
    BY <2>3, Zenon DEF Expire
  <2>4. CASE Gate
    BY <2>4, Zenon DEF Gate
  <2>5. CASE PreDeploy
    BY <2>5, Zenon DEF PreDeploy
  <2>6. CASE Stamp
    BY <2>6, Zenon DEF Stamp
  <2>7. CASE Deploy
    BY <2>7, Zenon DEF Deploy
  <2>8. CASE Fired
    BY <2>8, Zenon DEF Fired
  <2>9. CASE Settle
    BY <2>9, Zenon DEF Settle
  <2>10. CASE Session
    BY <2>10, Zenon DEF Session
  <2>11. CASE TxRead
    BY <2>11, Zenon DEF TxRead
  <2>12. CASE Commit
    BY <2>12, Zenon DEF Commit
  <2>13. CASE Invalid
    BY <2>13, Zenon DEF Invalid
  <2>14. CASE Reset
    BY <2>14, Zenon DEF Reset
  <2>15. CASE Wrap
    BY <2>15, Zenon DEF Wrap
  <2>16. CASE StoreObject
    BY <2>16, Zenon DEF StoreObject
  <2>17. CASE Stop
    BY <2>17, Zenon DEF Stop
  <2>18. CASE Halt
    BY <2>18, Zenon DEF Halt, PowerOff
  <2>19. CASE BeaconArm
    BY <2>19, Zenon DEF BeaconArm
  <2>20. CASE BeaconSend
    BY <2>20, Zenon DEF BeaconSend
  <2>21. CASE BeaconSent
    BY <2>21, Zenon DEF BeaconSent
  <2>22. CASE EdlPacket
    BY <2>22, Zenon DEF EdlPacket, EdlActive
  <2>23. CASE Tick
    BY <2>23, Zenon DEF Tick, EdlActive
  <2>24. CASE ToggleUpdate
    BY <2>24, Zenon DEF ToggleUpdate
  <2>25. CASE StoreFault
    BY <2>25, Zenon DEF StoreFault
  <2>26. CASE Crash
    BY <2>26, Zenon DEF Crash, PowerOff
  <2>27. CASE WatchdogBite
    BY <2>27, Zenon DEF WatchdogBite, PowerOff
  <2>28. ASSUME NEW w \in Writers, EnableTx(w)
        PROVE  FlagsOK'
    BY <2>28, Zenon DEF EnableTx
  <2>29. ASSUME NEW w \in Writers, StampTx(w)
        PROVE  FlagsOK'
    BY <2>29, Zenon DEF StampTx
  <2>30. ASSUME NEW w \in Writers, DisableTx(w)
        PROVE  FlagsOK'
    BY <2>30, Zenon DEF DisableTx
  <2>31. ASSUME NEW w \in Writers, ClearTx(w)
        PROVE  FlagsOK'
    BY <2>31, Zenon DEF ClearTx, TxTimedOut
  <2>32. ASSUME NEW d \in ClockSteps, SetClock(d)
        PROVE  FlagsOK'
    BY <2>32, Zenon DEF SetClock, TxTimedOut, EdlActive
  <2>33. ASSUME NEW s \in OperatorStates, OperatorWrite(s)
        PROVE  FlagsOK'
    BY <2>33, Zenon DEF OperatorWrite
  <2>34. ASSUME NEW kind \in Upsets \ {"crash", "fault"}, StopRequest(kind)
        PROVE  FlagsOK'
    BY <2>34, Zenon DEF StopRequest
  <2>35. CASE UNCHANGED vars
    BY <2>35, Zenon DEF vars
  <2>36. CASE Clear
    BY <2>36, Zenon DEF Clear
  <2>37. CASE Rekey
    BY <2>37, Zenon DEF Rekey, PowerOff
  <2>38. CASE ClearFault
    BY <2>38, Zenon DEF ClearFault, PowerOff
  <2>39. ASSUME NEW k \in Keys, SetKey(k)
        PROVE  FlagsOK'
    BY <2>39, Zenon DEF SetKey
  <2>40. CASE BootFault
    BY <2>40, Zenon DEF BootFault, FramOK
  <2>. QED
    BY <2>1, <2>2, <2>3, <2>4, <2>5, <2>6, <2>7, <2>8, <2>9, <2>10, <2>11,
       <2>12, <2>13, <2>14, <2>15, <2>16, <2>17, <2>18, <2>19, <2>20, <2>21,
       <2>22, <2>23, <2>24, <2>25, <2>26, <2>27, <2>28, <2>29, <2>30, <2>31,
       <2>32, <2>33, <2>34, <2>35, <2>36, <2>37, <2>38, <2>39, <2>40
    DEF Next, StateThread
<1>4. TypeOK /\ [Next]_vars => RestOK'
  <2>. SUFFICES ASSUME RestOK, FlagsOK, [Next]_vars PROVE RestOK'
    OBVIOUS
  <2>. USE Constants DEF StatusOK, FramOK, LoopOK, ThreadsOK, Ages, Statuses,
           C3States, PostDeploy, StateSteps, StopSteps
  <2>1. CASE Boot
    <3>1. StatusOK'
      BY <2>1, FramFields DEF Boot, StatusOK, Restored, Ages, Statuses, C3States,
         PostDeploy
    <3>2. FramOK'
      BY <2>1 DEF Boot, FramOK
    <3>3. LoopOK'
      BY <2>1, Bounds DEF Boot, LoopOK, StateSteps
    <3>4. ThreadsOK'
      BY <2>1 DEF Boot, ThreadsOK
    <3>. QED BY <3>1, <3>2, <3>3, <3>4
  <2>2. CASE Top
    BY <2>2 DEF Top, TxTimedOut, EdlActive
  <2>3. CASE Expire
    BY <2>3 DEF Expire
  <2>4. CASE Gate
    BY <2>4 DEF Gate
  <2>5. CASE PreDeploy
    BY <2>5 DEF PreDeploy
  <2>6. CASE Stamp
    BY <2>6 DEF Stamp
  <2>7. CASE Deploy
    BY <2>7 DEF Deploy
  <2>8. CASE Fired
    BY <2>8 DEF Fired, NextAttempts, DeployCap
  <2>9. CASE Settle
    BY <2>9 DEF Settle
  <2>10. CASE Session
    BY <2>10 DEF Session
  <2>11. CASE TxRead
    BY <2>11 DEF TxRead, AfterTx
  <2>12. CASE Commit
    BY <2>12 DEF Commit
  <2>13. CASE Invalid
    BY <2>13 DEF Invalid
  <2>14. CASE Reset
    BY <2>14 DEF Reset
  <2>15. CASE Wrap
    BY <2>15 DEF Wrap, NextLoop
  <2>16. CASE StoreObject
    <3>1. StatusOK'
      BY <2>16 DEF StoreObject, StatusOK
    <3>2. FramOK'
      BY <2>16, SavedOK, Constants DEF StoreObject, FramOK
    <3>3. LoopOK'
      BY <2>16 DEF StoreObject, LoopOK, StateSteps, StopSteps
    <3>4. ThreadsOK'
      BY <2>16 DEF StoreObject, ThreadsOK
    <3>. QED BY <3>1, <3>2, <3>3, <3>4
  <2>17. CASE Stop
    BY <2>17 DEF Stop
  <2>18. CASE Halt
    BY <2>18 DEF Halt, PowerOff, DeployCap, UptimeCap
  <2>19. CASE BeaconArm
    BY <2>19 DEF BeaconArm
  <2>20. CASE BeaconSend
    BY <2>20 DEF BeaconSend
  <2>21. CASE BeaconSent
    BY <2>21 DEF BeaconSent
  <2>22. CASE EdlPacket
    BY <2>22 DEF EdlPacket
  <2>23. CASE Tick
    <3>1. StatusOK'
      BY <2>23, OlderAge, Bounds DEF Tick, StatusOK
    <3>2. FramOK'
      BY <2>23, OlderAge, Bounds, FramFields DEF Tick, FramOK
    <3>3. LoopOK'
      BY <2>23, OlderUpTo, Bounds DEF Tick, LoopOK
    <3>4. ThreadsOK'
      BY <2>23 DEF Tick, ThreadsOK
    <3>. QED BY <3>1, <3>2, <3>3, <3>4
  <2>24. CASE ToggleUpdate
    BY <2>24 DEF ToggleUpdate
  <2>25. CASE StoreFault
    BY <2>25 DEF StoreFault
  <2>26. CASE Crash
    BY <2>26 DEF Crash, PowerOff, DeployCap, UptimeCap
  <2>27. CASE WatchdogBite
    BY <2>27 DEF WatchdogBite, PowerOff, DeployCap, UptimeCap
  <2>28. ASSUME NEW w \in Writers, EnableTx(w)
        PROVE  RestOK'
    BY <2>28 DEF EnableTx
  <2>29. ASSUME NEW w \in Writers, StampTx(w)
        PROVE  RestOK'
    BY <2>29 DEF StampTx
  <2>30. ASSUME NEW w \in Writers, DisableTx(w)
        PROVE  RestOK'
    BY <2>30 DEF DisableTx
  <2>31. ASSUME NEW w \in Writers, ClearTx(w)
        PROVE  RestOK'
    BY <2>31 DEF ClearTx
  <2>32. ASSUME NEW d \in ClockSteps, SetClock(d)
        PROVE  RestOK'
    <3>1. StatusOK'
      <4>1. /\ lastTx' \in Moved(lastTx, TxCap, d)
            /\ lastEdl' \in Moved(lastEdl, EdlCap, d)
            /\ epoch' \in Moved(epoch, EpochCap, d)
        BY <2>32, MovedClock
      <4>2. lastTx' \in Ages /\ lastEdl' \in Ages /\ epoch' \in Ages
        BY <4>1, MovedAges, Bounds, Constants DEF StatusOK
      <4>. QED BY <2>32, <4>2 DEF StatusOK, SetClock
    <3>2. FramOK'
      <4>1. PICK a \in Moved(fram.lastTx, TxCap, d),
                 b \in Moved(fram.lastEdl, EdlCap, d) :
                    fram' = [fram EXCEPT !.lastTx = a, !.lastEdl = b]
        BY <2>32, MovedClock
      <4>2. a \in Ages /\ b \in Ages
        BY FramFields, MovedAges, Bounds, Constants
      <4>. QED BY <2>32, <4>1, <4>2 DEF FramOK, SetClock
    <3>3. LoopOK'
      BY <2>32 DEF SetClock, LoopOK
    <3>4. ThreadsOK'
      BY <2>32 DEF SetClock, ThreadsOK
    <3>. QED BY <3>1, <3>2, <3>3, <3>4
  <2>33. ASSUME NEW s \in OperatorStates, OperatorWrite(s)
        PROVE  RestOK'
    BY <2>33 DEF OperatorWrite
  <2>34. ASSUME NEW kind \in Upsets \ {"crash", "fault"}, StopRequest(kind)
        PROVE  RestOK'
    BY <2>34 DEF StopRequest
  <2>35. CASE UNCHANGED vars
    BY <2>35 DEF vars
  <2>36. CASE Clear
    <3>1. FramOK'
      BY <2>36 DEF Clear, BlankFram
    <3>. QED BY <2>36, <3>1 DEF Clear
  <2>37. CASE Rekey
    <3>1. FramOK'
      <4>1. 0 \in Ages /\ 1 \in 1..Len(FramOrder)
        BY DEF Ages
      <4>2. fram' = [fram EXCEPT !.lastTx = 0, !.lastEdl = 0] /\ idx' = 1
        BY <2>37, Zenon DEF Rekey, PowerOff
      <4>. HIDE DEF Ages, Statuses
      <4>. QED BY <4>1, <4>2, FramFields DEF FramOK
    <3>2. StatusOK'
      BY <2>37 DEF Rekey, PowerOff
    <3>3. LoopOK'
      <4>1. pc' = "off" /\ loops' = 0 /\ attempts' = 0 /\ sinceDeploy' = 0 /\ uptime' = 0
        BY <2>37, Zenon DEF Rekey, PowerOff
      <4>. QED BY <4>1, Bounds
    <3>4. ThreadsOK'
      BY <2>37 DEF Rekey, PowerOff
    <3>. QED BY <3>1, <3>2, <3>3, <3>4
  <2>38. CASE ClearFault
    BY <2>38 DEF ClearFault, PowerOff, DeployCap, UptimeCap
  <2>39. ASSUME NEW k \in Keys, SetKey(k)
        PROVE  RestOK'
    BY <2>39 DEF SetKey
  <2>40. CASE BootFault
    <3>1. StatusOK'
      <4>1. /\ c3' = fram.status \/ c3' = "ZERO"
            /\ lastTx' = fram.lastTx \/ lastTx' = epoch
            /\ lastEdl' = fram.lastEdl \/ lastEdl' = epoch
            /\ next' = next /\ epoch' = epoch
        BY <2>40, Zenon DEF BootFault, loopVars
      <4>. QED BY <4>1, FramFields
    <3>2. FramOK'
      BY <2>40, Zenon DEF BootFault, FramOK
    <3>3. LoopOK'
      <4>1. pc' = "failed" /\ UNCHANGED <<loops, antVars, uptime>>
        BY <2>40, Zenon DEF BootFault, sysVars
      <4>. QED BY <4>1
    <3>4. ThreadsOK'
      <4>1. /\ upsets < MaxUpsets /\ upsets' = upsets + 1
            /\ UNCHANGED <<stopping, writer, beaconer, late>>
        BY <2>40, Zenon DEF BootFault, sysVars
      <4>. QED BY <4>1
    <3>. QED BY <3>1, <3>2, <3>3, <3>4
  <2>. QED
    BY <2>1, <2>2, <2>3, <2>4, <2>5, <2>6, <2>7, <2>8, <2>9, <2>10, <2>11,
       <2>12, <2>13, <2>14, <2>15, <2>16, <2>17, <2>18, <2>19, <2>20, <2>21,
       <2>22, <2>23, <2>24, <2>25, <2>26, <2>27, <2>28, <2>29, <2>30, <2>31,
       <2>32, <2>33, <2>34, <2>35, <2>36, <2>37, <2>38, <2>39, <2>40
    DEF Next, StateThread
<1>5. Init => KeysOK
  BY Zenon DEF Init, KeysOK
<1>6. TypeOK /\ [Next]_vars => KeysOK'
  <2>. SUFFICES ASSUME KeysOK, [Next]_vars PROVE KeysOK'
    OBVIOUS
  <2>. USE DEF KeysOK
  <2>1. CASE ~KeyStep
    BY <2>1, KeySteps, Zenon
  <2>2. CASE Boot
    BY <2>2, Zenon DEF Boot
  <2>3. CASE StoreObject
    BY <2>3, Zenon DEF StoreObject, SavedKey, FramSaysDone
  <2>8. CASE BootFault
    BY <2>8, Zenon DEF BootFault
  <2>4. CASE Halt \/ ClearFault \/ Crash \/ WatchdogBite
    BY <2>4, Zenon DEF Halt, ClearFault, Crash, WatchdogBite, PowerOff
  <2>5. CASE Clear
    BY <2>5, Zenon DEF Clear
  <2>6. CASE Rekey
    BY <2>6, Zenon DEF Rekey, PowerOff, KeptKeys
  <2>7. CASE \E k \in Keys : SetKey(k)
    BY <2>7, Zenon DEF SetKey
  <2>. QED BY <2>1, <2>2, <2>3, <2>4, <2>5, <2>6, <2>7, <2>8, Zenon DEF KeyStep
<1>. QED BY <1>1, <1>2, <1>3, <1>4, <1>5, <1>6, PTL DEF Spec
-----------------------------------------------------------------------------
(* What a loop of the state thread may rely on, and what a crash leaves. *)

\* The steps of the state thread after which the process is down.
PowerLoss == Halt \/ Rekey \/ ClearFault \/ Crash \/ WatchdogBite

\* None of them touches the record in the F-RAM.
LEMMA FramLost ==
    ASSUME PowerLoss, FramOK
    PROVE  fram'.status = fram.status /\ fram'.deployed = fram.deployed
<1>1. CASE Rekey
  <2>1. fram' = [fram EXCEPT !.lastTx = 0, !.lastEdl = 0]
    BY <1>1, Zenon DEF Rekey
  <2>2. DOMAIN fram = {"status", "deployed", "txEnable", "lastTx", "lastEdl"}
    BY DEF FramOK
  <2>. QED BY <2>1, <2>2
<1>. QED BY <1>1, Zenon DEF PowerLoss, Halt, ClearFault, Crash, WatchdogBite

\* A timestamp that is past its timeout stays so while time passes.
LEMMA TimeoutsLast ==
    ASSUME TypeOK, Tick
    PROVE  (TxTimedOut => TxTimedOut') /\ (ResetTimedOut => ResetTimedOut')
<1>1. lastTx \in Ages /\ uptime \in 0..UptimeCap
  BY Zenon DEF TypeOK, StatusOK, LoopOK
<1>2. TxTimedOut => TxTimedOut'
  BY <1>1, Constants DEF Tick, Ages, Older, TxCap, TxTimedOut
<1>3. uptime' = uptime \/ uptime' = uptime + 1
  BY Zenon DEF Tick, Older
<1>. QED BY <1>1, <1>2, <1>3, Constants DEF ResetTimedOut, UptimeCap

\* What a step does, when no operator writes the status object, outside the
\* state thread: it leaves the state and the record in the F-RAM alone, and
\* what the loop has relied on since it began, or ends the thread or the
\* process.
LEMMA OtherThreads ==
    ASSUME OperatorStates = {}, TypeOK, [Next]_vars
    PROVE  \/ StateThread \/ BootFault \/ StoreFault \/ PowerLoss
           \/ /\ UNCHANGED <<c3, pc, next, deployed>> /\ UNCHANGED <<unread, recorded>>
              /\ fram.status' = fram.status /\ fram.deployed' = fram.deployed
              /\ linked' => linked /\ (EdlActive => EdlActive')
              /\ stale' => /\ stale /\ (TxTimedOut => TxTimedOut')
                           /\ ResetTimedOut => ResetTimedOut'
<1>. DEFINE Aside == /\ UNCHANGED <<c3, pc, next, deployed>> /\ UNCHANGED <<unread, recorded>>
                     /\ fram.status' = fram.status
                     /\ fram.deployed' = fram.deployed
            Linked == linked' => linked /\ (EdlActive => EdlActive')
            Stale == stale' => /\ stale /\ (TxTimedOut => TxTimedOut')
                               /\ ResetTimedOut => ResetTimedOut'
<1>. USE DEF odVars, loopVars, history, sysVars, keyVars
<1>1. ASSUME NEW w \in Writers, EnableTx(w) \/ StampTx(w) \/ DisableTx(w) \/ ClearTx(w)
      PROVE  Aside /\ Linked /\ Stale
  <2>1. CASE StampTx(w)
    BY <2>1 DEF StampTx, EdlActive
  <2>2. CASE ClearTx(w)
    <3>1. Aside /\ Linked /\ UNCHANGED uptime
      BY <2>2 DEF ClearTx, EdlActive
    <3>2. stale' => stale /\ TxTimedOut'
      BY <2>2, Zenon DEF ClearTx
    <3>. QED BY <3>1, <3>2 DEF ResetTimedOut
  <2>. QED BY <1>1, <2>1, <2>2 DEF EnableTx, DisableTx, EdlActive, TxTimedOut, ResetTimedOut
<1>2. ASSUME BeaconArm \/ BeaconSend \/ BeaconSent PROVE Aside /\ Linked /\ Stale
  BY <1>2 DEF BeaconArm, BeaconSend, BeaconSent, EdlActive, TxTimedOut, ResetTimedOut
<1>3. ASSUME EdlPacket \/ ToggleUpdate PROVE Aside /\ Linked /\ Stale
  <2>1. Aside
    BY <1>3 DEF EdlPacket, ToggleUpdate
  <2>2. CASE EdlPacket
    <3>1. Linked
      BY <2>2, Zenon DEF EdlPacket
    <3>2. Stale
      BY <2>2 DEF EdlPacket, TxTimedOut, ResetTimedOut
    <3>. QED BY <2>1, <3>1, <3>2
  <2>3. CASE ToggleUpdate
    BY <2>1, <2>3 DEF ToggleUpdate, EdlActive, TxTimedOut, ResetTimedOut
  <2>. QED BY <1>3, <2>2, <2>3
<1>4. ASSUME NEW d \in ClockSteps, SetClock(d) PROVE Aside /\ Linked /\ Stale
  <2>1. PICK a, b : fram' = [fram EXCEPT !.lastTx = a, !.lastEdl = b]
    BY <1>4, MovedClock
  <2>2. Aside
    BY <1>4, <2>1 DEF SetClock
  <2>3. Linked /\ Stale
    BY <1>4, Zenon DEF SetClock, ResetTimedOut
  <2>. QED BY <2>2, <2>3
<1>5. ASSUME Tick PROVE Aside /\ Linked /\ Stale
  <2>1. Aside
    BY <1>5 DEF Tick
  <2>2. Linked /\ Stale
    BY <1>5, TimeoutsLast, Zenon DEF Tick
  <2>. QED BY <2>1, <2>2
<1>6. ASSUME NEW kind \in Upsets \ {"crash", "fault"}, StopRequest(kind)
      PROVE  Aside /\ Linked /\ Stale
  BY <1>6 DEF StopRequest, EdlActive, TxTimedOut, ResetTimedOut
<1>8. ASSUME NEW k \in Keys, SetKey(k) PROVE  Aside /\ Linked /\ Stale
  BY <1>8 DEF SetKey, EdlActive, TxTimedOut, ResetTimedOut
<1>7. ASSUME UNCHANGED vars PROVE Aside /\ Linked /\ Stale
  BY <1>7 DEF vars, EdlActive, TxTimedOut, ResetTimedOut
<1>. QED BY <1>1, <1>2, <1>3, <1>4, <1>5, <1>6, <1>7, <1>8, Zenon DEF Next, StateThread,
   PowerLoss

\* What on_start makes of a saved status, and what a write to the F-RAM
\* leaves of the two objects that record the end of deployment.
LEMMA RestoredStatus ==
    ASSUME NEW s \in Statuses
    PROVE  /\ s \notin {"INVALID", "OFFLINE"} => Restored(s) \in Handled
           /\ s \in PostDeploy => Restored(s) \in PostDeploy
           /\ s \notin PostDeploy => Restored(s) \notin PostDeploy
           /\ Restored(s) # "EDL"
BY DEF Restored, Statuses, C3States, Handled, PostDeploy

LEMMA SavedFields ==
    ASSUME NEW o
    PROVE  /\ Saved(o).status = c3 \/ Saved(o).status = fram.status
           /\ Saved(o).deployed = deployed \/ Saved(o).deployed = fram.deployed
BY DEF Saved

\* What a failed restore leaves.
LEMMA FailedRestore ==
    ASSUME BootFault
    PROVE  /\ pc = "off" /\ pc' = "failed" /\ unread' = TRUE
           /\ c3' = fram.status \/ c3' = "ZERO"
           /\ deployed' => fram.deployed
           /\ silenced' = (silenced /\ ~txEnable')
           /\ UNCHANGED <<fram, next, framKey, keyed, recorded, beaconer, late,
                         stale, linked>>
BY Zenon DEF BootFault

\* The place in the loop says what the state is.
THEOREM Flow ==
    ASSUME OperatorStates = {}
    PROVE  Spec => []FlowInv
<1>. USE DEF odVars, loopVars, keyVars, Powered, PostDeploy, Handled, C3States, UnreadInv
<1>1. Init => FlowInv
  BY DEF Init, FlowInv, BlankFram
<1>2. TypeOK /\ FlowInv /\ [Next]_vars => FlowInv'
  <2>. SUFFICES ASSUME TypeOK, FlowInv, [Next]_vars PROVE FlowInv'
    OBVIOUS
  <2>. c3 \in Statuses /\ fram.status \in Statuses
    BY FramFields, Zenon DEF TypeOK, StatusOK
  <2>. USE DEF FlowInv, Statuses
  <2>1. CASE Boot
    BY <2>1, RestoredStatus DEF Boot
  <2>2. CASE Top
    BY <2>2 DEF Top
  <2>3. CASE Expire
    BY <2>3 DEF Expire
  <2>4. CASE Gate
    BY <2>4 DEF Gate
  <2>5. CASE PreDeploy
    BY <2>5 DEF PreDeploy
  <2>6. CASE Stamp
    BY <2>6 DEF Stamp
  <2>7. CASE Deploy
    BY <2>7 DEF Deploy
  <2>8. CASE Fired
    BY <2>8 DEF Fired
  <2>9. CASE Settle
    BY <2>9 DEF Settle
  <2>10. CASE Session
    BY <2>10 DEF Session
  <2>11. CASE TxRead
    BY <2>11 DEF TxRead, AfterTx
  <2>12. CASE Commit
    BY <2>12 DEF Commit
  <2>13. CASE Invalid
    BY <2>13 DEF Invalid
  <2>14. CASE Reset
    BY <2>14 DEF Reset
  <2>15. CASE Wrap
    BY <2>15 DEF Wrap
  <2>16. CASE StoreObject
    BY <2>16, SavedFields DEF StoreObject
  <2>17. CASE Stop
    BY <2>17 DEF Stop
  <2>18. CASE StoreFault
    BY <2>18 DEF StoreFault
  <2>19. CASE PowerLoss
    <3>1. pc' = "off" /\ c3' = "ZERO"
      BY <2>19, Zenon DEF PowerLoss, PowerOff, Halt, Rekey, ClearFault, Crash, WatchdogBite
    <3>2. fram'.status = fram.status
      BY <2>19, FramLost DEF TypeOK
    <3>3. unread' = FALSE
      BY <2>19, Zenon DEF PowerLoss, PowerOff, Halt, Rekey, ClearFault, Crash, WatchdogBite
    <3>. QED BY <3>1, <3>2, <3>3
  <2>20. CASE /\ UNCHANGED <<c3, pc, next, deployed>> /\ UNCHANGED <<unread, recorded>>
              /\ fram.status' = fram.status /\ fram.deployed' = fram.deployed
    BY <2>20
  <2>21. CASE Clear
    BY <2>21 DEF Clear, BlankFram
  <2>22. CASE BootFault
    BY <2>22, FailedRestore
  <2>. QED
    BY OtherThreads, <2>1, <2>2, <2>3, <2>4, <2>5, <2>6, <2>7, <2>8, <2>9,
       <2>10, <2>11, <2>12, <2>13, <2>14, <2>15, <2>16, <2>17, <2>18, <2>19,
       <2>20, <2>21, <2>22 DEF StateThread, PowerLoss
<1>. QED BY <1>1, <1>2, Typing, PTL DEF Spec

\* The F-RAM never runs ahead of the object dictionary, and falls behind it on
\* the end of deployment only while the state is still operational.
THEOREM Record ==
    ASSUME OperatorStates = {}
    PROVE  Spec => []RecordInv
<1>. USE DEF odVars, loopVars, keyVars, Powered, Running, PostDeploy, UnreadInv,
         FramSaysDone
<1>1. Init => RecordInv
  BY DEF Init, RecordInv, BlankFram
<1>2. TypeOK /\ FlowInv /\ RecordInv /\ [Next]_vars => RecordInv'
  <2>. SUFFICES ASSUME TypeOK, FlowInv, RecordInv, [Next]_vars PROVE RecordInv'
    OBVIOUS
  <2>. c3 \in Statuses /\ fram.status \in Statuses
    BY FramFields, Zenon DEF TypeOK, StatusOK
  <2>. USE DEF FlowInv, RecordInv
  <2>1. CASE Boot
    BY <2>1, RestoredStatus, Zenon DEF Boot
  <2>2. CASE Top
    BY <2>2 DEF Top
  <2>3. CASE Expire
    BY <2>3 DEF Expire
  <2>4. CASE Gate
    BY <2>4 DEF Gate
  <2>5. CASE PreDeploy
    BY <2>5 DEF PreDeploy
  <2>6. CASE Stamp
    BY <2>6 DEF Stamp
  <2>7. CASE Deploy
    BY <2>7 DEF Deploy, AntennasDone
  <2>8. CASE Fired
    BY <2>8 DEF Fired
  <2>9. CASE Settle
    BY <2>9 DEF Settle
  <2>10. CASE Session
    BY <2>10 DEF Session
  <2>11. CASE TxRead
    BY <2>11 DEF TxRead, AfterTx
  <2>12. CASE Commit
    BY <2>12 DEF Commit
  <2>13. CASE Invalid
    BY <2>13 DEF Invalid
  <2>14. CASE Reset
    BY <2>14 DEF Reset
  <2>15. CASE Wrap
    BY <2>15 DEF Wrap
  <2>16. CASE StoreObject
    BY <2>16, SavedFields DEF StoreObject
  <2>17. CASE Stop
    BY <2>17 DEF Stop
  <2>18. CASE StoreFault
    BY <2>18 DEF StoreFault
  <2>19. CASE PowerLoss
    <3>1. pc' = "off" /\ recorded' = recorded
      BY <2>19, Zenon DEF PowerLoss, PowerOff, Halt, Rekey, ClearFault, Crash, WatchdogBite
    <3>2. fram'.status = fram.status /\ fram'.deployed = fram.deployed
      BY <2>19, FramLost DEF TypeOK
    <3>. QED BY <3>1, <3>2
  <2>20. CASE /\ UNCHANGED <<c3, pc, next, deployed>> /\ UNCHANGED <<unread, recorded>>
              /\ fram.status' = fram.status /\ fram.deployed' = fram.deployed
    BY <2>20
  <2>21. CASE Clear
    BY <2>21 DEF Clear, BlankFram
  <2>22. CASE BootFault
    BY <2>22, FailedRestore
  <2>. QED
    BY OtherThreads, <2>1, <2>2, <2>3, <2>4, <2>5, <2>6, <2>7, <2>8, <2>9,
       <2>10, <2>11, <2>12, <2>13, <2>14, <2>15, <2>16, <2>17, <2>18, <2>19,
       <2>20, <2>21, <2>22 DEF StateThread, PowerLoss
<1>. QED BY <1>1, <1>2, Typing, Flow, PTL DEF Spec

\* A loop during the whole of which EDL was active is on its way to EDL.
THEOREM InSession ==
    ASSUME OperatorStates = {}
    PROVE  Spec => []SessionInv
<1>. USE DEF odVars, loopVars, history, Powered, PostDeploy
<1>1. Init => SessionInv
  BY Zenon DEF Init, SessionInv
<1>2. TypeOK /\ FlowInv /\ SessionInv /\ [Next]_vars => SessionInv'
  <2>. SUFFICES ASSUME TypeOK, FlowInv, SessionInv, [Next]_vars PROVE SessionInv'
    OBVIOUS
  <2>. c3 \in Statuses
    BY Zenon DEF TypeOK, StatusOK
  <2>. USE DEF FlowInv, SessionInv
  <2>1. CASE Boot
    BY <2>1 DEF Boot, TowardsEdl, EdlActive
  <2>2. CASE Top
    BY <2>2 DEF Top, TowardsEdl, EdlActive
  <2>3. CASE Expire
    BY <2>3 DEF Expire, TowardsEdl, EdlActive
  <2>4. CASE Gate
    BY <2>4 DEF Gate, TowardsEdl, EdlActive
  <2>5. CASE PreDeploy
    BY <2>5 DEF PreDeploy, TowardsEdl, EdlActive
  <2>6. CASE Stamp
    BY <2>6 DEF Stamp, TowardsEdl, EdlActive
  <2>7. CASE Deploy
    BY <2>7 DEF Deploy, TowardsEdl, EdlActive
  <2>8. CASE Fired
    BY <2>8 DEF Fired, TowardsEdl, EdlActive
  <2>9. CASE Settle
    BY <2>9 DEF Settle, TowardsEdl, EdlActive
  <2>10. CASE Session
    BY <2>10 DEF Session, TowardsEdl, EdlActive, Branch
  <2>11. CASE TxRead
    BY <2>11 DEF TxRead, AfterTx, TowardsEdl, EdlActive
  <2>12. CASE Commit
    BY <2>12 DEF Commit, TowardsEdl, EdlActive
  <2>13. CASE Invalid
    BY <2>13 DEF Invalid, TowardsEdl, EdlActive, Handled, C3States
  <2>14. CASE Reset
    BY <2>14 DEF Reset, TowardsEdl, EdlActive
  <2>15. CASE Wrap
    BY <2>15 DEF Wrap, TowardsEdl, EdlActive
  <2>16. CASE StoreObject
    BY <2>16 DEF StoreObject, TowardsEdl, EdlActive
  <2>17. CASE Stop
    BY <2>17 DEF Stop, TowardsEdl, EdlActive
  <2>18. CASE StoreFault
    BY <2>18 DEF StoreFault, TowardsEdl, EdlActive
  <2>19. CASE PowerLoss
    BY <2>19 DEF PowerLoss, PowerOff, Halt, Rekey, ClearFault, Crash, WatchdogBite,
       TowardsEdl, EdlActive
  <2>20. CASE /\ UNCHANGED <<c3, pc, next>>
              /\ linked' => linked /\ (EdlActive => EdlActive')
              /\ stale' => /\ stale /\ (TxTimedOut => TxTimedOut')
                           /\ ResetTimedOut => ResetTimedOut'
    <3>1. CASE linked'
      <4>1. linked /\ EdlActive'
        BY <2>20, <3>1, Zenon
      <4>2. TowardsEdl'
        BY <2>20, <4>1 DEF TowardsEdl, PostDeploy
      <4>. QED BY <4>1, <4>2, Zenon
    <3>2. CASE ~linked'
      BY <3>2, Zenon
    <3>. QED BY <3>1, <3>2
  <2>21. CASE Clear
    BY <2>21 DEF Clear, TowardsEdl, EdlActive
  <2>22. CASE BootFault
    BY <2>22, FailedRestore DEF TowardsEdl
  <2>. QED
    BY OtherThreads, <2>1, <2>2, <2>3, <2>4, <2>5, <2>6, <2>7, <2>8, <2>9,
       <2>10, <2>11, <2>12, <2>13, <2>14, <2>15, <2>16, <2>17, <2>18, <2>19,
       <2>20, <2>21, <2>22 DEF StateThread, PowerLoss
<1>. QED BY <1>1, <1>2, Typing, Flow, PTL DEF Spec

\* SessionEntersEdl: an active EDL session at the start of a loop ends in EDL
\* (state.py:178), for any timeouts and any number of writers, as long as no operator
\* writes the status object.
THEOREM SessionSafety ==
    ASSUME OperatorStates = {}
    PROVE  Spec => []SessionEntersEdl
<1>1. SessionInv => SessionEntersEdl
  BY DEF SessionInv, TowardsEdl, SessionEntersEdl
<1>. QED BY <1>1, InSession, PTL

\* NoResetInSession: the loop of an active session does not go to the reset of the
\* system (state.py:180), under the same assumption.
THEOREM SessionHoldsOffReset ==
    ASSUME OperatorStates = {}
    PROVE  Spec => []NoResetInSession
<1>1. SessionInv => NoResetInSession
  BY DEF SessionInv, TowardsEdl, NoResetInSession
<1>. QED BY <1>1, InSession, PTL

\* A loop during the whole of which tx was timed out is on its way out of
\* BEACON, or to the reset of the system.
THEOREM TxTimesOut ==
    ASSUME OperatorStates = {}
    PROVE  Spec => []StaleInv
<1>. USE DEF odVars, loopVars, sysVars, history, Powered, PostDeploy
<1>1. Init => StaleInv
  BY Zenon DEF Init, StaleInv
<1>2. TypeOK /\ FlowInv /\ StaleInv /\ [Next]_vars => StaleInv'
  <2>. SUFFICES ASSUME TypeOK, FlowInv, StaleInv, [Next]_vars PROVE StaleInv'
    OBVIOUS
  <2>. c3 \in Statuses
    BY Zenon DEF TypeOK, StatusOK
  <2>. USE DEF FlowInv, StaleInv
  <2>1. CASE Boot
    BY <2>1 DEF Boot, OutOfBeacon, TxTimedOut, ResetTimedOut
  <2>2. CASE Top
    BY <2>2 DEF Top, OutOfBeacon, TxTimedOut, ResetTimedOut
  <2>3. CASE Expire
    BY <2>3 DEF Expire, OutOfBeacon, TxTimedOut, ResetTimedOut
  <2>4. CASE Gate
    BY <2>4 DEF Gate, OutOfBeacon, TxTimedOut, ResetTimedOut
  <2>5. CASE PreDeploy
    BY <2>5 DEF PreDeploy, OutOfBeacon, TxTimedOut, ResetTimedOut
  <2>6. CASE Stamp
    BY <2>6 DEF Stamp, OutOfBeacon, TxTimedOut, ResetTimedOut
  <2>7. CASE Deploy
    BY <2>7 DEF Deploy, OutOfBeacon, TxTimedOut, ResetTimedOut
  <2>8. CASE Fired
    BY <2>8 DEF Fired, OutOfBeacon, TxTimedOut, ResetTimedOut
  <2>9. CASE Settle
    BY <2>9 DEF Settle, OutOfBeacon, TxTimedOut, ResetTimedOut
  <2>10. CASE Session
    BY <2>10 DEF Session, OutOfBeacon, TxTimedOut, ResetTimedOut, Branch
  <2>11. CASE TxRead
    BY <2>11 DEF TxRead, AfterTx, OutOfBeacon, TxTimedOut, ResetTimedOut
  <2>12. CASE Commit
    BY <2>12 DEF Commit, OutOfBeacon, TxTimedOut, ResetTimedOut
  <2>13. CASE Invalid
    BY <2>13 DEF Invalid, OutOfBeacon, TxTimedOut, ResetTimedOut
  <2>14. CASE Reset
    BY <2>14 DEF Reset, OutOfBeacon, TxTimedOut, ResetTimedOut
  <2>15. CASE Wrap
    BY <2>15 DEF Wrap, OutOfBeacon, TxTimedOut, ResetTimedOut
  <2>16. CASE StoreObject
    BY <2>16 DEF StoreObject, OutOfBeacon, TxTimedOut, ResetTimedOut
  <2>17. CASE Stop
    BY <2>17 DEF Stop, OutOfBeacon, TxTimedOut, ResetTimedOut
  <2>18. CASE StoreFault
    BY <2>18 DEF StoreFault, OutOfBeacon, TxTimedOut, ResetTimedOut
  <2>19. CASE PowerLoss
    BY <2>19 DEF PowerLoss, PowerOff, Halt, Rekey, ClearFault, Crash, WatchdogBite,
       OutOfBeacon, TxTimedOut, ResetTimedOut
  <2>20. CASE /\ UNCHANGED <<c3, pc, next>>
              /\ linked' => linked /\ (EdlActive => EdlActive')
              /\ stale' => /\ stale /\ (TxTimedOut => TxTimedOut')
                           /\ ResetTimedOut => ResetTimedOut'
    <3>1. CASE stale'
      <4>1. stale /\ TxTimedOut' /\ (ResetTimedOut => ResetTimedOut')
        BY <2>20, <3>1, Zenon
      <4>2. OutOfBeacon'
        BY <2>20, <4>1 DEF OutOfBeacon
      <4>. QED BY <4>1, <4>2, Zenon
    <3>2. CASE ~stale'
      BY <3>2, Zenon
    <3>. QED BY <3>1, <3>2
  <2>21. CASE Clear
    BY <2>21 DEF Clear, OutOfBeacon, TxTimedOut, ResetTimedOut
  <2>22. CASE BootFault
    BY <2>22, FailedRestore DEF OutOfBeacon
  <2>. QED
    BY OtherThreads, <2>1, <2>2, <2>3, <2>4, <2>5, <2>6, <2>7, <2>8, <2>9,
       <2>10, <2>11, <2>12, <2>13, <2>14, <2>15, <2>16, <2>17, <2>18, <2>19,
       <2>20, <2>21, <2>22 DEF StateThread, PowerLoss
<1>. QED BY <1>1, <1>2, Typing, Flow, PTL DEF Spec

\* NoBeaconWhenStale, for any timeouts and any number of writers.
THEOREM StaleSafety ==
    ASSUME OperatorStates = {}
    PROVE  Spec => []NoBeaconWhenStale
<1>1. StaleInv => NoBeaconWhenStale
  BY DEF StaleInv, OutOfBeacon, NoBeaconWhenStale
<1>. QED BY <1>1, TxTimesOut, PTL

\* At most one beacon begins after tx is silenced: with any number of writers
\* of tx_control, clock steps, operator writes, crashes and restarts.
THEOREM LateBeacons == Spec => []AtMostOneLateBeacon
<1>. DEFINE Quiet == UNCHANGED <<txEnable, silenced, late, beaconer>>
<1>. USE DEF odVars, history
<1>1. Init => LateInv
  BY Zenon DEF Init, LateInv
<1>2. LateInv /\ [Next]_vars => LateInv'
  <2>. SUFFICES ASSUME LateInv, [Next]_vars PROVE LateInv'
    OBVIOUS
  <2>. USE DEF LateInv
  <2>1. ASSUME Quiet PROVE LateInv'
    BY <2>1
  <2>2. CASE Boot
    BY <2>2, Zenon DEF Boot
  <2>3. CASE Expire
    BY <2>3, Zenon DEF Expire
  <2>4. CASE PreDeploy
    BY <2>4, Zenon DEF PreDeploy
  <2>5. CASE PowerLoss
    BY <2>5, Zenon DEF PowerLoss, PowerOff, Halt, Rekey, ClearFault, Crash, WatchdogBite
  <2>6. CASE \E w \in Writers : EnableTx(w)
    BY <2>6, Zenon DEF EnableTx
  <2>7. CASE \E w \in Writers : DisableTx(w)
    <3>1. txEnable' = FALSE /\ UNCHANGED <<silenced, late, beaconer>>
      BY <2>7, Zenon DEF DisableTx
    <3>. QED BY <3>1
  <2>8. CASE \E w \in Writers : ClearTx(w)
    <3>1. /\ silenced' = (silenced \/ ~txEnable) /\ late' = IF silenced THEN late ELSE 0
          /\ UNCHANGED <<txEnable, beaconer>>
      BY <2>8, Zenon DEF ClearTx
    <3>2. CASE silenced
      <4>1. late' = late /\ UNCHANGED <<txEnable, beaconer>>
        BY <3>1, <3>2, Zenon
      <4>. QED BY <3>2, <4>1
    <3>3. CASE ~silenced
      BY <3>1, <3>3, Zenon
    <3>. QED BY <3>2, <3>3
  <2>9. CASE BeaconArm
    BY <2>9 DEF BeaconArm, TxAllowsBeacon
  <2>10. CASE BeaconSend
    BY <2>10 DEF BeaconSend
  <2>11. CASE BeaconSent
    BY <2>11 DEF BeaconSent
  <2>12. ASSUME Top \/ Gate \/ Stamp \/ Deploy \/ Fired \/ Settle \/ Session \/ TxRead
         PROVE  Quiet
    BY <2>12 DEF Top, Gate, Stamp, Deploy, Fired, Settle, Session, TxRead
  <2>13. ASSUME Commit \/ Invalid \/ Reset \/ Wrap \/ StoreObject \/ Stop \/ StoreFault
         PROVE  Quiet
    BY <2>13 DEF Commit, Invalid, Reset, Wrap, StoreObject, Stop, StoreFault
  <2>14. ASSUME \/ \E w \in Writers : StampTx(w)
                \/ \E d \in ClockSteps : SetClock(d)
                \/ \E s \in OperatorStates : OperatorWrite(s)
                \/ \E kind \in Upsets \ {"crash", "fault"} : StopRequest(kind)
         PROVE  Quiet
    BY <2>14, Zenon DEF StampTx, SetClock, OperatorWrite, StopRequest
  <2>16. ASSUME Clear \/ \E k \in Keys : SetKey(k) PROVE Quiet
    BY <2>16, Zenon DEF Clear, SetKey
  <2>17. CASE BootFault
    BY <2>17, FailedRestore, Zenon
  <2>15. ASSUME EdlPacket \/ Tick \/ ToggleUpdate \/ UNCHANGED vars PROVE Quiet
    BY <2>15 DEF EdlPacket, Tick, ToggleUpdate, vars
  <2>. QED
    BY <2>1, <2>2, <2>3, <2>4, <2>5, <2>6, <2>7, <2>8, <2>9, <2>10, <2>11, <2>12,
       <2>13, <2>14, <2>15, <2>16, <2>17, Zenon DEF Next, StateThread, PowerLoss
<1>3. LateInv => AtMostOneLateBeacon
  BY DEF LateInv, AtMostOneLateBeacon
<1>. QED BY <1>1, <1>2, <1>3, PTL DEF Spec

\* KeyKept, for any keys, saves, factory resets, crashes and failed restores: a
\* key in the F-RAM is lost only as KeyKept says.
THEOREM KeysSurvive == Spec => []KeyKept
<1>. USE DEF KeyInv, Powered
<1>1. Init => KeyInv
  BY Zenon DEF Init
<1>2. TypeOK /\ KeyInv /\ [Next]_vars => KeyInv'
  <2>. SUFFICES ASSUME TypeOK, KeyInv, [Next]_vars PROVE KeyInv'
    OBVIOUS
  <2>1. CASE ~KeyStep
    <3>1. UNCHANGED keyVars /\ (Powered' => Powered) /\ (pc = "rekey" <=> pc' = "rekey")
      BY <2>1, KeySteps
    <3>2. key' = key /\ framKey' = framKey /\ keyed' = keyed /\ unread' = unread
      BY <3>1 DEF keyVars
    <3>. QED BY <3>1, <3>2, Zenon
  <2>2. CASE Boot
    BY <2>2 DEF Boot
  <2>3. CASE StoreObject
    <3>1. /\ keyed' = ((keyed /\ ~unread) \/ framKey' # NoKey)
          /\ key' = key /\ unread' = unread
          /\ framKey' = key \/ framKey' = framKey
          /\ pc \notin {"off", "rekey"} /\ pc' # "rekey"
      BY <2>3 DEF StoreObject, SavedKey, odVars
    <3>. QED BY <3>1, Zenon
  <2>4. CASE Halt \/ ClearFault \/ Crash \/ WatchdogBite
    <3>1. framKey' = framKey /\ pc' = "off"
      BY <2>4, Zenon DEF Halt, ClearFault, Crash, WatchdogBite, PowerOff
    <3>2. (keyed' = keyed /\ pc = "halt") \/ keyed' = (keyed /\ pc # "rekey")
      BY <2>4, Zenon DEF Halt, ClearFault, Crash, WatchdogBite
    <3>3. CASE pc = "rekey"
      BY <3>1, <3>2, <3>3
    <3>4. CASE pc # "rekey"
      <4>1. CASE keyed' = keyed
        BY <3>1, <3>4, <4>1, Zenon
      <4>2. CASE keyed' = (keyed /\ pc # "rekey")
        BY <3>1, <3>4, <4>2, Zenon
      <4>. QED BY <3>2, <4>1, <4>2, Zenon
    <3>. QED BY <3>3, <3>4
  <2>5. CASE Clear
    BY <2>5 DEF Clear
  <2>6. CASE Rekey
    BY <2>6 DEF Rekey, PowerOff, KeptKeys
  <2>7. ASSUME NEW k \in Keys, SetKey(k) PROVE KeyInv'
    BY <2>7, KeysAssumption, Zenon DEF SetKey, KeysAssumption, loopVars
  <2>8. CASE BootFault
    BY <2>8, FailedRestore
  <2>. QED BY <2>1, <2>2, <2>3, <2>4, <2>5, <2>6, <2>7, <2>8, Zenon DEF KeyStep
<1>3. KeyInv => KeyKept
  BY DEF KeyKept
<1>. QED BY <1>1, <1>2, <1>3, Typing, PTL DEF Spec

\* NoRefire, for any number of attempts, saves, crashes, restarts and failed
\* restores (state.py:299), at any object, and any order of the saved objects.
THEOREM NeverRefired ==
    ASSUME OperatorStates = {}
    PROVE  Spec => []NoRefire
<1>1. FlowInv /\ RecordInv => NoRefire
  BY DEF FlowInv, UnreadInv, RecordInv, NoRefire, FramSaysDone, Powered, Running,
     PostDeploy
<1>. QED BY <1>1, Flow, Record, PTL

\* The state machine with its threads, torn saves, crashes and failed restores
\* carries out the mission, when no operator writes the status object.
THEOREM Implementation ==
    ASSUME OperatorStates = {}
    PROVE  Spec => ImplementsMission
<1>. USE DEF odVars, loopVars, keyVars, Powered, Running, FramSaysDone, UnreadInv
<1>1. Init => Mission!Init
  BY DEF Init, Mission!Init, BlankFram, PostDeploy
<1>2. TypeOK /\ FlowInv /\ RecordInv /\ [Next]_vars => [Mission!Next]_(Mission!vars)
  <2>. SUFFICES ASSUME TypeOK, FlowInv, RecordInv, [Next]_vars
                PROVE  Mission!Next \/ UNCHANGED Mission!vars
    OBVIOUS
  <2>. c3 \in Statuses /\ fram.status \in Statuses
    BY FramFields, Zenon DEF TypeOK, StatusOK
  <2>. USE DEF FlowInv, RecordInv, Mission!Next, Mission!vars
  <2>1. CASE Boot
    BY <2>1, RestoredStatus DEF Boot, Mission!Wake, Mission!Operational,
       PostDeploy, Handled, C3States
  <2>2. CASE Top
    BY <2>2 DEF Top
  <2>3. CASE Expire
    BY <2>3 DEF Expire
  <2>4. CASE Gate
    BY <2>4 DEF Gate
  <2>5. CASE PreDeploy
    BY <2>5 DEF PreDeploy
  <2>6. CASE Stamp
    BY <2>6 DEF Stamp
  <2>7. CASE Deploy
    <3>1. CASE pc' = "firing"
      BY <2>7, <3>1 DEF Deploy, AntennasDone, Mission!Fire, PostDeploy
    <3>2. CASE pc' # "firing"
      BY <2>7, <3>2 DEF Deploy
    <3>. QED BY <3>1, <3>2
  <2>8. CASE Fired
    BY <2>8 DEF Fired, Mission!EndFire
  <2>9. CASE Settle
    BY <2>9 DEF Settle, Mission!EndDeploy
  <2>10. CASE Session
    BY <2>10 DEF Session
  <2>11. CASE TxRead
    BY <2>11 DEF TxRead, AfterTx
  <2>12. CASE Commit
    BY <2>12 DEF Commit, Mission!EndWait, Mission!Operate, Mission!Operational,
       PostDeploy
  <2>13. CASE Invalid
    BY <2>13 DEF Invalid
  <2>14. CASE Reset
    BY <2>14 DEF Reset
  <2>15. CASE Wrap
    BY <2>15 DEF Wrap
  <2>16. CASE StoreObject
    <3>1. /\ UNCHANGED <<c3, deployed, unread>> /\ pc' \in {"top", "stopStore", "halt", "store"}
          /\ pc \in {"store", "stopStore"}
      BY <2>16 DEF StoreObject
    <3>2. /\ fram'.status = c3 \/ fram'.status = fram.status
          /\ fram'.deployed = deployed \/ fram'.deployed = fram.deployed
      BY <2>16, SavedFields DEF StoreObject
    <3>3. CASE ~unread
      BY <3>1, <3>2, <3>3 DEF Mission!Record, Mission!Operational, PostDeploy
    <3>4. CASE unread
      BY <3>1, <3>2, <3>4 DEF Mission!Forget, PostDeploy
    <3>. QED BY <3>3, <3>4
  <2>17. CASE Stop
    BY <2>17 DEF Stop
  <2>18. CASE StoreFault
    BY <2>18 DEF StoreFault
  <2>19. CASE PowerLoss
    <3>1. pc' = "off"
      BY <2>19, Zenon DEF PowerLoss, PowerOff, Halt, Rekey, ClearFault, Crash, WatchdogBite
    <3>2. fram'.status = fram.status /\ fram'.deployed = fram.deployed
      BY <2>19, FramLost DEF TypeOK
    <3>. QED BY <3>1, <3>2 DEF Mission!Sleep, PostDeploy
  <2>20. CASE /\ UNCHANGED <<c3, pc, next, deployed>> /\ UNCHANGED <<unread, recorded>>
              /\ fram.status' = fram.status /\ fram.deployed' = fram.deployed
    BY <2>20
  <2>21. CASE Clear
    BY <2>21 DEF Clear, BlankFram, Mission!Forget, PostDeploy
  <2>22. CASE BootFault
    BY <2>22, FailedRestore
  <2>. QED
    BY OtherThreads, <2>1, <2>2, <2>3, <2>4, <2>5, <2>6, <2>7, <2>8, <2>9,
       <2>10, <2>11, <2>12, <2>13, <2>14, <2>15, <2>16, <2>17, <2>18, <2>19,
       <2>20, <2>21, <2>22 DEF StateThread, PowerLoss
<1>. QED BY <1>1, <1>2, Typing, Flow, Record, PTL DEF Spec, ImplementsMission, Mission!Spec
=============================================================================
