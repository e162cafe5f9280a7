-------------------------- MODULE NodeManagerProofs --------------------------
(***************************************************************************)
(* Proofs about NodeManager, for any cards, timeouts, commands and upsets. *)
(***************************************************************************)
EXTENDS NodeManager, TLAPS

\* What the assumptions say of the constants.
LEMMA Constants ==
    /\ Len(NodeOrder) \in Nat \ {0} /\ DOMAIN NodeOrder = 1..Len(NodeOrder)
    /\ \A i \in 1..Len(NodeOrder) : NodeOrder[i] \in Nodes
    /\ \A i, j \in 1..Len(NodeOrder) : NodeOrder[i] = NodeOrder[j] => i = j
    /\ OnOpd \subseteq Nodes /\ CanOpen \subseteq Nodes
    /\ NoNode \notin Nodes /\ Child \in [Nodes -> OnOpd \cup {NoNode}]
    /\ BootTimeout \in [Nodes -> Nat \ {0}] /\ HbTimeout \in Nat
    /\ MaxResets \in Nat \ {0} /\ ProbeEvery \in Nat \ {0} /\ MaxUpsets \in Nat
    /\ FlightMode \in BOOLEAN
<1>1. /\ Len(NodeOrder) \in Nat \ {0} /\ DOMAIN NodeOrder = 1..Len(NodeOrder)
      /\ \A i \in 1..Len(NodeOrder) : NodeOrder[i] \in Nodes
      /\ \A i, j \in 1..Len(NodeOrder) : NodeOrder[i] = NodeOrder[j] => i = j
  BY OrderAssumption DEF OrderAssumption, Nodes
<1> QED
  BY <1>1, CardsAssumption, ChildAssumption, TimeAssumption, BoundsAssumption
     DEF CardsAssumption, ChildAssumption, TimeAssumption, BoundsAssumption

\* The OPD's operations leave a card a card.
LEMMA CardOps ==
    ASSUME NEW c \in Cards
    PROVE  /\ StatusRead(c) \in Cards /\ Unpowered(c) \in Cards
           /\ \A p : PoweredOff(c, p) \in Cards
           /\ BrownedOut(c) \in Cards
           /\ \A reset \in BOOLEAN : Probed(c, reset) \in Cards
           /\ \A p : \A b \in BOOLEAN : PoweredOn(c, p, b) \in Cards
           /\ \A d \in PulseOutcomes(c) : d \in Cards
<1> USE DEF Cards, OpdNodeStates
<1>1. Unpowered(c) \in Cards
  BY DEF Unpowered
<1>2. StatusRead(c) \in Cards
  BY DEF StatusRead
<1>3. ASSUME NEW p PROVE PoweredOff(c, p) \in Cards
  <2>1. [Unpowered(c) EXCEPT !.ready = c.ready \/ Rewrites(p)] \in Cards
    BY <1>1 DEF Rewrites
  <2> QED  BY <2>1 DEF PoweredOff
<1>7. BrownedOut(c) \in Cards
  BY DEF BrownedOut
<1>4. \A reset \in BOOLEAN : Probed(c, reset) \in Cards
  BY <1>1 DEF Probed
<1>5. ASSUME NEW p, NEW b \in BOOLEAN PROVE PoweredOn(c, p, b) \in Cards
  <2>1. [c EXCEPT !.boot = b, !.ready = @ \/ Rewrites(p)] \in Cards
    BY DEF Rewrites
  <2> QED  BY <2>1 DEF PoweredOn
<1>6. ASSUME NEW d \in PulseOutcomes(c) PROVE d \in Cards
  <2>1. CASE c.present
    <3>1. PICK t \in {FALSE, c.tripped}, h \in {FALSE, c.hung} :
            d = [c EXCEPT !.tripped = t, !.hung = h,
                          !.st = IF t THEN "FAULT" ELSE "ENABLED"]
      BY <2>1, SMT DEF PulseOutcomes
    <3> QED  BY <3>1
  <2>2. CASE ~c.present
    BY <2>2 DEF PulseOutcomes
  <2> QED  BY <2>1, <2>2
<1> QED  BY <1>1, <1>2, <1>3, <1>4, <1>5, <1>6, <1>7

\* The survey's tests of the clocks give states.
LEMMA Answers ==
    ASSUME NEW n \in Nodes
    PROVE  CheckCoNodesState(n) \in NodeStates /\ BusNodeState(n) \in NodeStates
  BY DEF CheckCoNodesState, BusNodeState, NodeStates

\* The card the loop is at is one.
LEMMA CurrentIsNode == ASSUME LoopOK PROVE Current \in Nodes
  BY Constants DEF LoopOK, Current

\* The end of a loop's turn at a card.
LEMMA Advances ==
    ASSUME LoopOK, Advance
    PROVE  /\ pc' \in {"act", "idle"} /\ cur' \in DOMAIN NodeOrder
           /\ pc' = "act" => cur < Len(NodeOrder) /\ cur' = cur + 1
  BY Constants DEF LoopOK, Advance

-----------------------------------------------------------------------------
\* No other thread moves the manager's loop, counts a reset, or gives a card any
\* status but UPDATING and NOT_FOUND.
LEMMA OtherThreads ==
    ASSUME NodesOK, Others
    PROVE  /\ UNCHANGED <<resets, loopVars, shielded>>
           /\ status' \in [Nodes -> NodeStates] /\ updating' \in [Nodes -> BOOLEAN]
           /\ stamping' \subseteq Nodes
           /\ \A n \in Nodes : status'[n] \in {status[n], "UPDATING", "NOT_FOUND"}
<1> DEFINE Good == /\ UNCHANGED <<resets, loopVars, shielded>>
                   /\ status' \in [Nodes -> NodeStates]
                   /\ updating' \in [Nodes -> BOOLEAN] /\ stamping' \subseteq Nodes
                   /\ \A n \in Nodes :
                        status'[n] \in {status[n], "UPDATING", "NOT_FOUND"}
<1> USE DEF nodeVars, loopVars, NodesOK, NodeStates
<1>1. ASSUME NEW n \in Nodes,
             \/ \E b \in BOOLEAN : CommandEnable(n, b)
             \/ CommandDisable(n) \/ EdlProbe(n) \/ EdlPower(n) \/ EdlCut(n)
             \/ EdlReset(n) \/ Beat(n) \/ CardFails(n) \/ CardReturns(n)
      PROVE  Good
  BY <1>1 DEF CommandEnable, CommandDisable, EdlProbe, EdlPower, EdlCut,
              EdlReset, EdlCard, Beat, CardFails, CardReturns
<1>2. ASSUME NEW n \in Nodes, FlashStart(n) \/ FlashEnd(n) \/ Stamp(n) PROVE Good
  BY <1>2 DEF FlashStart, FlashEnd, Stamp
<1>3. CASE CommandOpdOff \/ CommandOpdOn \/ EdlSysEnable \/ EdlScan
           \/ BusChange \/ Tick
  BY <1>3 DEF CommandOpdOff, CommandOpdOn, EdlSysEnable, EdlScan, BusChange, Tick
<1> QED  BY <1>1, <1>2, <1>3 DEF Others

-----------------------------------------------------------------------------
\* What the reads of a card's MAX7310 leave alone, and what they make of its card.
LEMMA ReadsLeave ==
    ASSUME Reads
    PROVE  /\ UNCHANGED <<opd, busUp, nodeVars, cur, silent, loops, ages, upsets>>
           /\ pc \in Surveying \ {"survey"}
           /\ \/ card' = [card EXCEPT ![Current] = Answer]
              \/ card' = [card EXCEPT ![Current].st = IF card[Current].present
                                                     THEN @ ELSE "FAULT"]
  BY DEF Reads, AskFault, AskMissing, AskOff, AskOn, AskBoot, Ask, Surveying

-----------------------------------------------------------------------------
\* Type correctness, one part of TypeOK at a time.

LEMMA LoopTypes ==
    ASSUME TypeOK, Next
    PROVE  LoopOK'
<1> USE DEF TypeOK
<1>1. CASE Wake
  BY <1>1, Constants DEF Wake, LoopOK, Steps, Surveying
<1>2. CASE Survey
  <2>1. found' \in NodeStates /\ pc' \in {"assign", "fault"}
    BY <1>2, Answers, CurrentIsNode DEF Survey, Decide, NodeStates, LoopOK
  <2>2. silent' \in BOOLEAN
    BY <1>2 DEF Survey, Silent
  <2> QED  BY <1>2, <2>1, <2>2 DEF Survey, LoopOK, Steps, Surveying
<1>9. CASE Reads
  <2>1. /\ found' \in NodeStates /\ pc' \in {"assign", "missing", "off", "on", "boot"}
        /\ shielded' \subseteq shielded
    <3>1. CASE AskFault \/ AskMissing \/ AskOff
      BY <3>1 DEF AskFault, AskMissing, AskOff, Ask, Decide, NodeStates, LoopOK
    <3>2. CASE AskOn
      BY <3>2, Answers, CurrentIsNode
         DEF AskOn, CheckHeartbeat, Decide, NodeStates, LoopOK, NodesOK
    <3>3. CASE AskBoot
      BY <3>3, Answers, CurrentIsNode
         DEF AskBoot, CheckHeartbeat, Decide, NodeStates, LoopOK
    <3> QED  BY <1>9, <3>1, <3>2, <3>3 DEF Reads
  <2>2. UNCHANGED <<cur, silent, loops>>
    BY <1>9, ReadsLeave
  <2> QED  BY <2>1, <2>2 DEF LoopOK, Steps, Surveying
<1>3. CASE Assign
  <2>1. pc' \in {"survey", "tally"} /\ cur' \in DOMAIN NodeOrder
    BY <1>3, Constants DEF Assign, LoopOK
  <2> QED  BY <1>3, <2>1 DEF Assign, LoopOK, Steps, Surveying
<1>4. CASE Tally
  BY <1>4, Constants DEF Tally, LoopOK, Steps
<1>5. ASSUME Advance, UNCHANGED <<silent, found, loops, shielded>> PROVE LoopOK'
  BY <1>5, Advances DEF LoopOK, Steps
<1>6. CASE ActNothing \/ ActNotFound \/ ActOff \/ ActOn \/ ActDead \/ ResetDone
  BY <1>5, <1>6 DEF ActNothing, ActNotFound, ActOff, ActOn, ActDead, ResetDone,
                    ResetEnds
<1>7. CASE ActError
  <2>1. CASE ResetEnds(Current)
    BY <1>5, <2>1 DEF ResetEnds
  <2>2. CASE ~ResetEnds(Current)
    BY <1>7, <2>2 DEF ActError, LoopOK, Steps
  <2> QED  BY <2>1, <2>2
<1>8. CASE Others
  BY <1>8, OtherThreads DEF LoopOK, loopVars
<1> QED  BY <1>1, <1>2, <1>3, <1>4, <1>6, <1>7, <1>8, <1>9 DEF Next, Manager

LEMMA AgesTypes ==
    ASSUME TypeOK, Next
    PROVE  AgesOK'
<1> USE DEF TypeOK
<1>0. \A n \in Nodes : 0 <= BootTimeout[n]
  BY Constants
<1>1. ASSUME TimePasses PROVE AgesOK'
  <2>1. /\ bootAge' \in [Nodes -> Nat]
        /\ \A n \in Nodes : bootAge'[n] <= BootTimeout[n]
    BY <1>1, Constants DEF AgesOK, TimePasses, Older
  <2>2. /\ rest' \in [Nodes -> Nat]
        /\ \A n \in Nodes : rest'[n] <= BootTimeout[n]
    BY <1>1, Constants DEF AgesOK, TimePasses, Older
  <2>3. \A n \in Nodes : Older(hbAge[n], HbTimeout + 1) \in 0..HbTimeout + 1
    BY Constants DEF AgesOK, Older
  <2> QED  BY <1>1, <2>1, <2>2, <2>3 DEF TimePasses, AgesOK
<1>2. Rested \in [Nodes -> Nat] /\ \A n \in Nodes : Rested[n] <= BootTimeout[n]
  BY Constants DEF AgesOK, Rested
<1>3. ASSUME NEW n \in Nodes, bootAge' \in {bootAge, [bootAge EXCEPT ![n] = 0]},
             rest' \in {rest, Rested, [rest EXCEPT ![n] = 0]}, hbAge' = hbAge
      PROVE  AgesOK'
  <2>1. /\ bootAge' \in [Nodes -> Nat]
        /\ \A m \in Nodes : bootAge'[m] <= BootTimeout[m]
    <3>1. CASE bootAge' = bootAge
      BY <3>1 DEF AgesOK
    <3>2. CASE bootAge' = [bootAge EXCEPT ![n] = 0]
      BY <1>0, <3>2 DEF AgesOK
    <3> QED  BY <1>3, <3>1, <3>2
  <2>2. /\ rest' \in [Nodes -> Nat]
        /\ \A m \in Nodes : rest'[m] <= BootTimeout[m]
    <3>1. CASE rest' \in {rest, Rested}
      BY <1>2, <3>1 DEF AgesOK
    <3>2. CASE rest' = [rest EXCEPT ![n] = 0]
      BY <1>0, <3>2 DEF AgesOK
    <3> QED  BY <1>3, <3>1, <3>2
  <2> QED  BY <1>3, <2>1, <2>2 DEF AgesOK
<1>4. ASSUME UNCHANGED ages PROVE AgesOK'
  BY <1>4 DEF ages, AgesOK
<1>5. CASE Manager
  <2>1. CASE Wake
    BY <2>1, <1>1 DEF Wake
  <2>2. CASE Survey \/ Assign \/ Tally \/ ActNothing \/ ActNotFound \/ ActOn \/ ActDead
    BY <2>2, <1>4 DEF Survey, Assign, Tally, ActNothing, ActNotFound, ActOn, ActDead
  <2>6. CASE Reads
    BY <2>6, <1>4, ReadsLeave
  <2>3. CASE ActOff
    BY <2>3, <1>3, CurrentIsNode DEF ActOff, Enable
  <2>4. ASSUME ResetEnds(Current) PROVE AgesOK'
    BY <2>4, <1>3, CurrentIsNode DEF ResetEnds
  <2>5. CASE ActError \/ ResetDone
    BY <2>4, <2>5, <1>4 DEF ActError, ResetDone
  <2> QED  BY <1>5, <2>1, <2>2, <2>3, <2>5, <2>6 DEF Manager
<1>6. CASE Others
  <2>1. ASSUME NEW n \in Nodes, \E b \in BOOLEAN : CommandEnable(n, b) PROVE AgesOK'
    BY <2>1, <1>3 DEF CommandEnable, Enable
  <2>2. ASSUME NEW n \in Nodes, EdlProbe(n) \/ EdlPower(n) \/ EdlCut(n) \/ EdlReset(n)
        PROVE  AgesOK'
    BY <2>2, <1>3 DEF EdlProbe, EdlPower, EdlCut, EdlReset, EdlCard
  <2>3. ASSUME NEW n \in Nodes, FlashEnd(n) \/ Stamp(n) PROVE AgesOK'
    BY <2>3, <1>3 DEF FlashEnd, Stamp
  <2>4. ASSUME NEW n \in Nodes, Beat(n) PROVE AgesOK'
    BY <2>4, Constants DEF Beat, AgesOK
  <2>5. ASSUME NEW n \in Nodes,
               CommandDisable(n) \/ FlashStart(n) \/ CardFails(n) \/ CardReturns(n)
        PROVE  AgesOK'
    BY <2>5, <1>4 DEF CommandDisable, FlashStart, CardFails, CardReturns
  <2>6. CASE CommandOpdOff \/ EdlSysEnable \/ EdlScan \/ BusChange
    BY <2>6, <1>4 DEF CommandOpdOff, EdlSysEnable, EdlScan, BusChange
  <2>7. CASE CommandOpdOn
    BY <2>7, Constants DEF CommandOpdOn, AgesOK
  <2>8. CASE Tick
    BY <2>8, <1>1 DEF Tick
  <2> QED  BY <1>6, <2>1, <2>2, <2>3, <2>4, <2>5, <2>6, <2>7, <2>8 DEF Others
<1> QED  BY <1>5, <1>6 DEF Next

LEMMA HardwareTypes ==
    ASSUME TypeOK, Next
    PROVE  HardwareOK'
<1> USE DEF TypeOK
<1>1. ASSUME UNCHANGED <<opd, card, busUp, upsets>> PROVE HardwareOK'
  BY <1>1 DEF HardwareOK
<1>2. ASSUME card' \in [Nodes -> Cards], opd' \in OpdStates,
             UNCHANGED <<busUp, upsets>>
      PROVE  HardwareOK'
  BY <1>2 DEF HardwareOK
<1>3. \A n \in Nodes : card[n] \in Cards
  BY DEF HardwareOK
<1>4. ASSUME NEW n \in Nodes, NEW c \in Cards, card' = [card EXCEPT ![n] = c]
      PROVE  card' \in [Nodes -> Cards]
  BY <1>4 DEF HardwareOK
<1>9. \A n \in Nodes, b \in BOOLEAN : Given(n, b) \in Cards
  <2>1. ASSUME NEW n \in Nodes, NEW b \in BOOLEAN PROVE Given(n, b) \in Cards
    <3> DEFINE a == b /\ Stm32(n)
    <3>1. card[n] \in Cards /\ a \in BOOLEAN
      BY <1>3 DEF Stm32
    <3>2. Given(n, b) = PoweredOn(card[n], Processor[n], a)
      BY DEF Given
    <3> HIDE DEF a
    <3> QED  BY <3>1, <3>2, CardOps
  <2> QED  BY <2>1
<1>10. \A n \in Nodes : Cut(n) \in Cards
  BY <1>3, CardOps DEF Cut
<1>5. ASSUME NEW n \in Nodes, NEW b \in BOOLEAN, Enable(n, b)
      PROVE  card' \in [Nodes -> Cards]
  <2>1. \A m \in Nodes, a \in BOOLEAN : Given(m, a) \in Cards
    BY <1>3, <1>9
  <2> QED  BY <1>3, <1>5, <2>1 DEF Enable
<1>6. opd' = opd => opd' \in OpdStates
  BY DEF HardwareOK
<1>7. CASE Manager
  <2>1. Current \in Nodes /\ card[Current] \in Cards
    BY <1>3, CurrentIsNode
  <2>2. CASE Wake \/ Survey \/ Assign \/ Tally \/ ActNothing \/ ActOn
    BY <1>1, <2>2 DEF Wake, Survey, Assign, Tally, ActNothing, ActOn, ages
  <2>3. CASE Reads
    <3>1. Answer \in Cards
      BY <2>1, CardOps DEF Answer
    <3>2. [card[Current] EXCEPT !.st = IF card[Current].present
                                      THEN @ ELSE "FAULT"] \in Cards
      BY <2>1 DEF Cards, OpdNodeStates
    <3>3. card' \in [Nodes -> Cards]
      BY <1>4, <2>1, <2>3, <3>1, <3>2, ReadsLeave
    <3> QED  BY <1>2, <1>6, <2>3, <3>3, ReadsLeave
  <2>4. CASE ActNotFound
    BY <1>2, <1>4, <1>6, <2>1, <2>4, CardOps DEF ActNotFound, HardwareOK
  <2>5. CASE ActOff
    BY <1>2, <1>5, <1>6, <2>1, <2>5 DEF ActOff, HardwareOK
  <2>6. CASE ActDead
    <3>1. [card[Current] EXCEPT !.st = IF @ = "NOT_FOUND" THEN @ ELSE "FAULT"] \in Cards
      BY <2>1 DEF Cards, OpdNodeStates
    <3> QED  BY <1>2, <1>4, <1>6, <1>10, <2>1, <2>6, <3>1 DEF ActDead
  <2>7. ASSUME ResetEnds(Current) PROVE HardwareOK'
    BY <1>2, <1>4, <1>6, <2>1, <2>7, CardOps DEF ResetEnds
  <2>8. CASE ActError \/ ResetDone
    BY <1>1, <2>7, <2>8 DEF ActError, ResetDone
  <2> QED  BY <1>7, <2>2, <2>3, <2>4, <2>5, <2>6, <2>8 DEF Manager
<1>8. CASE Others
  <2>1. ASSUME NEW n \in Nodes, \E b \in BOOLEAN : CommandEnable(n, b)
        PROVE  HardwareOK'
    BY <1>2, <1>5, <1>6, <2>1 DEF CommandEnable
  <2>2. ASSUME NEW n \in Nodes, CommandDisable(n) PROVE HardwareOK'
    <3>1. card' \in [Nodes -> Cards]
      BY <1>3, <1>10, <2>2 DEF CommandDisable
    <3> QED  BY <1>2, <1>6, <2>2, <3>1 DEF CommandDisable
  <2>3. ASSUME NEW n \in Nodes, EdlProbe(n) \/ EdlPower(n) \/ EdlCut(n) \/ EdlReset(n)
        PROVE  HardwareOK'
    <3>1. PICK c, k : EdlCard(n, c, k) /\ c \in Cards
      BY <1>3, <1>9, <1>10, <2>3, CardOps DEF EdlProbe, EdlPower, EdlCut, EdlReset
    <3> QED  BY <1>2, <1>4, <1>6, <3>1 DEF EdlCard
  <2>4. ASSUME NEW n \in Nodes, FlashStart(n) \/ FlashEnd(n) \/ Stamp(n) \/ Beat(n)
        PROVE  HardwareOK'
    BY <1>1, <2>4 DEF FlashStart, FlashEnd, Stamp, Beat
  <2>5. ASSUME NEW n \in Nodes, CardFails(n) \/ CardReturns(n) PROVE HardwareOK'
    <3>1. /\ [card[n] EXCEPT !.tripped = TRUE] \in Cards
          /\ [card[n] EXCEPT !.hung = TRUE] \in Cards
          /\ [card[n] EXCEPT !.present = FALSE] \in Cards
          /\ [card[n] EXCEPT !.present = TRUE] \in Cards
          /\ BrownedOut(card[n]) \in Cards
      <4>1. card[n] \in Cards /\ BrownedOut(card[n]) \in Cards
        BY <1>3, CardOps
      <4> HIDE DEF BrownedOut
      <4> QED  BY <4>1 DEF Cards
    <3>2. ASSUME NEW c, c \in Cards, card' = [card EXCEPT ![n] = c]
          PROVE  card' \in [Nodes -> Cards]
      BY <1>4, <3>2
    <3>4. card' \in [Nodes -> Cards]
      <4>1. CASE card' = [card EXCEPT ![n].tripped = TRUE]
        BY <3>1, <3>2, <4>1
      <4>2. CASE card' = [card EXCEPT ![n].hung = TRUE]
        BY <3>1, <3>2, <4>2
      <4>3. CASE card' = [card EXCEPT ![n].present = FALSE]
        BY <3>1, <3>2, <4>3
      <4>4. CASE card' = [card EXCEPT ![n].present = TRUE]
        BY <3>1, <3>2, <4>4
      <4>5. CASE card' = [card EXCEPT ![n] = BrownedOut(@)]
        BY <3>1, <3>2, <4>5
      <4> QED  BY <2>5, <4>1, <4>2, <4>3, <4>4, <4>5, Zenon DEF CardFails, CardReturns
    <3>3. upsets' \in 0..MaxUpsets /\ opd' = opd /\ busUp' = busUp
      BY <2>5, Constants DEF CardFails, CardReturns, Upset, HardwareOK
    <3> QED  BY <3>3, <3>4 DEF HardwareOK
  <2>6. CASE CommandOpdOff \/ CommandOpdOn \/ EdlSysEnable \/ EdlScan
    <3>1. OpdEnabled \in [Nodes -> Cards] /\ OpdDisabled \in [Nodes -> Cards]
      BY <1>3, CardOps DEF OpdEnabled, OpdDisabled
    <3>2. \A n \in Nodes : Probed(card[n], FALSE) \in Cards
      BY <1>3, CardOps
    <3> QED
      BY <1>2, <1>3, <1>6, <2>6, <3>1, <3>2
         DEF CommandOpdOff, CommandOpdOn, EdlSysEnable, EdlScan, OpdStates
  <2>7. CASE BusChange
    BY <2>7, Constants DEF BusChange, Upset, HardwareOK
  <2>8. CASE Tick
    BY <1>1, <2>8 DEF Tick
  <2> QED  BY <1>8, <2>1, <2>2, <2>3, <2>4, <2>5, <2>6, <2>7, <2>8 DEF Others
<1> QED  BY <1>7, <1>8 DEF Next

\* The count of resets stays within MaxResets because a card that has had them all
\* is found DEAD before anything else: none is in ERROR when the loop acts on it.
LEMMA NodesTypes ==
    ASSUME TypeOK, ErrorInv, Next
    PROVE  NodesOK'
<1> USE DEF TypeOK
<1>1. Current \in Nodes
  BY CurrentIsNode
<1>2. ASSUME UNCHANGED nodeVars PROVE NodesOK'
  BY <1>2 DEF nodeVars, NodesOK
<1>3. CASE Wake \/ Survey \/ Reads \/ Tally \/ ActNothing \/ ActNotFound \/ ActDead
  BY <1>2, <1>3, ReadsLeave DEF Wake, Survey, Tally, ActNothing, ActNotFound, ActDead
<1>4. CASE Assign
  BY <1>4 DEF Assign, NodesOK, LoopOK
<1>5. CASE ActOff \/ ActOn
  <2>1. 0 \in 0..MaxResets
    BY Constants
  <2> QED  BY <1>1, <1>5, <2>1 DEF ActOff, ActOn, NodesOK
<1>6. ASSUME ResetEnds(Current), ~GivenUp(Current) PROVE NodesOK'
  BY <1>1, <1>6, Constants DEF ResetEnds, AfterReset, GivenUp, NodesOK
<1>7. CASE ActError
  <2>1. cur \in Assessed
    BY <1>7, Constants DEF ActError, Assessed, Surveying, LoopOK
  <2>2. ~GivenUp(Current)
    BY <1>7, <2>1 DEF ActError, ErrorInv, Current
  <2> QED  BY <1>2, <1>6, <1>7, <2>2 DEF ActError
<1>8. CASE ResetDone
  BY <1>6, <1>8 DEF ResetDone, ErrorInv
<1>9. CASE Others
  BY <1>9, OtherThreads DEF NodesOK
<1> QED
  BY <1>3, <1>4, <1>5, <1>7, <1>8, <1>9 DEF Next, Manager

-----------------------------------------------------------------------------
\* Which cards are assessed, and which await the survey.
LEMMA Progress ==
    ASSUME LoopOK
    PROVE  /\ pc \in Surveying \cup {"assign"} => Assessed = 1..cur - 1
           /\ pc \in {"tally", "act", "resetting"} => Assessed = cur..Len(NodeOrder)
           /\ pc = "idle" => Assessed = {}
           /\ pc \in Surveying => Awaiting = cur..Len(NodeOrder)
           /\ pc = "assign" => Awaiting = cur + 1..Len(NodeOrder)
           /\ pc \notin Surveying \cup {"assign"} => Awaiting = {}
  BY DEF LoopOK, Assessed, Awaiting, Steps, Surveying

\* A step of the survey of a card moves neither.
LEMMA Surveys ==
    ASSUME LoopOK, Survey \/ Reads
    PROVE  /\ Assessed' = Assessed /\ Current' = Current /\ cur \in Awaiting
           /\ Awaiting' \subseteq Awaiting
           /\ pc' \in (Surveying \ {"survey"}) \cup {"assign"}
<1>1. pc' \in {"fault", "missing", "off", "on", "boot", "assign"} /\ pc \in Surveying
      /\ cur' = cur /\ cur \in 1..Len(NodeOrder)
  BY Constants DEF Survey, Reads, AskFault, AskMissing, AskOff, AskOn, AskBoot, Ask,
                   CheckHeartbeat, Decide, Surveying, LoopOK
<1>2. /\ Assessed = 1..cur - 1 /\ Assessed' = 1..cur - 1
      /\ Awaiting = cur..Len(NodeOrder)
      /\ Awaiting' \in {cur..Len(NodeOrder), cur + 1..Len(NodeOrder)}
  BY <1>1 DEF Assessed, Awaiting, Surveying
<1> QED  BY <1>1, <1>2, Constants DEF Current, Surveying

\* They are the same as long as the loop does not move.
LEMMA SamePlace ==
    ASSUME UNCHANGED <<pc, cur>>
    PROVE  Assessed' = Assessed /\ Awaiting' = Awaiting /\ Current' = Current
  BY DEF Assessed, Surveying, Awaiting, Current

\* When the loop is done with a card, the cards still assessed are other ones.
LEMMA Leaves ==
    ASSUME TypeOK, Next, pc \in {"act", "resetting"}, Advance
    PROVE  /\ pc' \in {"act", "idle"} /\ Awaiting' = {}
           /\ \A i \in Assessed' : i \in Assessed /\ NodeOrder[i] # Current
                                   /\ NodeOrder[i] \in Nodes
<1>1. LoopOK' /\ LoopOK
  BY LoopTypes DEF TypeOK
<1>2. pc' \in {"act", "idle"} /\ (pc' = "act" => cur < Len(NodeOrder) /\ cur' = cur + 1)
  BY <1>1, Advances
<1>3. Awaiting' = {}
  BY <1>2 DEF Awaiting, Surveying
<1>4. CASE pc' = "idle"
  BY <1>2, <1>3, <1>4 DEF Assessed, Surveying
<1>5. CASE pc' = "act"
  <2>1. Assessed' = cur + 1..Len(NodeOrder) /\ Assessed = cur..Len(NodeOrder)
    BY <1>1, <1>2, <1>5, Progress DEF Assessed, Surveying
  <2> QED  BY <1>1, <1>2, <1>3, <1>5, <2>1, Constants DEF LoopOK, Current
<1> QED  BY <1>2, <1>4, <1>5

\* After the survey of a card and the assignment of what it found.
LEMMA Assigned ==
    ASSUME TypeOK, Assign
    PROVE  /\ pc' \in {"survey", "tally"}
           /\ \A i \in Assessed' : \/ i = cur /\ NodeOrder[i] = Current
                                   \/ i \in Assessed /\ NodeOrder[i] # Current
           /\ \A i \in Awaiting' : i \in Awaiting
           /\ \A n \in Nodes : status'[n] = IF n = Current THEN found ELSE status[n]
<1>0. LoopOK /\ pc = "assign" /\ cur \in 1..Len(NodeOrder) /\ Current \in Nodes
  BY Constants, CurrentIsNode DEF TypeOK, LoopOK, Assign
<1>1. Assessed = 1..cur - 1 /\ Awaiting = cur + 1..Len(NodeOrder)
  BY <1>0, Progress
<1>2. /\ pc' \in {"survey", "tally"} /\ Assessed' = 1..cur
      /\ Awaiting' \in {{}, cur + 1..Len(NodeOrder)}
  <2>1. CASE cur < Len(NodeOrder)
    BY <1>0, <2>1, Constants DEF Assign, Assessed, Awaiting, Surveying
  <2>2. CASE ~(cur < Len(NodeOrder))
    BY <1>0, <2>2, Constants DEF Assign, Assessed, Awaiting, Surveying
  <2> QED  BY <2>1, <2>2
<1>3. \A n \in Nodes : status'[n] = IF n = Current THEN found ELSE status[n]
  BY <1>0 DEF Assign, TypeOK, NodesOK
<1>4. \A i \in 1..cur : \/ i = cur /\ NodeOrder[i] = Current
                        \/ i \in 1..cur - 1 /\ NodeOrder[i] # Current
  BY <1>0, Constants DEF Current
<1> QED  BY <1>1, <1>2, <1>3, <1>4

\* Other threads leave the loop where it is.
LEMMA OthersStay ==
    ASSUME NodesOK, Others
    PROVE  /\ UNCHANGED <<pc, cur, found, resets, shielded>>
           /\ Assessed' = Assessed /\ Awaiting' = Awaiting /\ Current' = Current
  BY OtherThreads, SamePlace DEF loopVars

-----------------------------------------------------------------------------
LEMMA ErrorKept ==
    ASSUME TypeOK, ErrorInv, Next
    PROVE  ErrorInv'
<1> USE DEF TypeOK
<1>0. Current \in Nodes /\ \A i \in Assessed : NodeOrder[i] \in Nodes
  <2>1. \A i \in Assessed : i \in 1..Len(NodeOrder)
    BY Progress, Constants DEF LoopOK, Steps
  <2> QED  BY <2>1, CurrentIsNode, Constants
<1>1. ASSUME pc \in {"act", "resetting"}, Advance, status' = status,
             \A n \in Nodes : n # Current => resets'[n] = resets[n]
      PROVE  ErrorInv'
  <2>1. \A i \in Assessed' : i \in Assessed /\ NodeOrder[i] # Current
                             /\ NodeOrder[i] \in Nodes
    BY <1>1, Leaves
  <2>2. pc' \in {"act", "idle"}
    BY <1>1, Leaves
  <2> QED  BY <1>1, <2>1, <2>2 DEF ErrorInv, GivenUp, Surveying
<1>2. CASE Wake
  <2>1. Assessed' = {} /\ pc' = "survey"
    BY <1>2 DEF Wake, Assessed, Surveying
  <2> QED  BY <2>1 DEF ErrorInv
<1>3. CASE Survey \/ Reads
  <2>1. /\ Assessed' = Assessed /\ Current' = Current
        /\ pc' \in (Surveying \ {"survey"}) \cup {"assign"}
    BY <1>3, Surveys
  <2>2. UNCHANGED <<status, resets>>
    BY <1>3, ReadsLeave DEF Survey, nodeVars
  <2>3. CASE Survey
    <3>1. pc' = "fault" => ~GivenUp(Current)
      BY <2>3 DEF Survey, Decide
    <3>2. pc' = "assign" /\ found' = "ERROR" => ~GivenUp(Current)
      BY <2>3 DEF Survey, Decide, BusNodeState
    <3>3. pc' \in {"fault", "assign"}
      BY <2>3 DEF Survey, Decide
    <3> QED  BY <2>1, <2>2, <3>1, <3>2, <3>3 DEF ErrorInv, GivenUp, Surveying
  <2>4. CASE Reads
    <3>1. ~GivenUp(Current)
      BY <2>4, ReadsLeave DEF ErrorInv
    <3> QED  BY <2>1, <2>2, <3>1 DEF ErrorInv, GivenUp, Surveying
  <2> QED  BY <1>3, <2>3, <2>4
<1>4. CASE Assign
  BY <1>0, <1>4, Assigned DEF Assign, ErrorInv, GivenUp, Surveying
<1>5. CASE Tally
  <2>1. pc' \in {"idle", "act"} /\ Assessed' \in {{}, Assessed}
    BY <1>5 DEF Tally, Assessed, Surveying
  <2> QED  BY <1>5, <2>1 DEF Tally, ErrorInv, GivenUp, nodeVars, Surveying
<1>6. CASE ActNothing \/ ActNotFound \/ ActDead
  BY <1>1, <1>6 DEF ActNothing, ActNotFound, ActDead, nodeVars
<1>7. CASE ActOff \/ ActOn
  BY <1>1, <1>7 DEF ActOff, ActOn, NodesOK
<1>8. ASSUME ResetEnds(Current), pc \in {"act", "resetting"} PROVE ErrorInv'
  BY <1>1, <1>8 DEF ResetEnds, AfterReset, NodesOK
<1>9. CASE ActError
  <2>1. CASE ResetEnds(Current)
    BY <1>8, <1>9, <2>1 DEF ActError
  <2>2. CASE ~ResetEnds(Current)
    <3>1. Assessed' = Assessed /\ Current' = Current /\ pc' = "resetting"
      BY <1>9, <2>2 DEF ActError, Assessed, Current, Surveying
    <3>2. cur \in Assessed
      BY <1>9, Constants DEF ActError, Assessed, Surveying, LoopOK
    <3>3. ~GivenUp(Current)
      BY <1>9, <3>2 DEF ActError, ErrorInv, Current
    <3> QED  BY <1>9, <2>2, <3>1, <3>3 DEF ActError, ErrorInv, GivenUp, nodeVars
  <2> QED  BY <2>1, <2>2
<1>10. CASE ResetDone
  BY <1>8, <1>10 DEF ResetDone
<1>11. CASE Others
  <2>1. /\ UNCHANGED <<pc, cur, found, resets>>
        /\ Assessed' = Assessed /\ Current' = Current
    BY <1>11, OthersStay
  <2>2. \A n \in Nodes : status'[n] = "ERROR" => status[n] = "ERROR"
    BY <1>11, OtherThreads
  <2> QED  BY <1>0, <2>1, <2>2 DEF ErrorInv, GivenUp
<1> QED
  BY <1>2, <1>3, <1>4, <1>5, <1>6, <1>7, <1>9, <1>10, <1>11 DEF Next, Manager

\* TypeOK and ErrorInv are invariants: no card is reset more than MaxResets times
\* in a row.
LEMMA TypesKept ==
    ASSUME TypeOK, ErrorInv, [Next]_vars
    PROVE  TypeOK' /\ ErrorInv'
<1>1. CASE Next
  BY <1>1, LoopTypes, AgesTypes, HardwareTypes, NodesTypes, ErrorKept DEF TypeOK
<1>2. CASE UNCHANGED vars
  BY <1>2 DEF vars, nodeVars, loopVars, ages, TypeOK, HardwareOK, NodesOK, AgesOK,
              LoopOK, ErrorInv, Assessed, GivenUp, Current
<1> QED  BY <1>1, <1>2

LEMMA TypesStart == Init => TypeOK /\ ErrorInv
<1> SUFFICES ASSUME Init PROVE TypeOK /\ ErrorInv
  OBVIOUS
<1> USE Constants
<1>1. HardwareOK
  BY DEF Init, HardwareOK, OpdStates, Cards, OpdNodeStates
<1>2. NodesOK
  BY DEF Init, NodesOK, NodeStates
<1>3. AgesOK
  <2>1. bootAge \in [Nodes -> Nat] /\ \A n \in Nodes : bootAge[n] <= BootTimeout[n]
    <3>1. CASE bootAge = BootTimeout
      BY <3>1
    <3>2. CASE bootAge = [n \in Nodes |-> 0]
      BY <3>2
    <3> QED  BY <3>1, <3>2 DEF Init
  <2>2. rest \in [Nodes -> Nat] /\ \A n \in Nodes : rest[n] <= BootTimeout[n]
    BY DEF Init
  <2>3. hbAge \in [Nodes -> 0..HbTimeout + 1]
    BY DEF Init
  <2> QED  BY <2>1, <2>2, <2>3 DEF AgesOK
<1>4. LoopOK
  <2>1. pc \in Steps /\ found \in NodeStates
    BY DEF Init, Steps, NodeStates
  <2>2. silent \in BOOLEAN
    BY Zenon DEF Init
  <2>3. cur \in DOMAIN NodeOrder /\ loops \in -1..ProbeEvery - 1 /\ shielded \subseteq Nodes
    BY DEF Init
  <2> QED  BY <2>1, <2>2, <2>3 DEF LoopOK
<1>5. ErrorInv
  BY DEF Init, ErrorInv, Assessed, Surveying
<1> QED  BY <1>1, <1>2, <1>3, <1>4, <1>5 DEF TypeOK

THEOREM Typing == Spec => []TypeOK
  BY TypesStart, TypesKept, PTL DEF Spec

-----------------------------------------------------------------------------
\* Of the OPD's operations only enable gives a card power.
LEMMA NoRise ==
    ASSUME NEW c \in Cards
    PROVE  /\ StatusRead(c).pin => c.pin
           /\ \A reset \in BOOLEAN : Probed(c, reset).pin => c.pin
           /\ \A p : /\ PoweredOff(c, p).pin => c.pin
                     /\ PoweredOff(StatusRead(c), p).pin => c.pin
                     /\ StatusRead(PoweredOff(c, p)).pin => c.pin
           /\ StatusRead(Probed(c, FALSE)).pin => c.pin
           /\ BrownedOut(c).pin => c.pin
           /\ \A d \in PulseOutcomes(c) : d.pin => c.pin
           /\ \A d \in PulseOutcomes(c) : StatusRead(d).pin => c.pin
<1> USE DEF Cards
<1>1. \A d \in Cards : StatusRead(d).pin = d.pin
  BY DEF StatusRead
<1>2. ~Unpowered(c).pin /\ ~BrownedOut(c).pin
  BY DEF Unpowered, BrownedOut
<1>3. \A p : PoweredOff(c, p).pin => c.pin
  BY <1>2 DEF PoweredOff, Unpowered
<1>4. \A reset \in BOOLEAN : Probed(c, reset).pin => c.pin
  BY <1>2 DEF Probed
<1>5. \A p : PoweredOff(StatusRead(c), p).pin => c.pin
  BY <1>1 DEF PoweredOff, Unpowered, StatusRead
<1>6. ASSUME NEW d \in PulseOutcomes(c) PROVE d.pin => c.pin
  <2>1. CASE c.present
    <3>1. PICK t \in {FALSE, c.tripped}, h \in {FALSE, c.hung} :
            d = [c EXCEPT !.tripped = t, !.hung = h,
                          !.st = IF t THEN "FAULT" ELSE "ENABLED"]
      BY <2>1, SMT DEF PulseOutcomes
    <3> QED  BY <3>1
  <2>2. CASE ~c.present
    BY <2>2 DEF PulseOutcomes
  <2> QED  BY <2>1, <2>2
<1>7. /\ \A p : PoweredOff(c, p) \in Cards
      /\ Probed(c, FALSE) \in Cards
      /\ \A d \in PulseOutcomes(c) : d \in Cards
  BY CardOps
<1> HIDE DEF Cards
<1> QED  BY <1>1, <1>2, <1>3, <1>4, <1>5, <1>6, <1>7

LEMMA RetiredKept ==
    ASSUME TypeOK, ErrorInv, RetiredInv, Next
    PROVE  RetiredInv'
<1> USE DEF TypeOK, Recovered
<1>0. Current \in Nodes /\ OnOpd \subseteq Nodes /\ MaxResets \in Nat \ {0}
  BY CurrentIsNode, Constants
<1>1. ASSUME pc' \notin {"assign", "resetting"}, status' = status,
             \A n \in OnOpd : \/ resets'[n] = resets[n]
                              \/ resets'[n] = 0
                              \/ status[n] \notin Recovered
      PROVE  RetiredInv'
  BY <1>0, <1>1 DEF RetiredInv, GivenUp
<1>2. CASE Wake
  BY <1>1, <1>2 DEF Wake, nodeVars
<1>3. CASE Survey \/ Reads
  <2>1. /\ Current' = Current /\ pc' # "resetting"
        /\ UNCHANGED <<status, resets>>
    BY <1>3, Surveys, ReadsLeave DEF Survey, nodeVars, Surveying
  <2>2. pc' = "assign" /\ Current \in OnOpd /\ GivenUp(Current)
          => found' \notin Recovered
    <3>1. CASE Survey
      BY <3>1 DEF Survey, Decide
    <3>2. CASE Reads
      BY <3>2, ReadsLeave DEF ErrorInv
    <3> QED  BY <1>3, <3>1, <3>2
  <2> QED  BY <2>1, <2>2 DEF RetiredInv, GivenUp
<1>4. CASE Assign
  BY <1>0, <1>4, Assigned DEF Assign, RetiredInv, GivenUp
<1>5. CASE Tally
  BY <1>1, <1>5 DEF Tally, nodeVars
<1>6. ASSUME pc \in {"act", "resetting"}, Advance PROVE pc' \notin {"assign", "resetting"}
  BY <1>6, Leaves
<1>7. CASE ActNothing \/ ActNotFound \/ ActDead
  BY <1>1, <1>6, <1>7 DEF ActNothing, ActNotFound, ActDead, nodeVars
<1>8. CASE ActOff \/ ActOn
  BY <1>0, <1>1, <1>6, <1>8 DEF ActOff, ActOn, NodesOK
<1>9. ASSUME ResetEnds(Current), pc \in {"act", "resetting"},
             status[Current] \notin Recovered
      PROVE  RetiredInv'
  BY <1>0, <1>1, <1>6, <1>9 DEF ResetEnds, AfterReset, NodesOK
<1>10. CASE ActError
  <2>1. CASE ResetEnds(Current)
    BY <1>9, <1>10, <2>1 DEF ActError
  <2>2. CASE ~ResetEnds(Current)
    BY <1>10, <2>2 DEF ActError, RetiredInv, GivenUp, nodeVars, Current
  <2> QED  BY <2>1, <2>2
<1>11. CASE ResetDone
  BY <1>9, <1>11 DEF ResetDone, RetiredInv
<1>12. CASE Others
  <2>1. UNCHANGED <<pc, cur, found, resets>> /\ Current' = Current
    BY <1>12, OthersStay
  <2>2. \A n \in Nodes : status'[n] \in Recovered => status[n] \in Recovered
    BY <1>12, OtherThreads
  <2> QED  BY <1>0, <2>1, <2>2 DEF RetiredInv, GivenUp
<1> QED
  BY <1>2, <1>3, <1>4, <1>5, <1>7, <1>8, <1>10, <1>11, <1>12 DEF Next, Manager

\* What a step does to a card that has had all its resets and is no one's child.
\* The manager enables only cards whose status is OFF, which RetiredInv excludes.
LEMMA RetiredStep ==
    ASSUME "power" \notin Commands, TypeOK, ErrorInv, RetiredInv, Next,
           NEW n \in OnOpd, n \notin Childs, GivenUp(n)
    PROVE  resets'[n] = resets[n] /\ (card'[n].pin => card[n].pin)
<1> DEFINE Good == resets'[n] = resets[n] /\ (card'[n].pin => card[n].pin)
<1> USE DEF TypeOK, Recovered
<1>0. /\ n \in Nodes /\ Current \in Nodes /\ OnOpd \subseteq Nodes
      /\ \A m \in Nodes : card[m] \in Cards
      /\ card \in [Nodes -> Cards] /\ resets \in [Nodes -> 0..MaxResets]
      /\ status[n] \notin {"ON", "OFF"} /\ \A m \in Nodes : Child[m] # n
  BY CurrentIsNode, Constants DEF HardwareOK, NodesOK, RetiredInv, Childs
<1>1. ASSUME NEW m \in Nodes, NEW d, card' = [card EXCEPT ![m] = d],
             d.pin => card[m].pin
      PROVE  card'[n].pin => card[n].pin
  BY <1>0, <1>1
<1>2. ASSUME NEW m \in Nodes, NEW b \in BOOLEAN, m # n, Enable(m, b)
      PROVE  card'[n] = card[n]
  BY <1>0, <1>2 DEF Enable
<1>3. CASE Wake \/ Survey \/ Assign \/ Tally \/ ActNothing
  BY <1>3 DEF Wake, Survey, Assign, Tally, ActNothing, nodeVars
<1>4. CASE Reads
  <2>1. Answer.pin => card[Current].pin
    BY <1>0, NoRise DEF Answer
  <2>2. [card[Current] EXCEPT !.st = IF card[Current].present
                                     THEN @ ELSE "FAULT"].pin => card[Current].pin
    BY <1>0 DEF Cards
  <2>3. card'[n].pin => card[n].pin
    BY <1>0, <1>1, <1>4, <2>1, <2>2, ReadsLeave
  <2> QED  BY <1>4, <2>3, ReadsLeave DEF nodeVars
<1>5. CASE ActNotFound
  BY <1>0, <1>1, <1>5, NoRise DEF ActNotFound, nodeVars
<1>6. CASE ActOff
  <2>1. Current # n
    BY <1>0, <1>6 DEF ActOff
  <2> QED  BY <1>0, <1>2, <1>6, <2>1 DEF ActOff
<1>7. CASE ActOn
  BY <1>0, <1>7 DEF ActOn
<1>8. CASE ActDead
  <2>1. [card[Current] EXCEPT !.st = IF @ = "NOT_FOUND" THEN @ ELSE "FAULT"].pin
          => card[Current].pin
    BY <1>0 DEF Cards
  <2> QED  BY <1>0, <1>1, <1>8, <2>1, NoRise DEF ActDead, Cut, nodeVars
<1>9. ASSUME ResetEnds(Current), Current # n PROVE Good
  BY <1>0, <1>9 DEF ResetEnds, AfterReset
<1>10. CASE ActError
  <2>1. cur \in Assessed
    BY <1>10, Constants DEF ActError, Assessed, Surveying, LoopOK
  <2>2. Current # n
    BY <1>10, <2>1 DEF ActError, ErrorInv, Current
  <2> QED  BY <1>9, <1>10, <2>2 DEF ActError, nodeVars
<1>11. CASE ResetDone
  BY <1>9, <1>11 DEF ResetDone, ErrorInv
<1>12. CASE Others
  <2>0. resets' = resets
    BY <1>12, OtherThreads
  <2>1. ASSUME NEW m \in Nodes, \E b \in BOOLEAN : CommandEnable(m, b) PROVE Good
    <3>1. m # n
      BY <1>0, <2>1 DEF CommandEnable, CanEnable
    <3> QED  BY <1>2, <2>0, <2>1, <3>1 DEF CommandEnable
  <2>2. ASSUME NEW m \in Nodes, CommandDisable(m) PROVE Good
    BY <1>0, <2>0, <2>2, NoRise DEF CommandDisable, Cut
  <2>3. ASSUME NEW m \in Nodes, EdlProbe(m) \/ EdlCut(m) PROVE Good
    <3>1. PICK c, k : EdlCard(m, c, k) /\ (c.pin => card[m].pin)
      BY <1>0, <2>3, NoRise DEF EdlProbe, EdlCut, Cut
    <3> QED  BY <1>0, <1>1, <2>0, <3>1 DEF EdlCard
  <2>4. ASSUME NEW m \in Nodes, EdlReset(m) PROVE Good
    <3>1. PICK c \in PulseOutcomes(card[m]) : EdlCard(m, StatusRead(c), "reset")
      BY <2>4 DEF EdlReset
    <3>2. StatusRead(c).pin => card[m].pin
      BY <1>0, <3>1, NoRise
    <3> QED  BY <1>1, <2>0, <3>1, <3>2 DEF EdlCard
  <2>5. ASSUME NEW m \in Nodes, EdlPower(m) PROVE Good
    BY <2>5 DEF EdlPower, EdlCard
  <2>6. ASSUME NEW m \in Nodes, FlashStart(m) \/ FlashEnd(m) \/ Stamp(m) \/ Beat(m)
        PROVE  Good
    BY <2>0, <2>6 DEF FlashStart, FlashEnd, Stamp, Beat
  <2>7. ASSUME NEW m \in Nodes, CardFails(m) \/ CardReturns(m) PROVE Good
    <3>1. /\ [card[m] EXCEPT !.tripped = TRUE].pin => card[m].pin
          /\ [card[m] EXCEPT !.hung = TRUE].pin => card[m].pin
          /\ [card[m] EXCEPT !.present = FALSE].pin => card[m].pin
          /\ [card[m] EXCEPT !.present = TRUE].pin => card[m].pin
          /\ BrownedOut(card[m]).pin => card[m].pin
      <4>1. card[m] \in Cards
        BY <1>0
      <4> QED  BY <4>1, NoRise DEF Cards
    <3>2. CASE card' = [card EXCEPT ![m].tripped = TRUE]
      BY <1>1, <3>1, <3>2, <2>0
    <3>3. CASE card' = [card EXCEPT ![m].hung = TRUE]
      BY <1>1, <3>1, <3>3, <2>0
    <3>4. CASE card' = [card EXCEPT ![m].present = FALSE]
      BY <1>1, <3>1, <3>4, <2>0
    <3>5. CASE card' = [card EXCEPT ![m].present = TRUE]
      BY <1>1, <3>1, <3>5, <2>0
    <3>6. CASE card' = [card EXCEPT ![m] = BrownedOut(@)]
      BY <1>1, <3>1, <3>6, <2>0
    <3> QED
      BY <2>7, <3>2, <3>3, <3>4, <3>5, <3>6, Zenon DEF CardFails, CardReturns
  <2>8. CASE CommandOpdOff \/ CommandOpdOn \/ EdlSysEnable \/ EdlScan
    <3>1. /\ OpdEnabled[n].pin => card[n].pin
          /\ OpdDisabled[n].pin => card[n].pin
      BY <1>0, NoRise DEF OpdEnabled, OpdDisabled
    <3>2. Probed(card[n], FALSE).pin => card[n].pin
      BY <1>0, NoRise
    <3> QED
      BY <1>0, <2>0, <2>8, <3>1, <3>2
         DEF CommandOpdOff, CommandOpdOn, EdlSysEnable, EdlScan
  <2>9. CASE BusChange \/ Tick
    BY <2>0, <2>9 DEF BusChange, Tick
  <2> QED
    BY <1>12, <2>1, <2>2, <2>3, <2>4, <2>5, <2>6, <2>7, <2>8, <2>9 DEF Others
<1> QED
  BY <1>3, <1>4, <1>5, <1>6, <1>7, <1>8, <1>10, <1>11, <1>12 DEF Next, Manager

LEMMA RetiredStart == Init => RetiredInv
  BY Constants DEF Init, RetiredInv, Recovered

LEMMA RetiredInvStep ==
    ASSUME TypeOK, ErrorInv, RetiredInv, [Next]_vars
    PROVE  RetiredInv'
<1>1. CASE Next
  BY <1>1, RetiredKept
<1>2. CASE UNCHANGED vars
  BY <1>2 DEF vars, nodeVars, loopVars, RetiredInv, GivenUp, Current
<1> QED  BY <1>1, <1>2

\* Without the ground's OPD_ENABLE, a card that MaxResets resets did not bring back
\* keeps that mark and is never given power again, unless as another's child.
THEOREM RetiredForGood ==
    ASSUME "power" \notin Commands
    PROVE  Spec => RetiredStaysOff
<1> DEFINE Step == \A n \in OnOpd \ Childs :
                     Retired(n) => Retired(n)' /\ (card'[n].pin => card[n].pin)
<1>1. ASSUME TypeOK, ErrorInv, RetiredInv, [Next]_vars PROVE [Step]_vars
  <2>1. CASE Next
    BY <1>1, <2>1, RetiredStep DEF Retired, GivenUp
  <2> QED  BY <1>1, <2>1
<1>2. Spec => [](TypeOK /\ ErrorInv)
  BY TypesStart, TypesKept, PTL DEF Spec
<1>3. Spec => []RetiredInv
  BY <1>2, RetiredStart, RetiredInvStep, PTL DEF Spec
<1> QED  BY <1>1, <1>2, <1>3, PTL DEF Spec, RetiredStaysOff
-----------------------------------------------------------------------------
(* The shield.  The node manager does not reset a card that is being       *)
(* reflashed, or that still has boot time left, for any cards, timeouts,   *)
(* commands and upsets, as long as nothing powers a card without the       *)
(* manager's clock of it being restarted soon: the ground's OPD_ENABLE     *)
(* does (edl.py:365), and so does enabling a parent for a child with a     *)
(* processor (node_manager.py:331).                                        *)

\* An age grows, and two ages with the same cap keep their order.
LEMMA Ages ==
    ASSUME TypeOK, TimePasses, stamping' = stamping, ClockInv
    PROVE  ClockInv'
<1>1. \A n \in Nodes : /\ bootAge'[n] = Older(bootAge[n], BootTimeout[n])
                       /\ rest'[n] = Older(rest[n], BootTimeout[n])
  BY DEF TimePasses
<1>2. \A n \in Nodes : /\ bootAge[n] \in Nat /\ rest[n] \in Nat
                       /\ BootTimeout[n] \in Nat /\ bootAge[n] <= BootTimeout[n]
                       /\ rest[n] <= BootTimeout[n]
  BY Constants DEF TypeOK, AgesOK
<1>3. \A n \in Nodes : bootAge[n] <= rest[n] => bootAge'[n] <= rest'[n]
  BY <1>1, <1>2 DEF Older
<1> QED  BY <1>3, Constants DEF ClockInv

\* Enabling a card is followed by the restart of its clock, and its child has none.
LEMMA EnableKeepsClock ==
    ASSUME \A n \in Nodes : Child[n] \notin CanOpen, TypeOK, ClockInv,
           NEW m \in Nodes, NEW b \in BOOLEAN, Enable(m, b),
           \/ bootAge' = [bootAge EXCEPT ![m] = 0] /\ stamping' = stamping
           \/ bootAge' = bootAge /\ stamping' = stamping \cup {m}
    PROVE  ClockInv'
<1>1. \A n \in OnOpd \cap CanOpen : n # m => card'[n] = card[n]
  BY Constants DEF Enable, TypeOK, HardwareOK
<1>2. \A n \in OnOpd \cap CanOpen : n # m => rest'[n] = rest[n]
  BY <1>1, Constants DEF Enable, Rested
<1>3. \A n \in OnOpd \cap CanOpen : n # m => bootAge'[n] = bootAge[n]
  BY Constants DEF TypeOK, AgesOK
<1>4. (bootAge'[m] = 0 /\ rest'[m] \in Nat) \/ m \in stamping'
  BY Constants DEF Enable, Rested, TypeOK, AgesOK
<1> QED  BY <1>2, <1>3, <1>4, Constants DEF ClockInv

\* The other commands give no card power.
LEMMA NoPowerKeepsClock ==
    ASSUME TypeOK, ClockInv, NEW m \in Nodes, NEW c, NEW command,
           EdlCard(m, c, command), c.pin => card[m].pin
    PROVE  ClockInv'
<1>1. \A n \in Nodes : card'[n].pin => card[n].pin
  BY DEF EdlCard, TypeOK, HardwareOK
<1>2. \A n \in Nodes : rest'[n] = rest[n]
  BY <1>1, Zenon DEF EdlCard, Rested
<1> QED  BY <1>2, Constants DEF ClockInv, EdlCard, nodeVars

LEMMA ClockKept ==
    ASSUME "power" \notin Commands, \A n \in Nodes : Child[n] \notin CanOpen,
           TypeOK, ClockInv, Next
    PROVE  ClockInv'
<1>0. /\ Current \in Nodes /\ OnOpd \subseteq Nodes
      /\ \A n \in Nodes : card[n] \in Cards
  BY CurrentIsNode, Constants DEF TypeOK, HardwareOK
<1>1. ASSUME UNCHANGED ages, UNCHANGED stamping PROVE ClockInv'
  BY <1>1 DEF ages, ClockInv
<1>2. ASSUME NEW n \in Nodes, bootAge' = [bootAge EXCEPT ![n] = 0],
             rest' = [rest EXCEPT ![n] = 0], stamping' = stamping
      PROVE  ClockInv'
  BY <1>0, <1>2 DEF ClockInv, TypeOK, AgesOK
<1>3. CASE Wake \/ Tick
  BY <1>3, Ages DEF Wake, Tick, nodeVars
<1>4. CASE Survey \/ Assign \/ Tally \/ ActNothing \/ ActNotFound \/ ActOn \/ ActDead
  BY <1>1, <1>4 DEF Survey, Assign, Tally, ActNothing, ActNotFound, ActOn, ActDead,
                    nodeVars
<1>15. CASE Reads
  BY <1>1, <1>15, ReadsLeave DEF nodeVars
<1>5. CASE ActOff
  <2>1. CASE Enable(Current, FALSE) /\ bootAge' = [bootAge EXCEPT ![Current] = 0]
    BY <1>0, <1>5, <2>1, EnableKeepsClock DEF ActOff
  <2>2. CASE UNCHANGED <<card, bootAge, rest>>
    BY <1>5, <2>2 DEF ActOff, ClockInv
  <2> QED  BY <1>5, <2>1, <2>2 DEF ActOff
<1>6. CASE ActError \/ ResetDone
  BY <1>0, <1>1, <1>2, <1>6 DEF ActError, ResetDone, ResetEnds, nodeVars
<1>7. ASSUME NEW n \in Nodes, \E b \in BOOLEAN : CommandEnable(n, b) PROVE ClockInv'
  BY <1>7, EnableKeepsClock DEF CommandEnable
<1>8. ASSUME NEW n \in Nodes, EdlProbe(n) \/ EdlCut(n) PROVE ClockInv'
  BY <1>0, <1>8, NoRise, NoPowerKeepsClock DEF EdlProbe, EdlCut, Cut
<1>9. ASSUME NEW n \in Nodes, EdlReset(n) PROVE ClockInv'
  <2>1. PICK c \in PulseOutcomes(card[n]) : EdlCard(n, StatusRead(c), "reset")
    BY <1>9 DEF EdlReset
  <2>2. StatusRead(c).pin => card[n].pin
    BY <1>0, <2>1, NoRise
  <2> QED  BY <2>1, <2>2, NoPowerKeepsClock
<1>10. ASSUME NEW n \in Nodes, EdlPower(n) PROVE ClockInv'
  BY <1>10 DEF EdlPower, EdlCard
<1>11. ASSUME NEW n \in Nodes, FlashEnd(n) \/ Stamp(n) PROVE ClockInv'
  BY <1>0, <1>11 DEF FlashEnd, Stamp, ClockInv, TypeOK, AgesOK
<1>12. ASSUME NEW n \in Nodes, \/ CommandDisable(n) \/ FlashStart(n) \/ Beat(n)
                               \/ CardFails(n) \/ CardReturns(n)
       PROVE  ClockInv'
  BY <1>12 DEF CommandDisable, FlashStart, Beat, CardFails, CardReturns, ages,
               nodeVars, ClockInv
<1>13. CASE CommandOpdOff \/ EdlSysEnable \/ EdlScan \/ BusChange
  BY <1>1, <1>13 DEF CommandOpdOff, EdlSysEnable, EdlScan, BusChange, nodeVars
<1>14. CASE CommandOpdOn
  BY <1>0, <1>14 DEF CommandOpdOn, nodeVars, ClockInv, TypeOK, AgesOK
<1> QED
  BY <1>3, <1>4, <1>5, <1>6, <1>7, <1>8, <1>9, <1>10, <1>11, <1>12, <1>13, <1>14,
     <1>15 DEF Next, Manager, Others

-----------------------------------------------------------------------------
\* The survey only takes shields away.
LEMMA ReadsShield == Survey \/ Reads => shielded' \subseteq shielded
  BY DEF Survey, Reads, AskFault, AskMissing, AskOff, AskOn, AskBoot, CheckHeartbeat

\* A card that is reflashed or booting keeps its shield only if not found in ERROR.
LEMMA SurveySpares ==
    ASSUME TypeOK, Survey \/ Reads, pc' = "assign", Current \in shielded',
           shielded \subseteq OnOpd, Current \in shielded \cap CanOpen => Spared(Current)
    PROVE  found' # "ERROR"
<1>1. Current \in shielded /\ Current \in OnOpd
  BY ReadsShield
<1>2. ASSUME CheckHeartbeat PROVE found' # "ERROR"
  <2>1. Current \in CanOpen => updating[Current] \/ Booting(Current)
    BY <1>1, <1>2 DEF CheckHeartbeat, Spared
  <2> QED  BY <1>2, <2>1 DEF CheckHeartbeat, Decide, CheckCoNodesState
<1>3. CASE Survey
  BY <1>1, <1>3 DEF Survey, Decide
<1>4. CASE AskFault
  BY <1>4 DEF AskFault
<1>5. CASE AskMissing \/ AskOff
  BY <1>5 DEF AskMissing, AskOff, Ask, Decide
<1>6. CASE AskOn
  BY <1>2, <1>6 DEF AskOn, Decide
<1>7. CASE AskBoot
  BY <1>2, <1>7 DEF AskBoot, Decide
<1> QED  BY <1>3, <1>4, <1>5, <1>6, <1>7 DEF Reads

\* Between two sleeps of the manager, a card that is spared remains so: its reflash
\* does not end without its clock being restarted, and its clock does not advance.
LEMMA StillSpared ==
    ASSUME TypeOK, Next, NEW n \in Nodes, Spared(n), pc \in Surveying \cup {"assign"}
    PROVE  Spared(n)'
<1> USE DEF TypeOK, Booting, Spared
<1>0. /\ Current \in Nodes /\ bootAge \in [Nodes -> Nat]
      /\ updating \in [Nodes -> BOOLEAN]
      /\ BootTimeout \in [Nodes -> Nat \ {0}]
  BY CurrentIsNode, Constants DEF AgesOK, NodesOK
<1>1. ASSUME UNCHANGED <<updating, bootAge>>, stamping \subseteq stamping'
      PROVE  Spared(n)'
  BY <1>1
<1>2. CASE Manager
  <2>1. CASE Reads
    BY <1>1, <2>1, ReadsLeave DEF nodeVars, ages
  <2> QED
    BY <1>1, <1>2, <2>1
       DEF Manager, Wake, Survey, Assign, Tally, ActNothing, ActNotFound, ActOff,
           ActOn, ActDead, ActError, ResetDone, nodeVars, ages, Surveying
<1>3. ASSUME NEW m \in Nodes, \E b \in BOOLEAN : CommandEnable(m, b) PROVE Spared(n)'
  BY <1>1, <1>3 DEF CommandEnable
<1>4. ASSUME NEW m \in Nodes,
             \/ CommandDisable(m) \/ EdlProbe(m) \/ EdlPower(m) \/ EdlCut(m)
             \/ EdlReset(m) \/ Beat(m) \/ CardFails(m) \/ CardReturns(m)
      PROVE  Spared(n)'
  BY <1>1, <1>4 DEF CommandDisable, EdlProbe, EdlPower, EdlCut, EdlReset, EdlCard,
                    Beat, CardFails, CardReturns, nodeVars, ages
<1>5. ASSUME NEW m \in Nodes, FlashStart(m) PROVE Spared(n)'
  BY <1>0, <1>5 DEF FlashStart, ages
<1>6. ASSUME NEW m \in Nodes, FlashEnd(m) PROVE Spared(n)'
  BY <1>0, <1>6 DEF FlashEnd
<1>7. ASSUME NEW m \in Nodes, Stamp(m) PROVE Spared(n)'
  BY <1>0, <1>7 DEF Stamp
<1>8. CASE CommandOpdOn
  BY <1>0, <1>8 DEF CommandOpdOn
<1>9. CASE CommandOpdOff \/ EdlSysEnable \/ EdlScan \/ BusChange \/ Tick
  BY <1>1, <1>9 DEF CommandOpdOff, EdlSysEnable, EdlScan, BusChange, Tick,
                    nodeVars, ages, Surveying
<1> QED
  BY <1>2, <1>3, <1>4, <1>5, <1>6, <1>7, <1>8, <1>9 DEF Next, Others

LEMMA ShieldKept ==
    ASSUME TypeOK, ClockInv', ShieldInv, Next
    PROVE  ShieldInv'
<1> USE DEF TypeOK
<1>0. /\ Current \in Nodes /\ OnOpd \subseteq Nodes
      /\ \A i \in Assessed : NodeOrder[i] \in Nodes
      /\ \A i \in Awaiting : NodeOrder[i] \in Nodes
  <2>1. \A i \in Assessed \cup Awaiting : i \in 1..Len(NodeOrder)
    BY Progress, Constants DEF LoopOK, Steps
  <2> QED  BY <2>1, CurrentIsNode, Constants
<1>1. ASSUME pc \in {"act", "resetting"}, Advance, UNCHANGED <<status, shielded>>
      PROVE  ShieldInv'
  <2>1. /\ pc' \in {"act", "idle"} /\ Awaiting' = {}
        /\ \A i \in Assessed' : i \in Assessed
    BY <1>1, Leaves
  <2> QED  BY <1>1, <2>1 DEF ShieldInv
<1>2. CASE Wake
  <2>1. Assessed' = {} /\ pc' = "survey" /\ Awaiting' = 1..Len(NodeOrder)
    BY <1>2, Constants DEF Wake, Assessed, Surveying, Awaiting
  <2>2. /\ UNCHANGED <<updating, stamping>>
        /\ shielded' = {n \in OnOpd : updating[n] \/ rest'[n] < BootTimeout[n]}
    BY <1>2 DEF Wake, nodeVars
  <2>3. ASSUME NEW n \in shielded' \cap CanOpen PROVE Spared(n)'
    <3>1. n \in Nodes /\ n \in OnOpd \cap CanOpen
      BY <1>0, <2>2
    <3>2. CASE updating[n] \/ n \in stamping
      BY <2>2, <3>2 DEF Spared
    <3>3. CASE rest'[n] < BootTimeout[n] /\ n \notin stamping'
      <4>1. bootAge'[n] <= rest'[n]
        BY <3>1, <3>3 DEF ClockInv
      <4>2. bootAge'[n] \in Nat /\ rest'[n] \in Nat /\ BootTimeout[n] \in Nat
        BY <3>1, AgesTypes, Constants DEF AgesOK
      <4> QED  BY <3>3, <4>1, <4>2 DEF Spared, Booting
    <3> QED  BY <2>2, <3>2, <3>3
  <2> QED  BY <1>2, <2>1, <2>2, <2>3 DEF Wake, ShieldInv
<1>3. CASE Survey \/ Reads
  <2>1. /\ Current' = Current /\ Assessed' = Assessed /\ cur \in Awaiting
        /\ Awaiting' \subseteq Awaiting
        /\ pc' \in (Surveying \ {"survey"}) \cup {"assign"}
    BY <1>3, Surveys
  <2>2. shielded' \subseteq shielded
    BY <1>3, ReadsShield
  <2>3. UNCHANGED <<status, updating, stamping, bootAge>>
    BY <1>3, ReadsLeave DEF Survey, nodeVars, ages
  <2>4. Current \in shielded \cap CanOpen => Spared(Current)
    BY <2>1 DEF ShieldInv, Current
  <2>5. pc' = "assign" /\ Current \in shielded' => found' # "ERROR"
    BY <1>3, <2>2, <2>4, SurveySpares DEF ShieldInv
  <2> QED
    BY <2>1, <2>2, <2>3, <2>5 DEF ShieldInv, Spared, Booting, Surveying
<1>4. CASE Assign
  <2>1. UNCHANGED <<updating, stamping, bootAge, shielded, found>>
    BY <1>4 DEF Assign, ages
  <2> QED  BY <1>0, <1>4, <2>1, Assigned DEF Assign, ShieldInv, Spared, Booting
<1>5. CASE Tally
  <2>1. pc' \in {"idle", "act"} /\ Assessed' \in {{}, Assessed} /\ Awaiting' = {}
    BY <1>5 DEF Tally, Assessed, Surveying, Awaiting
  <2> QED  BY <1>5, <2>1 DEF Tally, ShieldInv, nodeVars
<1>6. CASE ActNothing \/ ActNotFound \/ ActOff \/ ActOn \/ ActDead \/ ResetDone
  BY <1>1, <1>6 DEF ActNothing, ActNotFound, ActOff, ActOn, ActDead, ResetDone,
                    ResetEnds, nodeVars
<1>7. CASE ActError
  <2>1. CASE ResetEnds(Current)
    BY <1>1, <1>7, <2>1 DEF ActError, ResetEnds
  <2>2. CASE ~ResetEnds(Current)
    <3>1. /\ Assessed' = Assessed /\ Awaiting' = {} /\ Current' = Current
          /\ pc' = "resetting" /\ UNCHANGED <<status, shielded>>
      BY <1>7, <2>2 DEF ActError, Assessed, Surveying, Awaiting, Current, nodeVars
    <3>2. cur \in Assessed
      BY <1>7, Constants DEF ActError, Assessed, Surveying, LoopOK
    <3>3. Current \notin shielded
      BY <1>7, <3>2 DEF ActError, ShieldInv, Current
    <3> QED  BY <3>1, <3>3 DEF ShieldInv
  <2> QED  BY <2>1, <2>2
<1>8. CASE Others
  <2>1. /\ UNCHANGED <<pc, cur, found, shielded>>
        /\ Assessed' = Assessed /\ Awaiting' = Awaiting /\ Current' = Current
    BY <1>8, OthersStay
  <2>2. \A n \in Nodes : status'[n] = "ERROR" => status[n] = "ERROR"
    BY <1>8, OtherThreads
  <2>3. \A i \in Awaiting : NodeOrder[i] \in shielded \cap CanOpen
                              => Spared(NodeOrder[i])'
    <3>1. SUFFICES ASSUME NEW i \in Awaiting, NodeOrder[i] \in shielded \cap CanOpen
                   PROVE  Spared(NodeOrder[i])'
      OBVIOUS
    <3>2. Spared(NodeOrder[i])
      BY <3>1 DEF ShieldInv
    <3>3. pc \in Surveying \cup {"assign"}
      BY <3>1, Progress
    <3> QED  BY <1>0, <3>1, <3>2, <3>3, StillSpared
  <2> QED  BY <1>0, <2>1, <2>2, <2>3 DEF ShieldInv
<1> QED  BY <1>2, <1>3, <1>4, <1>5, <1>6, <1>7, <1>8 DEF Next, Manager

LEMMA ShieldStart == Init => ClockInv /\ ShieldInv
<1> SUFFICES ASSUME Init PROVE ClockInv /\ ShieldInv
  OBVIOUS
<1>1. \A n \in Nodes : bootAge[n] <= rest[n]
  <2>1. CASE bootAge = BootTimeout
    BY <2>1, Constants DEF Init
  <2>2. CASE bootAge = [n \in Nodes |-> 0]
    BY <2>2, Constants DEF Init
  <2> QED  BY <2>1, <2>2 DEF Init
<1>2. ClockInv
  BY <1>1, Constants DEF ClockInv
<1>3. ShieldInv
  BY DEF Init, ShieldInv
<1> QED  BY <1>2, <1>3

LEMMA ShieldStep ==
    ASSUME "power" \notin Commands, \A n \in Nodes : Child[n] \notin CanOpen,
           TypeOK, ClockInv, ShieldInv, [Next]_vars
    PROVE  ClockInv' /\ ShieldInv'
<1>1. CASE Next
  BY <1>1, ClockKept, ShieldKept
<1>2. CASE UNCHANGED vars
  BY <1>2 DEF vars, nodeVars, loopVars, ages, ClockInv, ShieldInv, Assessed, Surveying,
              Awaiting, Current, Booting, Spared
<1> QED  BY <1>1, <1>2

\* Only the card a reset ends at has one more.
LEMMA WhoIsReset ==
    ASSUME TypeOK, ShieldInv, Next, NEW n \in Nodes, resets'[n] > resets[n]
    PROVE  n \notin shielded
<1> USE DEF TypeOK
<1>0. Current \in Nodes /\ resets \in [Nodes -> 0..MaxResets] /\ MaxResets \in Nat
  BY CurrentIsNode, Constants DEF NodesOK
<1>1. ~(resets' = resets) /\ \A m \in Nodes : ~(resets' = [resets EXCEPT ![m] = 0])
  BY <1>0
<1>2. ActError \/ ResetDone
  <2>1. ~Others /\ ~Reads
    BY <1>1, OtherThreads, ReadsLeave DEF nodeVars
  <2> QED
    BY <1>0, <1>1, <2>1 DEF Next, Manager, Wake, Survey, Assign, Tally, ActNothing,
                       ActNotFound, ActOff, ActOn, ActDead, nodeVars
<1>3. ResetEnds(Current)
  BY <1>1, <1>2 DEF ActError, ResetDone, nodeVars
<1>4. n = Current
  BY <1>0, <1>3 DEF ResetEnds, AfterReset
<1>5. CASE ActError
  <2>1. cur \in Assessed
    BY <1>5, Constants DEF ActError, Assessed, Surveying, LoopOK
  <2> QED  BY <1>4, <1>5, <2>1 DEF ActError, ShieldInv, Current
<1>6. CASE ResetDone
  BY <1>4, <1>6 DEF ResetDone, ShieldInv
<1> QED  BY <1>2, <1>5, <1>6

\* Neither silence nor another card's trouble makes the manager reset a card that
\* is being reflashed or has boot time left.
THEOREM Shielding ==
    ASSUME "power" \notin Commands, \A n \in Nodes : Child[n] \notin CanOpen
    PROVE  Spec => ShieldHolds
<1> DEFINE Step == \A n \in Nodes : resets'[n] > resets[n] => n \notin shielded
<1>1. ASSUME TypeOK, ShieldInv, [Next]_vars PROVE [Step]_vars
  <2>1. CASE Next
    BY <2>1, <1>1, WhoIsReset
  <2> QED  BY <1>1, <2>1
<1>2. Spec => [](TypeOK /\ ErrorInv)
  BY TypesStart, TypesKept, PTL DEF Spec
<1>3. Spec => [](ClockInv /\ ShieldInv)
  BY <1>2, ShieldStart, ShieldStep, PTL DEF Spec
<1> QED  BY <1>1, <1>2, <1>3, PTL DEF Spec, ShieldHolds
=============================================================================
