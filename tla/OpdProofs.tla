----------------------------- MODULE OpdProofs -----------------------------
(***************************************************************************)
(* Proofs about OpdNode, for any classes of cards, any calls of the two    *)
(* threads and any number of upsets.                                       *)
(*                                                                         *)
(* Typing, CutHolds and BootsRight know a call by the blocks it may have   *)
(* left.  For Implementation that is not enough: there a call in progress  *)
(* has left what will, if nothing comes between, give the card one of the  *)
(* results that OpdCard gives the operation (KnownInv), and a rescan what  *)
(* will configure it (RescanInv).                                          *)
(***************************************************************************)
EXTENDS OpdNode, SequenceTheorems, TLAPS

-----------------------------------------------------------------------------
(* What a call has left to do.  The steps of a class's calls configure the *)
(* pins in one of its modes only; those of a call that does not power the  *)
(* card never set its enable pin.                                          *)
Modes(class) == {Pins, On(class), Off(class)}
Steps == [do : StepKinds, on : SUBSET Pins]
StepsOf(class) == {s \in Steps : s.do = "configuration" => s.on \in Modes(class)}
Mild(class) == {s \in StepsOf(class) : s.do \in {"set", "output"} => "enable" \notin s.on}

Marks == {Keep} \cup OpdNodeStates
Outcomes == {"done", "failed"}
BlocksOf(S) ==
    [steps : Seq(S) \ {<<>>}, ok : Marks, bad : Marks, last : SUBSET Outcomes,
     found : BOOLEAN]

LEMMA StepTypes ==
    ASSUME NEW class \in Processors
    PROVE  /\ Mild(class) \subseteq StepsOf(class)
           /\ \A pin \in Pins : Set(pin) \in StepsOf(class) /\ Clear(pin) \in Mild(class)
           /\ \A pin \in Pins \ {"enable"} : Set(pin) \in Mild(class)
           /\ \A pins \in SUBSET Pins :
                /\ Output(pins) \in StepsOf(class)
                /\ "enable" \notin pins => Output(pins) \in Mild(class)
           /\ \A mode \in Modes(class) : Configuration(mode) \in Mild(class)
           /\ Valid \in Mild(class) /\ Enabled \in Mild(class) /\ Fault \in Mild(class)
           /\ Other \in Mild(class)
<1> USE DEF Steps, StepKinds, StepsOf, Mild
<1>1. Modes(class) \subseteq SUBSET Pins
  BY DEF Modes, On, Off, Pins
<1>2. /\ \A pin \in Pins : Set(pin) \in StepsOf(class) /\ Clear(pin) \in Mild(class)
      /\ \A pin \in Pins \ {"enable"} : Set(pin) \in Mild(class)
  BY DEF Set, Clear
<1>3. \A pins \in SUBSET Pins :
        /\ Output(pins) \in StepsOf(class)
        /\ "enable" \notin pins => Output(pins) \in Mild(class)
  BY DEF Output
<1>4. \A mode \in Modes(class) : Configuration(mode) \in Mild(class)
  BY <1>1 DEF Configuration
<1>5. /\ Valid \in Mild(class) /\ Enabled \in Mild(class) /\ Fault \in Mild(class)
      /\ Other \in Mild(class)
  BY DEF Valid, Enabled, Fault, Other
<1> QED BY <1>2, <1>3, <1>4, <1>5

LEMMA MildLeft ==
    ASSUME NEW class \in Processors
    PROVE  Seq(BlocksOf(Mild(class))) \subseteq Seq(BlocksOf(StepsOf(class)))
<1>1. Seq(Mild(class)) \subseteq Seq(StepsOf(class))
  BY StepTypes
<1>2. BlocksOf(Mild(class)) \subseteq BlocksOf(StepsOf(class))
  BY <1>1 DEF BlocksOf
<1> QED BY <1>2

LEMMA TryType ==
    ASSUME NEW S, NEW steps \in Seq(S) \ {<<>>}, NEW ok \in Marks, NEW bad \in Marks,
           NEW last \in SUBSET Outcomes
    PROVE  /\ Try(steps, ok, bad, last) \in BlocksOf(S)
           /\ [Try(steps, ok, bad, last) EXCEPT !.found = TRUE] \in BlocksOf(S)
BY DEF Try, BlocksOf

LEMMA StepType ==
    ASSUME NEW S, NEW step \in S, NEW ok \in Marks, NEW bad \in Marks,
           NEW last \in SUBSET Outcomes
    PROVE  /\ Try(<<step>>, ok, bad, last) \in BlocksOf(S)
           /\ [Try(<<step>>, ok, bad, last) EXCEPT !.found = TRUE] \in BlocksOf(S)
<1>1. <<step>> \in Seq(S) \ {<<>>}
  OBVIOUS
<1> QED BY <1>1, TryType

\* Sequences of one, two or three blocks.
LEMMA SequenceTypes ==
    ASSUME NEW B, NEW a \in B, NEW b \in B, NEW c \in B
    PROVE  /\ <<a>> \in Seq(B) /\ Len(<<a>>) = 1
           /\ <<a, b, c>> \in Seq(B)
           /\ \A s \in Seq(B) : <<a>> \o s \in Seq(B) /\ Len(<<a>> \o s) = 1 + Len(s)
OBVIOUS

\* The straps of a card, when its class has any.
LEMMA StrapsType ==
    ASSUME NEW class \in Processors \ {"none"}, NEW bootloader \in BOOLEAN
    PROVE  Straps(class, bootloader) \in Seq(Mild(class)) \ {<<>>}
<1>1. /\ Set("boot") \in Mild(class) /\ Clear("boot") \in Mild(class)
      /\ Configuration(On(class)) \in Mild(class) /\ Configuration(Off(class)) \in Mild(class)
  BY StepTypes DEF Pins, Modes
<1>2. CASE class = "stm32"
  BY <1>1, <1>2 DEF Straps
<1>3. CASE class = "mcxn"
  BY <1>1, <1>3 DEF Straps
<1>4. CASE class = "octavo"
  BY <1>1, <1>4 DEF Straps
<1> QED BY <1>2, <1>3, <1>4 DEF Processors

LEMMA ConfigureType ==
    ASSUME NEW class \in Processors
    PROVE  /\ ConfigureCall(class) \in Seq(BlocksOf(Mild(class)))
           /\ RescanCall(class) \in Seq(BlocksOf(Mild(class)))
           /\ Len(RescanCall(class)) = 2 /\ Len(ConfigureCall(class)) = 1
<1>1. /\ Output({}) \in Mild(class) /\ Other \in Mild(class)
      /\ Configuration(Off(class)) \in Mild(class) /\ Configuration(Pins) \in Mild(class)
  BY StepTypes DEF Modes
<1>2. Configure(Off(class)) \in Seq(Mild(class)) \ {<<>>}
  BY <1>1 DEF Configure
<1>3. ResetRegisters \in Seq(Mild(class)) \ {<<>>}
  BY <1>1 DEF ResetRegisters
<1>4. Keep \in Marks /\ OpdNodeStates \subseteq Marks /\ {} \in SUBSET Outcomes
      /\ {"failed"} \in SUBSET Outcomes
  BY DEF Marks, Outcomes
<1>5. Try(Configure(Off(class)), "DISABLED", "FAULT", {}) \in BlocksOf(Mild(class))
  BY <1>2, <1>4, TryType DEF OpdNodeStates
<1>6. Try(ResetRegisters, Keep, "NOT_FOUND", {"failed"}) \in BlocksOf(Mild(class))
  BY <1>3, <1>4, TryType DEF OpdNodeStates
<1>7. ConfigureCall(class) \in Seq(BlocksOf(Mild(class))) /\ Len(ConfigureCall(class)) = 1
  BY <1>5 DEF ConfigureCall
<1> DEFINE first == Try(ResetRegisters, Keep, "NOT_FOUND", {"failed"})
           M == BlocksOf(Mild(class))
<1>8. RescanCall(class) = <<first>> \o ConfigureCall(class)
  BY DEF RescanCall
<1>9. first \in M /\ ConfigureCall(class) \in Seq(M)
  BY <1>6, <1>7
<1>10. <<first>> \o ConfigureCall(class) \in Seq(M)
       /\ Len(<<first>> \o ConfigureCall(class)) = 1 + Len(ConfigureCall(class))
  <2> HIDE DEF first, M
  <2> QED BY <1>9, SequenceTypes
<1> QED BY <1>7, <1>8, <1>10

LEMMA FoundType ==
    ASSUME NEW class \in Processors, NEW s \in OpdNodeStates, NEW reset \in BOOLEAN
    PROVE  Found(class, s, reset) \in Seq(BlocksOf(Mild(class)))
<1> DEFINE B == BlocksOf(Mild(class))
           first == IF s = "NOT_FOUND" THEN ConfigureCall(class) ELSE <<>>
           second == IF reset THEN RescanCall(class) ELSE <<>>
<1>1. first \in Seq(B) /\ second \in Seq(B)
  BY ConfigureType
<1>2. first \o second \in Seq(B)
  BY <1>1
<1>3. ASSUME NEW blocks \in Seq(B) PROVE Settled(blocks) \in Seq(B)
  <2>1. CASE blocks = <<>>
    BY <2>1 DEF Settled
  <2>2. CASE blocks # <<>>
    <3>1. Len(blocks) \in 1..Len(blocks) /\ blocks[Len(blocks)] \in B
      BY <2>2
    <3>2. [blocks[Len(blocks)] EXCEPT !.ok = "DISABLED", !.bad = "DISABLED"] \in B
      BY <3>1 DEF BlocksOf, Marks, OpdNodeStates
    <3>3. Settled(blocks) = [blocks EXCEPT ![Len(blocks)] =
             [blocks[Len(blocks)] EXCEPT !.ok = "DISABLED", !.bad = "DISABLED"]]
      BY <2>2 DEF Settled
    <3> HIDE DEF B
    <3> QED BY <3>1, <3>2, <3>3
  <2> QED BY <2>1, <2>2
<1>4. Found(class, s, reset) = Settled(first \o second)
  BY DEF Found
<1> HIDE DEF B, first, second
<1> QED BY <1>2, <1>3, <1>4 DEF B

\* The block that powers the card, and the one that takes the power away.
Powers == [Try(<<Set("enable")>>, "ENABLED", "FAULT", {"done"}) EXCEPT !.found = TRUE]
Cuts == Try(<<Clear("enable")>>, "DISABLED", "FAULT", {})

LEMMA BodyType ==
    ASSUME NEW class \in Processors, NEW op \in Calls
    PROVE  /\ Body(class, op) \in Seq(BlocksOf(StepsOf(class)))
           /\ op \notin Powering => Body(class, op) \in Seq(BlocksOf(Mild(class)))
<1>1. /\ Mild(class) \subseteq StepsOf(class) /\ Set("enable") \in StepsOf(class)
      /\ Set("boot") \in Mild(class) /\ Set("cbReset") \in Mild(class)
      /\ Set("uart") \in Mild(class)
      /\ \A pin \in Pins : Clear(pin) \in Mild(class)
      /\ Valid \in Mild(class) /\ Enabled \in Mild(class) /\ Fault \in Mild(class)
  BY StepTypes DEF Pins
<1>2. Keep \in Marks /\ OpdNodeStates \subseteq Marks /\ {} \in SUBSET Outcomes
      /\ {"failed"} \in SUBSET Outcomes /\ {"done"} \in SUBSET Outcomes
  BY DEF Marks, Outcomes
<1>4. BlocksOf(Mild(class)) \subseteq BlocksOf(StepsOf(class))
  <2>1. Seq(Mild(class)) \subseteq Seq(StepsOf(class))
    BY <1>1
  <2> QED BY <2>1 DEF BlocksOf
<1>5. Seq(BlocksOf(Mild(class))) \subseteq Seq(BlocksOf(StepsOf(class)))
  BY MildLeft
<1>6. ASSUME class # "none", NEW b \in BOOLEAN, NEW ok \in Marks, NEW bad \in Marks,
             NEW last \in SUBSET Outcomes
      PROVE  Try(Straps(class, b), ok, bad, last) \in BlocksOf(Mild(class))
  BY <1>6, StrapsType, TryType
<1> DEFINE M == BlocksOf(Mild(class))
           B == BlocksOf(StepsOf(class))
<1>7. ASSUME NEW step \in Mild(class), NEW ok \in Marks, NEW bad \in Marks,
             NEW last \in SUBSET Outcomes
      PROVE  Try(<<step>>, ok, bad, last) \in M
  BY StepType
<1>8. ASSUME NEW b \in BOOLEAN PROVE EnableCall(class, b) \in Seq(B)
  <2>1. Powers \in B
    BY <1>1, <1>2, StepType DEF Powers, OpdNodeStates
  <2>2. EnableCall(class, b) =
          (IF class = "none" THEN <<>>
           ELSE <<Try(Straps(class, b), Keep, "FAULT", {"failed"})>>) \o <<Powers>>
    BY DEF EnableCall, Powers
  <2>3. class # "none" => Try(Straps(class, b), Keep, "FAULT", {"failed"}) \in B
    BY <1>2, <1>4, <1>6 DEF OpdNodeStates
  <2>4. <<Powers>> \in Seq(B) /\ <<>> \o <<Powers>> = <<Powers>>
    BY <2>1
  <2> HIDE DEF Powers, B
  <2> QED BY <2>1, <2>2, <2>3, <2>4, SequenceTypes
<1>9. DisableCall(class) \in Seq(M)
  <2>1. Clear("enable") \in Mild(class)
    BY <1>1 DEF Pins
  <2>2. Cuts \in M
    BY <1>2, <1>7, <2>1 DEF Cuts, OpdNodeStates
  <2>3. DisableCall(class) =
          (IF Rewrites(class) THEN <<Try(Straps(class, FALSE), Keep, Keep, {})>> ELSE <<>>)
          \o <<Cuts>>
    BY DEF DisableCall, Cuts
  <2>4. Rewrites(class) => Try(Straps(class, FALSE), Keep, Keep, {}) \in M
    BY <1>2, <1>6 DEF Rewrites
  <2>5. <<Cuts>> \in Seq(M) /\ <<>> \o <<Cuts>> = <<Cuts>>
    BY <2>2
  <2> HIDE DEF Cuts, M
  <2> QED BY <2>2, <2>3, <2>4, <2>5, SequenceTypes
<1>10. op \in {"probe", "rescan"} => Body(class, op) \in Seq(M)
  <2>1. Try(<<Valid>>, Keep, "NOT_FOUND", {"failed"}) \in M
    BY <1>1, <1>2, <1>7 DEF OpdNodeStates
  <2> HIDE DEF M
  <2> QED BY <2>1, SequenceTypes DEF Body
<1>11. op \in Powering => Body(class, op) \in Seq(B)
  BY <1>8 DEF Powering, Body
<1>12. op \in {"reset", "reset3"} => Body(class, op) \in Seq(M)
  <2>1. Attempt \in M
    <3>1. <<Set("cbReset"), Clear("cbReset"), Fault>> \in Seq(Mild(class)) \ {<<>>}
      BY <1>1 DEF Pins
    <3> QED BY <1>2, <3>1, TryType DEF Attempt, OpdNodeStates
  <2> HIDE DEF M
  <2> QED BY <2>1, SequenceTypes DEF Body
<1>13. op = "status" => Body(class, op) \in Seq(M)
  <2>1. /\ Try(<<Valid>>, Keep, "NOT_FOUND", {"failed"}) \in M
        /\ Try(<<Enabled>>, Keep, "FAULT", {"failed"}) \in M
        /\ Try(<<Fault>>, Keep, "FAULT", {}) \in M
    BY <1>1, <1>2, <1>7 DEF OpdNodeStates
  <2> HIDE DEF M
  <2> QED BY <2>1, SequenceTypes DEF Body, StatusCall
<1>14. op \in {"connect", "disconnect"} => Body(class, op) \in Seq(M)
  <2>1. ASSUME NEW step \in Mild(class) PROVE UartCall(class, step) \in Seq(M)
    <3>1. Try(<<step>>, Keep, "FAULT", {}) \in M
      BY <1>2, <1>7 DEF OpdNodeStates
    <3> HIDE DEF M
    <3> QED BY <3>1, SequenceTypes DEF UartCall
  <2>2. Set("uart") \in Mild(class) /\ Clear("uart") \in Mild(class)
    BY <1>1 DEF Pins
  <2> QED BY <2>1, <2>2 DEF Body
<1>15. op = "disable" => Body(class, op) \in Seq(M)
  BY <1>9 DEF Body
<1> HIDE DEF M, B
<1>16. op \notin Powering => Body(class, op) \in Seq(M)
  BY <1>10, <1>12, <1>13, <1>14, <1>15 DEF Calls, Powering
<1>17. Seq(M) \subseteq Seq(B)
  BY <1>5 DEF M, B
<1> QED BY <1>11, <1>16, <1>17 DEF M, B
-----------------------------------------------------------------------------
(* Typing. *)
CallsIn(class) == [op : Calls, todo : Seq(BlocksOf(StepsOf(class)))]
ChipOK ==
    /\ present \in BOOLEAN /\ tripped \in BOOLEAN /\ out \in SUBSET Pins
    /\ inputs \in Modes(processor)
HistoryOK ==
    /\ mixed \in SUBSET Threads /\ upset \in SUBSET Threads /\ known \in BOOLEAN
    /\ before \in Cards /\ cut \in {"no", "mixed", "alone"}

TypeInv ==
    /\ processor \in Classes /\ ChipOK /\ st \in OpdNodeStates
    /\ call \in [Threads -> CallsIn(processor)] /\ upsets \in 0..MaxUpsets /\ HistoryOK

LEMMA Constants ==
    /\ Classes \subseteq Processors /\ Manager # Ground /\ Threads = {Manager, Ground}
    /\ CallsOf \in [Threads -> SUBSET Calls] /\ MaxUpsets \in Nat
BY OpdNodeAssumption DEF OpdNodeAssumption, Threads

LEMMA NoCallType ==
    ASSUME NEW class
    PROVE  NoCall \in CallsIn(class) /\ NoCall.todo \in Seq(BlocksOf(Mild(class)))
           /\ NoCall.todo = <<>> /\ NoCall.op = "status"
BY DEF NoCall, CallsIn, Calls

LEMMA ViewType ==
    ASSUME TypeInv
    PROVE  View \in Cards /\ NoCard \in Cards
BY DEF TypeInv, ChipOK, View, NoCard, Cards, OpdNodeStates

LEMMA InitType == Init => TypeInv
<1> SUFFICES ASSUME Init PROVE TypeInv
  OBVIOUS
<1>1. ChipOK
  BY DEF Init, ChipOK, Modes, Pins
<1>2. HistoryOK
  BY DEF Init, HistoryOK, NoCard, Cards, OpdNodeStates
<1>3. call \in [Threads -> CallsIn(processor)]
  BY NoCallType DEF Init
<1> QED BY <1>1, <1>2, <1>3, Constants DEF Init, TypeInv, OpdNodeStates

\* What a block has left after its first step, or when that step is replaced.
LEMMA StepsLeft ==
    ASSUME NEW S, NEW steps \in Seq(S) \ {<<>>}
    PROVE  /\ Head(steps) \in S /\ steps[1] = Head(steps) /\ Len(steps) \in Nat \ {0}
           /\ Len(steps) > 1 => Tail(steps) \in Seq(S) \ {<<>>}
           /\ \A step \in S : [steps EXCEPT ![1] = step] \in Seq(S) \ {<<>>}
<1>1. Head(steps) \in S /\ steps[1] = Head(steps) /\ Len(steps) \in Nat \ {0}
  OBVIOUS
<1>2. ASSUME Len(steps) > 1 PROVE Tail(steps) \in Seq(S) \ {<<>>}
  <2>1. Tail(steps) \in Seq(S) /\ Len(Tail(steps)) = Len(steps) - 1
    OBVIOUS
  <2>2. Len(Tail(steps)) > 0
    BY <1>1, <1>2, <2>1
  <2>3. ASSUME NEW q, Len(q) > 0, Len(<<>>) = 0 PROVE q # <<>>
    BY <2>3
  <2>4. Len(<<>>) = 0
    OBVIOUS
  <2> QED BY <2>1, <2>2, <2>3, <2>4
<1>3. \A step \in S : [steps EXCEPT ![1] = step] \in Seq(S) \ {<<>>}
  OBVIOUS
<1> QED BY <1>1, <1>2, <1>3

\* What an access makes of the sequence a call has left to do.
LEMMA TodoTypes ==
    ASSUME NEW S, NEW todo \in Seq(BlocksOf(S)), todo # <<>>
    PROVE  /\ Tail(todo) \in Seq(BlocksOf(S))
           /\ Head(todo) \in BlocksOf(S) /\ Head(todo) = todo[1] /\ 1 \in 1..Len(todo)
           /\ Head(Head(todo).steps) \in S /\ Head(todo).steps[1] = Head(Head(todo).steps)
           /\ Len(Head(todo).steps) \in Nat \ {0}
           /\ Len(Head(todo).steps) > 1 =>
                [todo EXCEPT ![1].steps = Tail(@)] \in Seq(BlocksOf(S))
           /\ \A step \in S : [todo EXCEPT ![1].steps[1] = step] \in Seq(BlocksOf(S))
<1>1. Head(todo) = todo[1] /\ 1 \in 1..Len(todo) /\ todo[1] \in BlocksOf(S)
  OBVIOUS
<1>2. todo[1].steps \in Seq(S) \ {<<>>}
  BY <1>1 DEF BlocksOf
<1>3. /\ Head(todo[1].steps) \in S /\ todo[1].steps[1] = Head(todo[1].steps)
      /\ Len(todo[1].steps) \in Nat \ {0}
  BY <1>2, StepsLeft
<1>4. \A steps \in Seq(S) \ {<<>>} : [todo EXCEPT ![1].steps = steps] \in Seq(BlocksOf(S))
  <2> SUFFICES ASSUME NEW steps \in Seq(S) \ {<<>>}
               PROVE  [todo EXCEPT ![1].steps = steps] \in Seq(BlocksOf(S))
    OBVIOUS
  <2>1. [todo[1] EXCEPT !.steps = steps] \in BlocksOf(S)
    BY <1>1 DEF BlocksOf
  <2> DEFINE block == [todo[1] EXCEPT !.steps = steps]
             B == BlocksOf(S)
  <2>2. [todo EXCEPT ![1] = block] \in Seq(B)
    <3>1. block \in B /\ todo \in Seq(B) /\ 1 \in 1..Len(todo)
      BY <1>1, <2>1
    <3> HIDE DEF block, B
    <3> QED BY <3>1
  <2> QED BY <2>2
<1>5. Len(todo[1].steps) > 1 => Tail(todo[1].steps) \in Seq(S) \ {<<>>}
  BY <1>2, StepsLeft
<1>6. \A step \in S : [todo[1].steps EXCEPT ![1] = step] \in Seq(S) \ {<<>>}
  BY <1>2, StepsLeft
<1>7. Len(todo[1].steps) > 1 => [todo EXCEPT ![1].steps = Tail(@)] \in Seq(BlocksOf(S))
  <2>1. [todo EXCEPT ![1].steps = Tail(@)] = [todo EXCEPT ![1].steps = Tail(todo[1].steps)]
    OBVIOUS
  <2> QED BY <1>4, <1>5, <2>1
<1>8. \A step \in S : [todo EXCEPT ![1].steps[1] = step] \in Seq(BlocksOf(S))
  <2> TAKE step \in S
  <2>1. [todo EXCEPT ![1].steps[1] = step]
        = [todo EXCEPT ![1].steps = [todo[1].steps EXCEPT ![1] = step]]
    OBVIOUS
  <2> QED BY <1>4, <1>6, <2>1
<1>9. Tail(todo) \in Seq(BlocksOf(S))
  OBVIOUS
<1> QED BY <1>1, <1>3, <1>7, <1>8, <1>9

\* A call that never sets the enable pin.
MildIn(t) == call[t].todo \in Seq(BlocksOf(Mild(processor)))

\* What is left may be any sequence of the steps a call of the class has, and a call
\* that never sets the enable pin remains one, as long as the pin is not set already.
Left(t, todo) ==
    /\ todo \in Seq(BlocksOf(StepsOf(processor)))
    /\ MildIn(t) /\ "enable" \notin out => todo \in Seq(BlocksOf(Mild(processor)))
CallsOK == st \in OpdNodeStates /\ call \in [Threads -> CallsIn(processor)]
StaysMild == "enable" \notin out => \A t \in Threads : MildIn(t) => MildIn(t)'

LEMMA ContinueType ==
    ASSUME TypeInv, UNCHANGED processor, NEW t \in Threads, NEW todo, NEW status,
           Left(t, todo), status \in OpdNodeStates, Continue(t, todo, status)
    PROVE  /\ CallsOK' /\ StaysMild
           /\ call'[t].todo = todo
           /\ call' = [call EXCEPT ![t] = call'[t]]
           /\ todo # <<>> => call'[t].op = call[t].op
           /\ todo = <<>> => call'[t] = NoCall
<1>1. /\ st' = status
      /\ call' = [call EXCEPT ![t] = IF todo = <<>> THEN NoCall
                                     ELSE [call[t] EXCEPT !.todo = todo]]
  BY DEF Continue
<1> DEFINE mine == IF todo = <<>> THEN NoCall ELSE [call[t] EXCEPT !.todo = todo]
<1>2. call[t] \in CallsIn(processor) /\ call \in [Threads -> CallsIn(processor)]
  BY DEF TypeInv
<1>3. mine \in CallsIn(processor)
  BY <1>2, NoCallType DEF Left, CallsIn
<1>4. MildIn(t) /\ "enable" \notin out => mine.todo \in Seq(BlocksOf(Mild(processor)))
  BY <1>2, NoCallType DEF Left, CallsIn
<1>5. call' = [call EXCEPT ![t] = mine]
  BY <1>1
<1>6. /\ mine.todo = todo
      /\ todo # <<>> => mine.op = call[t].op
      /\ todo = <<>> => mine = NoCall
  BY <1>2, NoCallType DEF CallsIn
<1> HIDE DEF mine
<1>7. call' \in [Threads -> CallsIn(processor)] /\ call'[t] = mine
  BY <1>2, <1>3, <1>5
<1>8. StaysMild
  BY <1>2, <1>4, <1>5 DEF StaysMild, MildIn
<1> QED BY <1>1, <1>5, <1>6, <1>7, <1>8 DEF CallsOK

\* The block a call is in.
LEMMA BlockTypes ==
    ASSUME TypeInv, NEW t \in Threads, ~Idle(t)
    PROVE  /\ Block(t) \in BlocksOf(StepsOf(processor))
           /\ Block(t).ok \in Marks /\ Block(t).bad \in Marks
           /\ Step(t) \in StepsOf(processor)
           /\ Left(t, <<>>) /\ Left(t, Tail(call[t].todo))
           /\ Len(Block(t).steps) > 1 => Left(t, [call[t].todo EXCEPT ![1].steps = Tail(@)])
           /\ \A step \in StepsOf(processor) :
                (MildIn(t) /\ "enable" \notin out => step \in Mild(processor))
                  => Left(t, [call[t].todo EXCEPT ![1].steps[1] = step])
           /\ MildIn(t) => Step(t) \in Mild(processor)
<1>1. processor \in Processors /\ call[t].todo # <<>>
      /\ call[t].todo \in Seq(BlocksOf(StepsOf(processor)))
  BY Constants DEF TypeInv, CallsIn, Idle
<1>3. Block(t) \in BlocksOf(StepsOf(processor)) /\ Step(t) \in StepsOf(processor)
  BY <1>1, TodoTypes DEF Block, Step
<1>4. Block(t).ok \in Marks /\ Block(t).bad \in Marks
  BY <1>3 DEF BlocksOf
<1>5. Left(t, <<>>) /\ Left(t, Tail(call[t].todo))
  BY <1>1, TodoTypes DEF Left, MildIn
<1>6. Len(Block(t).steps) > 1 => Left(t, [call[t].todo EXCEPT ![1].steps = Tail(@)])
  BY <1>1, TodoTypes DEF Left, Block, MildIn
<1>7. \A step \in StepsOf(processor) :
        (MildIn(t) /\ "enable" \notin out => step \in Mild(processor))
          => Left(t, [call[t].todo EXCEPT ![1].steps[1] = step])
  BY <1>1, TodoTypes DEF Left, MildIn
<1>8. MildIn(t) => Step(t) \in Mild(processor)
  BY <1>1, TodoTypes DEF Block, Step, MildIn
<1> QED BY <1>3, <1>4, <1>5, <1>6, <1>7, <1>8

LEMMA LeaveType ==
    ASSUME TypeInv, UNCHANGED processor, NEW t \in Threads, ~Idle(t),
           NEW outcome, NEW status \in Marks, Leave(t, outcome, status)
    PROVE  CallsOK' /\ StaysMild
<1> DEFINE now == IF status = Keep THEN st ELSE status
           todo == IF outcome \in Block(t).last THEN <<>>
                   ELSE Entered(Tail(call[t].todo), now)
<1>1. now \in OpdNodeStates
  BY DEF TypeInv, Marks
<1>2. Left(t, todo)
  BY BlockTypes DEF Entered
<1>3. Continue(t, todo, now)
  BY DEF Leave
<1> HIDE DEF now, todo
<1> QED BY <1>1, <1>2, <1>3, ContinueType

LEMMA SucceedType ==
    ASSUME TypeInv, UNCHANGED processor, NEW t \in Threads, ~Idle(t), Succeed(t)
    PROVE  CallsOK' /\ StaysMild
<1>1. CASE Len(Block(t).steps) > 1
  <2> DEFINE todo == [call[t].todo EXCEPT ![1].steps = Tail(@)]
  <2>1. Left(t, todo) /\ Continue(t, todo, st) /\ st \in OpdNodeStates
    BY <1>1, BlockTypes DEF Succeed, TypeInv
  <2> HIDE DEF todo
  <2> QED BY <2>1, ContinueType
<1>2. CASE ~(Len(Block(t).steps) > 1)
  <2>1. Leave(t, "done", Block(t).ok) /\ Block(t).ok \in Marks
    BY <1>2, BlockTypes DEF Succeed
  <2> QED BY <2>1, LeaveType
<1> QED BY <1>1, <1>2

LEMMA FailType ==
    ASSUME TypeInv, UNCHANGED processor, NEW t \in Threads, ~Idle(t), Fail(t)
    PROVE  CallsOK' /\ StaysMild
<1> DEFINE status == IF Step(t).do = "enabled" /\ st = "NOT_FOUND" THEN Keep
                     ELSE Block(t).bad
<1>1. status \in Marks /\ Leave(t, "failed", status)
  BY BlockTypes DEF Fail, Marks
<1> HIDE DEF status
<1> QED BY <1>1, LeaveType

LEMMA ReadsType ==
    ASSUME TypeInv, UNCHANGED processor, NEW t \in Threads, ~Idle(t), Reads(t)
    PROVE  CallsOK' /\ StaysMild /\ UNCHANGED chip
<1> DEFINE value == IF Step(t).do = "set" THEN out \cup Step(t).on ELSE out \ Step(t).on
           todo == [call[t].todo EXCEPT ![1].steps[1] = Output(value)]
<1>1. Continue(t, todo, st) /\ UNCHANGED chip /\ st \in OpdNodeStates
  BY DEF Reads, TypeInv
<1>2. value \in SUBSET Pins /\ processor \in Processors
  BY BlockTypes, Constants DEF StepsOf, Steps, TypeInv, ChipOK
<1>3. MildIn(t) /\ "enable" \notin out => "enable" \notin value
  BY BlockTypes DEF Mild
<1>4. Left(t, todo)
  <2>1. Output(value) \in StepsOf(processor)
    BY <1>2, StepTypes
  <2>2. MildIn(t) /\ "enable" \notin out => Output(value) \in Mild(processor)
    BY <1>2, <1>3, StepTypes
  <2> HIDE DEF value
  <2> QED BY <2>1, <2>2, BlockTypes
<1> HIDE DEF todo
<1> QED BY <1>1, <1>4, ContinueType

LEMMA WritesType ==
    ASSUME TypeInv, UNCHANGED processor, NEW t \in Threads, ~Idle(t), Writes(t)
    PROVE  /\ CallsOK' /\ StaysMild /\ ChipOK'
           /\ MildIn(t) /\ "enable" \notin out => "enable" \notin out'
<1>1. Step(t) \in StepsOf(processor) /\ (MildIn(t) => Step(t) \in Mild(processor))
  BY BlockTypes
<1>2. CallsOK' /\ StaysMild
  BY SucceedType DEF Writes
<1>3. ChipOK'
  BY <1>1 DEF Writes, TypeInv, ChipOK, StepsOf, Steps
<1>4. MildIn(t) /\ "enable" \notin out => "enable" \notin out'
  BY <1>1 DEF Writes, Mild
<1> QED BY <1>2, <1>3, <1>4

LEMMA TestsType ==
    ASSUME TypeInv, UNCHANGED processor, NEW t \in Threads, ~Idle(t), Tests(t)
    PROVE  CallsOK' /\ StaysMild /\ UNCHANGED chip
<1>1. UNCHANGED chip /\ st \in OpdNodeStates /\ processor \in Processors
  BY Constants DEF Tests, TypeInv
<1>2. CASE ProbeFinds(t)
  <2> DEFINE reset == call[t].op = "rescan"
             todo == Found(processor, st, reset)
             status == IF todo = <<>> THEN "DISABLED" ELSE st
  <2>1. todo \in Seq(BlocksOf(Mild(processor)))
    BY <1>1, FoundType
  <2>2. Seq(BlocksOf(Mild(processor))) \subseteq Seq(BlocksOf(StepsOf(processor)))
    BY <1>1, MildLeft
  <2>3. Left(t, todo)
    BY <2>1, <2>2 DEF Left
  <2>4. status \in OpdNodeStates
    BY <1>1 DEF OpdNodeStates
  <2>5. Continue(t, todo, status)
    BY <1>2 DEF ProbeFinds
  <2> HIDE DEF todo, status
  <2> QED BY <1>1, <2>3, <2>4, <2>5, ContinueType
<1>3. CASE Continue(t, <<>>, st)
  BY <1>1, <1>3, BlockTypes, ContinueType
<1> QED BY <1>1, <1>2, <1>3, SucceedType, FailType DEF Tests

\* An access, whichever it is.
LEMMA AccessType ==
    ASSUME TypeInv, NEW t \in Threads, Access(t)
    PROVE  /\ TypeInv' /\ StaysMild
           /\ MildIn(t) /\ "enable" \notin out => "enable" \notin out'
<1>1. ~Idle(t) /\ UNCHANGED <<processor, upsets>>
  BY DEF Access
<1>2. CallsOK' /\ StaysMild /\ ChipOK'
      /\ (MildIn(t) /\ "enable" \notin out => "enable" \notin out')
  <2>1. UNCHANGED chip => ChipOK' /\ out' = out
    BY <1>1 DEF chip, ChipOK, TypeInv
  <2>2. CASE Reads(t)
    BY <1>1, <2>1, <2>2, ReadsType
  <2>3. CASE Writes(t)
    BY <1>1, <2>3, WritesType
  <2>4. CASE Tests(t)
    BY <1>1, <2>1, <2>4, TestsType
  <2>5. CASE Fail(t) /\ UNCHANGED chip
    BY <1>1, <2>1, <2>5, FailType
  <2> QED BY <2>2, <2>3, <2>4, <2>5 DEF Access
<1>3. HistoryOK'
  <2>1. known' \in BOOLEAN
    BY DEF Access, TypeInv, HistoryOK
  <2>2. mixed' \in SUBSET Threads /\ upset' \in SUBSET Threads /\ before' \in Cards
    BY ViewType DEF Access, TypeInv, HistoryOK
  <2>3. cut' \in {"no", "mixed", "alone"}
    BY DEF Access, TypeInv, HistoryOK
  <2> QED BY <2>1, <2>2, <2>3 DEF HistoryOK
<1> QED BY <1>1, <1>2, <1>3 DEF TypeInv, CallsOK

LEMMA BeginType ==
    ASSUME TypeInv, NEW t \in Threads, NEW op \in Calls, Begin(t, op)
    PROVE  /\ TypeInv'
           /\ call' = [call EXCEPT ![t] = [op |-> op, todo |-> Body(processor, op)]]
           /\ Body(processor, op) # <<>>
<1> DEFINE blocks == Entered(Body(processor, op), st)
<1>1. processor \in Processors
  BY Constants DEF TypeInv
<1>2. /\ UNCHANGED <<processor, chip, st, upsets, upset>> /\ blocks # <<>>
      /\ call' = [call EXCEPT ![t] = [op |-> op, todo |-> blocks]]
  BY DEF Begin
<1>3. blocks = Body(processor, op)
  BY <1>2 DEF Entered
<1>4. blocks \in Seq(BlocksOf(StepsOf(processor)))
  BY <1>1, <1>3, BodyType
<1>5. call' \in [Threads -> CallsIn(processor)]
  BY <1>2, <1>4 DEF TypeInv, CallsIn
<1>6. HistoryOK'
  BY <1>2, ViewType DEF Begin, TypeInv, HistoryOK
<1>7. ChipOK'
  BY <1>2 DEF chip, ChipOK, TypeInv
<1> QED BY <1>2, <1>3, <1>5, <1>6, <1>7 DEF TypeInv

\* What happens to the chip between two accesses.
LEMMA HappensType ==
    ASSUME TypeInv, Upset \/ Return
    PROVE  /\ TypeInv' /\ UNCHANGED <<processor, st, call, mixed, before, cut>>
           /\ \/ out' = out /\ inputs' = inputs
              \/ out' = {} /\ inputs' = Pins
<1>1. Happens /\ UNCHANGED <<processor, st, call, mixed, before, cut>>
  BY DEF Upset, Return, Happens
<1>2. upsets' \in 0..MaxUpsets
  BY Constants DEF Upset, Return, TypeInv
<1>3. /\ ChipOK'
      /\ \/ out' = out /\ inputs' = inputs
         \/ out' = {} /\ inputs' = Pins
  BY <1>1 DEF Upset, Return, TypeInv, ChipOK, Modes
<1>4. HistoryOK'
  BY <1>1 DEF Happens, TypeInv, HistoryOK
<1> QED BY <1>1, <1>2, <1>3, <1>4 DEF TypeInv

LEMMA StepTyped == TypeInv /\ [Next]_vars => TypeInv'
<1> SUFFICES ASSUME TypeInv, [Next]_vars PROVE TypeInv'
  OBVIOUS
<1>1. ASSUME NEW t \in Threads, NEW op \in Calls, Begin(t, op) PROVE TypeInv'
  BY <1>1, BeginType
<1>2. ASSUME NEW t \in Threads, Access(t) PROVE TypeInv'
  BY <1>2, AccessType
<1>3. CASE UNCHANGED vars
  BY <1>3 DEF vars, chip, history, TypeInv, ChipOK, HistoryOK
<1> QED BY <1>1, <1>2, <1>3, HappensType DEF Next

LEMMA TypeInvTypes == TypeInv => TypeOK
<1> SUFFICES ASSUME TypeInv PROVE TypeOK
  OBVIOUS
<1>1. processor \in Processors /\ inputs \subseteq Pins
  BY Constants DEF TypeInv, ChipOK, Modes, On, Off, Pins
<1>2. ASSUME NEW t \in Threads, NEW i \in DOMAIN call[t].todo
      PROVE  /\ call[t].todo[i].steps # <<>>
             /\ \A j \in DOMAIN call[t].todo[i].steps :
                  LET step == call[t].todo[i].steps[j]
                  IN  step.do \in StepKinds /\ step.on \subseteq Pins
  <2> DEFINE steps == call[t].todo[i].steps
  <2>1. call[t].todo \in Seq(BlocksOf(StepsOf(processor)))
    BY DEF TypeInv, CallsIn
  <2>2. call[t].todo[i] \in BlocksOf(StepsOf(processor))
    BY <2>1
  <2>3. steps \in Seq(StepsOf(processor)) \ {<<>>}
    BY <2>2 DEF BlocksOf
  <2>4. \A j \in DOMAIN steps : steps[j] \in StepsOf(processor)
    BY <2>3
  <2> QED BY <2>3, <2>4 DEF StepsOf, Steps
<1>3. \A t \in Threads : call[t].op \in Calls
  BY DEF TypeInv, CallsIn
<1> QED BY <1>1, <1>2, <1>3 DEF TypeInv, ChipOK, HistoryOK, TypeOK

\* Whatever the calls and however their accesses interleave, every variable keeps its
\* type, and the configuration register holds its default or the inputs of one of the
\* modes of the card's class: the program never leaves it half configured.
THEOREM Typing == Spec => [](TypeOK /\ inputs \in Modes(processor))
<1>1. TypeInv => inputs \in Modes(processor)
  BY DEF TypeInv, ChipOK
<1> QED BY <1>1, InitType, StepTyped, TypeInvTypes, PTL DEF Spec
-----------------------------------------------------------------------------
(* Calls that overlap. *)

\* A thread without a call has left its last one; two calls in progress have both
\* overlapped another.
Resting == \A t \in Threads : Idle(t) => call[t] = NoCall
Overlaps == \A t \in Threads, s \in Threads :
    t # s /\ ~Idle(t) /\ ~Idle(s) => t \in mixed
ThreadsInv == TypeInv /\ Resting /\ Overlaps

\* An access touches the call of its own thread only.
LEMMA AccessOwn ==
    ASSUME TypeInv, NEW t \in Threads, Access(t)
    PROVE  /\ \A s \in Threads \ {t} : call'[s] = call[s]
           /\ call'[t].todo = <<>> => call'[t] = NoCall
           /\ call'[t].todo # <<>> => call'[t].op = call[t].op
<1>1. call \in [Threads -> CallsIn(processor)] /\ call[t] \in CallsIn(processor)
  BY DEF TypeInv
<1>2. ASSUME NEW todo, NEW status, Continue(t, todo, status)
      PROVE  /\ \A s \in Threads \ {t} : call'[s] = call[s]
             /\ call'[t].todo = <<>> => call'[t] = NoCall
             /\ call'[t].todo # <<>> => call'[t].op = call[t].op
  BY <1>1, <1>2, NoCallType DEF Continue, CallsIn
<1>3. \E todo, status : Continue(t, todo, status)
  <2>1. ASSUME NEW outcome, NEW status, Leave(t, outcome, status) PROVE <1>3
    BY <2>1 DEF Leave
  <2>2. CASE Succeed(t)
    BY <2>1, <2>2 DEF Succeed
  <2>3. CASE Fail(t)
    BY <2>1, <2>3 DEF Fail
  <2>4. CASE Reads(t)
    BY <2>4 DEF Reads
  <2>5. CASE Writes(t)
    BY <2>2, <2>5 DEF Writes
  <2>6. CASE Tests(t)
    BY <2>2, <2>3, <2>6 DEF Tests, ProbeFinds
  <2> QED BY <2>3, <2>4, <2>5, <2>6 DEF Access
<1> QED BY <1>2, <1>3

LEMMA ThreadsStep == ThreadsInv /\ [Next]_vars => ThreadsInv'
<1> SUFFICES ASSUME ThreadsInv, [Next]_vars PROVE (Resting /\ Overlaps)'
  BY StepTyped DEF ThreadsInv
<1> USE DEF Idle
<1>1. TypeInv /\ call \in [Threads -> CallsIn(processor)]
  BY DEF ThreadsInv, TypeInv
<1>2. ASSUME NEW t \in Threads, NEW op \in Calls, Begin(t, op)
      PROVE  (Resting /\ Overlaps)'
  <2>1. \A s \in Threads \ {t} : call'[s] = call[s]
    BY <1>1, <1>2, BeginType
  <2>2. call'[t].todo # <<>>
    BY <1>1, <1>2, BeginType
  <2>3. mixed' = IF Busy THEN Threads ELSE {}
    BY <1>2 DEF Begin
  <2>4. Resting'
    BY <2>1, <2>2 DEF ThreadsInv, Resting
  <2>5. ASSUME NEW r \in Threads, NEW s \in Threads, r # s, ~Idle(r)', ~Idle(s)'
        PROVE  r \in mixed'
    <3>1. PICK u \in {r, s} : u # t
      BY <2>5
    <3>2. ~Idle(u)
      BY <2>1, <2>5, <3>1
    <3> QED BY <2>3, <3>2 DEF Busy
  <2> QED BY <2>4, <2>5 DEF Overlaps
<1>3. ASSUME NEW t \in Threads, Access(t) PROVE (Resting /\ Overlaps)'
  <2>1. /\ \A s \in Threads \ {t} : call'[s] = call[s]
        /\ call'[t].todo = <<>> => call'[t] = NoCall
    BY <1>1, <1>3, AccessOwn
  <2>2. /\ ~Idle(t)
        /\ \/ mixed' = mixed
           \/ call'[t].todo = <<>> /\ mixed' = mixed \ {t}
    BY <1>3 DEF Access, Ends
  <2>3. Resting'
    BY <2>1 DEF ThreadsInv, Resting
  <2>4. ASSUME NEW r \in Threads, NEW s \in Threads, r # s, ~Idle(r)', ~Idle(s)'
        PROVE  r \in mixed'
    <3>1. ~Idle(r) /\ ~Idle(s)
      BY <2>1, <2>2, <2>4
    <3> QED BY <2>2, <2>4, <3>1 DEF ThreadsInv, Overlaps
  <2> QED BY <2>3, <2>4 DEF Overlaps
<1>4. CASE Upset \/ Return
  BY <1>1, <1>4, HappensType DEF ThreadsInv, Resting, Overlaps
<1>5. CASE UNCHANGED vars
  BY <1>5 DEF vars, history, ThreadsInv, Resting, Overlaps
<1> QED BY <1>2, <1>3, <1>4, <1>5 DEF Next

LEMMA ThreadsInit == Init => ThreadsInv
<1> SUFFICES ASSUME Init PROVE Resting /\ Overlaps
  BY InitType DEF ThreadsInv
<1> QED BY NoCallType DEF Init, Resting, Overlaps, Idle
-----------------------------------------------------------------------------
(* An access of a block that only writes, as the straps and the blocks that power *)
(* the card and take the power away do.                                           *)
WriteKinds == {"set", "clear", "output", "configuration", "other"}
Writing(class) == {s \in StepsOf(class) : s.do \in WriteKinds}

Settle(status) == IF status = Keep THEN st ELSE status
After(t, outcome, status) ==
    /\ st' = Settle(status)
    /\ call'[t].todo = IF outcome \in Block(t).last THEN <<>>
                       ELSE Entered(Tail(call[t].todo), Settle(status))
Value(t) == IF Step(t).do = "set" THEN out \cup Step(t).on ELSE out \ Step(t).on
Advances(t) ==
    IF Len(Block(t).steps) > 1
    THEN call'[t].todo = [call[t].todo EXCEPT ![1].steps = Tail(@)] /\ st' = st
    ELSE After(t, "done", Block(t).ok)
Failed(t) == ~present /\ After(t, "failed", Block(t).bad) /\ UNCHANGED chip
HasRead(t) ==
    /\ present /\ Step(t).do \in {"set", "clear"}
    /\ call'[t].todo = [call[t].todo EXCEPT ![1].steps[1] = Output(Value(t))]
    /\ st' = st /\ UNCHANGED chip
HasWritten(t) ==
    /\ present /\ present' = present
    /\ \/ Step(t).do = "output" /\ out' = Step(t).on /\ inputs' = inputs
       \/ Step(t).do = "configuration" /\ inputs' = Step(t).on /\ out' = out
       \/ Step(t).do = "other" /\ inputs' = inputs /\ out' = out
    /\ \/ tripped' = tripped
       \/ "cbReset" \in out \ out' /\ tripped' = FALSE
    /\ Advances(t)

LEMMA Movements ==
    ASSUME TypeInv, NEW t \in Threads
    PROVE  /\ \A todo, status : Continue(t, todo, status)
                => call'[t].todo = todo /\ st' = status
           /\ \A outcome, status : Leave(t, outcome, status) => After(t, outcome, status)
           /\ Succeed(t) => Advances(t)
<1>1. call \in [Threads -> CallsIn(processor)] /\ call[t] \in CallsIn(processor)
  BY DEF TypeInv
<1>2. ASSUME NEW todo, NEW status, Continue(t, todo, status)
      PROVE  call'[t].todo = todo /\ st' = status
  BY <1>1, <1>2, NoCallType DEF Continue, CallsIn
<1>3. ASSUME NEW outcome, NEW status, Leave(t, outcome, status)
      PROVE  After(t, outcome, status)
  <2> DEFINE todo == IF outcome \in Block(t).last THEN <<>>
                     ELSE Entered(Tail(call[t].todo), Settle(status))
  <2>1. Continue(t, todo, Settle(status))
    BY <1>3 DEF Leave, Settle
  <2>2. call'[t].todo = todo /\ st' = Settle(status)
    <3> HIDE DEF todo
    <3> QED BY <1>2, <2>1
  <2> QED BY <2>2 DEF After
<1>4. Succeed(t) => Advances(t)
  <2>1. CASE Len(Block(t).steps) > 1
    <3>1. Succeed(t) => Continue(t, [call[t].todo EXCEPT ![1].steps = Tail(@)], st)
      BY <2>1 DEF Succeed
    <3> QED BY <1>2, <2>1, <3>1 DEF Advances
  <2>2. CASE ~(Len(Block(t).steps) > 1)
    BY <1>3, <2>2 DEF Succeed, Advances
  <2> QED BY <2>1, <2>2
<1> QED BY <1>2, <1>3, <1>4

LEMMA WriteAccess ==
    ASSUME TypeInv, NEW t \in Threads, Access(t), Step(t).do \in WriteKinds
    PROVE  Failed(t) \/ HasRead(t) \/ HasWritten(t)
<1>1. CASE ~present /\ Fail(t) /\ UNCHANGED chip
  <2>1. Leave(t, "failed", Block(t).bad)
    BY <1>1 DEF Fail, WriteKinds
  <2> QED BY <1>1, <2>1, Movements DEF Failed
<1>2. CASE present /\ Reads(t)
  <2>1. /\ Step(t).do \in {"set", "clear"} /\ UNCHANGED chip
        /\ Continue(t, [call[t].todo EXCEPT ![1].steps[1] = Output(Value(t))], st)
    BY <1>2 DEF Reads, Value
  <2> QED BY <1>2, <2>1, Movements DEF HasRead
<1>3. CASE present /\ Writes(t)
  <2>1. /\ present /\ present' = present
        /\ \/ Step(t).do = "output" /\ out' = Step(t).on /\ inputs' = inputs
           \/ Step(t).do = "configuration" /\ inputs' = Step(t).on /\ out' = out
           \/ Step(t).do = "other" /\ inputs' = inputs /\ out' = out
        /\ \/ tripped' = tripped
           \/ "cbReset" \in out \ out' /\ tripped' = FALSE
    BY <1>3 DEF Writes
  <2>2. Advances(t)
    BY <1>3, Movements DEF Writes
  <2> QED BY <2>1, <2>2 DEF HasWritten
<1>4. ~Tests(t)
  BY DEF Tests, WriteKinds
<1> QED BY <1>1, <1>2, <1>3, <1>4 DEF Access

\* Sequences of one and of two blocks, and of one and of two steps.
LEMMA Blocks ==
    ASSUME NEW b, NEW c
    PROVE  /\ Head(<<b>>) = b /\ Tail(<<b>>) = <<>> /\ <<b>> # <<>> /\ <<b>>[1] = b
           /\ Head(<<b, c>>) = b /\ Tail(<<b, c>>) = <<c>> /\ <<b, c>> # <<>>
           /\ <<b, c>>[1] = b
           /\ \A d : /\ [<<b>> EXCEPT ![1] = d] = <<d>>
                     /\ [<<b, c>> EXCEPT ![1] = d] = <<d, c>>
           /\ Len(<<b>>) = 1 /\ Len(<<b, c>>) = 2
OBVIOUS

LEMMA Pair ==
    ASSUME NEW B, NEW b \in B, NEW c \in B
    PROVE  <<b>> \o <<c>> = <<b, c>> /\ <<>> \o <<c>> = <<c>>
<1>1. /\ <<b>> \in Seq(B) /\ <<c>> \in Seq(B) /\ <<b, c>> \in Seq(B)
      /\ Len(<<b>>) = 1 /\ Len(<<c>>) = 1 /\ Len(<<b, c>>) = 2
      /\ <<b>>[1] = b /\ <<c>>[1] = c /\ <<b, c>>[1] = b /\ <<b, c>>[2] = c
  OBVIOUS
<1>2. ASSUME NEW s \in Seq(B), NEW r \in Seq(B), Len(s) = 1, Len(r) = 1
      PROVE  /\ s \o r \in Seq(B) /\ Len(s \o r) = 2
             /\ (s \o r)[1] = s[1] /\ (s \o r)[2] = r[1]
  BY <1>2, ConcatProperties
<1>3. ASSUME NEW s \in Seq(B), NEW r \in Seq(B),
             Len(s) = 2, Len(r) = 2, s[1] = r[1], s[2] = r[2]
      PROVE  s = r
  <2>1. \A i \in 1..Len(s) : s[i] = r[i]
    BY <1>3
  <2> QED BY <1>3, <2>1, SeqEqual
<1> DEFINE s == <<b>> \o <<c>>
<1>4. s \in Seq(B) /\ Len(s) = 2 /\ s[1] = b /\ s[2] = c
  BY <1>1, <1>2
<1> HIDE DEF s
<1>5. s = <<b, c>>
  BY <1>1, <1>3, <1>4
<1>6. <<>> \o <<c>> = <<c>>
  BY <1>1, ConcatEmptySeq
<1> QED BY <1>5, <1>6 DEF s

LEMMA StepsWithin ==
    ASSUME NEW b, NEW c
    PROVE  /\ \A steps :
                /\ [<<b>> EXCEPT ![1].steps = steps] = <<[b EXCEPT !.steps = steps]>>
                /\ [<<b, c>> EXCEPT ![1].steps = steps] = <<[b EXCEPT !.steps = steps], c>>
           /\ \A step :
                /\ [<<b>> EXCEPT ![1].steps[1] = step]
                   = <<[b EXCEPT !.steps = [b.steps EXCEPT ![1] = step]]>>
                /\ [<<b, c>> EXCEPT ![1].steps[1] = step]
                   = <<[b EXCEPT !.steps = [b.steps EXCEPT ![1] = step]], c>>
<1>1. <<b>>[1] = b /\ <<b, c>>[1] = b
  BY Blocks
<1>2. ASSUME NEW steps
      PROVE  /\ [<<b>> EXCEPT ![1].steps = steps] = <<[b EXCEPT !.steps = steps]>>
             /\ [<<b, c>> EXCEPT ![1].steps = steps] = <<[b EXCEPT !.steps = steps], c>>
  <2> DEFINE d == [b EXCEPT !.steps = steps]
  <2>1. /\ [<<b>> EXCEPT ![1].steps = steps] = [<<b>> EXCEPT ![1] = d]
        /\ [<<b, c>> EXCEPT ![1].steps = steps] = [<<b, c>> EXCEPT ![1] = d]
    BY <1>1
  <2> HIDE DEF d
  <2> QED BY <2>1, Blocks DEF d
<1>3. ASSUME NEW step
      PROVE  /\ [<<b>> EXCEPT ![1].steps[1] = step]
                = [<<b>> EXCEPT ![1].steps = [b.steps EXCEPT ![1] = step]]
             /\ [<<b, c>> EXCEPT ![1].steps[1] = step]
                = [<<b, c>> EXCEPT ![1].steps = [b.steps EXCEPT ![1] = step]]
  BY <1>1
<1> QED BY <1>2, <1>3
-----------------------------------------------------------------------------
(* disable: the straps, whatever becomes of them, and then the enable pin. *)
CutSteps == {Clear("enable")} \cup {Output(pins) : pins \in SUBSET (Pins \ {"enable"})}
CutBlocks(class) ==
    {b \in BlocksOf(Writing(class)) :
       /\ b.ok = "DISABLED" /\ b.bad = "FAULT" /\ b.last = {} /\ b.found = FALSE
       /\ \E step \in CutSteps : b.steps = <<step>>}
KeepBlocks(class) ==
    {b \in BlocksOf(Writing(class)) : b.ok = Keep /\ b.bad = Keep /\ b.last = {}}
Cutting(todo) ==
    \/ \E b \in CutBlocks(processor) : todo = <<b>>
    \/ \E b \in KeepBlocks(processor), c \in CutBlocks(processor) : todo = <<b, c>>

LEMMA WritingSteps ==
    ASSUME NEW class \in Processors
    PROVE  /\ \A pin \in Pins : Clear(pin) \in Writing(class) /\ Set(pin) \in Writing(class)
           /\ \A pins \in SUBSET Pins : Output(pins) \in Writing(class)
           /\ \A mode \in Modes(class) : Configuration(mode) \in Writing(class)
<1>1. /\ \A pin \in Pins : Clear(pin) \in StepsOf(class) /\ Set(pin) \in StepsOf(class)
      /\ \A pins \in SUBSET Pins : Output(pins) \in StepsOf(class)
      /\ \A mode \in Modes(class) : Configuration(mode) \in StepsOf(class)
  BY StepTypes
<1> QED BY <1>1 DEF Clear, Set, Output, Configuration, Writing, WriteKinds

LEMMA StrapsWrite ==
    ASSUME NEW class \in Processors \ {"none"}, NEW bootloader \in BOOLEAN
    PROVE  Straps(class, bootloader) \in Seq(Writing(class)) \ {<<>>}
<1>1. /\ Set("boot") \in Writing(class) /\ Clear("boot") \in Writing(class)
      /\ Configuration(On(class)) \in Writing(class)
      /\ Configuration(Off(class)) \in Writing(class)
  BY WritingSteps DEF Pins, Modes
<1>2. CASE class = "stm32"
  BY <1>1, <1>2 DEF Straps
<1>3. CASE class = "mcxn"
  BY <1>1, <1>3 DEF Straps
<1>4. CASE class = "octavo"
  BY <1>1, <1>4 DEF Straps
<1> QED BY <1>2, <1>3, <1>4 DEF Processors

LEMMA DisableBody ==
    ASSUME NEW class \in Processors, processor = class
    PROVE  Cutting(Body(class, "disable"))
<1> DEFINE b == Try(Straps(class, FALSE), Keep, Keep, {})
<1>1. Body(class, "disable") = (IF Rewrites(class) THEN <<b>> ELSE <<>>) \o <<Cuts>>
  BY DEF Body, DisableCall, Cuts, Calls, Powering
<1>2. Cuts \in CutBlocks(class)
  <2>1. Clear("enable") \in Writing(class) /\ Clear("enable") \in CutSteps
    BY WritingSteps DEF Pins, CutSteps
  <2>2. Cuts \in BlocksOf(Writing(class))
    BY <2>1, StepType DEF Cuts, Marks, OpdNodeStates
  <2> QED BY <2>1, <2>2 DEF CutBlocks, Cuts, Try
<1>3. ASSUME Rewrites(class) PROVE b \in KeepBlocks(class)
  <2>1. b \in BlocksOf(Writing(class))
    BY <1>3, StrapsWrite, TryType DEF Rewrites, Marks
  <2> QED BY <2>1 DEF KeepBlocks, Try
<1> HIDE DEF b
<1>4. CASE Rewrites(class)
  BY <1>1, <1>2, <1>3, <1>4, Pair DEF Cutting
<1>5. CASE ~Rewrites(class)
  BY <1>1, <1>2, <1>5, Pair DEF Cutting
<1> QED BY <1>4, <1>5

\* Its accesses take it from the straps to the enable pin, and it only answers
\* DISABLED once that is cleared.
LEMMA CuttingAccess ==
    ASSUME TypeInv, NEW t \in Threads, Access(t), Cutting(call[t].todo)
    PROVE  \/ Cutting(call'[t].todo)
           \/ call'[t].todo = <<>> /\ (st' = "DISABLED" => "enable" \notin out')
<1> DEFINE W == Writing(processor)
<1>1. \A pins \in SUBSET Pins : Output(pins) \in W
  BY WritingSteps, Constants DEF TypeInv
<1>2. \A b \in BlocksOf(W) : \A steps \in Seq(W) \ {<<>>} :
        /\ [b EXCEPT !.steps = steps] \in BlocksOf(W)
        /\ [b EXCEPT !.steps = steps].steps = steps
        /\ [b EXCEPT !.steps = steps].ok = b.ok /\ [b EXCEPT !.steps = steps].bad = b.bad
        /\ [b EXCEPT !.steps = steps].last = b.last
        /\ [b EXCEPT !.steps = steps].found = b.found
  BY DEF BlocksOf
<1>3. CASE \E b \in CutBlocks(processor) : call[t].todo = <<b>>
  <2> PICK b \in CutBlocks(processor) : call[t].todo = <<b>>
    BY <1>3
  <2>1. /\ b \in BlocksOf(W)
        /\ b.ok = "DISABLED" /\ b.bad = "FAULT" /\ b.last = {} /\ b.found = FALSE
    BY DEF CutBlocks
  <2> PICK step \in CutSteps : b.steps = <<step>>
    BY DEF CutBlocks
  <2>2. /\ Block(t) = b /\ Tail(call[t].todo) = <<>>
        /\ Step(t) = step /\ Len(b.steps) = 1
        /\ \A other : [b.steps EXCEPT ![1] = other] = <<other>>
        /\ \A other : [call[t].todo EXCEPT ![1].steps[1] = other]
                      = <<[b EXCEPT !.steps = [b.steps EXCEPT ![1] = other]]>>
    BY Blocks, StepsWithin DEF Block, Step
  <2>3. \/ step = Clear("enable") /\ step.do = "clear" /\ step.on = {"enable"}
        \/ \E pins \in SUBSET (Pins \ {"enable"}) :
             step = Output(pins) /\ step.do = "output" /\ step.on = pins
    BY DEF CutSteps, Clear, Output
  <2>4. Failed(t) \/ HasRead(t) \/ HasWritten(t)
    BY <2>2, <2>3, WriteAccess DEF WriteKinds
  <2>5. \A outcome, status : After(t, outcome, status) => call'[t].todo = <<>>
    BY <2>2 DEF After, Entered
  <2>6. CASE Failed(t)
    BY <2>1, <2>2, <2>5, <2>6 DEF Failed, After, Settle, Keep
  <2>7. CASE HasRead(t)
    <3>1. step.do = "clear" /\ step.on = {"enable"}
      BY <2>2, <2>3, <2>7 DEF HasRead
    <3>2. Value(t) \in SUBSET (Pins \ {"enable"})
      BY <2>2, <3>1 DEF Value, TypeInv, ChipOK
    <3> DEFINE now == Output(Value(t))
               c == [b EXCEPT !.steps = <<now>>]
    <3>3. now \in W /\ now \in CutSteps
      BY <1>1, <3>2 DEF CutSteps
    <3>4. call'[t].todo = <<c>>
      BY <2>2, <2>7 DEF HasRead
    <3>5. <<now>> \in Seq(W) \ {<<>>}
      <4> HIDE DEF now, W
      <4> QED BY <3>3
    <3>6. c \in CutBlocks(processor)
      <4>1. c \in BlocksOf(W) /\ c.steps = <<now>> /\ c.ok = b.ok /\ c.bad = b.bad
            /\ c.last = b.last /\ c.found = b.found
        <5> HIDE DEF now, W
        <5> QED BY <1>2, <2>1, <3>5
      <4> HIDE DEF c, now
      <4> QED BY <2>1, <3>3, <4>1 DEF CutBlocks
    <3> HIDE DEF c
    <3> QED BY <3>4, <3>6 DEF Cutting
  <2>8. CASE HasWritten(t)
    <3>1. "enable" \notin out'
      BY <2>2, <2>3, <2>8 DEF HasWritten, Advances
    <3>2. After(t, "done", Block(t).ok)
      <4>1. Len(Block(t).steps) = 1
        BY <2>2, Zenon
      <4>2. ~(Len(Block(t).steps) > 1)
        BY <4>1
      <4> QED BY <2>8, <4>2 DEF HasWritten, Advances
    <3> QED BY <2>5, <3>1, <3>2
  <2> QED BY <2>4, <2>6, <2>7, <2>8
<1>4. CASE \E b \in KeepBlocks(processor), c \in CutBlocks(processor) :
             call[t].todo = <<b, c>>
  <2> PICK b \in KeepBlocks(processor), c \in CutBlocks(processor) :
             call[t].todo = <<b, c>>
    BY <1>4
  <2>1. b \in BlocksOf(W) /\ b.ok = Keep /\ b.bad = Keep /\ b.last = {}
    BY DEF KeepBlocks
  <2>2. ASSUME NEW steps \in Seq(W) \ {<<>>}
        PROVE  Cutting(<<[b EXCEPT !.steps = steps], c>>)
    <3>1. [b EXCEPT !.steps = steps] \in KeepBlocks(processor)
      BY <1>2, <2>1 DEF KeepBlocks
    <3> QED BY <3>1 DEF Cutting
  <2>3. /\ Block(t) = b /\ Step(t) = Head(b.steps) /\ Tail(call[t].todo) = <<c>>
        /\ call[t].todo[1] = b
        /\ \A steps : [call[t].todo EXCEPT ![1].steps = steps]
                      = <<[b EXCEPT !.steps = steps], c>>
        /\ \A step : [call[t].todo EXCEPT ![1].steps[1] = step]
                     = <<[b EXCEPT !.steps = [b.steps EXCEPT ![1] = step]], c>>
    BY Blocks, StepsWithin DEF Block, Step
  <2>4. /\ b.steps \in Seq(W) \ {<<>>} /\ Head(b.steps) \in W
        /\ Len(b.steps) > 1 => Tail(b.steps) \in Seq(W) \ {<<>>}
        /\ \A step \in W : [b.steps EXCEPT ![1] = step] \in Seq(W) \ {<<>>}
    <3>1. b.steps \in Seq(W) \ {<<>>}
      BY <2>1 DEF BlocksOf
    <3> HIDE DEF W
    <3> QED BY <3>1, StepsLeft
  <2>5. Failed(t) \/ HasRead(t) \/ HasWritten(t)
    BY <2>3, <2>4, WriteAccess DEF Writing
  <2>6. Cutting(<<c>>) /\ Entered(<<c>>, st) = <<c>>
    BY Blocks DEF CutBlocks, Cutting, Entered
  <2>7. \A outcome : After(t, outcome, Keep) => Cutting(call'[t].todo)
    BY <2>1, <2>3, <2>6 DEF After, Settle
  <2>8. CASE Failed(t)
    BY <2>1, <2>3, <2>7, <2>8 DEF Failed
  <2>9. CASE HasRead(t)
    <3>1. Value(t) \in SUBSET Pins
      BY <2>3, <2>4 DEF Value, TypeInv, ChipOK, Writing, StepsOf, Steps
    <3>2. Output(Value(t)) \in W
      BY <1>1, <3>1
    <3>3. call'[t].todo
          = <<[b EXCEPT !.steps = [b.steps EXCEPT ![1] = Output(Value(t))]], c>>
      BY <2>3, <2>9 DEF HasRead
    <3> QED BY <2>2, <2>4, <3>2, <3>3
  <2>10. CASE HasWritten(t)
    <3>1. CASE Len(b.steps) > 1
      <4>1. call'[t].todo = [call[t].todo EXCEPT ![1].steps = Tail(call[t].todo[1].steps)]
        BY <2>3, <2>10, <3>1 DEF HasWritten, Advances
      <4>2. call'[t].todo = <<[b EXCEPT !.steps = Tail(b.steps)], c>>
        BY <2>3, <4>1
      <4> QED BY <2>2, <2>4, <3>1, <4>2
    <3>2. CASE ~(Len(b.steps) > 1)
      BY <2>1, <2>3, <2>7, <2>10, <3>2 DEF HasWritten, Advances
    <3> QED BY <3>1, <3>2
  <2> QED BY <2>5, <2>8, <2>9, <2>10
<1> QED BY <1>3, <1>4 DEF Cutting

\* Where each disable is.  Once one has answered without another call beside it, the
\* enable pin is not set, and no call in progress is going to set it.
Disabling == \A t \in Threads :
    ~Idle(t) /\ call[t].op = "disable" => Cutting(call[t].todo)
Quiet == cut = "alone" => "enable" \notin out /\ \A t \in Threads : MildIn(t)
CutInv == ThreadsInv /\ Disabling /\ Quiet

LEMMA CutInit == Init => CutInv
<1> SUFFICES ASSUME Init PROVE Disabling /\ Quiet
  BY ThreadsInit DEF CutInv
<1> QED BY NoCallType DEF Init, Disabling, Quiet, Idle

LEMMA CutStep == CutInv /\ [Next]_vars => CutInv'
<1> SUFFICES ASSUME CutInv, [Next]_vars PROVE (Disabling /\ Quiet)'
  BY ThreadsStep DEF CutInv
<1>1. TypeInv /\ ThreadsInv /\ call \in [Threads -> CallsIn(processor)]
      /\ processor \in Processors
  BY Constants DEF CutInv, ThreadsInv, TypeInv
<1>2. ASSUME NEW t \in Threads, NEW op \in Calls, Begin(t, op)
      PROVE  (Disabling /\ Quiet)'
  <2>1. /\ processor' = processor /\ out' = out
        /\ cut' = IF op \in Powering THEN "no" ELSE cut
    BY <1>2 DEF Begin, chip
  <2>2. /\ \A s \in Threads \ {t} : call'[s] = call[s]
        /\ call'[t].op = op /\ call'[t].todo = Body(processor, op)
    BY <1>1, <1>2, BeginType
  <2>3. Disabling'
    BY <1>1, <2>1, <2>2, DisableBody DEF CutInv, Disabling, Idle, Cutting
  <2>4. ASSUME cut' = "alone"
        PROVE  "enable" \notin out' /\ \A s \in Threads : MildIn(s)'
    <3>1. cut = "alone" /\ op \notin Powering
      BY <2>1, <2>4
    <3> QED BY <1>1, <2>1, <2>2, <3>1, BodyType DEF CutInv, Quiet, MildIn
  <2> QED BY <2>3, <2>4 DEF Quiet
<1>3. ASSUME NEW t \in Threads, Access(t) PROVE (Disabling /\ Quiet)'
  <2>1. /\ \A s \in Threads \ {t} : call'[s] = call[s]
        /\ call'[t].todo = <<>> => call'[t] = NoCall
        /\ call'[t].todo # <<>> => call'[t].op = call[t].op
    BY <1>1, <1>3, AccessOwn
  <2>2. processor' = processor /\ ~Idle(t)
    BY <1>3 DEF Access
  <2>3. ~Idle(t)' /\ call'[t].op = "disable" => Cutting(call'[t].todo)
    BY <1>1, <1>3, <2>1, <2>2, CuttingAccess DEF CutInv, Disabling, Idle
  <2>4. Disabling'
    BY <2>1, <2>2, <2>3 DEF CutInv, Disabling, Idle, Cutting
  <2>5. Quiet'
    <3>1. CASE cut' = cut
      BY <1>1, <1>3, <3>1, AccessType DEF CutInv, Quiet, StaysMild
    <3>2. CASE /\ Ends(t) /\ call[t].op = "disable" /\ st' = "DISABLED"
               /\ cut' = IF t \in mixed THEN "mixed" ELSE "alone"
      <4>1. "enable" \notin out'
        <5>1. Cutting(call[t].todo) /\ call'[t].todo = <<>>
          BY <2>2, <3>2 DEF CutInv, Disabling, Ends
        <5>2. ~Cutting(<<>>)
          BY Blocks DEF Cutting
        <5> QED BY <1>1, <1>3, <3>2, <5>1, <5>2, CuttingAccess
      <4>2. ASSUME cut' = "alone", NEW s \in Threads PROVE MildIn(s)'
        <5>1. t \notin mixed
          BY <3>2, <4>2
        <5>2. s # t => Idle(s)
          BY <1>1, <2>2, <5>1 DEF ThreadsInv, Overlaps
        <5>3. call'[s].todo = <<>>
          BY <2>1, <3>2, <5>2 DEF Idle, Ends
        <5> QED BY <5>3 DEF MildIn
      <4> QED BY <4>1, <4>2 DEF Quiet
    <3> QED BY <1>3, <3>1, <3>2 DEF Access
  <2> QED BY <2>4, <2>5
<1>4. CASE Upset \/ Return
  BY <1>1, <1>4, HappensType DEF CutInv, Disabling, Quiet, Idle, Cutting, MildIn
<1>5. CASE UNCHANGED vars
  BY <1>5 DEF vars, chip, history, CutInv, Disabling, Quiet, Idle, Cutting, MildIn
<1> QED BY <1>2, <1>3, <1>4, <1>5 DEF Next

\* A card whose disable answered DISABLED, with no other call beside it, stays without
\* power until someone enables it, whatever calls overlap then: none of them writes
\* back an output register it read while the enable pin was set.
THEOREM CutHolds == Spec => []CutStaysOff
<1>1. CutInv => CutStaysOff
  BY DEF CutInv, Quiet, CutStaysOff, Power
<1> QED BY <1>1, CutInit, CutStep, PTL DEF Spec
-----------------------------------------------------------------------------
(* enable: the straps, and then the enable pin. *)

\* Whether the boot pin is to be high, and whether the card would find it as asked if
\* the output register held the pins v.  With its defaults the MAX7310 drives no pin,
\* and the enable pin gives no power either.
High(op) == processor = "stm32" => op = "bootloader"
Ready(op, v) ==
    \/ inputs = Pins
    \/ High(op) /\ inputs = {} /\ "boot" \in v
    \/ ~High(op) /\ inputs = {"boot"} /\ "boot" \notin v

\* What the straps have left to do.
Raising(R) ==
    \/ R = <<Configuration({}), Set("boot")>>
    \/ inputs \in {Pins, {}} /\ R = <<Set("boot")>>
    \/ inputs \in {Pins, {}} /\ \E v \in SUBSET (Pins \ {"enable"}) :
                                   "boot" \in v /\ R = <<Output(v)>>
Lowering(R) ==
    \/ R = <<Clear("boot"), Configuration({"boot"})>>
    \/ \E v \in SUBSET (Pins \ {"enable"}) :
         "boot" \notin v /\ R = <<Output(v), Configuration({"boot"})>>
    \/ "boot" \notin out /\ R = <<Configuration({"boot"})>>
Phase(op, R) == IF High(op) THEN Raising(R) ELSE Lowering(R)

StrapBlocks(class) ==
    {b \in BlocksOf(Writing(class)) : b.ok = Keep /\ b.last = {"failed"}}
Strapping(op, todo) ==
    /\ "enable" \notin out
    /\ \/ \E b \in StrapBlocks(processor), c \in BlocksOf(Writing(processor)) :
            /\ todo = <<b, c>> /\ c.steps = <<Set("enable")>>
            /\ Phase(op, b.steps)
       \/ \E c \in BlocksOf(Writing(processor)) :
            todo = <<c>> /\ c.steps = <<Set("enable")>> /\ Ready(op, out)
       \/ \E c \in BlocksOf(Writing(processor)), v \in SUBSET Pins :
            todo = <<c>> /\ c.steps = <<Output(v)>> /\ Ready(op, v)

LEMMA StepParts ==
    /\ \A pin : Set(pin).do = "set" /\ Set(pin).on = {pin}
    /\ \A pin : Clear(pin).do = "clear" /\ Clear(pin).on = {pin}
    /\ \A pins : Output(pins).do = "output" /\ Output(pins).on = pins
    /\ \A pins : Configuration(pins).do = "configuration" /\ Configuration(pins).on = pins
BY DEF Set, Clear, Output, Configuration

\* The read of a set or a clear keeps to the straps.
LEMMA PhaseRead ==
    ASSUME NEW op, NEW R, Phase(op, R), out \in SUBSET Pins, "enable" \notin out,
           Head(R).do \in {"set", "clear"}, NEW value,
           value = IF Head(R).do = "set" THEN out \cup Head(R).on ELSE out \ Head(R).on
    PROVE  Phase(op, [R EXCEPT ![1] = Output(value)])
<1>1. CASE High(op)
  <2>1. R = <<Set("boot")>> /\ inputs \in {Pins, {}}
    BY <1>1, Blocks, StepParts DEF Phase, Raising
  <2>2. value = out \cup {"boot"}
    BY <2>1, Blocks, StepParts
  <2>3. value \in SUBSET (Pins \ {"enable"}) /\ "boot" \in value
    BY <2>2 DEF Pins
  <2>4. [R EXCEPT ![1] = Output(value)] = <<Output(value)>>
    BY <2>1, Blocks
  <2> QED BY <1>1, <2>1, <2>3, <2>4 DEF Phase, Raising
<1>2. CASE ~High(op)
  <2>1. R = <<Clear("boot"), Configuration({"boot"})>>
    BY <1>2, Blocks, StepParts DEF Phase, Lowering
  <2>2. value = out \ {"boot"}
    BY <2>1, Blocks, StepParts
  <2>3. value \in SUBSET (Pins \ {"enable"}) /\ "boot" \notin value
    BY <2>2
  <2>4. [R EXCEPT ![1] = Output(value)] = <<Output(value), Configuration({"boot"})>>
    BY <2>1, Blocks
  <2> QED BY <1>2, <2>3, <2>4 DEF Phase, Lowering
<1> QED BY <1>1, <1>2

\* A write brings them closer to their end, where the card is ready.
LEMMA PhaseWrite ==
    ASSUME NEW op, NEW R, Phase(op, R), "enable" \notin out, processor' = processor,
           \/ Head(R).do = "output" /\ out' = Head(R).on /\ inputs' = inputs
           \/ Head(R).do = "configuration" /\ inputs' = Head(R).on /\ out' = out
           \/ Head(R).do = "other" /\ inputs' = inputs /\ out' = out
    PROVE  /\ "enable" \notin out'
           /\ Len(R) > 1 => Phase(op, Tail(R))'
           /\ ~(Len(R) > 1) => Ready(op, out)'
<1>1. CASE High(op)
  <2>1. CASE R = <<Configuration({}), Set("boot")>>
    <3>1. /\ Len(R) = 2 /\ Tail(R) = <<Set("boot")>> /\ inputs' = {} /\ out' = out
      BY <2>1, Blocks, StepParts
    <3> QED BY <1>1, <3>1 DEF Phase, Raising, High
  <2>2. CASE R = <<Set("boot")>>
    BY <2>2, Blocks, StepParts
  <2>3. CASE inputs \in {Pins, {}} /\ \E v \in SUBSET (Pins \ {"enable"}) :
                                         "boot" \in v /\ R = <<Output(v)>>
    <3> PICK v \in SUBSET (Pins \ {"enable"}) : "boot" \in v /\ R = <<Output(v)>>
      BY <2>3
    <3>1. Len(R) = 1 /\ out' = v /\ inputs' = inputs
      BY Blocks, StepParts
    <3> QED BY <1>1, <2>3, <3>1 DEF Ready, High
  <2> QED BY <1>1, <2>1, <2>2, <2>3 DEF Phase, Raising
<1>2. CASE ~High(op)
  <2>1. CASE R = <<Clear("boot"), Configuration({"boot"})>>
    BY <2>1, Blocks, StepParts
  <2>2. CASE \E v \in SUBSET (Pins \ {"enable"}) :
               "boot" \notin v /\ R = <<Output(v), Configuration({"boot"})>>
    <3> PICK v \in SUBSET (Pins \ {"enable"}) :
               "boot" \notin v /\ R = <<Output(v), Configuration({"boot"})>>
      BY <2>2
    <3>1. /\ Len(R) = 2 /\ Tail(R) = <<Configuration({"boot"})>>
          /\ out' = v /\ inputs' = inputs
      BY Blocks, StepParts
    <3> QED BY <1>2, <3>1 DEF Phase, Lowering, High
  <2>3. CASE "boot" \notin out /\ R = <<Configuration({"boot"})>>
    <3>1. Len(R) = 1 /\ inputs' = {"boot"} /\ out' = out
      BY <2>3, Blocks, StepParts
    <3> QED BY <1>2, <2>3, <3>1 DEF Ready, High
  <2> QED BY <1>2, <2>1, <2>2, <2>3 DEF Phase, Lowering
<1> QED BY <1>1, <1>2

LEMMA EnableBody ==
    ASSUME TypeInv, processor # "none", "enable" \notin out, NEW op \in Powering,
           op = "bootloader" => processor = "stm32"
    PROVE  Strapping(op, Body(processor, op))
<1> DEFINE bootloader == op = "bootloader"
           b == Try(Straps(processor, bootloader), Keep, "FAULT", {"failed"})
           W == Writing(processor)
<1>1. processor \in Processors \ {"none"} /\ inputs \in Modes(processor)
  BY Constants DEF TypeInv, ChipOK
<1>2. bootloader \in BOOLEAN
  OBVIOUS
<1>3. Body(processor, op) = <<b>> \o <<Powers>>
  BY DEF Body, EnableCall, Powers, Calls, Powering
<1>4. Powers \in BlocksOf(W) /\ Powers.steps = <<Set("enable")>>
  <2>1. Set("enable") \in W
    BY <1>1, WritingSteps DEF Pins
  <2>2. Powers \in BlocksOf(W)
    BY <2>1, StepType DEF Powers, Marks, OpdNodeStates, Outcomes
  <2> QED BY <2>2 DEF Powers, Try
<1>5. b \in StrapBlocks(processor) /\ b.steps = Straps(processor, bootloader)
  <2>1. b \in BlocksOf(W)
    BY <1>1, <1>2, StrapsWrite, TryType DEF Marks, OpdNodeStates, Outcomes
  <2> QED BY <2>1 DEF StrapBlocks, Try
<1>6. Phase(op, Straps(processor, bootloader))
  <2>1. CASE processor = "stm32" /\ bootloader
    BY <2>1 DEF Straps, On, Phase, Raising, High
  <2>2. CASE processor = "stm32" /\ ~bootloader
    BY <2>2 DEF Straps, Off, Phase, Lowering, High
  <2>3. CASE processor = "mcxn"
    BY <2>3 DEF Straps, Off, Phase, Raising, High
  <2>4. CASE processor = "octavo"
    BY <1>1, <2>4 DEF Straps, Modes, On, Off, Phase, Raising, High
  <2> QED BY <1>1, <2>1, <2>2, <2>3, <2>4 DEF Processors
<1> HIDE DEF b
<1>7. Body(processor, op) = <<b, Powers>>
  <2> DEFINE B == BlocksOf(W)
  <2>1. b \in B /\ Powers \in B
    BY <1>4, <1>5 DEF StrapBlocks
  <2> HIDE DEF B
  <2> QED BY <1>3, <2>1, Pair
<1> QED BY <1>4, <1>5, <1>6, <1>7 DEF Strapping

\* An access keeps a call to its straps and then its enable pin, and the one that
\* gives the card power finds its boot pin as asked.
LEMMA StrapAccess ==
    ASSUME TypeInv, NEW t \in Threads, Access(t), NEW op, Strapping(op, call[t].todo)
    PROVE  /\ \/ call'[t].todo = <<>>
              \/ \E todo : todo = call'[t].todo /\ Strapping(op, todo)'
           /\ ~Power /\ Power' => Strapped(op)
<1> DEFINE W == Writing(processor)
<1>1. /\ out \in SUBSET Pins /\ "enable" \notin out /\ processor' = processor
      /\ \A pins \in SUBSET Pins : Output(pins) \in W
  BY WritingSteps, Constants DEF TypeInv, ChipOK, Strapping, Access
<1>2. \A b \in BlocksOf(W) : \A steps \in Seq(W) \ {<<>>} :
        /\ [b EXCEPT !.steps = steps] \in BlocksOf(W)
        /\ [b EXCEPT !.steps = steps].steps = steps
        /\ [b EXCEPT !.steps = steps].ok = b.ok
        /\ [b EXCEPT !.steps = steps].last = b.last
  BY DEF BlocksOf
<1>3. UNCHANGED chip => "enable" \notin out' /\ ~Power'
  BY <1>1 DEF chip, Power
<1>4. CASE \E b \in StrapBlocks(processor), c \in BlocksOf(W) :
             /\ call[t].todo = <<b, c>> /\ c.steps = <<Set("enable")>>
             /\ Phase(op, b.steps)
  <2> PICK b \in StrapBlocks(processor), c \in BlocksOf(W) :
             /\ call[t].todo = <<b, c>> /\ c.steps = <<Set("enable")>>
             /\ Phase(op, b.steps)
    BY <1>4
  <2>1. b \in BlocksOf(W) /\ b.ok = Keep /\ b.last = {"failed"}
    BY DEF StrapBlocks
  <2>2. ASSUME NEW steps \in Seq(W) \ {<<>>}, Phase(op, steps)', "enable" \notin out'
        PROVE  Strapping(op, <<[b EXCEPT !.steps = steps], c>>)'
    <3> DEFINE d == [b EXCEPT !.steps = steps]
    <3>1. d \in StrapBlocks(processor) /\ d.steps = steps
      BY <1>2, <2>1 DEF StrapBlocks
    <3> HIDE DEF d
    <3>2. d \in StrapBlocks(processor') /\ c \in BlocksOf(Writing(processor'))
      BY <1>1, <3>1
    <3>3. Strapping(op, <<d, c>>)'
      BY <2>2, <3>1, <3>2 DEF Strapping
    <3> QED BY <3>3 DEF d
  <2>3. /\ Block(t) = b /\ Step(t) = Head(b.steps) /\ Tail(call[t].todo) = <<c>>
        /\ call[t].todo[1] = b
        /\ \A steps : [call[t].todo EXCEPT ![1].steps = steps]
                      = <<[b EXCEPT !.steps = steps], c>>
        /\ \A step : [call[t].todo EXCEPT ![1].steps[1] = step]
                     = <<[b EXCEPT !.steps = [b.steps EXCEPT ![1] = step]], c>>
    BY Blocks, StepsWithin DEF Block, Step
  <2>4. /\ b.steps \in Seq(W) \ {<<>>} /\ Head(b.steps) \in W
        /\ Len(b.steps) > 1 => Tail(b.steps) \in Seq(W) \ {<<>>}
        /\ \A step \in W : [b.steps EXCEPT ![1] = step] \in Seq(W) \ {<<>>}
    <3>1. b.steps \in Seq(W) \ {<<>>}
      BY <2>1 DEF BlocksOf
    <3> HIDE DEF W
    <3> QED BY <3>1, StepsLeft
  <2>5. Failed(t) \/ HasRead(t) \/ HasWritten(t)
    BY <2>3, <2>4, WriteAccess DEF Writing
  <2>6. CASE Failed(t)
    BY <1>3, <2>1, <2>3, <2>6 DEF Failed, After
  <2>7. CASE HasRead(t)
    <3>1. Value(t) \in SUBSET Pins
      BY <1>1, <2>3, <2>4 DEF Value, Writing, StepsOf, Steps
    <3> PICK value \in SUBSET Pins : value = Value(t)
      BY <3>1
    <3> DEFINE steps == [b.steps EXCEPT ![1] = Output(value)]
    <3>2. steps \in Seq(W) \ {<<>>}
      BY <1>1, <2>4
    <3>3. Phase(op, steps)
      <4>1. Head(b.steps).do \in {"set", "clear"}
        BY <2>3, <2>7 DEF HasRead
      <4>2. value = IF Head(b.steps).do = "set" THEN out \cup Head(b.steps).on
                    ELSE out \ Head(b.steps).on
        BY <2>3 DEF Value
      <4> QED BY <1>1, <4>1, <4>2, PhaseRead
    <3>4. UNCHANGED chip /\ call'[t].todo = <<[b EXCEPT !.steps = steps], c>>
      BY <2>3, <2>7 DEF HasRead
    <3> HIDE DEF steps
    <3>5. Phase(op, steps)'
      BY <1>1, <3>3, <3>4 DEF chip, Phase, Raising, Lowering, High
    <3> QED BY <1>3, <2>2, <3>2, <3>4, <3>5
  <2>8. CASE HasWritten(t)
    <3>1. /\ "enable" \notin out' /\ ~Power'
          /\ Len(b.steps) > 1 => Phase(op, Tail(b.steps))'
          /\ ~(Len(b.steps) > 1) => Ready(op, out)'
      <4>1. \/ Head(b.steps).do = "output" /\ out' = Head(b.steps).on /\ inputs' = inputs
            \/ /\ Head(b.steps).do = "configuration" /\ inputs' = Head(b.steps).on
               /\ out' = out
            \/ Head(b.steps).do = "other" /\ inputs' = inputs /\ out' = out
        BY <2>3, <2>8 DEF HasWritten, Advances
      <4> QED BY <1>1, <4>1, PhaseWrite DEF Power
    <3>2. CASE Len(b.steps) > 1
      <4>1. call'[t].todo = [call[t].todo EXCEPT ![1].steps = Tail(call[t].todo[1].steps)]
        BY <2>3, <2>8, <3>2 DEF HasWritten, Advances
      <4>2. call'[t].todo = <<[b EXCEPT !.steps = Tail(b.steps)], c>>
        BY <2>3, <4>1
      <4> QED BY <2>2, <2>4, <3>1, <3>2, <4>2
    <3>3. CASE ~(Len(b.steps) > 1)
      <4>1. After(t, "done", Keep)
        BY <2>1, <2>3, <2>8, <3>3 DEF HasWritten, Advances
      <4>2. call'[t].todo = <<>> \/ call'[t].todo = <<c>>
        BY <2>1, <2>3, <4>1 DEF After, Entered
      <4>3. Strapping(op, <<c>>)'
        BY <1>1, <3>1, <3>3 DEF Strapping
      <4> QED BY <3>1, <4>2, <4>3
    <3> QED BY <3>2, <3>3
  <2> QED BY <2>5, <2>6, <2>7, <2>8
<1>5. CASE \/ \E c \in BlocksOf(W) :
                call[t].todo = <<c>> /\ c.steps = <<Set("enable")>> /\ Ready(op, out)
           \/ \E c \in BlocksOf(W), v \in SUBSET Pins :
                call[t].todo = <<c>> /\ c.steps = <<Output(v)>> /\ Ready(op, v)
  <2> PICK c \in BlocksOf(W), step \in W :
         /\ call[t].todo = <<c>> /\ c.steps = <<step>>
         /\ \/ step = Set("enable") /\ Ready(op, out)
            \/ \E v \in SUBSET Pins : step = Output(v) /\ Ready(op, v)
    BY <1>1, <1>5, WritingSteps, Constants DEF Pins, TypeInv
  <2>1. /\ Block(t) = c /\ Step(t) = step /\ Tail(call[t].todo) = <<>>
        /\ Len(c.steps) = 1
        /\ \A other : [c.steps EXCEPT ![1] = other] = <<other>>
        /\ \A other : [call[t].todo EXCEPT ![1].steps[1] = other]
                      = <<[c EXCEPT !.steps = [c.steps EXCEPT ![1] = other]]>>
    BY Blocks, StepsWithin DEF Block, Step
  <2>2. Failed(t) \/ HasRead(t) \/ HasWritten(t)
    BY <2>1, WriteAccess DEF Writing
  <2>3. \A outcome, status : After(t, outcome, status) => call'[t].todo = <<>>
    BY <2>1 DEF After, Entered
  <2>4. CASE Failed(t)
    BY <1>3, <2>3, <2>4 DEF Failed
  <2>5. CASE HasRead(t)
    <3>1. step = Set("enable") /\ Ready(op, out)
      BY <2>1, <2>5, StepParts DEF HasRead
    <3>2. Value(t) = out \cup {"enable"} /\ Value(t) \in SUBSET Pins
      BY <1>1, <2>1, <3>1, StepParts DEF Value, Pins
    <3> PICK v \in SUBSET Pins : v = Value(t)
      BY <3>2
    <3> DEFINE d == [c EXCEPT !.steps = <<Output(v)>>]
    <3>3. v \in SUBSET Pins /\ Ready(op, v)
      BY <1>1, <3>1, <3>2 DEF Ready, Pins
    <3>4. UNCHANGED chip /\ call'[t].todo = <<d>>
      BY <2>1, <2>5 DEF HasRead
    <3>5. d \in BlocksOf(W) /\ d.steps = <<Output(v)>>
      <4>1. Output(v) \in W
        BY <1>1, <3>3
      <4>2. <<Output(v)>> \in Seq(W) \ {<<>>}
        <5> HIDE DEF W
        <5> QED BY <4>1
      <4> HIDE DEF W
      <4> QED BY <1>2, <4>2
    <3> HIDE DEF d
    <3>6. Ready(op, v)'
      BY <1>1, <3>3, <3>4 DEF chip, Ready, High
    <3>7. Strapping(op, <<d>>)'
      <4>1. d \in BlocksOf(Writing(processor')) /\ "enable" \notin out'
        BY <1>1, <1>3, <3>4, <3>5
      <4> QED BY <3>3, <3>5, <3>6, <4>1 DEF Strapping
    <3> QED BY <1>3, <3>4, <3>7
  <2>6. CASE HasWritten(t)
    <3> PICK v \in SUBSET Pins : step = Output(v) /\ Ready(op, v)
      BY <2>1, <2>6, StepParts DEF HasWritten, Advances
    <3>1. out' = v /\ inputs' = inputs
      BY <2>1, <2>6, StepParts DEF HasWritten, Advances
    <3>2. call'[t].todo = <<>>
      <4>1. Len(Block(t).steps) = 1
        BY <2>1, Zenon
      <4>2. ~(Len(Block(t).steps) > 1)
        BY <4>1
      <4> QED BY <2>3, <2>6, <4>2 DEF HasWritten, Advances
    <3>3. ASSUME Power' PROVE Strapped(op)
      <4>1. inputs # Pins
        BY <3>1, <3>3 DEF Power, Pins
      <4> QED BY <3>1, <4>1 DEF Ready, High, Strapped
    <3> QED BY <3>2, <3>3
  <2> QED BY <2>2, <2>4, <2>5, <2>6
<1> QED BY <1>4, <1>5 DEF Strapping

\* The call that powers the card, begun while the enable pin was not set and beside no
\* other call.
PowersAlone(t) ==
    /\ ~Idle(t) /\ call[t].op \in Powering /\ t \notin mixed
    /\ ~before.pin /\ processor # "none"
StrapInv == ThreadsInv /\ \A t \in Threads :
    PowersAlone(t) => Strapping(call[t].op, call[t].todo)

LEMMA StrapStep == StrapInv /\ [Next]_vars => StrapInv'
<1> SUFFICES ASSUME StrapInv, [Next]_vars, NEW t \in Threads, PowersAlone(t)'
             PROVE  Strapping(call[t].op, call[t].todo)'
  BY ThreadsStep DEF StrapInv
<1>1. /\ TypeInv /\ ThreadsInv
      /\ PowersAlone(t) => Strapping(call[t].op, call[t].todo)
  BY DEF StrapInv, ThreadsInv
<1>2. ASSUME NEW s \in Threads, NEW op \in Calls, Begin(s, op)
      PROVE  Strapping(call[t].op, call[t].todo)'
  <2>1. /\ UNCHANGED <<processor, out, inputs>> /\ Idle(s)
        /\ op = "bootloader" => processor = "stm32"
        /\ mixed' = IF Busy THEN Threads ELSE {}
        /\ before' = IF Busy THEN NoCard ELSE View
    BY <1>2 DEF Begin, chip
  <2>2. ~Busy
    BY <2>1 DEF PowersAlone
  <2>3. t = s
    <3>1. \A r \in Threads \ {s} : call'[r] = call[r]
      BY <1>1, <1>2, BeginType DEF TypeInv
    <3> QED BY <2>2, <3>1 DEF PowersAlone, Busy, Idle
  <2>4. call'[t].op = op /\ call'[t].todo = Body(processor, op)
    BY <1>1, <1>2, <2>3, BeginType DEF TypeInv
  <2>5. "enable" \notin out /\ op \in Powering /\ processor # "none"
    BY <2>1, <2>2, <2>4 DEF PowersAlone, View
  <2>6. Strapping(op, Body(processor, op))
    BY <1>1, <2>1, <2>5, EnableBody
  <2> PICK todo : todo = Body(processor, op)
    OBVIOUS
  <2>7. Strapping(op, todo)'
    BY <2>1, <2>6 DEF Strapping, Phase, Raising, Lowering, Ready, High
  <2> QED BY <2>4, <2>7 DEF Strapping, Phase, Ready, High
<1>3. ASSUME NEW s \in Threads, Access(s) PROVE Strapping(call[t].op, call[t].todo)'
  <2>1. /\ \A r \in Threads \ {s} : call'[r] = call[r]
        /\ call'[s].todo # <<>> => call'[s].op = call[s].op
    BY <1>1, <1>3, AccessOwn
  <2>2. /\ ~Idle(s) /\ processor' = processor
        /\ \/ mixed' = mixed /\ before' = before
           \/ call'[s].todo = <<>> /\ mixed' = mixed \ {s}
    BY <1>3 DEF Access, Ends
  <2>3. t = s
    BY <1>1, <2>1, <2>2 DEF PowersAlone, ThreadsInv, Overlaps, Idle
  <2>4. PowersAlone(t) /\ call'[t].op = call[t].op /\ call'[t].todo # <<>>
    BY <2>1, <2>2, <2>3 DEF PowersAlone, Idle
  <2> PICK op : op = call[t].op
    OBVIOUS
  <2>5. Strapping(op, call[t].todo)
    BY <1>1, <2>4
  <2> PICK todo : todo = call'[t].todo /\ Strapping(op, todo)'
    BY <1>1, <1>3, <2>3, <2>4, <2>5, StrapAccess
  <2>6. op = call'[t].op
    BY <2>4
  <2> QED BY <2>6 DEF Strapping, Phase, Ready, High
<1>4. CASE Upset \/ Return
  <2>1. /\ UNCHANGED <<processor, call, mixed, before>>
        /\ \/ out' = out /\ inputs' = inputs
           \/ out' = {} /\ inputs' = Pins
    BY <1>1, <1>4, HappensType
  <2>2. Strapping(call[t].op, call[t].todo)
    BY <1>1, <2>1 DEF PowersAlone, Idle
  <2> QED BY <2>1, <2>2 DEF Strapping, Phase, Raising, Lowering, Ready, High
<1>5. CASE UNCHANGED vars
  <2>1. UNCHANGED <<processor, call, mixed, before, out, inputs>>
    BY <1>5 DEF vars, chip, history
  <2>2. Strapping(call[t].op, call[t].todo)
    BY <1>1, <2>1 DEF PowersAlone, Idle
  <2> QED BY <2>1, <2>2 DEF Strapping, Phase, Raising, Lowering, Ready, High
<1> QED BY <1>2, <1>3, <1>4, <1>5 DEF Next

LEMMA StrapInit == Init => StrapInv
BY ThreadsInit, NoCallType DEF StrapInv, Init, PowersAlone, Idle

\* The property, for one step.
BootsAsked == \A t \in Threads :
    ~Idle(t) /\ call[t].op \in Powering /\ t \notin mixed /\ ~before.pin
      /\ ~Power /\ Power' => Strapped(call[t].op)

LEMMA StrapPowers == StrapInv /\ [Next]_vars => BootsAsked
<1> SUFFICES ASSUME StrapInv, [Next]_vars, NEW t \in Threads,
                    ~Idle(t), call[t].op \in Powering, t \notin mixed, ~before.pin,
                    ~Power, Power'
             PROVE  Strapped(call[t].op)
  BY DEF BootsAsked
<1>1. TypeInv /\ ThreadsInv /\ processor \in Processors
  BY Constants DEF StrapInv, ThreadsInv, TypeInv
<1>2. CASE processor = "none"
  BY <1>2 DEF Strapped
<1>3. CASE processor # "none"
  <2>1. Strapping(call[t].op, call[t].todo)
    BY <1>3 DEF StrapInv, PowersAlone
  <2>2. ASSUME NEW s \in Threads, NEW op \in Calls PROVE ~Begin(s, op)
    BY DEF Begin, chip, Power
  <2>3. ASSUME NEW s \in Threads, Access(s) PROVE Strapped(call[t].op)
    <3>1. s = t
      BY <1>1, <2>3 DEF Access, ThreadsInv, Overlaps
    <3> PICK op : op = call[t].op
      OBVIOUS
    <3> QED BY <1>1, <2>1, <2>3, <3>1, StrapAccess
  <2>4. ~(Upset \/ Return) /\ ~(UNCHANGED vars)
    BY <1>1, HappensType DEF Power, vars, chip
  <2> QED BY <2>2, <2>3, <2>4 DEF Next
<1> QED BY <1>2, <1>3

\* The step that gives a card power during an enable beside which there is no other
\* call, of a card whose enable pin was not set, finds the boot pin as the caller
\* asked, also when the chip was lost, found or browned out between two accesses.
THEOREM BootsRight == Spec => BootsAsAsked
<1>1. StrapInv /\ [Next]_vars => [BootsAsked]_vars
  BY StrapPowers
<1> QED BY <1>1, StrapInit, StrapStep, PTL DEF Spec, BootsAsAsked, BootsAsked
-----------------------------------------------------------------------------
(* One step.  What is left of a call comes to an Outcome of the registers  *)
(* and the status, which its accesses leave as it is as long as each       *)
(* succeeds and nothing comes between them.  No call of OpdNode has more   *)
(* than three blocks, and no block more than three accesses.               *)
Registers == [out |-> out, inputs |-> inputs, st |-> st]
Wrote(step, x) ==
    [out    |-> CASE step.do = "set"    -> x.out \cup step.on
                  [] step.do = "clear"  -> x.out \ step.on
                  [] step.do = "output" -> step.on
                  [] OTHER              -> x.out,
     inputs |-> IF step.do = "configuration" THEN step.on ELSE x.inputs,
     st     |-> x.st]
Did(steps, i, x) == IF i <= Len(steps) THEN Wrote(steps[i], x) ELSE x
Lead(steps, x) == Did(steps, 3, Did(steps, 2, Did(steps, 1, x)))
Leaving(x, status) ==
    [out |-> x.out, inputs |-> x.inputs, st |-> IF status = Keep THEN x.st ELSE status]
Ran(block, x) == Leaving(Lead(block.steps, x), block.ok)
RanNext(todo, i, x) ==
    IF i <= Len(todo) /\ ~(todo[i].found /\ x.st = "NOT_FOUND") THEN Ran(todo[i], x) ELSE x
Outcome(todo, x) == RanNext(todo, 3, RanNext(todo, 2, Ran(todo[1], x)))

\* A call that only writes: nothing but a failure ends it before its last block.
Flows(todo) ==
    /\ Len(todo) \in 1..3
    /\ \A i \in 1..Len(todo) : Len(todo[i].steps) \in 1..3
    /\ \A i \in 1..(Len(todo) - 1) : "done" \notin todo[i].last /\ ~todo[i].found

\* The accesses that leave the reset pin of the circuit breaker alone, and those that
\* do not depend on what the registers hold.
QuietSteps(class) ==
    {s \in Writing(class) : s.do \in {"set", "output"} => "cbReset" \notin s.on}
BlindSteps(class) == {s \in Writing(class) : s.do \notin {"set", "clear"}}

\* The card as the mapping shows it, if the registers are x.
Seen(x) ==
    [present |-> TRUE, pin |-> "enable" \in x.out,
     boot |-> processor = "stm32" /\ "boot" \in x.out, ready |-> "enable" \notin x.inputs,
     tripped |-> tripped, hung |-> FALSE, st |-> x.st]

\* Where a call can be while the registers are known: at the first access of a probe,
\* writing, in a pulse, reading the status, or without a chip that answers.
Asking == Try(<<Valid>>, Keep, "NOT_FOUND", {"failed"})
Starts(t) ==
    /\ present /\ View = before
    /\ call[t].op \in {"probe", "rescan"} /\ call[t].todo = <<Asking>>
Works(t) ==
    /\ present /\ call[t].todo \in Seq(BlocksOf(QuietSteps(processor)))
    /\ Flows(call[t].todo)
    /\ Seen(Outcome(call[t].todo, Registers)) \in Sequential!Results(before)

Rest(pins) == pins \ {"cbReset"}
Pulsing(steps, now) ==
    \/ steps = Attempt.steps /\ "cbReset" \notin now
    \/ \E pins \in SUBSET Pins : /\ steps = <<Output(pins), Clear("cbReset"), Fault>>
                                 /\ Rest(pins) = Rest(now)
    \/ steps = <<Clear("cbReset"), Fault>>
    \/ steps = <<Output(Rest(now)), Fault>>
    \/ steps = <<Fault>> /\ "cbReset" \notin now
Attempts(todo) ==
    \A i \in 1..Len(todo) :
      /\ i > 1 => todo[i].steps = Attempt.steps
      /\ todo[i].ok = "ENABLED" /\ todo[i].bad = "FAULT"
      /\ todo[i].last = {"done"} /\ ~todo[i].found
Turned(c, trip, status) == [c EXCEPT !.tripped = trip, !.hung = FALSE, !.st = status]
Pulses(t) ==
    /\ present /\ tripped \in {FALSE, before.tripped} /\ View = Turned(before, tripped, st)
    /\ call[t].todo # <<>> /\ Pulsing(call[t].todo[1].steps, out) /\ Attempts(call[t].todo)

Reports(t) ==
    /\ present /\ View = before /\ call[t].op = "status"
    /\ \/ call[t].todo = StatusCall
       \/ call[t].todo = <<StatusCall[2], StatusCall[3]>>
       \/ call[t].todo = <<StatusCall[3]>> /\ "enable" \in out

Lacking == {"FAULT", "NOT_FOUND"}
Doomed(todo) ==
    \A i \in 1..Len(todo) :
      \/ todo[i].bad \in Lacking
      \/ /\ todo[i].bad = Keep /\ todo[i].last = {}
         /\ i < Len(todo) /\ ~todo[i + 1].found
Lacks(t) == /\ ~present /\ View = [before EXCEPT !.st = st]
            /\ Doomed(call[t].todo)

Steady(t) == Starts(t) \/ Works(t) \/ Reports(t) \/ Lacks(t)
Underway(t) == Pulses(t) \/ (Steady(t) /\ "cbReset" \notin out)
KnownInv ==
    known => /\ \A s \in Threads, t \in Threads : ~Idle(s) /\ ~Idle(t) => s = t
             /\ (\A t \in Threads : Idle(t)) => "cbReset" \notin out
             /\ \A t \in Threads :
                  ~Idle(t) => Underway(t)

\* A rescan that nothing comes between configures the card, whatever was there before.
Fresh == [out |-> {}, inputs |-> Off(processor), st |-> "DISABLED"]
Rescans(t) ==
    \/ call[t].todo = <<Asking>>
    \/ /\ present /\ call[t].todo \in Seq(BlocksOf(BlindSteps(processor)))
       /\ Flows(call[t].todo)
       /\ Outcome(call[t].todo, Registers) = Fresh
RescanInv ==
    \A t \in Threads : ~Idle(t) /\ Calm(t) /\ call[t].op = "rescan" => Rescans(t)
CallsInv == ThreadsInv /\ KnownInv /\ RescanInv

\* What the first access leaves of a block, and the first block of a call.
LEMMA LeadRest ==
    ASSUME NEW S, NEW steps \in Seq(S), Len(steps) \in 2..3, NEW x
    PROVE  /\ Len(Tail(steps)) \in 1..3
           /\ Lead(Tail(steps), Wrote(steps[1], x)) = Lead(steps, x)
<1> DEFINE rest == Tail(steps)
<1>1. /\ rest \in Seq(S) /\ Len(rest) = Len(steps) - 1
      /\ \A i \in 1..Len(rest) : rest[i] = steps[i + 1]
  BY HeadTailProperties
<1> HIDE DEF rest
<1>2. Did(steps, 1, x) = Wrote(steps[1], x)
  BY DEF Did
<1>3. \A y : Did(rest, 1, y) = Did(steps, 2, y)
  BY <1>1 DEF Did
<1>4. \A y : Did(rest, 2, y) = Did(steps, 3, y)
  BY <1>1 DEF Did
<1>5. ~(3 <= Len(rest))
  <2>1. Len(rest) = Len(steps) - 1
    BY <1>1
  <2> QED BY ONLY <2>1, Len(steps) \in 2..3
<1>6. \A y : Did(rest, 3, y) = y
  BY <1>5, Zenon DEF Did
<1> QED BY <1>1, <1>2, <1>3, <1>4, <1>6 DEF Lead, rest

LEMMA LeadSame ==
    ASSUME NEW S, NEW steps \in Seq(S), Len(steps) \in 1..3, NEW step, NEW x,
           Wrote(step, x) = Wrote(steps[1], x)
    PROVE  /\ Len([steps EXCEPT ![1] = step]) = Len(steps)
           /\ Lead([steps EXCEPT ![1] = step], x) = Lead(steps, x)
<1> DEFINE now == [steps EXCEPT ![1] = step]
<1>1. /\ Len(now) = Len(steps) /\ now[1] = step
      /\ \A i \in 2..Len(steps) : now[i] = steps[i]
  OBVIOUS
<1> HIDE DEF now
<1>2. Did(now, 1, x) = Did(steps, 1, x)
  BY <1>1 DEF Did
<1>3. \A y : Did(now, 2, y) = Did(steps, 2, y)
  BY <1>1 DEF Did
<1>4. \A y : Did(now, 3, y) = Did(steps, 3, y)
  BY <1>1 DEF Did
<1> QED BY <1>1, <1>2, <1>3, <1>4 DEF Lead, now

LEMMA LeadOnly ==
    ASSUME NEW S, NEW steps \in Seq(S), Len(steps) = 1, NEW x
    PROVE  Lead(steps, x) = Wrote(steps[1], x)
BY DEF Lead, Did

LEMMA OutcomeRest ==
    ASSUME NEW B, NEW todo \in Seq(B), Flows(todo), Len(todo) > 1, NEW x, NEW y,
           y = Ran(todo[1], x)
    PROVE  /\ Head(Tail(todo)) = todo[2] /\ Tail(todo) \in Seq(B) /\ Tail(todo) # <<>>
           /\ Flows(Tail(todo))
           /\ IF todo[2].found /\ y.st = "NOT_FOUND" THEN Outcome(todo, x) = y
              ELSE Outcome(Tail(todo), y) = Outcome(todo, x)
<1> DEFINE rest == Tail(todo)
<1>1. /\ rest \in Seq(B) /\ Len(rest) = Len(todo) - 1
      /\ \A i \in 1..Len(rest) : rest[i] = todo[i + 1]
  BY HeadTailProperties
<1>2. Len(todo) \in 2..3
  BY DEF Flows
<1> HIDE DEF rest
<1>3. Head(rest) = todo[2] /\ rest[1] = todo[2] /\ rest # <<>>
  BY <1>1, <1>2
<1>4. Flows(rest)
  <2>1. Len(rest) \in 1..3
    BY <1>1, <1>2
  <2>2. ASSUME NEW i \in 1..Len(rest) PROVE Len(rest[i].steps) \in 1..3
    <3>1. i + 1 \in 1..Len(todo)
      BY <1>1, <1>2
    <3> QED BY <1>1, <3>1 DEF Flows
  <2>3. ASSUME NEW i \in 1..(Len(rest) - 1) PROVE "done" \notin rest[i].last /\ ~rest[i].found
    <3>1. i + 1 \in 1..(Len(todo) - 1) /\ i \in 1..Len(rest)
      BY <1>1, <1>2
    <3> QED BY <1>1, <3>1 DEF Flows
  <2> QED BY <2>1, <2>2, <2>3 DEF Flows
<1>5. Outcome(todo, x) = RanNext(todo, 3, RanNext(todo, 2, y))
  BY DEF Outcome
<1>6. CASE todo[2].found /\ y.st = "NOT_FOUND"
  <2>1. Len(todo) = 2
    <3>1. Len(todo) = 3 => 2 \in 1..(Len(todo) - 1)
      OBVIOUS
    <3> QED BY <1>2, <1>6, <3>1 DEF Flows
  <2>2. RanNext(todo, 2, y) = y /\ RanNext(todo, 3, y) = y
    BY <1>6, <2>1 DEF RanNext
  <2> QED BY <1>1, <1>3, <1>4, <1>5, <1>6, <2>2 DEF rest
<1>7. CASE ~(todo[2].found /\ y.st = "NOT_FOUND")
  <2>1. RanNext(todo, 2, y) = Ran(todo[2], y)
    BY <1>2, <1>7 DEF RanNext
  <2>2. \A z : RanNext(rest, 2, z) = RanNext(todo, 3, z)
    BY <1>1, <1>2 DEF RanNext
  <2>3. \A z : RanNext(rest, 3, z) = z
    BY <1>1, <1>2 DEF RanNext
  <2>4. Outcome(rest, y) = Outcome(todo, x)
    BY <1>3, <1>5, <2>1, <2>2, <2>3 DEF Outcome
  <2> QED BY <1>1, <1>3, <1>4, <1>7, <2>4 DEF rest
<1> QED BY <1>6, <1>7

\* Whatever else becomes of its first block, the outcome of a call stays the same if
\* that of the block does.
Replaced(todo, steps) == [todo EXCEPT ![1].steps = steps]
LEMMA OutcomeSame ==
    ASSUME NEW S, NEW todo \in Seq(BlocksOf(S)), Flows(todo),
           NEW steps \in Seq(S) \ {<<>>}, Len(steps) \in 1..3, NEW x, NEW y,
           Leaving(Lead(steps, y), todo[1].ok) = Ran(todo[1], x),
           NEW now, now = Replaced(todo, steps)
    PROVE  now \in Seq(BlocksOf(S)) /\ Flows(now) /\ Outcome(now, y) = Outcome(todo, x)
<1> DEFINE block == [todo[1] EXCEPT !.steps = steps]
<1>1. Len(todo) \in 1..3 /\ todo[1] \in BlocksOf(S)
  BY DEF Flows
<1>2. /\ block \in BlocksOf(S) /\ block.steps = steps /\ block.ok = todo[1].ok
      /\ block.last = todo[1].last /\ block.found = todo[1].found
  BY <1>1 DEF BlocksOf
<1> HIDE DEF block
<1>3. now = [todo EXCEPT ![1] = block]
  BY DEF block, Replaced
<1> DEFINE B == BlocksOf(S)
<1>4. /\ now \in Seq(B) /\ Len(now) = Len(todo) /\ now[1] = block
      /\ \A i \in 2..Len(todo) : now[i] = todo[i]
  <2>1. todo \in Seq(B) /\ block \in B
    BY <1>2
  <2>2. now = [todo EXCEPT ![1] = block] /\ Len(todo) \in 1..3
    BY <1>1, <1>3
  <2> HIDE DEF B
  <2> QED BY ONLY <2>1, <2>2
<1> HIDE DEF B
<1>5. Flows(now)
  <2>1. ASSUME NEW i \in 1..Len(now) PROVE Len(now[i].steps) \in 1..3
    BY <1>1, <1>2, <1>4 DEF Flows
  <2>2. ASSUME NEW i \in 1..(Len(now) - 1) PROVE "done" \notin now[i].last /\ ~now[i].found
    <3>1. i \in 1..(Len(todo) - 1)
      BY <1>4
    <3>2. "done" \notin todo[i].last /\ ~todo[i].found
      BY <3>1 DEF Flows
    <3>3. CASE i = 1
      BY <1>2, <1>4, <3>2, <3>3
    <3>4. CASE i # 1
      BY <1>1, <1>4, <3>1, <3>2, <3>4
    <3> QED BY <3>3, <3>4
  <2> QED BY <1>1, <1>4, <2>1, <2>2 DEF Flows
<1>6. Ran(now[1], y) = Ran(todo[1], x)
  BY <1>2, <1>4 DEF Ran
<1>7. \A z : RanNext(now, 2, z) = RanNext(todo, 2, z) /\ RanNext(now, 3, z) = RanNext(todo, 3, z)
  BY <1>1, <1>4 DEF RanNext
<1>8. Outcome(now, y) = Outcome(todo, x)
  BY <1>6, <1>7 DEF Outcome
<1> QED BY <1>4, <1>5, <1>8 DEF B

\* The step of a call, and an access of it that only writes.
LEMMA FlowSteps ==
    ASSUME NEW t \in Threads, NEW S, call[t].todo \in Seq(BlocksOf(S)), Flows(call[t].todo)
    PROVE  /\ Block(t) = call[t].todo[1] /\ Block(t) \in BlocksOf(S)
           /\ Block(t).steps \in Seq(S) \ {<<>>} /\ Len(Block(t).steps) \in 1..3
           /\ Step(t) = Block(t).steps[1] /\ Step(t) \in S
           /\ Len(call[t].todo) \in 1..3 /\ ~Idle(t)
<1> DEFINE todo == call[t].todo
<1>1. Len(todo) \in 1..3 /\ Len(todo[1].steps) \in 1..3
  BY DEF Flows
<1>2. todo # <<>>
  BY <1>1
<1>3. /\ Head(todo) = todo[1] /\ Head(todo) \in BlocksOf(S)
      /\ Head(todo).steps[1] = Head(Head(todo).steps) /\ Head(Head(todo).steps) \in S
  BY <1>2, TodoTypes
<1>4. todo[1].steps \in Seq(S) \ {<<>>}
  BY <1>3 DEF BlocksOf
<1> QED BY <1>1, <1>2, <1>3, <1>4 DEF Block, Step, Idle

LEMMA FlowAccess ==
    ASSUME TypeInv, NEW t \in Threads, Access(t), present,
           NEW S \in SUBSET Writing(processor),
           call[t].todo \in Seq(BlocksOf(S)), Flows(call[t].todo),
           Step(t).do \in {"set", "clear"} => Output(Value(t)) \in S
    PROVE  \/ /\ call'[t].todo = <<>>
              /\ Registers' = Outcome(call[t].todo, Registers)
           \/ /\ call'[t].todo \in Seq(BlocksOf(S)) /\ Flows(call'[t].todo)
              /\ Outcome(call'[t].todo, Registers') = Outcome(call[t].todo, Registers)
<1> PICK todo : todo = call[t].todo
  OBVIOUS
<1> PICK left : left = call'[t].todo
  OBVIOUS
<1> PICK x : x = Registers
  OBVIOUS
<1> PICK y : y = Registers'
  OBVIOUS
<1> DEFINE b == todo[1]
           Goal == \/ left = <<>> /\ y = Outcome(todo, x)
                   \/ /\ left \in Seq(BlocksOf(S)) /\ Flows(left)
                      /\ Outcome(left, y) = Outcome(todo, x)
<1> SUFFICES Goal
  OBVIOUS
<1>0. \A n \in 1..3 : /\ n # 1 => n > 1 /\ n \in 2..3 /\ 1 \in 1..(n - 1)
                      /\ ~(n > 1) => n = 1
                      /\ n > 1 => n # 1
  OBVIOUS
<1>1. /\ Block(t) = b /\ b \in BlocksOf(S) /\ b.steps \in Seq(S) \ {<<>>}
      /\ Len(b.steps) \in 1..3 /\ Step(t) = b.steps[1] /\ Step(t) \in S
      /\ Len(todo) \in 1..3 /\ todo \in Seq(BlocksOf(S)) /\ Flows(todo)
  BY FlowSteps
<1>2. /\ x.out = out /\ x.inputs = inputs /\ x.st = st
      /\ y.out = out' /\ y.inputs = inputs' /\ y.st = st'
      /\ y = [out |-> out', inputs |-> inputs', st |-> st']
  BY DEF Registers
<1>3. HasRead(t) \/ HasWritten(t)
  <2>1. Step(t).do \in WriteKinds
    BY <1>1 DEF Writing
  <2> QED BY <2>1, WriteAccess DEF Failed
<1>4. CASE HasRead(t)
  <2> DEFINE step == Output(Value(t))
             steps == [b.steps EXCEPT ![1] = step]
  <2>1. /\ step \in S /\ left = [todo EXCEPT ![1].steps[1] = step]
        /\ y = x /\ Step(t).do \in {"set", "clear"}
    BY <1>4 DEF HasRead, Registers, chip
  <2>2. Wrote(step, x) = Wrote(b.steps[1], x)
    <3>1. step.do = "output" /\ step.on = Value(t)
      BY DEF Output
    <3>2. Wrote(step, x) = [out |-> Value(t), inputs |-> x.inputs, st |-> x.st]
      <4> HIDE DEF step
      <4> QED BY <3>1 DEF Wrote
    <3>3. Wrote(Step(t), x) = [out |-> Value(t), inputs |-> x.inputs, st |-> x.st]
      <4>1. CASE Step(t).do = "set"
        BY <1>2, <4>1 DEF Wrote, Value
      <4>2. CASE Step(t).do = "clear"
        BY <1>2, <4>2 DEF Wrote, Value
      <4> QED BY <2>1, <4>1, <4>2
    <3> QED BY <1>1, <3>2, <3>3
  <2>3. Len(steps) = Len(b.steps) /\ Lead(steps, x) = Lead(b.steps, x)
    <3> HIDE DEF step
    <3> QED BY <1>1, <2>2, LeadSame
  <2>4. steps \in Seq(S) \ {<<>>}
    <3> HIDE DEF step
    <3> QED BY <1>1, <2>1, StepsLeft
  <2>5. left = Replaced(todo, steps)
    BY <2>1 DEF Replaced
  <2>6. Leaving(Lead(steps, y), b.ok) = Ran(b, x)
    BY <2>1, <2>3 DEF Ran
  <2>7. todo \in Seq(BlocksOf(S)) /\ Flows(todo) /\ Len(steps) \in 1..3
    BY <1>1, <2>3
  <2> HIDE DEF steps, step
  <2>8. left \in Seq(BlocksOf(S)) /\ Flows(left) /\ Outcome(left, y) = Outcome(todo, x)
    BY ONLY <2>4, <2>5, <2>6, <2>7, OutcomeSame
  <2> QED BY <2>8
<1>5. CASE HasWritten(t)
  <2>1. y.out = Wrote(b.steps[1], x).out /\ y.inputs = Wrote(b.steps[1], x).inputs
    BY <1>1, <1>2, <1>5 DEF HasWritten, Wrote
  <2>2. Wrote(b.steps[1], x).st = st
    BY <1>2 DEF Wrote
  <2>3. CASE Len(b.steps) > 1
    <3>1. left = [todo EXCEPT ![1].steps = Tail(@)] /\ st' = st
      BY <1>1, <1>5, <2>3 DEF HasWritten, Advances
    <3>2. y = Wrote(b.steps[1], x)
      BY <1>2, <2>1, <2>2, <3>1 DEF Wrote
    <3> DEFINE steps == Tail(b.steps)
    <3>3. Len(steps) \in 1..3 /\ Lead(steps, y) = Lead(b.steps, x)
      <4>1. Len(b.steps) \in 2..3
        BY <1>0, <1>1, <2>3, Zenon
      <4> QED BY <1>1, <3>2, <4>1, LeadRest
    <3>4. steps \in Seq(S) \ {<<>>}
      BY <1>1, <2>3, StepsLeft
    <3>5. left = Replaced(todo, steps)
      BY <3>1 DEF Replaced
    <3>6. Leaving(Lead(steps, y), b.ok) = Ran(b, x)
      BY <3>3 DEF Ran
    <3>7. todo \in Seq(BlocksOf(S)) /\ Flows(todo) /\ Len(steps) \in 1..3
      BY <1>1, <3>3
    <3> HIDE DEF steps
    <3>8. left \in Seq(BlocksOf(S)) /\ Flows(left) /\ Outcome(left, y) = Outcome(todo, x)
      BY ONLY <3>4, <3>5, <3>6, <3>7, OutcomeSame
    <3> QED BY <3>8
  <2>4. CASE ~(Len(b.steps) > 1)
    <3>1. Len(b.steps) = 1
      BY <1>0, <1>1, <2>4, Zenon
    <3>2. After(t, "done", b.ok)
      BY <1>1, <1>5, <2>4 DEF HasWritten, Advances
    <3>3. Lead(b.steps, x) = Wrote(b.steps[1], x)
      BY <1>1, <3>1, LeadOnly
    <3>4. y = Ran(b, x)
      <4>1. st' = IF b.ok = Keep THEN st ELSE b.ok
        BY <3>2 DEF After, Settle
      <4> QED BY <1>2, <2>1, <2>2, <3>3, <4>1 DEF Ran, Leaving
    <3>5. /\ y.st = Settle(b.ok)
          /\ left = IF "done" \in b.last THEN <<>> ELSE Entered(Tail(todo), y.st)
      BY <1>1, <1>2, <3>2 DEF After
    <3>6. CASE Len(todo) = 1
      <4>1. Tail(todo) = <<>> /\ left = <<>>
        BY <1>1, <3>5, <3>6 DEF Entered
      <4>2. Outcome(todo, x) = y
        BY <3>4, <3>6 DEF Outcome, RanNext
      <4> QED BY <4>1, <4>2
    <3>7. CASE Len(todo) # 1
      <4>1. Len(todo) > 1 /\ 1 \in 1..(Len(todo) - 1)
        BY <1>0, <1>1, <3>7, Zenon
      <4>2. "done" \notin b.last
        BY <1>1, <4>1 DEF Flows
      <4>3. /\ Head(Tail(todo)) = todo[2] /\ Tail(todo) \in Seq(BlocksOf(S))
            /\ Tail(todo) # <<>> /\ Flows(Tail(todo))
            /\ IF todo[2].found /\ y.st = "NOT_FOUND" THEN Outcome(todo, x) = y
               ELSE Outcome(Tail(todo), y) = Outcome(todo, x)
        <5> HIDE DEF b
        <5>1. todo \in Seq(BlocksOf(S)) /\ Flows(todo) /\ Len(todo) > 1 /\ y = Ran(todo[1], x)
          BY <1>1, <3>4, <4>1 DEF b
        <5> QED BY ONLY <5>1, OutcomeRest
      <4>4. left = IF y.st = "NOT_FOUND" /\ todo[2].found THEN <<>> ELSE Tail(todo)
        BY <3>5, <4>2, <4>3 DEF Entered
      <4> QED BY <4>3, <4>4
    <3> QED BY <3>6, <3>7
  <2> QED BY <2>3, <2>4
<1> QED BY <1>3, <1>4, <1>5
-----------------------------------------------------------------------------
(* What OpdCard makes of a card, field by field. *)
LEMMA CardEqual ==
    ASSUME NEW c \in Cards, NEW d \in Cards, c.present = d.present, c.pin = d.pin,
           c.boot = d.boot, c.ready = d.ready, c.tripped = d.tripped, c.hung = d.hung,
           c.st = d.st
    PROVE  c = d
BY DEF Cards

LEMMA ConfiguredCard ==
    ASSUME NEW c \in Cards, NEW d \in Cards, d.present = c.present, d.tripped = c.tripped,
           ~d.pin, ~d.boot, d.ready, ~d.hung, d.st = "DISABLED"
    PROVE  d = Sequential!Unpowered(c)
<1> DEFINE e == [c EXCEPT !.pin = FALSE, !.boot = FALSE, !.ready = TRUE, !.hung = FALSE,
                          !.st = "DISABLED"]
<1>1. e \in Cards
  BY DEF Cards, OpdNodeStates
<1>2. /\ e.present = c.present /\ e.pin = FALSE /\ e.boot = FALSE /\ e.ready = TRUE
      /\ e.tripped = c.tripped /\ e.hung = FALSE /\ e.st = "DISABLED"
  BY DEF Cards
<1>3. d.pin = FALSE /\ d.boot = FALSE /\ d.ready = TRUE /\ d.hung = FALSE
  BY DEF Cards
<1>4. e = Sequential!Unpowered(c)
  BY DEF Sequential!Unpowered
<1> HIDE DEF e
<1> QED BY <1>1, <1>2, <1>3, <1>4, CardEqual

LEMMA ProbeResults ==
    ASSUME NEW c \in Cards, c.present, NEW d \in Cards
    PROVE  /\ d = Sequential!Unpowered(c) => d \in Sequential!Results(c)
           /\ c.st # "NOT_FOUND" /\ d = [c EXCEPT !.st = "DISABLED"]
                => d \in Sequential!Results(c)
<1>1. \A reset \in BOOLEAN : Sequential!Probed(c, reset) \in Sequential!Results(c)
  BY DEF Sequential!Results
<1>2. Sequential!Probed(c, TRUE) = Sequential!Unpowered(c)
  BY DEF Sequential!Probed
<1>3. c.st # "NOT_FOUND" => Sequential!Probed(c, FALSE) = [c EXCEPT !.st = "DISABLED"]
  BY DEF Sequential!Probed
<1> QED BY <1>1, <1>2, <1>3

LEMMA EnableResults ==
    ASSUME NEW c \in Cards, c.present, NEW d \in Cards, NEW bootloader \in BOOLEAN,
           bootloader => processor = "stm32",
           d.present, d.tripped = c.tripped, d.hung = c.hung, d.boot = bootloader,
           d.ready = (c.ready \/ Rewrites(processor)),
           IF c.st = "NOT_FOUND" THEN d.pin = c.pin /\ d.st = c.st
           ELSE d.pin = TRUE /\ d.st = "ENABLED"
    PROVE  d \in Sequential!Results(c)
<1>1. Sequential!PoweredOn(c, processor, bootloader) \in Sequential!Results(c)
  BY DEF Sequential!Results, Sequential!BootModes
<1> DEFINE wired == [c EXCEPT !.boot = bootloader, !.ready = @ \/ Rewrites(processor)]
           e == IF c.st # "NOT_FOUND" THEN [wired EXCEPT !.pin = TRUE, !.st = "ENABLED"]
                ELSE wired
<1>2. Sequential!PoweredOn(c, processor, bootloader) = e
  BY DEF Sequential!PoweredOn, Sequential!Rewrites, Rewrites
<1>3. /\ wired \in Cards /\ wired.boot = bootloader /\ wired.ready = d.ready
      /\ wired.present = c.present /\ wired.tripped = c.tripped /\ wired.hung = c.hung
      /\ wired.pin = c.pin /\ wired.st = c.st
  BY DEF Cards, Rewrites
<1> HIDE DEF wired
<1>4. e = d
  <2>1. CASE c.st = "NOT_FOUND"
    <3>1. /\ e = wired /\ d.present = c.present
          /\ wired.pin = d.pin /\ wired.st = d.st
      BY <1>3, <2>1 DEF Cards
    <3> HIDE DEF e
    <3> QED BY <1>3, <3>1, CardEqual
  <2>2. CASE c.st # "NOT_FOUND"
    <3>1. e = [wired EXCEPT !.pin = TRUE, !.st = "ENABLED"]
      BY <2>2
    <3>2. e \in Cards
      BY <1>3, <3>1 DEF Cards, OpdNodeStates
    <3>3. /\ e.boot = bootloader /\ e.ready = d.ready /\ e.present = c.present
          /\ e.tripped = c.tripped /\ e.hung = c.hung /\ e.pin = TRUE /\ e.st = "ENABLED"
      BY <1>3, <3>1 DEF Cards
    <3>4. d.present = c.present
      BY DEF Cards
    <3> HIDE DEF e
    <3> QED BY <2>2, <3>2, <3>3, <3>4, CardEqual
  <2> QED BY <2>1, <2>2
<1> QED BY <1>1, <1>2, <1>4

LEMMA DisableResults ==
    ASSUME NEW c \in Cards, c.present, NEW d \in Cards, d.present, d.tripped = c.tripped,
           ~d.hung, ~d.boot, ~d.pin, d.ready = (c.ready \/ Rewrites(processor)),
           d.st = "DISABLED"
    PROVE  d \in Sequential!Results(c)
<1>1. Sequential!PoweredOff(c, processor) \in Sequential!Results(c)
  BY DEF Sequential!Results
<1> DEFINE u == Sequential!Unpowered(c)
           e == [u EXCEPT !.ready = c.ready \/ Rewrites(processor)]
<1>2. Sequential!PoweredOff(c, processor) = e
  BY DEF Sequential!PoweredOff, Sequential!Rewrites, Rewrites
<1>3. /\ u \in Cards /\ u.present = c.present /\ u.pin = FALSE /\ u.boot = FALSE
      /\ u.tripped = c.tripped /\ u.hung = FALSE /\ u.st = "DISABLED"
  BY DEF Sequential!Unpowered, Cards, OpdNodeStates
<1> HIDE DEF u
<1>4. /\ e \in Cards /\ e.present = c.present /\ e.pin = FALSE /\ e.boot = FALSE
      /\ e.tripped = c.tripped /\ e.hung = FALSE /\ e.st = "DISABLED" /\ e.ready = d.ready
  BY <1>3 DEF Cards, Rewrites
<1>5. d.present = c.present /\ d.hung = FALSE /\ d.boot = FALSE /\ d.pin = FALSE
  BY DEF Cards
<1> HIDE DEF e
<1>6. e = d
  BY <1>4, <1>5, CardEqual
<1> QED BY <1>1, <1>2, <1>6

Pulsed(c, t, h) == [c EXCEPT !.tripped = t, !.hung = h,
                             !.st = IF t THEN "FAULT" ELSE "ENABLED"]
LEMMA PulsedIn ==
    ASSUME NEW c, NEW d, NEW A, NEW B, \E t \in A : \E h \in B : d = Pulsed(c, t, h)
    PROVE  d \in {Pulsed(c, t, h) : t \in A, h \in B}
OBVIOUS

LEMMA PulseResults ==
    ASSUME NEW c \in Cards, c.present, NEW trip \in {FALSE, c.tripped},
           NEW d, d = Pulsed(c, trip, FALSE)
    PROVE  d \in Sequential!Results(c)
<1> PICK A, B : A = {FALSE, c.tripped} /\ B = {FALSE, c.hung}
  OBVIOUS
<1>1. Sequential!PulseOutcomes(c) = {Pulsed(c, t, h) : t \in A, h \in B}
  BY DEF Sequential!PulseOutcomes, Pulsed
<1>2. d \in {Pulsed(c, t, h) : t \in A, h \in B}
  <2>1. trip \in A /\ FALSE \in B /\ d = Pulsed(c, trip, FALSE)
    OBVIOUS
  <2>2. \E t \in A : \E h \in B : d = Pulsed(c, t, h)
    BY <2>1
  <2> QED BY ONLY <2>2, PulsedIn
<1>3. Sequential!PulseOutcomes(c) \subseteq Sequential!Results(c)
  BY DEF Sequential!Results
<1>4. d \in Sequential!PulseOutcomes(c)
  BY ONLY <1>1, <1>2
<1> QED BY <1>3, <1>4

LEMMA StatusResults ==
    ASSUME NEW c \in Cards, c.present
    PROVE  /\ c \in Sequential!Results(c)
           /\ c.pin /\ c.tripped => [c EXCEPT !.st = "FAULT"] \in Sequential!Results(c)
<1>1. Sequential!UartFailed(c) \in Sequential!Results(c) /\ Sequential!UartFailed(c) = c
  BY DEF Sequential!Results, Sequential!UartFailed
<1>2. Sequential!StatusRead(c) \in Sequential!Results(c)
  BY DEF Sequential!Results
<1>3. c.pin /\ c.tripped => Sequential!StatusRead(c) = [c EXCEPT !.st = "FAULT"]
  BY DEF Sequential!StatusRead
<1> QED BY <1>1, <1>2, <1>3

LEMMA LackingResults ==
    ASSUME NEW c \in Cards, ~c.present, NEW s \in Lacking
    PROVE  [c EXCEPT !.st = s] \in Sequential!Results(c)
<1>1. Sequential!StatusRead(c) \in Sequential!Results(c)
      /\ Sequential!StatusRead(c) = [c EXCEPT !.st = "NOT_FOUND"]
  BY DEF Sequential!Results, Sequential!StatusRead
<1>2. Sequential!PoweredOff(c, processor) \in Sequential!Results(c)
      /\ Sequential!PoweredOff(c, processor) = [c EXCEPT !.st = "FAULT"]
  BY DEF Sequential!Results, Sequential!PoweredOff
<1> QED BY <1>1, <1>2 DEF Lacking

\* The card that the mapping shows.
LEMMA SeenType ==
    ASSUME NEW x, x.st \in OpdNodeStates, TypeInv
    PROVE  /\ Seen(x) \in Cards
           /\ Seen(x).present /\ Seen(x).tripped = tripped /\ ~Seen(x).hung
           /\ Seen(x).st = x.st /\ Seen(x).pin = ("enable" \in x.out)
           /\ Seen(x).boot = (processor = "stm32" /\ "boot" \in x.out)
           /\ Seen(x).ready = ("enable" \notin x.inputs)
BY DEF Seen, Cards, TypeInv, ChipOK

LEMMA ViewFields ==
    /\ View.present = present /\ View.tripped = tripped /\ View.hung = FALSE
    /\ View.st = st /\ View.pin = ("enable" \in out)
    /\ View.boot = (processor = "stm32" /\ "boot" \in out)
    /\ View.ready = ("enable" \notin inputs)
BY DEF View

LEMMA ViewSeen == TypeInv /\ present => View = Seen(Registers)
BY DEF View, Seen, Registers, TypeInv, ChipOK
-----------------------------------------------------------------------------
(* The other accesses. *)
LEMMA LackingAccess ==
    ASSUME TypeInv, NEW t \in Threads, Access(t), ~present
    PROVE  /\ UNCHANGED chip
           /\ \E status \in {Block(t).bad, Keep} :
                /\ After(t, "failed", status)
                /\ status # Block(t).bad => st = "NOT_FOUND"
<1>1. Fail(t) /\ UNCHANGED chip
  BY DEF Access
<1>2. CASE Step(t).do = "enabled" /\ st = "NOT_FOUND"
  <2>1. After(t, "failed", Keep)
    BY <1>1, <1>2, Movements DEF Fail
  <2> QED BY <1>1, <1>2, <2>1
<1>3. CASE ~(Step(t).do = "enabled" /\ st = "NOT_FOUND")
  <2>1. After(t, "failed", Block(t).bad)
    BY <1>1, <1>3, Movements DEF Fail
  <2> QED BY <1>1, <2>1
<1> QED BY <1>2, <1>3

TestKinds == {"valid", "enabled", "fault"}
ProbeGoesOn(t) ==
    LET blocks == Found(processor, st, call[t].op = "rescan")
    IN  /\ call'[t].todo = blocks
        /\ st' = IF blocks = <<>> THEN "DISABLED" ELSE st
LEMMA TestAccess ==
    ASSUME TypeInv, NEW t \in Threads, Access(t), present, Step(t).do \in TestKinds
    PROVE  /\ UNCHANGED chip
           /\ Step(t).do = "valid" =>
                IF call[t].op \in {"probe", "rescan"} THEN ProbeGoesOn(t) ELSE Advances(t)
           /\ Step(t).do = "enabled" =>
                IF "enable" \in out THEN Advances(t) ELSE call'[t].todo = <<>> /\ st' = st
           /\ Step(t).do = "fault" =>
                IF tripped THEN After(t, "failed", Block(t).bad) ELSE Advances(t)
<1>1. Tests(t)
  BY DEF Access, Reads, Writes, TestKinds
<1>2. ASSUME Step(t).do = "valid", call[t].op \in {"probe", "rescan"} PROVE ProbeGoesOn(t)
  <2>1. ProbeFinds(t)
    BY <1>1, <1>2 DEF Tests, Probing
  <2> QED BY <2>1, Movements DEF ProbeFinds, ProbeGoesOn
<1>3. ASSUME Step(t).do = "valid", call[t].op \notin {"probe", "rescan"} PROVE Advances(t)
  BY <1>1, <1>3, Movements DEF Tests, Probing
<1>4. ASSUME Step(t).do = "enabled"
      PROVE  IF "enable" \in out THEN Advances(t) ELSE call'[t].todo = <<>> /\ st' = st
  BY <1>1, <1>4, Movements DEF Tests
<1>5. ASSUME Step(t).do = "fault"
      PROVE  IF tripped THEN After(t, "failed", Block(t).bad) ELSE Advances(t)
  <2>1. Fail(t) => After(t, "failed", Block(t).bad)
    BY <1>5, Movements DEF Fail
  <2> QED BY <1>1, <1>5, <2>1, Movements DEF Tests
<1>6. UNCHANGED chip
  BY <1>1 DEF Tests
<1> QED BY <1>2, <1>3, <1>4, <1>5, <1>6
-----------------------------------------------------------------------------
(* What the calls come to. *)
LEMMA WroteParts ==
    ASSUME NEW x
    PROVE  /\ \A pin : Wrote(Set(pin), x)
                       = [out |-> x.out \cup {pin}, inputs |-> x.inputs, st |-> x.st]
           /\ \A pin : Wrote(Clear(pin), x)
                       = [out |-> x.out \ {pin}, inputs |-> x.inputs, st |-> x.st]
           /\ \A pins : Wrote(Output(pins), x)
                        = [out |-> pins, inputs |-> x.inputs, st |-> x.st]
           /\ \A pins : Wrote(Configuration(pins), x)
                        = [out |-> x.out, inputs |-> pins, st |-> x.st]
           /\ Wrote(Other, x) = [out |-> x.out, inputs |-> x.inputs, st |-> x.st]
<1>1. ASSUME NEW step, step.do = "other"
      PROVE  Wrote(step, x) = [out |-> x.out, inputs |-> x.inputs, st |-> x.st]
  BY <1>1 DEF Wrote
<1>2. Other.do = "other"
  BY DEF Other
<1>3. ASSUME NEW step, step.do = "set"
      PROVE  Wrote(step, x) = [out |-> x.out \cup step.on, inputs |-> x.inputs, st |-> x.st]
  BY <1>3 DEF Wrote
<1>4. ASSUME NEW step, step.do = "clear"
      PROVE  Wrote(step, x) = [out |-> x.out \ step.on, inputs |-> x.inputs, st |-> x.st]
  BY <1>4 DEF Wrote
<1>5. ASSUME NEW step, step.do = "output"
      PROVE  Wrote(step, x) = [out |-> step.on, inputs |-> x.inputs, st |-> x.st]
  BY <1>5 DEF Wrote
<1>6. ASSUME NEW step, step.do = "configuration"
      PROVE  Wrote(step, x) = [out |-> x.out, inputs |-> step.on, st |-> x.st]
  BY <1>6 DEF Wrote
<1> QED BY <1>1, <1>2, <1>3, <1>4, <1>5, <1>6, StepParts

LEMMA WroteSet ==
    ASSUME NEW pin, NEW x, NEW y, y = Wrote(Set(pin), x)
    PROVE  y.out = x.out \cup {pin} /\ y.inputs = x.inputs /\ y.st = x.st
BY WroteParts

LEMMA WroteClear ==
    ASSUME NEW pin, NEW x, NEW y, y = Wrote(Clear(pin), x)
    PROVE  y.out = x.out \ {pin} /\ y.inputs = x.inputs /\ y.st = x.st
BY WroteParts

LEMMA WroteOutput ==
    ASSUME NEW pins, NEW x, NEW y, y = Wrote(Output(pins), x)
    PROVE  y.out = pins /\ y.inputs = x.inputs /\ y.st = x.st
BY WroteParts

LEMMA WroteConfiguration ==
    ASSUME NEW pins, NEW x, NEW y, y = Wrote(Configuration(pins), x)
    PROVE  y.out = x.out /\ y.inputs = pins /\ y.st = x.st
BY WroteParts

LEMMA LeadOne ==
    ASSUME NEW a, NEW x
    PROVE  Lead(<<a>>, x) = Wrote(a, x) /\ Len(<<a>>) \in 1..3
BY DEF Lead, Did

LEMMA LeadTwo ==
    ASSUME NEW a, NEW b, NEW x
    PROVE  Lead(<<a, b>>, x) = Wrote(b, Wrote(a, x)) /\ Len(<<a, b>>) \in 1..3
BY DEF Lead, Did

LEMMA LenThree == ASSUME NEW a, NEW b, NEW c PROVE Len(<<a, b, c>>) \in 1..3
OBVIOUS

LEMMA OneBlock ==
    ASSUME NEW b, Len(b.steps) \in 1..3, NEW x
    PROVE  Flows(<<b>>) /\ Outcome(<<b>>, x) = Ran(b, x)
BY DEF Flows, Outcome, RanNext

LEMMA TwoBlocks ==
    ASSUME NEW b, NEW c, Len(b.steps) \in 1..3, Len(c.steps) \in 1..3,
           "done" \notin b.last, ~b.found, NEW x
    PROVE  /\ Flows(<<b, c>>)
           /\ Outcome(<<b, c>>, x) = IF c.found /\ Ran(b, x).st = "NOT_FOUND" THEN Ran(b, x)
                                     ELSE Ran(c, Ran(b, x))
BY DEF Flows, Outcome, RanNext

LEMMA ThreeBlocks ==
    ASSUME NEW b, NEW c, NEW d, Len(b.steps) \in 1..3, Len(c.steps) \in 1..3,
           Len(d.steps) \in 1..3, "done" \notin b.last, ~b.found,
           "done" \notin c.last, ~c.found, ~d.found, NEW x
    PROVE  /\ Flows(<<b, c, d>>)
           /\ Outcome(<<b, c, d>>, x) = Ran(d, Ran(c, Ran(b, x)))
BY DEF Flows, Outcome, RanNext

LEMMA Triple ==
    ASSUME NEW B, NEW a \in B, NEW b \in B, NEW c \in B
    PROVE  <<a>> \o <<b, c>> = <<a, b, c>> /\ <<>> \o <<b, c>> = <<b, c>>
           /\ <<a>> \o <<>> = <<a>>
<1>1. /\ <<a>> \in Seq(B) /\ <<b, c>> \in Seq(B) /\ <<a, b, c>> \in Seq(B)
      /\ Len(<<a>>) = 1 /\ Len(<<b, c>>) = 2 /\ Len(<<a, b, c>>) = 3
      /\ <<a>>[1] = a /\ <<b, c>>[1] = b /\ <<b, c>>[2] = c
      /\ <<a, b, c>>[1] = a /\ <<a, b, c>>[2] = b /\ <<a, b, c>>[3] = c
  OBVIOUS
<1>2. ASSUME NEW s \in Seq(B), NEW r \in Seq(B), Len(s) = 1, Len(r) = 2
      PROVE  /\ s \o r \in Seq(B) /\ Len(s \o r) = 3
             /\ (s \o r)[1] = s[1] /\ (s \o r)[2] = r[1] /\ (s \o r)[3] = r[2]
  BY <1>2, ConcatProperties
<1>3. ASSUME NEW s \in Seq(B), NEW r \in Seq(B),
             Len(s) = 3, Len(r) = 3, s[1] = r[1], s[2] = r[2], s[3] = r[3]
      PROVE  s = r
  <2>1. \A i \in 1..Len(s) : s[i] = r[i]
    BY <1>3
  <2> QED BY <1>3, <2>1, SeqEqual
<1> DEFINE s == <<a>> \o <<b, c>>
<1>4. s \in Seq(B) /\ Len(s) = 3 /\ s[1] = a /\ s[2] = b /\ s[3] = c
  BY <1>1, <1>2
<1> HIDE DEF s
<1>5. s = <<a, b, c>>
  BY <1>1, <1>3, <1>4
<1>6. <<>> \o <<b, c>> = <<b, c>> /\ <<a>> \o <<>> = <<a>>
  BY <1>1, ConcatEmptySeq
<1> QED BY <1>5, <1>6 DEF s

\* What a probe does to a card that it finds.
Configures(class) == Try(Configure(Off(class)), "DISABLED", "FAULT", {})
Resets == Try(ResetRegisters, Keep, "NOT_FOUND", {"failed"})
Closes(class) == [Configures(class) EXCEPT !.ok = "DISABLED", !.bad = "DISABLED"]

LEMMA FoundForms ==
    ASSUME NEW class, NEW s
    PROVE  /\ Found(class, "NOT_FOUND", FALSE) = <<Closes(class)>>
           /\ Found(class, "NOT_FOUND", TRUE) = <<Configures(class), Resets, Closes(class)>>
           /\ s # "NOT_FOUND" => /\ Found(class, s, TRUE) = <<Resets, Closes(class)>>
                                 /\ Found(class, s, FALSE) = <<>>
<1> DEFINE c == Configures(class)
           r == Resets
           B == {c, r}
<1>1. c \in B /\ r \in B
  OBVIOUS
<1>2. ConfigureCall(class) = <<c>> /\ RescanCall(class) = <<r>> \o <<c>>
  BY DEF ConfigureCall, RescanCall, Configures, Resets
<1> HIDE DEF c, r, B
<1>3. RescanCall(class) = <<r, c>>
  BY <1>1, <1>2, Pair
<1>4. /\ <<c>> \o <<r, c>> = <<c, r, c>> /\ <<>> \o <<r, c>> = <<r, c>>
      /\ <<c>> \o <<>> = <<c>> /\ <<>> \o <<>> = <<>>
  BY <1>1, Triple
<1>5. /\ Settled(<<c>>) = <<[c EXCEPT !.ok = "DISABLED", !.bad = "DISABLED"]>>
      /\ Settled(<<r, c>>) = <<r, [c EXCEPT !.ok = "DISABLED", !.bad = "DISABLED"]>>
      /\ Settled(<<c, r, c>>) = <<c, r, [c EXCEPT !.ok = "DISABLED", !.bad = "DISABLED"]>>
      /\ Settled(<<>>) = <<>>
  BY DEF Settled
<1>6. Closes(class) = [c EXCEPT !.ok = "DISABLED", !.bad = "DISABLED"]
  BY DEF Closes, c
<1> QED BY <1>2, <1>3, <1>4, <1>5, <1>6 DEF Found, c, r

LEMMA ConfiguresRan ==
    ASSUME NEW class, NEW x
    PROVE  /\ Ran(Configures(class), x)
              = [out |-> {}, inputs |-> Off(class), st |-> "DISABLED"]
           /\ Ran(Closes(class), x)
              = [out |-> {}, inputs |-> Off(class), st |-> "DISABLED"]
           /\ Len(Configures(class).steps) \in 1..3 /\ Len(Closes(class).steps) \in 1..3
           /\ Len(Resets.steps) \in 1..3
<1>1. /\ Configures(class).steps = Configure(Off(class)) /\ Configures(class).ok = "DISABLED"
      /\ Closes(class).steps = Configure(Off(class)) /\ Closes(class).ok = "DISABLED"
      /\ Resets.steps = ResetRegisters
  BY DEF Configures, Closes, Resets, Try
<1> PICK z : z = Wrote(Output({}), x)
  OBVIOUS
<1> PICK y : y = Lead(Configure(Off(class)), x)
  OBVIOUS
<1>2. y = Wrote(Configuration(Off(class)), z)
  BY LeadTwo DEF Configure
<1>3. z.out = {}
  BY WroteOutput
<1>4. y.out = {} /\ y.inputs = Off(class)
  BY <1>2, <1>3, WroteConfiguration
<1>5. Leaving(y, "DISABLED") = [out |-> {}, inputs |-> Off(class), st |-> "DISABLED"]
  BY <1>4 DEF Leaving, Keep
<1>6. Len(Configure(Off(class))) \in 1..3 /\ Len(ResetRegisters) \in 1..3
  BY LeadTwo, LenThree DEF Configure, ResetRegisters
<1> QED BY <1>1, <1>5, <1>6 DEF Ran

LEMMA FoundFlows ==
    ASSUME NEW class, NEW s, NEW reset \in BOOLEAN, s = "NOT_FOUND" \/ reset, NEW S,
           Output({}) \in S, Configuration(Off(class)) \in S, Configuration(Pins) \in S,
           Other \in S
    PROVE  /\ Found(class, s, reset) \in Seq(BlocksOf(S)) /\ Found(class, s, reset) # <<>>
           /\ Flows(Found(class, s, reset))
<1> DEFINE c == Configures(class)
           d == Closes(class)
           r == Resets
           B == BlocksOf(S)
<1>1. c \in B /\ d \in B /\ r \in B
  <2>1. Configure(Off(class)) \in Seq(S) \ {<<>>} /\ ResetRegisters \in Seq(S) \ {<<>>}
    BY DEF Configure, ResetRegisters
  <2>2. c \in B /\ r \in B
    BY <2>1, TryType DEF Configures, Resets, Marks, OpdNodeStates, Outcomes
  <2>3. d \in B
    BY <2>2 DEF Closes, BlocksOf, Marks, OpdNodeStates
  <2> QED BY <2>2, <2>3
<1>2. /\ c.last = {} /\ c.found = FALSE /\ r.last = {"failed"} /\ r.found = FALSE
      /\ d.last = {} /\ d.found = FALSE
  BY DEF Configures, Resets, Closes, Try
<1>3. /\ Len(c.steps) \in 1..3 /\ Len(d.steps) \in 1..3 /\ Len(r.steps) \in 1..3
  BY ConfiguresRan
<1> HIDE DEF c, d, r, B
<1>4. /\ <<d>> \in Seq(B) /\ <<r, d>> \in Seq(B) /\ <<c, r, d>> \in Seq(B)
      /\ <<d>> # <<>> /\ <<r, d>> # <<>> /\ <<c, r, d>> # <<>>
  BY <1>1
<1>5. Flows(<<d>>)
  BY <1>3, OneBlock
<1>6. Flows(<<r, d>>)
  BY <1>2, <1>3, TwoBlocks
<1>7. Flows(<<c, r, d>>)
  BY <1>2, <1>3, ThreeBlocks
<1>8. Found(class, s, reset) \in {<<d>>, <<r, d>>, <<c, r, d>>}
  <2>1. CASE s = "NOT_FOUND" /\ ~reset
    BY <2>1, FoundForms DEF c, d, r
  <2>2. CASE s = "NOT_FOUND" /\ reset
    BY <2>2, FoundForms DEF c, d, r
  <2>3. CASE s # "NOT_FOUND"
    BY <2>3, FoundForms DEF c, d, r
  <2> QED BY <2>1, <2>2, <2>3
<1> QED BY <1>4, <1>5, <1>6, <1>7, <1>8 DEF B

LEMMA FoundLast ==
    ASSUME NEW class, NEW s, NEW reset \in BOOLEAN, s = "NOT_FOUND" \/ reset, NEW x
    PROVE  Outcome(Found(class, s, reset), x)
           = [out |-> {}, inputs |-> Off(class), st |-> "DISABLED"]
<1> DEFINE c == Configures(class)
           d == Closes(class)
           r == Resets
           Configured == [out |-> {}, inputs |-> Off(class), st |-> "DISABLED"]
<1>2. /\ c.last = {} /\ c.found = FALSE /\ r.last = {"failed"} /\ r.found = FALSE
      /\ d.last = {} /\ d.found = FALSE
  BY DEF Configures, Resets, Closes, Try
<1>3. /\ \A y : Ran(c, y) = Configured /\ Ran(d, y) = Configured
      /\ Len(c.steps) \in 1..3 /\ Len(d.steps) \in 1..3 /\ Len(r.steps) \in 1..3
  BY ConfiguresRan
<1> HIDE DEF c, d, r, Configured
<1>5. /\ Outcome(<<d>>, x) = Configured /\ Outcome(<<r, d>>, x) = Configured
      /\ Outcome(<<c, r, d>>, x) = Configured
  BY <1>2, <1>3, OneBlock, TwoBlocks, ThreeBlocks
<1>8. Found(class, s, reset) \in {<<d>>, <<r, d>>, <<c, r, d>>}
  <2>1. CASE s = "NOT_FOUND" /\ ~reset
    BY <2>1, FoundForms DEF c, d, r
  <2>2. CASE s = "NOT_FOUND" /\ reset
    BY <2>2, FoundForms DEF c, d, r
  <2>3. CASE s # "NOT_FOUND"
    BY <2>3, FoundForms DEF c, d, r
  <2> QED BY <2>1, <2>2, <2>3
<1>9. Outcome(Found(class, s, reset), x) = Configured
  BY <1>5, <1>8
<1> QED BY <1>9 DEF Configured

\* The steps of the calls that leave the circuit breaker alone.
LEMMA QuietTypes ==
    ASSUME NEW class \in Processors
    PROVE  /\ QuietSteps(class) \in SUBSET Writing(class)
           /\ BlindSteps(class) \in SUBSET Writing(class)
           /\ \A pin \in Pins : Clear(pin) \in QuietSteps(class)
           /\ \A pin \in Pins \ {"cbReset"} : Set(pin) \in QuietSteps(class)
           /\ \A pins \in SUBSET (Pins \ {"cbReset"}) : Output(pins) \in QuietSteps(class)
           /\ \A mode \in Modes(class) : Configuration(mode) \in QuietSteps(class)
           /\ Output({}) \in BlindSteps(class) /\ Other \in QuietSteps(class)
           /\ \A mode \in Modes(class) : Configuration(mode) \in BlindSteps(class)
           /\ Other \in BlindSteps(class)
<1>1. Other \in Writing(class) /\ Other.do = "other"
  BY StepTypes DEF Writing, WriteKinds, Other
<1>2. Output({}) \in Writing(class)
  BY WritingSteps
<1> QED BY <1>1, <1>2, WritingSteps, StepParts DEF QuietSteps, BlindSteps

LEMMA StrapsQuiet ==
    ASSUME NEW class \in Processors \ {"none"}, NEW bootloader \in BOOLEAN
    PROVE  Straps(class, bootloader) \in Seq(QuietSteps(class)) \ {<<>>}
<1>1. /\ Set("boot") \in QuietSteps(class) /\ Clear("boot") \in QuietSteps(class)
      /\ Configuration(On(class)) \in QuietSteps(class)
      /\ Configuration(Off(class)) \in QuietSteps(class)
  BY QuietTypes DEF Pins, Modes
<1>2. CASE class = "stm32"
  BY <1>1, <1>2 DEF Straps
<1>3. CASE class = "mcxn"
  BY <1>1, <1>3 DEF Straps
<1>4. CASE class = "octavo"
  BY <1>1, <1>4 DEF Straps
<1> QED BY <1>2, <1>3, <1>4 DEF Processors

\* What the straps make of the registers.
LEMMA StrapsLead ==
    ASSUME NEW class \in Processors \ {"none"}, NEW bootloader \in BOOLEAN, NEW x, NEW y,
           bootloader => class = "stm32", y = Lead(Straps(class, bootloader), x)
    PROVE  /\ Len(Straps(class, bootloader)) \in 1..3 /\ y.st = x.st
           /\ ("enable" \in y.out) = ("enable" \in x.out)
           /\ (bootloader \/ class # "stm32" => "boot" \in y.out)
           /\ (~bootloader /\ class = "stm32" => "boot" \notin y.out)
           /\ ("enable" \notin y.inputs) = ("enable" \notin x.inputs \/ Rewrites(class))
<1> DEFINE Leads(a, b) == Straps(class, bootloader) = <<a, b>>
<1>0. ASSUME NEW a, NEW b, Leads(a, b)
      PROVE  /\ Len(Straps(class, bootloader)) \in 1..3
             /\ \E z : z = Wrote(a, x) /\ y = Wrote(b, z)
  BY <1>0, LeadTwo
<1> HIDE DEF Leads
<1>1. CASE class = "stm32" /\ bootloader
  <2>1. Leads(Configuration({}), Set("boot"))
    BY <1>1 DEF Straps, On, Leads
  <2>2. PICK z : z = Wrote(Configuration({}), x) /\ y = Wrote(Set("boot"), z)
    BY <1>0, <2>1
  <2>3. z.out = x.out /\ z.inputs = {} /\ z.st = x.st
    BY <2>2, WroteConfiguration
  <2>4. y.out = z.out \cup {"boot"} /\ y.inputs = z.inputs /\ y.st = z.st
    BY <2>2, WroteSet
  <2>5. Len(Straps(class, bootloader)) \in 1..3
    BY <1>0, <2>1
  <2>6. y.out = x.out \cup {"boot"} /\ y.inputs = {} /\ y.st = x.st
    BY <2>3, <2>4
  <2>7. ("enable" \in y.out) = ("enable" \in x.out)
    BY <2>6
  <2>8. ("boot" \in y.out) /\ ("enable" \notin y.inputs)
    BY <2>6
  <2> QED BY <1>1, <2>5, <2>6, <2>7, <2>8 DEF Rewrites
<1>2. CASE class = "stm32" /\ ~bootloader
  <2>1. Leads(Clear("boot"), Configuration({"boot"}))
    BY <1>2 DEF Straps, Off, Leads
  <2>2. PICK z : z = Wrote(Clear("boot"), x) /\ y = Wrote(Configuration({"boot"}), z)
    BY <1>0, <2>1
  <2>3. z.out = x.out \ {"boot"} /\ z.inputs = x.inputs /\ z.st = x.st
    BY <2>2, WroteClear
  <2>4. y.out = z.out /\ y.inputs = {"boot"} /\ y.st = z.st
    BY <2>2, WroteConfiguration
  <2> QED BY <1>0, <1>2, <2>1, <2>3, <2>4 DEF Rewrites
<1>3. CASE class = "mcxn"
  <2>1. Leads(Configuration({}), Set("boot"))
    BY <1>3 DEF Straps, Off, Leads
  <2>2. PICK z : z = Wrote(Configuration({}), x) /\ y = Wrote(Set("boot"), z)
    BY <1>0, <2>1
  <2>3. z.out = x.out /\ z.inputs = {} /\ z.st = x.st
    BY <2>2, WroteConfiguration
  <2>4. y.out = z.out \cup {"boot"} /\ y.inputs = z.inputs /\ y.st = z.st
    BY <2>2, WroteSet
  <2> QED BY <1>0, <1>3, <2>1, <2>3, <2>4 DEF Rewrites
<1>4. CASE class = "octavo"
  <2>1. Straps(class, bootloader) = <<Set("boot")>>
    BY <1>4 DEF Straps
  <2>2. y = Wrote(Set("boot"), x) /\ Len(Straps(class, bootloader)) \in 1..3
    BY <2>1, LeadOne
  <2>3. y.out = x.out \cup {"boot"} /\ y.inputs = x.inputs /\ y.st = x.st
    BY <2>2, WroteSet
  <2> QED BY <1>4, <2>2, <2>3 DEF Rewrites
<1> QED BY <1>1, <1>2, <1>3, <1>4 DEF Processors

\* The blocks of one access.
Selects(step) == Try(<<step>>, Keep, "FAULT", {})
LEMMA SingleRan ==
    ASSUME NEW x
    PROVE  /\ Ran(Powers, x) = [out |-> x.out \cup {"enable"}, inputs |-> x.inputs,
                                st |-> "ENABLED"]
           /\ Ran(Cuts, x) = [out |-> x.out \ {"enable"}, inputs |-> x.inputs,
                              st |-> "DISABLED"]
           /\ \A pin : Ran(Selects(Set(pin)), x) = [out |-> x.out \cup {pin},
                                                    inputs |-> x.inputs, st |-> x.st]
           /\ \A pin : Ran(Selects(Clear(pin)), x) = [out |-> x.out \ {pin},
                                                      inputs |-> x.inputs, st |-> x.st]
<1>1. ASSUME NEW step, NEW ok
      PROVE  \E y : /\ y = Wrote(step, x) /\ Lead(<<step>>, x) = y
                    /\ Leaving(y, ok) = [out |-> y.out, inputs |-> y.inputs,
                                         st |-> IF ok = Keep THEN y.st ELSE ok]
  BY LeadOne DEF Leaving
<1>2. /\ Powers.steps = <<Set("enable")>> /\ Powers.ok = "ENABLED"
      /\ Cuts.steps = <<Clear("enable")>> /\ Cuts.ok = "DISABLED"
      /\ \A step : Selects(step).steps = <<step>> /\ Selects(step).ok = Keep
      /\ "ENABLED" # Keep /\ "DISABLED" # Keep
  BY DEF Powers, Cuts, Selects, Try, Keep
<1>3. Ran(Powers, x) = [out |-> x.out \cup {"enable"}, inputs |-> x.inputs, st |-> "ENABLED"]
  <2>1. PICK y : /\ y = Wrote(Set("enable"), x) /\ Lead(<<Set("enable")>>, x) = y
                 /\ Leaving(y, "ENABLED") = [out |-> y.out, inputs |-> y.inputs,
                        st |-> IF "ENABLED" = Keep THEN y.st ELSE "ENABLED"]
    BY <1>1
  <2>2. y.out = x.out \cup {"enable"} /\ y.inputs = x.inputs
    BY <2>1, WroteSet
  <2> QED BY <1>2, <2>1, <2>2 DEF Ran
<1>4. Ran(Cuts, x) = [out |-> x.out \ {"enable"}, inputs |-> x.inputs, st |-> "DISABLED"]
  <2>1. PICK y : /\ y = Wrote(Clear("enable"), x) /\ Lead(<<Clear("enable")>>, x) = y
                 /\ Leaving(y, "DISABLED") = [out |-> y.out, inputs |-> y.inputs,
                        st |-> IF "DISABLED" = Keep THEN y.st ELSE "DISABLED"]
    BY <1>1
  <2>2. y.out = x.out \ {"enable"} /\ y.inputs = x.inputs
    BY <2>1, WroteClear
  <2> QED BY <1>2, <2>1, <2>2 DEF Ran
<1>5. ASSUME NEW pin
      PROVE  Ran(Selects(Set(pin)), x)
             = [out |-> x.out \cup {pin}, inputs |-> x.inputs, st |-> x.st]
  <2>1. PICK y : /\ y = Wrote(Set(pin), x) /\ Lead(<<Set(pin)>>, x) = y
                 /\ Leaving(y, Keep) = [out |-> y.out, inputs |-> y.inputs,
                                        st |-> IF Keep = Keep THEN y.st ELSE Keep]
    BY <1>1
  <2>2. y.out = x.out \cup {pin} /\ y.inputs = x.inputs /\ y.st = x.st
    BY <2>1, WroteSet
  <2> QED BY <1>2, <2>1, <2>2 DEF Ran
<1>6. ASSUME NEW pin
      PROVE  Ran(Selects(Clear(pin)), x)
             = [out |-> x.out \ {pin}, inputs |-> x.inputs, st |-> x.st]
  <2>1. PICK y : /\ y = Wrote(Clear(pin), x) /\ Lead(<<Clear(pin)>>, x) = y
                 /\ Leaving(y, Keep) = [out |-> y.out, inputs |-> y.inputs,
                                        st |-> IF Keep = Keep THEN y.st ELSE Keep]
    BY <1>1
  <2>2. y.out = x.out \ {pin} /\ y.inputs = x.inputs /\ y.st = x.st
    BY <2>1, WroteClear
  <2> QED BY <1>2, <2>1, <2>2 DEF Ran
<1> QED BY <1>3, <1>4, <1>5, <1>6

LEMMA SingleType ==
    ASSUME NEW class \in Processors
    PROVE  /\ Powers \in BlocksOf(QuietSteps(class)) /\ Len(Powers.steps) \in 1..3
           /\ Cuts \in BlocksOf(QuietSteps(class)) /\ Len(Cuts.steps) \in 1..3
           /\ \A step \in QuietSteps(class) : Selects(step) \in BlocksOf(QuietSteps(class))
           /\ \A step : Len(Selects(step).steps) \in 1..3
           /\ Powers.found /\ Cuts.found = FALSE
<1>1. Set("enable") \in QuietSteps(class) /\ Clear("enable") \in QuietSteps(class)
  BY QuietTypes DEF Pins
<1> DEFINE S == QuietSteps(class)
<1>2. /\ Keep \in Marks /\ "ENABLED" \in Marks /\ "DISABLED" \in Marks /\ "FAULT" \in Marks
      /\ {"done"} \in SUBSET Outcomes /\ {} \in SUBSET Outcomes
  BY DEF Marks, OpdNodeStates, Outcomes
<1> HIDE DEF S
<1>3. Powers \in BlocksOf(S)
  BY <1>1, <1>2, StepType DEF Powers, S
<1>4. Cuts \in BlocksOf(S)
  BY <1>1, <1>2, StepType DEF Cuts, S
<1>5. \A step \in S : Selects(step) \in BlocksOf(S)
  BY <1>2, StepType DEF Selects
<1>6. /\ Powers.steps = <<Set("enable")>> /\ Cuts.steps = <<Clear("enable")>>
      /\ \A step : Selects(step).steps = <<step>>
      /\ Powers.found = TRUE /\ Cuts.found = FALSE
  BY DEF Powers, Cuts, Selects, Try
<1>7. /\ Len(Powers.steps) \in 1..3 /\ Len(Cuts.steps) \in 1..3
      /\ \A step : Len(Selects(step).steps) \in 1..3
  BY <1>6, LeadOne
<1> QED BY <1>3, <1>4, <1>5, <1>6, <1>7 DEF S

\* What an undisturbed enable, disable, connect and disconnect come to.
WorksOut(todo) ==
    /\ todo \in Seq(BlocksOf(QuietSteps(processor))) /\ Flows(todo)
    /\ Seen(Outcome(todo, Registers)) \in Sequential!Results(View)

LEMMA EnableWorks ==
    ASSUME TypeInv, present, NEW bootloader \in BOOLEAN, bootloader => processor = "stm32",
           st = "NOT_FOUND" => processor # "none"
    PROVE  WorksOut(EnableCall(processor, bootloader))
<1> PICK todo : todo = EnableCall(processor, bootloader)
  OBVIOUS
<1> PICK x : x = Registers
  OBVIOUS
<1> PICK z : z = Outcome(todo, x)
  OBVIOUS
<1> PICK B : B = BlocksOf(QuietSteps(processor))
  OBVIOUS
<1>1. processor \in Processors /\ View \in Cards /\ View.present
      /\ x.out = out /\ x.inputs = inputs /\ x.st = st /\ st \in OpdNodeStates
  BY Constants, ViewType DEF TypeInv, Registers, View, ChipOK
<1>2. Powers \in B /\ Len(Powers.steps) \in 1..3 /\ Powers.found
  BY <1>1, SingleType
<1>3. CASE processor = "none"
  <2>1. todo = <<Powers>>
    <3>1. todo = <<>> \o <<Powers>>
      BY <1>3 DEF EnableCall, Powers
    <3> QED BY <1>2, <3>1, Triple
  <2>2. todo \in Seq(B) /\ Flows(todo) /\ z = Ran(Powers, x)
    BY <1>2, <2>1, OneBlock
  <2>3. z = [out |-> out \cup {"enable"}, inputs |-> inputs, st |-> "ENABLED"]
    BY <1>1, <2>2, SingleRan
  <2>4. z.out = out \cup {"enable"} /\ z.inputs = inputs /\ z.st = "ENABLED"
    BY <2>3
  <2>5. PICK d : d = Seen(z)
    OBVIOUS
  <2>6. /\ d \in Cards /\ d.present /\ d.tripped = tripped /\ ~d.hung
        /\ d.st = "ENABLED" /\ d.pin = TRUE
        /\ d.boot = FALSE /\ d.ready = ("enable" \notin inputs)
    <3>1. z.st \in OpdNodeStates /\ "enable" \in z.out
      BY <2>4 DEF OpdNodeStates
    <3>2. /\ d \in Cards /\ d.present /\ d.tripped = tripped /\ ~d.hung
          /\ d.st = z.st /\ d.pin = ("enable" \in z.out)
          /\ d.boot = (processor = "stm32" /\ "boot" \in z.out)
          /\ d.ready = ("enable" \notin z.inputs)
      BY <2>5, <3>1, SeenType
    <3> QED BY <1>3, <2>4, <3>1, <3>2
  <2>7. /\ bootloader = FALSE /\ d.hung = FALSE
        /\ d.ready = (View.ready \/ Rewrites(processor))
    BY <1>3, <2>6, ViewFields DEF Rewrites, Cards
  <2>8. d \in Sequential!Results(View)
    BY <1>1, <1>3, <2>6, <2>7, ViewFields, EnableResults
  <2> QED BY <2>2, <2>5, <2>8 DEF WorksOut
<1>4. CASE processor # "none"
  <2> PICK a : a = Try(Straps(processor, bootloader), Keep, "FAULT", {"failed"})
    OBVIOUS
  <2> PICK y : y = Lead(Straps(processor, bootloader), x)
    OBVIOUS
  <2>1. /\ a \in B /\ a.steps = Straps(processor, bootloader) /\ a.ok = Keep
        /\ a.last = {"failed"} /\ a.found = FALSE
    <3>1. Straps(processor, bootloader) \in Seq(QuietSteps(processor)) \ {<<>>}
      BY <1>1, <1>4, StrapsQuiet
    <3>2. a \in B
      BY <3>1, TryType DEF Marks, OpdNodeStates, Outcomes
    <3> QED BY <3>2 DEF Try
  <2>2. /\ Len(a.steps) \in 1..3 /\ y.st = st
        /\ ("enable" \in y.out) = ("enable" \in out)
        /\ (bootloader \/ processor # "stm32" => "boot" \in y.out)
        /\ (~bootloader /\ processor = "stm32" => "boot" \notin y.out)
        /\ ("enable" \notin y.inputs) = ("enable" \notin inputs \/ Rewrites(processor))
    BY <1>1, <1>4, <2>1, StrapsLead
  <2>3. todo = <<a, Powers>>
    <3>1. todo = <<a>> \o <<Powers>>
      BY <1>4 DEF EnableCall, Powers
    <3> QED BY <1>2, <2>1, <3>1, Pair
  <2>4. /\ todo \in Seq(B) /\ Flows(todo)
        /\ z = IF Powers.found /\ Ran(a, x).st = "NOT_FOUND" THEN Ran(a, x)
               ELSE Ran(Powers, Ran(a, x))
    BY <1>2, <2>1, <2>2, <2>3, TwoBlocks
  <2> PICK w : w = Ran(a, x)
    OBVIOUS
  <2>5. w.out = y.out /\ w.inputs = y.inputs /\ w.st = st
    BY <2>1, <2>2 DEF Ran, Leaving
  <2>6. z.inputs = y.inputs /\ ("boot" \in z.out) = ("boot" \in y.out)
        /\ IF st = "NOT_FOUND" THEN z.st = st /\ ("enable" \in z.out) = ("enable" \in y.out)
           ELSE z.st = "ENABLED" /\ "enable" \in z.out
    <3>1. CASE st = "NOT_FOUND"
      BY <1>2, <2>4, <2>5, <3>1
    <3>2. CASE st # "NOT_FOUND"
      <4>1. z = Ran(Powers, w)
        BY <2>4, <2>5, <3>2
      <4>2. z = [out |-> w.out \cup {"enable"}, inputs |-> w.inputs, st |-> "ENABLED"]
        BY <4>1, SingleRan
      <4> QED BY <2>5, <3>2, <4>2
    <3> QED BY <3>1, <3>2
  <2>7. PICK d : d = Seen(z)
    OBVIOUS
  <2>8. /\ d \in Cards /\ d.present /\ d.tripped = tripped /\ ~d.hung /\ d.st = z.st
        /\ d.pin = ("enable" \in z.out)
        /\ d.boot = (processor = "stm32" /\ "boot" \in z.out)
        /\ d.ready = ("enable" \notin z.inputs)
    <3>1. z.st \in OpdNodeStates
      BY <1>1, <2>6 DEF OpdNodeStates
    <3> QED BY <2>7, <3>1, SeenType
  <2>9. /\ d.tripped = View.tripped /\ d.hung = View.hung /\ d.boot = bootloader
        /\ d.ready = (View.ready \/ Rewrites(processor))
    <3>1. d.boot = bootloader
      BY <2>2, <2>6, <2>8
    <3>2. d.ready = (View.ready \/ Rewrites(processor))
      BY <2>2, <2>6, <2>8, ViewFields
    <3>3. d.hung = FALSE
      BY <2>8 DEF Cards
    <3> QED BY <2>8, <3>1, <3>2, <3>3, ViewFields
  <2>10. IF View.st = "NOT_FOUND" THEN d.pin = View.pin /\ d.st = View.st
         ELSE d.pin = TRUE /\ d.st = "ENABLED"
    BY <2>2, <2>6, <2>8, ViewFields
  <2>11. d \in Sequential!Results(View)
    BY <1>1, <2>8, <2>9, <2>10, EnableResults
  <2> QED BY <2>4, <2>7, <2>11 DEF WorksOut
<1> QED BY <1>3, <1>4

LEMMA StrapsDown ==
    ASSUME NEW class \in Processors \ {"none"}, NEW x, NEW y,
           y = Lead(Straps(class, FALSE), x)
    PROVE  /\ Len(Straps(class, FALSE)) \in 1..3
           /\ (class = "stm32" => "boot" \notin y.out)
           /\ ("enable" \notin y.inputs) = ("enable" \notin x.inputs \/ Rewrites(class))
<1>1. FALSE \in BOOLEAN /\ (FALSE => class = "stm32") /\ class \in Processors \ {"none"}
  BY Zenon
<1>2. Len(Straps(class, FALSE)) \in 1..3
  BY <1>1, StrapsLead, Zenon
<1>3. class = "stm32" => "boot" \notin y.out
  BY <1>1, StrapsLead, Zenon
<1>4. ("enable" \notin y.inputs) = ("enable" \notin x.inputs \/ Rewrites(class))
  BY <1>1, StrapsLead, Zenon
<1> QED BY <1>2, <1>3, <1>4

LEMMA DisableWorks ==
    ASSUME TypeInv, present
    PROVE  WorksOut(DisableCall(processor))
<1> PICK todo : todo = DisableCall(processor)
  OBVIOUS
<1> PICK x : x = Registers
  OBVIOUS
<1> PICK z : z = Outcome(todo, x)
  OBVIOUS
<1> PICK B : B = BlocksOf(QuietSteps(processor))
  OBVIOUS
<1>1. processor \in Processors /\ View \in Cards /\ View.present
      /\ x.out = out /\ x.inputs = inputs /\ x.st = st /\ st \in OpdNodeStates
  BY Constants, ViewType DEF TypeInv, Registers, View, ChipOK
<1>2. Cuts \in B /\ Len(Cuts.steps) \in 1..3 /\ Cuts.found = FALSE
  BY <1>1, SingleType
<1>3. /\ todo \in Seq(B) /\ Flows(todo)
      /\ "enable" \notin z.out /\ z.st = "DISABLED" /\ ~(processor = "stm32" /\ "boot" \in z.out)
      /\ ("enable" \notin z.inputs) = ("enable" \notin inputs \/ Rewrites(processor))
  <2>1. CASE ~Rewrites(processor)
    <3>1. todo = <<Cuts>>
      <4>1. todo = <<>> \o <<Cuts>>
        BY <2>1 DEF DisableCall, Cuts
      <4> QED BY <1>2, <4>1, Triple
    <3>2. todo \in Seq(B) /\ Flows(todo) /\ z = Ran(Cuts, x)
      BY <1>2, <3>1, OneBlock
    <3>3. z = [out |-> out \ {"enable"}, inputs |-> inputs, st |-> "DISABLED"]
      BY <1>1, <3>2, SingleRan
    <3>4. z.out = out \ {"enable"} /\ z.inputs = inputs /\ z.st = "DISABLED"
      BY <3>3
    <3>5. processor # "stm32"
      BY <2>1 DEF Rewrites
    <3> QED BY <2>1, <3>2, <3>4, <3>5
  <2>2. CASE Rewrites(processor)
    <3>1. processor # "none" /\ processor \in {"stm32", "mcxn"}
      BY <2>2 DEF Rewrites
    <3> PICK a : a = Try(Straps(processor, FALSE), Keep, Keep, {})
      OBVIOUS
    <3> PICK y : y = Lead(Straps(processor, FALSE), x)
      OBVIOUS
    <3>2. /\ a \in B /\ a.steps = Straps(processor, FALSE) /\ a.ok = Keep
          /\ a.last = {} /\ a.found = FALSE
      <4>1. Straps(processor, FALSE) \in Seq(QuietSteps(processor)) \ {<<>>}
        BY <1>1, <3>1, StrapsQuiet
      <4>2. a \in B
        BY <4>1, TryType DEF Marks, OpdNodeStates, Outcomes
      <4> QED BY <4>2 DEF Try
    <3>3. /\ Len(a.steps) \in 1..3
          /\ (processor = "stm32" => "boot" \notin y.out)
          /\ ("enable" \notin y.inputs) = ("enable" \notin inputs \/ Rewrites(processor))
      <4>1. processor \in Processors \ {"none"}
        BY <1>1, <3>1
      <4>2. Len(Straps(processor, FALSE)) \in 1..3
        BY <4>1, StrapsDown, Zenon
      <4>3. processor = "stm32" => "boot" \notin y.out
        BY <4>1, StrapsDown, Zenon
      <4>4. ("enable" \notin y.inputs)
            = ("enable" \notin x.inputs \/ Rewrites(processor))
        BY <4>1, StrapsDown, Zenon
      <4> QED BY <1>1, <3>2, <4>2, <4>3, <4>4
    <3>4. todo = <<a, Cuts>>
      <4>1. todo = <<a>> \o <<Cuts>>
        BY <2>2 DEF DisableCall, Cuts
      <4> QED BY <1>2, <3>2, <4>1, Pair
    <3>5. todo \in Seq(B) /\ Flows(todo) /\ z = Ran(Cuts, Ran(a, x))
      <4>1. "done" \notin a.last /\ ~a.found
        BY <3>2
      <4>2. /\ Flows(<<a, Cuts>>)
            /\ Outcome(<<a, Cuts>>, x)
               = IF Cuts.found /\ Ran(a, x).st = "NOT_FOUND" THEN Ran(a, x)
                 ELSE Ran(Cuts, Ran(a, x))
        BY <1>2, <3>3, <4>1, TwoBlocks
      <4>3. Outcome(<<a, Cuts>>, x) = Ran(Cuts, Ran(a, x))
        BY <1>2, <4>2
      <4>4. todo \in Seq(B)
        <5>1. a \in B /\ Cuts \in B /\ todo = <<a, Cuts>>
          BY <1>2, <3>2, <3>4
        <5> QED BY ONLY <5>1
      <4> QED BY <3>4, <4>2, <4>3, <4>4
    <3> PICK w : w = Ran(a, x)
      OBVIOUS
    <3>6. w.out = y.out /\ w.inputs = y.inputs
      BY <3>2 DEF Ran, Leaving
    <3>7. z = [out |-> w.out \ {"enable"}, inputs |-> w.inputs, st |-> "DISABLED"]
      BY <3>5, SingleRan
    <3>8. z.out = y.out \ {"enable"} /\ z.inputs = y.inputs /\ z.st = "DISABLED"
      BY <3>6, <3>7
    <3>9. ~(processor = "stm32" /\ "boot" \in z.out)
      BY <3>3, <3>8
    <3> QED BY <3>3, <3>5, <3>8, <3>9
  <2> QED BY <2>1, <2>2
<1>5. PICK d : d = Seen(z)
  OBVIOUS
<1>6. /\ d \in Cards /\ d.present /\ d.tripped = tripped /\ ~d.hung
      /\ d.st = "DISABLED" /\ ~d.pin /\ ~d.boot
      /\ d.ready = (View.ready \/ Rewrites(processor))
  <2>1. z.st \in OpdNodeStates
    BY <1>3 DEF OpdNodeStates
  <2>2. /\ d \in Cards /\ d.present /\ d.tripped = tripped /\ ~d.hung
        /\ d.st = z.st /\ d.pin = ("enable" \in z.out)
        /\ d.boot = (processor = "stm32" /\ "boot" \in z.out)
        /\ d.ready = ("enable" \notin z.inputs)
    BY <1>5, <2>1, SeenType
  <2> QED BY <1>3, <2>2, ViewFields
<1>7. d \in Sequential!Results(View)
  BY <1>1, <1>6, ViewFields, DisableResults
<1> QED BY <1>3, <1>5, <1>7 DEF WorksOut

LEMMA SelectWorks ==
    ASSUME TypeInv, present, processor # "none",
           NEW step \in {Set("uart"), Clear("uart")}
    PROVE  WorksOut(UartCall(processor, step))
<1> PICK todo : todo = UartCall(processor, step)
  OBVIOUS
<1> PICK x : x = Registers
  OBVIOUS
<1> PICK z : z = Outcome(todo, x)
  OBVIOUS
<1> PICK B : B = BlocksOf(QuietSteps(processor))
  OBVIOUS
<1>1. processor \in Processors /\ View \in Cards /\ View.present
      /\ x.out = out /\ x.inputs = inputs /\ x.st = st /\ st \in OpdNodeStates
  BY Constants, ViewType DEF TypeInv, Registers, View, ChipOK
<1>2. Selects(step) \in B /\ Len(Selects(step).steps) \in 1..3
  <2>1. step \in QuietSteps(processor)
    BY <1>1, QuietTypes DEF Pins
  <2> QED BY <1>1, <2>1, SingleType
<1>3. todo = <<Selects(step)>>
  BY DEF UartCall, Selects
<1>4. todo \in Seq(B) /\ Flows(todo) /\ z = Ran(Selects(step), x)
  BY <1>2, <1>3, OneBlock
<1>5. /\ z.inputs = inputs /\ z.st = st /\ ("enable" \in z.out) = ("enable" \in out)
      /\ ("boot" \in z.out) = ("boot" \in out)
  <2>1. CASE step = Set("uart")
    <3>1. z = [out |-> out \cup {"uart"}, inputs |-> inputs, st |-> st]
      BY <1>1, <1>4, <2>1, SingleRan
    <3> QED BY <3>1
  <2>2. CASE step = Clear("uart")
    <3>1. z = [out |-> out \ {"uart"}, inputs |-> inputs, st |-> st]
      BY <1>1, <1>4, <2>2, SingleRan
    <3> QED BY <3>1
  <2> QED BY <2>1, <2>2
<1>6. Seen(z) = View
  <2>1. View = Seen(x)
    BY ViewSeen
  <2> QED BY <1>1, <1>5, <2>1 DEF Seen
<1> QED BY <1>1, <1>4, <1>6, StatusResults DEF WorksOut
-----------------------------------------------------------------------------
(* A call without a chip that answers. *)
LEMMA DoomedForms ==
    ASSUME NEW a, NEW b, NEW c
    PROVE  /\ Doomed(<<>>)
           /\ a.bad \in Lacking => Doomed(<<a>>)
           /\ a.bad \in Lacking /\ b.bad \in Lacking => Doomed(<<a, b>>)
           /\ a.bad = Keep /\ a.last = {} /\ ~b.found /\ b.bad \in Lacking
                => Doomed(<<a, b>>)
           /\ a.bad \in Lacking /\ b.bad \in Lacking /\ c.bad \in Lacking
                => Doomed(<<a, b, c>>)
BY DEF Doomed

LEMMA DoomedBody ==
    ASSUME NEW class \in Processors, NEW op \in Calls
    PROVE  Doomed(Body(class, op))
<1> USE DEF Lacking
<1>2. Powers.bad = "FAULT" /\ Cuts.bad = "FAULT" /\ Cuts.found = FALSE /\ Attempt.bad = "FAULT"
  BY DEF Powers, Cuts, Attempt, Try
<1>3. ASSUME NEW b \in BOOLEAN PROVE Doomed(EnableCall(class, b))
  <2> PICK a : a = Try(Straps(class, b), Keep, "FAULT", {"failed"})
    OBVIOUS
  <2>1. EnableCall(class, b) = (IF class = "none" THEN <<>> ELSE <<a>>) \o <<Powers>>
    BY DEF EnableCall, Powers
  <2>2. <<>> \o <<Powers>> = <<Powers>> /\ <<a>> \o <<Powers>> = <<a, Powers>>
    <3>1. a \in {a, Powers} /\ Powers \in {a, Powers}
      OBVIOUS
    <3> QED BY <3>1, Pair
  <2>3. EnableCall(class, b) \in {<<Powers>>, <<a, Powers>>}
    BY <2>1, <2>2
  <2>4. a.bad = "FAULT"
    BY DEF Try
  <2>5. Doomed(<<Powers>>) /\ Doomed(<<a, Powers>>)
    BY <1>2, <2>4, DoomedForms
  <2> QED BY <2>3, <2>5
<1>4. Doomed(DisableCall(class))
  <2> PICK a : a = Try(Straps(class, FALSE), Keep, Keep, {})
    OBVIOUS
  <2>1. DisableCall(class) = (IF Rewrites(class) THEN <<a>> ELSE <<>>) \o <<Cuts>>
    BY DEF DisableCall, Cuts
  <2>2. <<>> \o <<Cuts>> = <<Cuts>> /\ <<a>> \o <<Cuts>> = <<a, Cuts>>
    <3>1. a \in {a, Cuts} /\ Cuts \in {a, Cuts}
      OBVIOUS
    <3> QED BY <3>1, Pair
  <2>3. DisableCall(class) \in {<<Cuts>>, <<a, Cuts>>}
    BY <2>1, <2>2
  <2>4. a.bad = Keep /\ a.last = {}
    BY DEF Try
  <2>5. Doomed(<<Cuts>>) /\ Doomed(<<a, Cuts>>)
    BY <1>2, <2>4, DoomedForms
  <2> QED BY <2>3, <2>5
<1>5. Doomed(<<Asking>>)
  <2>1. Asking.bad = "NOT_FOUND"
    BY DEF Asking, Try
  <2> QED BY <2>1, DoomedForms
<1>6. Doomed(<<Attempt>>) /\ Doomed(<<Attempt, Attempt, Attempt>>)
  BY <1>2, DoomedForms
<1>7. Doomed(StatusCall)
  <2> PICK a, b, c : /\ a = Try(<<Valid>>, Keep, "NOT_FOUND", {"failed"})
                     /\ b = Try(<<Enabled>>, Keep, "FAULT", {"failed"})
                     /\ c = Try(<<Fault>>, Keep, "FAULT", {})
    OBVIOUS
  <2>1. StatusCall = <<a, b, c>>
    BY DEF StatusCall
  <2>2. a.bad = "NOT_FOUND" /\ b.bad = "FAULT" /\ c.bad = "FAULT"
    BY DEF Try
  <2> QED BY <2>1, <2>2, DoomedForms
<1>8. ASSUME NEW step PROVE Doomed(UartCall(class, step))
  <2>1. UartCall(class, step) \in {<<>>, <<Selects(step)>>}
    BY DEF UartCall, Selects
  <2>2. Selects(step).bad = "FAULT"
    BY DEF Selects, Try
  <2>3. Doomed(<<>>) /\ Doomed(<<Selects(step)>>)
    BY <2>2, DoomedForms
  <2> QED BY <2>1, <2>3
<1>9. CASE op \in {"probe", "rescan"}
  BY <1>5, <1>9 DEF Body, Asking
<1>10. CASE op \in Powering
  BY <1>3, <1>10 DEF Body, Powering
<1>11. CASE op = "disable"
  BY <1>4, <1>11 DEF Body
<1>12. CASE op \in {"reset", "reset3"}
  BY <1>6, <1>12 DEF Body
<1>13. CASE op = "status"
  BY <1>7, <1>13 DEF Body
<1>14. CASE op \in {"connect", "disconnect"}
  BY <1>8, <1>14 DEF Body
<1> QED BY <1>9, <1>10, <1>11, <1>12, <1>13, <1>14 DEF Calls, Powering

LEMMA DoomedRest ==
    ASSUME NEW B, NEW todo \in Seq(B), todo # <<>>, Doomed(todo)
    PROVE  /\ Head(todo) = todo[1] /\ Doomed(Tail(todo))
           /\ Head(todo).bad \notin Lacking =>
                /\ Head(todo).bad = Keep /\ Head(todo).last = {}
                /\ Tail(todo) # <<>> /\ ~Head(Tail(todo)).found
<1> DEFINE rest == Tail(todo)
<1>1. /\ rest \in Seq(B) /\ Len(rest) = Len(todo) - 1 /\ Len(todo) \in Nat \ {0}
      /\ \A i \in 1..Len(rest) : rest[i] = todo[i + 1]
      /\ Head(todo) = todo[1]
  BY HeadTailProperties
<1> HIDE DEF rest
<1>2. Doomed(rest)
  <2>1. ASSUME NEW i \in 1..Len(rest), rest[i].bad \notin Lacking
        PROVE  /\ rest[i].bad = Keep /\ rest[i].last = {}
               /\ i < Len(rest) /\ ~rest[i + 1].found
    <3>1. i + 1 \in 1..Len(todo) /\ rest[i] = todo[i + 1] /\ i \in Nat
      BY <1>1
    <3>2. /\ todo[i + 1].bad = Keep /\ todo[i + 1].last = {}
          /\ i + 1 < Len(todo) /\ ~todo[(i + 1) + 1].found
      BY <2>1, <3>1 DEF Doomed
    <3>3. i < Len(rest) /\ i + 1 \in 1..Len(rest)
      BY <1>1, <3>1, <3>2
    <3> QED BY <1>1, <3>1, <3>2, <3>3
  <2> QED BY <2>1 DEF Doomed
<1>3. ASSUME todo[1].bad \notin Lacking
      PROVE  /\ todo[1].bad = Keep /\ todo[1].last = {} /\ rest # <<>> /\ ~Head(rest).found
  <2>1. 1 \in 1..Len(todo)
    BY <1>1
  <2>2. /\ todo[1].bad = Keep /\ todo[1].last = {} /\ 1 < Len(todo) /\ ~todo[1 + 1].found
    BY <1>3, <2>1 DEF Doomed
  <2>3. 1 \in 1..Len(rest) /\ rest # <<>> /\ Head(rest) = rest[1]
    BY <1>1, <2>2
  <2> QED BY <1>1, <2>2, <2>3
<1> QED BY <1>1, <1>2, <1>3 DEF rest

Shown == /\ View \in Cards /\ View.present = present /\ View.tripped = tripped
         /\ View.hung = FALSE /\ View.st = st /\ View.pin = ("enable" \in out)
         /\ View.boot = (processor = "stm32" /\ "boot" \in out)
         /\ View.ready = ("enable" \notin inputs)
LEMMA ViewNext ==
    TypeInv' => /\ View' \in Cards
                /\ View'.present = present' /\ View'.tripped = tripped'
                /\ View'.hung = FALSE /\ View'.st = st' /\ View'.pin = ("enable" \in out')
                /\ View'.boot = (processor' = "stm32" /\ "boot" \in out')
                /\ View'.ready = ("enable" \notin inputs')
<1>1. TypeInv => Shown
  BY ViewType, ViewFields DEF Shown
<1>2. TypeInv' => Shown'
  BY <1>1, PTL
<1> QED BY <1>2 DEF Shown

\* What becomes of the card, when nothing of the chip changes.
LEMMA StatusOnly ==
    ASSUME TypeInv, TypeInv', UNCHANGED <<processor, chip>>
    PROVE  View' = [View EXCEPT !.st = st']
<1>1. View \in Cards /\ View' \in Cards /\ st' \in OpdNodeStates
  BY ViewType, ViewNext DEF TypeInv
<1> PICK d : d = [View EXCEPT !.st = st']
  OBVIOUS
<1>2. /\ d \in Cards /\ d.present = View.present /\ d.pin = View.pin /\ d.boot = View.boot
      /\ d.ready = View.ready /\ d.tripped = View.tripped /\ d.hung = View.hung
      /\ d.st = st'
  BY <1>1 DEF Cards
<1>3. /\ View'.present = View.present /\ View'.pin = View.pin
      /\ View'.boot = View.boot /\ View'.ready = View.ready
      /\ View'.tripped = View.tripped /\ View'.hung = View.hung /\ View'.st = st'
  <2>1. present' = present /\ tripped' = tripped /\ out' = out /\ inputs' = inputs
        /\ processor' = processor
    BY DEF chip
  <2> QED BY <2>1, ViewFields, ViewNext
<1> PICK v : v = View'
  OBVIOUS
<1>4. v = d
  <2>1. /\ v \in Cards /\ d \in Cards /\ v.present = d.present /\ v.pin = d.pin
        /\ v.boot = d.boot /\ v.ready = d.ready /\ v.tripped = d.tripped
        /\ v.hung = d.hung /\ v.st = d.st
    BY <1>1, <1>2, <1>3
  <2> QED BY ONLY <2>1, CardEqual
<1> QED BY <1>4

LEMMA LacksAccess ==
    ASSUME TypeInv, NEW t \in Threads, Access(t), Lacks(t)
    PROVE  /\ UNCHANGED chip
           /\ IF call'[t].todo = <<>> THEN View' \in Sequential!Results(before)
              ELSE /\ ~present' /\ View' = [before EXCEPT !.st = st']
                   /\ Doomed(call'[t].todo)
<1> PICK todo : todo = call[t].todo
  OBVIOUS
<1> PICK b : b = Head(todo)
  OBVIOUS
<1>1. /\ todo # <<>> /\ todo \in Seq(BlocksOf(StepsOf(processor))) /\ before \in Cards
      /\ st \in OpdNodeStates /\ Block(t) = b /\ UNCHANGED processor
      /\ ~present /\ View = [before EXCEPT !.st = st] /\ Doomed(todo)
  BY DEF TypeInv, CallsIn, HistoryOK, Access, Idle, Block, Lacks
<1>2. UNCHANGED chip
  BY <1>1, LackingAccess
<1>3. PICK status \in {b.bad, Keep} : /\ After(t, "failed", status)
                                      /\ status # b.bad => st = "NOT_FOUND"
  BY <1>1, LackingAccess
<1>4. /\ Doomed(Tail(todo)) /\ Tail(todo) \in Seq(BlocksOf(StepsOf(processor)))
      /\ b.bad \notin Lacking =>
           /\ b.bad = Keep /\ b.last = {}
           /\ Tail(todo) # <<>> /\ ~Head(Tail(todo)).found
  <2>1. Tail(todo) \in Seq(BlocksOf(StepsOf(processor)))
    BY <1>1, TodoTypes
  <2> PICK B : B = BlocksOf(StepsOf(processor))
    OBVIOUS
  <2>2. todo \in Seq(B) /\ todo # <<>> /\ Doomed(todo)
    BY <1>1
  <2> QED BY <2>1, <2>2, DoomedRest
<1>5. /\ st' = Settle(status)
      /\ call'[t].todo = IF "failed" \in b.last THEN <<>> ELSE Entered(Tail(todo), st')
  BY <1>1, <1>3 DEF After
<1>6. /\ before.present = FALSE
      /\ View' = [before EXCEPT !.st = st']
  <2>1. View' = [View EXCEPT !.st = st']
    BY <1>1, <1>2, AccessType, StatusOnly
  <2>2. View.present = FALSE
    BY <1>1, ViewFields DEF TypeInv, ChipOK
  <2> QED BY <1>1, <2>1, <2>2 DEF Cards
<1>7. CASE call'[t].todo = <<>>
  <2>1. st' \in Lacking
    <3>1. CASE b.bad \in Lacking
      <4>1. CASE status = b.bad
        BY <1>5, <3>1, <4>1 DEF Settle, Lacking, Keep
      <4>2. CASE status # b.bad
        BY <1>3, <1>5, <4>2 DEF Settle, Lacking
      <4> QED BY <4>1, <4>2
    <3>2. CASE b.bad \notin Lacking
      <4>1. call'[t].todo = Tail(todo)
        BY <1>4, <1>5, <3>2 DEF Entered
      <4> QED BY <1>4, <1>7, <3>2, <4>1
    <3> QED BY <3>1, <3>2
  <2>2. [before EXCEPT !.st = st'] \in Sequential!Results(before)
    BY <1>1, <1>6, <2>1, LackingResults
  <2> QED BY <1>2, <1>6, <1>7, <2>2
<1>8. CASE call'[t].todo # <<>>
  <2>1. call'[t].todo = Tail(todo)
    BY <1>5, <1>8 DEF Entered
  <2>2. ~present'
    BY <1>1, <1>2 DEF chip
  <2> QED BY <1>2, <1>4, <1>6, <1>8, <2>1, <2>2
<1> QED BY <1>7, <1>8
-----------------------------------------------------------------------------
(* The accesses of a call that is known. *)

LEMMA ResultsNext ==
    ASSUME NEW c, c = before', UNCHANGED processor
    PROVE  Sequential!Results(before)' = Sequential!Results(c)
BY DEF Sequential!Results, Sequential!BootModes, Sequential!UartFailed

LEMMA WorksNext ==
    ASSUME NEW t \in Threads, UNCHANGED processor, present', tripped' = tripped,
           NEW todo, todo = call'[t].todo, todo \in Seq(BlocksOf(QuietSteps(processor))),
           Flows(todo), NEW x, x = Registers', NEW c, c = before',
           Seen(Outcome(todo, x)) \in Sequential!Results(c)
    PROVE  Works(t)'
<1>1. Sequential!Results(before)' = Sequential!Results(c)
  BY ResultsNext
<1>2. Seen(Outcome(call[t].todo, Registers))' = Seen(Outcome(todo, x))
  BY DEF Seen
<1>3. (call[t].todo \in Seq(BlocksOf(QuietSteps(processor))))' /\ Flows(call[t].todo)'
  OBVIOUS
<1> QED BY <1>1, <1>2, <1>3 DEF Works

\* A quiet access.
LEMMA QuietAccess ==
    ASSUME TypeInv, NEW t \in Threads, Access(t), present,
           Step(t) \in QuietSteps(processor), "cbReset" \notin out
    PROVE  /\ present' /\ tripped' = tripped /\ "cbReset" \notin out'
           /\ UNCHANGED processor
<1>1. Step(t).do \in WriteKinds /\ (Step(t).do = "output" => "cbReset" \notin Step(t).on)
  BY DEF QuietSteps, Writing
<1>2. CASE Reads(t) \/ Tests(t)
  BY <1>2 DEF Reads, Tests, chip, Access
<1>3. CASE Writes(t)
  BY <1>1, <1>3 DEF Writes, Access
<1> QED BY <1>2, <1>3 DEF Access

LEMMA WorksAccess ==
    ASSUME TypeInv, NEW t \in Threads, Access(t), Works(t), "cbReset" \notin out,
           call'[t].todo # <<>> => before' = before
    PROVE  /\ "cbReset" \notin out'
           /\ IF call'[t].todo = <<>> THEN View' \in Sequential!Results(before) ELSE Works(t)'
<1> PICK todo : todo = call[t].todo
  OBVIOUS
<1> PICK S : S = QuietSteps(processor)
  OBVIOUS
<1> PICK x : x = Outcome(todo, Registers)
  OBVIOUS
<1>1. /\ present /\ todo \in Seq(BlocksOf(S)) /\ Flows(todo) /\ S \in SUBSET Writing(processor)
      /\ Seen(x) \in Sequential!Results(before) /\ processor \in Processors
  BY QuietTypes, Constants DEF Works, TypeInv
<1>2. Step(t) \in S
  BY <1>1, FlowSteps
<1>3. present' /\ tripped' = tripped /\ "cbReset" \notin out' /\ UNCHANGED processor
  BY <1>1, <1>2, QuietAccess
<1>4. Step(t).do \in {"set", "clear"} => Output(Value(t)) \in S
  <2>1. Step(t).do = "set" => "cbReset" \notin Step(t).on
    BY <1>2 DEF QuietSteps
  <2>2. Step(t).on \in SUBSET Pins /\ out \in SUBSET Pins
    BY <1>2 DEF QuietSteps, Writing, StepsOf, Steps, TypeInv, ChipOK
  <2>3. Step(t).do \in {"set", "clear"} => Value(t) \in SUBSET (Pins \ {"cbReset"})
    BY <2>1, <2>2 DEF Value
  <2> QED BY <1>1, <2>3, QuietTypes
<1>5. \/ call'[t].todo = <<>> /\ Registers' = x
      \/ /\ call'[t].todo \in Seq(BlocksOf(S)) /\ Flows(call'[t].todo)
         /\ Outcome(call'[t].todo, Registers') = x
  BY <1>1, <1>4, FlowAccess
<1>6. CASE call'[t].todo = <<>>
  <2>1. Registers' = x
    <3>1. ~Flows(<<>>)
      BY DEF Flows
    <3> QED BY <1>5, <1>6, <3>1
  <2>2. View' = Seen(x)
    <3>1. /\ x.out = out' /\ x.inputs = inputs' /\ x.st = st'
          /\ st' \in OpdNodeStates /\ TypeInv'
      BY <2>1, AccessType DEF Registers, TypeInv
    <3> PICK v : v = View'
      OBVIOUS
    <3> PICK d : d = Seen(x)
      OBVIOUS
    <3>2. /\ v \in Cards /\ v.present = present' /\ v.tripped = tripped' /\ v.hung = FALSE
          /\ v.st = st' /\ v.pin = ("enable" \in out')
          /\ v.boot = (processor' = "stm32" /\ "boot" \in out')
          /\ v.ready = ("enable" \notin inputs')
      BY <3>1, ViewNext
    <3>3. /\ d \in Cards /\ d.present /\ d.tripped = tripped /\ ~d.hung /\ d.st = x.st
          /\ d.pin = ("enable" \in x.out)
          /\ d.boot = (processor = "stm32" /\ "boot" \in x.out)
          /\ d.ready = ("enable" \notin x.inputs)
      BY <3>1, SeenType
    <3>4. /\ v.present = d.present /\ v.pin = d.pin /\ v.boot = d.boot
          /\ v.ready = d.ready /\ v.tripped = d.tripped /\ v.hung = d.hung /\ v.st = d.st
      <4>1. present' = TRUE /\ d.present = TRUE /\ d.hung = FALSE
        BY <1>3, <3>1, <3>3 DEF TypeInv, ChipOK, Cards
      <4> QED BY <1>3, <3>1, <3>2, <3>3, <4>1
    <3>5. v = d
      BY <3>2, <3>3, <3>4, CardEqual
    <3> QED BY <3>5
  <2> QED BY <1>1, <1>3, <1>6, <2>2
<1>7. CASE call'[t].todo # <<>>
  <2>1. /\ call'[t].todo \in Seq(BlocksOf(S)) /\ Flows(call'[t].todo)
        /\ Outcome(call'[t].todo, Registers') = x
    BY <1>5, <1>7
  <2>2. PICK now : now = call'[t].todo
    OBVIOUS
  <2>3. PICK y : y = Registers'
    OBVIOUS
  <2>4. PICK c : c = before'
    OBVIOUS
  <2>5. Seen(Outcome(now, y)) \in Sequential!Results(c)
    BY <1>1, <1>7, <2>1, <2>2, <2>3, <2>4
  <2>6. Works(t)'
    BY <1>3, <2>1, <2>2, <2>3, <2>4, <2>5, WorksNext
  <2> QED BY <1>3, <1>7, <2>6
<1> QED BY <1>6, <1>7

LEMMA AskingParts ==
    ASSUME NEW t \in Threads, call[t].todo = <<Asking>>
    PROVE  /\ Block(t) = Asking /\ Step(t) = Valid /\ Valid.do = "valid" /\ Tail(call[t].todo) = <<>>
           /\ Asking.bad = "NOT_FOUND" /\ Asking.last = {"failed"}
BY DEF Block, Step, Asking, Try, Valid

LEMMA StartsAccess ==
    ASSUME TypeInv, NEW t \in Threads, Access(t), Starts(t), "cbReset" \notin out,
           call'[t].todo # <<>> => before' = before
    PROVE  /\ "cbReset" \notin out'
           /\ IF call'[t].todo = <<>> THEN View' \in Sequential!Results(before) ELSE Works(t)'
<1> PICK reset \in BOOLEAN : reset = (call[t].op = "rescan")
  OBVIOUS
<1> PICK now : now = Found(processor, st, reset)
  OBVIOUS
<1>1. /\ present /\ View = before /\ View \in Cards /\ View.present /\ processor \in Processors
      /\ st \in OpdNodeStates /\ TypeInv'
  BY Constants, ViewType, ViewFields, AccessType DEF Starts, TypeInv
<1>2. /\ UNCHANGED <<processor, chip>> /\ call'[t].todo = now
      /\ st' = IF now = <<>> THEN "DISABLED" ELSE st
  <2>1. call[t].todo = <<Asking>> /\ call[t].op \in {"probe", "rescan"}
    BY DEF Starts
  <2>2. Step(t).do = "valid"
    BY <2>1, AskingParts
  <2>3. UNCHANGED chip /\ ProbeGoesOn(t)
    BY <1>1, <2>1, <2>2, TestAccess DEF TestKinds
  <2> QED BY <2>3 DEF ProbeGoesOn, Access
<1>3. present' /\ tripped' = tripped /\ "cbReset" \notin out'
  BY <1>1, <1>2 DEF chip
<1>4. CASE st = "NOT_FOUND" \/ reset
  <2> PICK S : S = QuietSteps(processor)
    OBVIOUS
  <2> PICK y : y = Registers'
    OBVIOUS
  <2> PICK z : z = [out |-> {}, inputs |-> Off(processor), st |-> "DISABLED"]
    OBVIOUS
  <2>1. /\ now \in Seq(BlocksOf(S)) /\ now # <<>> /\ Flows(now) /\ Outcome(now, y) = z
    <3>1. /\ Output({}) \in S /\ Configuration(Off(processor)) \in S
          /\ Configuration(Pins) \in S /\ Other \in S
      BY <1>1, QuietTypes DEF Modes
    <3>2. /\ Found(processor, st, reset) \in Seq(BlocksOf(S))
          /\ Found(processor, st, reset) # <<>> /\ Flows(Found(processor, st, reset))
          /\ Outcome(Found(processor, st, reset), y) = z
      <4>1. /\ Found(processor, st, reset) \in Seq(BlocksOf(S))
            /\ Found(processor, st, reset) # <<>> /\ Flows(Found(processor, st, reset))
        BY <1>4, <3>1, FoundFlows, Zenon
      <4>3. reset \in BOOLEAN /\ (st = "NOT_FOUND" \/ reset)
        BY <1>4
      <4>4. Outcome(Found(processor, st, reset), y)
            = [out |-> {}, inputs |-> Off(processor), st |-> "DISABLED"]
        BY ONLY <4>3, FoundLast, Zenon
      <4> QED BY <4>1, <4>4
    <3> QED BY <3>2
  <2>2. Seen(z) \in Sequential!Results(View)
    <3>1. z.out = {} /\ z.inputs = Off(processor) /\ z.st = "DISABLED"
      OBVIOUS
    <3> PICK d : d = Seen(z)
      OBVIOUS
    <3>2. /\ d \in Cards /\ d.present /\ d.tripped = tripped /\ ~d.hung /\ d.st = z.st
          /\ d.pin = ("enable" \in z.out)
          /\ d.boot = (processor = "stm32" /\ "boot" \in z.out)
          /\ d.ready = ("enable" \notin z.inputs)
      BY <3>1, SeenType DEF OpdNodeStates
    <3>3. /\ ~d.pin /\ ~d.boot /\ d.ready /\ d.st = "DISABLED" /\ d.tripped = View.tripped
          /\ d.present = View.present
      <4>1. "enable" \notin Off(processor)
        BY DEF Off
      <4>2. d.present = TRUE /\ View.present = TRUE
        BY <1>1, <3>2 DEF Cards
      <4> QED BY <3>1, <3>2, <4>1, <4>2, ViewFields
    <3>4. d = Sequential!Unpowered(View)
      BY <1>1, <3>2, <3>3, ConfiguredCard
    <3> QED BY <1>1, <3>2, <3>4, ProbeResults
  <2>3. PICK c : c = before'
    OBVIOUS
  <2>4. Seen(Outcome(now, y)) \in Sequential!Results(c)
    BY <1>1, <1>2, <2>1, <2>2, <2>3
  <2>5. Works(t)'
    BY <1>2, <1>3, <2>1, <2>3, <2>4, WorksNext
  <2> QED BY <1>2, <1>3, <2>1, <2>5
<1>5. CASE ~(st = "NOT_FOUND" \/ reset)
  <2>1. now = <<>>
    <3>1. st # "NOT_FOUND" /\ reset = FALSE
      BY <1>5
    <3>2. Found(processor, st, FALSE) = <<>>
      BY <3>1, FoundForms
    <3> QED BY <3>1, <3>2
  <2>2. View' = [View EXCEPT !.st = "DISABLED"]
    BY <1>1, <1>2, <2>1, StatusOnly
  <2>3. View.st # "NOT_FOUND" /\ View' \in Cards
    BY <1>1, <1>5, ViewFields, ViewNext
  <2>4. View' \in Sequential!Results(View)
    BY <1>1, <2>2, <2>3, ProbeResults
  <2> QED BY <1>1, <1>2, <1>3, <2>1, <2>4
<1> QED BY <1>4, <1>5

LEMMA ReportsAccess ==
    ASSUME TypeInv, NEW t \in Threads, Access(t), Reports(t), "cbReset" \notin out,
           call'[t].todo # <<>> => before' = before
    PROVE  /\ "cbReset" \notin out'
           /\ IF call'[t].todo = <<>> THEN View' \in Sequential!Results(before)
              ELSE Reports(t)'
<1> PICK a, b, c : a = StatusCall[1] /\ b = StatusCall[2] /\ c = StatusCall[3]
  OBVIOUS
<1> PICK left : left = call'[t].todo
  OBVIOUS
<1> DEFINE Goal ==
      /\ "cbReset" \notin out'
      /\ IF left = <<>> THEN View' \in Sequential!Results(before) ELSE Reports(t)'
<1> SUFFICES Goal
  OBVIOUS
<1> HIDE DEF Goal
<1>1. /\ StatusCall = <<a, b, c>>
      /\ a.steps = <<Valid>> /\ a.ok = Keep /\ a.last = {"failed"}
      /\ b.steps = <<Enabled>> /\ b.ok = Keep /\ b.last = {"failed"} /\ b.found = FALSE
      /\ c.steps = <<Fault>> /\ c.ok = Keep /\ c.last = {} /\ c.bad = "FAULT"
      /\ c.found = FALSE
  BY DEF StatusCall, Try
<1>2. /\ present /\ View = before /\ View \in Cards /\ View.present /\ call[t].op = "status"
      /\ st \in OpdNodeStates /\ TypeInv' /\ UNCHANGED processor
      /\ left # <<>> => call'[t].op = call[t].op
  BY ViewType, ViewFields, AccessType, AccessOwn DEF Reports, TypeInv, Access
<1>3. Valid.do = "valid" /\ Enabled.do = "enabled" /\ Fault.do = "fault"
  BY DEF Valid, Enabled, Fault
<1>4. \A s : Len(<<s>>) = 1 /\ Head(<<s>>) = s /\ ~(Len(<<s>>) > 1)
  OBVIOUS
<1>5. ASSUME UNCHANGED chip, st' = st,
             left = <<>> \/ left = <<b, c>> \/ (left = <<c>> /\ "enable" \in out)
      PROVE  Goal
  <2> USE DEF Goal
  <2>1. View' = [View EXCEPT !.st = st]
    BY <1>2, <1>5, StatusOnly
  <2>2. View' = View
    BY <1>2, <2>1, ViewFields DEF Cards
  <2>3. CASE left = <<>>
    BY <1>2, <1>5, <2>2, <2>3, StatusResults DEF chip
  <2>4. CASE left # <<>>
    <3>1. present' /\ View' = before' /\ (call[t].op = "status")' /\ out' = out
      BY <1>2, <1>5, <2>2, <2>4 DEF chip
    <3>2. \/ left = <<StatusCall[2], StatusCall[3]>>
          \/ left = <<StatusCall[3]>> /\ "enable" \in out'
      BY <1>5, <2>4, <3>1
    <3> QED BY <2>4, <3>1, <3>2 DEF Reports
  <2> QED BY <2>3, <2>4
<1>6. CASE call[t].todo = <<a, b, c>>
  <2>1. Block(t) = a /\ Step(t) = Valid /\ Tail(call[t].todo) = <<b, c>>
    BY <1>1, <1>4, <1>6 DEF Block, Step
  <2>2. UNCHANGED chip /\ Advances(t)
    BY <1>2, <1>3, <2>1, TestAccess DEF TestKinds
  <2>3. After(t, "done", Keep)
    BY <1>1, <1>4, <2>1, <2>2 DEF Advances
  <2>4. st' = st /\ left = Entered(<<b, c>>, st)
    BY <1>1, <2>1, <2>3 DEF After, Settle
  <2>5. left = <<b, c>>
    BY <1>1, <2>4 DEF Entered
  <2> QED BY <1>5, <2>2, <2>4, <2>5
<1>7. CASE call[t].todo = <<b, c>>
  <2>1. Block(t) = b /\ Step(t) = Enabled /\ Tail(call[t].todo) = <<c>>
    BY <1>1, <1>4, <1>7 DEF Block, Step
  <2>2. UNCHANGED chip
        /\ IF "enable" \in out THEN Advances(t) ELSE left = <<>> /\ st' = st
    BY <1>2, <1>3, <2>1, TestAccess DEF TestKinds
  <2>3. CASE "enable" \in out
    <3>1. After(t, "done", Keep)
      BY <1>1, <1>4, <2>1, <2>2, <2>3 DEF Advances
    <3>2. st' = st /\ left = Entered(<<c>>, st)
      BY <1>1, <2>1, <3>1 DEF After, Settle
    <3>3. left = <<c>>
      BY <1>1, <3>2 DEF Entered
    <3> QED BY <1>5, <2>2, <2>3, <3>2, <3>3
  <2>4. CASE "enable" \notin out
    <3>1. UNCHANGED chip /\ left = <<>> /\ st' = st
      BY <2>2, <2>4
    <3> QED BY <1>5, <3>1
  <2> QED BY <2>3, <2>4
<1>8. CASE call[t].todo = <<c>> /\ "enable" \in out
  <2>1. Block(t) = c /\ Step(t) = Fault /\ Tail(call[t].todo) = <<>>
    BY <1>1, <1>4, <1>8 DEF Block, Step
  <2>2. UNCHANGED chip
        /\ IF tripped THEN After(t, "failed", "FAULT") ELSE Advances(t)
    BY <1>1, <1>2, <1>3, <2>1, TestAccess DEF TestKinds
  <2>3. Entered(<<>>, st') = <<>>
    BY DEF Entered
  <2>4. CASE tripped
    <3>1. st' = "FAULT" /\ left = <<>>
      BY <1>1, <2>1, <2>2, <2>3, <2>4 DEF After, Settle, Keep, Entered
    <3>2. View' = [View EXCEPT !.st = "FAULT"]
      BY <1>2, <2>2, <3>1, StatusOnly
    <3>3. View.pin /\ View.tripped
      BY <1>8, <2>4, ViewFields
    <3>4. "cbReset" \notin out'
      BY <2>2 DEF chip
    <3> QED BY <1>2, <3>1, <3>2, <3>3, <3>4, StatusResults DEF Goal
  <2>5. CASE ~tripped
    <3>1. After(t, "done", Keep)
      BY <1>1, <1>4, <2>1, <2>2, <2>5 DEF Advances
    <3>2. st' = st /\ left = <<>>
      BY <1>1, <2>1, <2>3, <3>1 DEF After, Settle, Entered
    <3> QED BY <1>5, <2>2, <3>2
  <2> QED BY <2>4, <2>5
<1> QED BY <1>1, <1>6, <1>7, <1>8 DEF Reports

\* The pulses of reset.
LEMMA AttemptsLeft ==
    ASSUME NEW B, NEW todo \in Seq(B), todo # <<>>, Attempts(todo)
    PROVE  /\ Head(todo) = todo[1] /\ Attempts(Tail(todo))
           /\ Tail(todo) # <<>> => Tail(todo)[1].steps = Attempt.steps
           /\ todo[1].ok = "ENABLED" /\ todo[1].bad = "FAULT" /\ todo[1].last = {"done"}
           /\ \A s : Entered(Tail(todo), s) = Tail(todo)
<1> DEFINE rest == Tail(todo)
<1>1. /\ rest \in Seq(B) /\ Len(rest) = Len(todo) - 1 /\ Len(todo) \in Nat \ {0}
      /\ \A i \in 1..Len(rest) : rest[i] = todo[i + 1]
      /\ Head(todo) = todo[1] /\ (rest # <<>> => Head(rest) = rest[1])
  BY HeadTailProperties
<1>2. rest # <<>> => 1 \in 1..Len(rest)
  BY <1>1, EmptySeq
<1> HIDE DEF rest
<1>3. ASSUME NEW i \in 1..Len(rest)
      PROVE  /\ rest[i].steps = Attempt.steps /\ rest[i].ok = "ENABLED"
             /\ rest[i].bad = "FAULT" /\ rest[i].last = {"done"} /\ ~rest[i].found
  <2>1. i + 1 \in 1..Len(todo) /\ i + 1 > 1 /\ rest[i] = todo[i + 1]
    BY <1>1
  <2> QED BY <2>1 DEF Attempts
<1>4. Attempts(rest)
  BY <1>3 DEF Attempts
<1>5. rest # <<>> => rest[1].steps = Attempt.steps /\ ~Head(rest).found
  BY <1>1, <1>2, <1>3
<1>6. \A s : Entered(rest, s) = rest
  BY <1>5 DEF Entered
<1>7. 1 \in 1..Len(todo)
  BY <1>1
<1>8. todo[1].ok = "ENABLED" /\ todo[1].bad = "FAULT" /\ todo[1].last = {"done"}
  BY <1>7 DEF Attempts
<1> QED BY <1>1, <1>4, <1>5, <1>6, <1>8 DEF rest

LEMMA AttemptsSame ==
    ASSUME NEW S, NEW todo \in Seq(BlocksOf(S)), todo # <<>>, Attempts(todo),
           NEW steps, NEW now, now = Replaced(todo, steps)
    PROVE  now # <<>> /\ now[1].steps = steps /\ Attempts(now)
<1> DEFINE b == [todo[1] EXCEPT !.steps = steps]
<1>1. todo[1] \in BlocksOf(S) /\ 1 \in 1..Len(todo)
  BY TodoTypes
<1>2. /\ b.steps = steps /\ b.ok = todo[1].ok /\ b.bad = todo[1].bad
      /\ b.last = todo[1].last /\ b.found = todo[1].found
  BY <1>1 DEF BlocksOf
<1>3. now = [todo EXCEPT ![1] = b]
  BY DEF Replaced
<1> HIDE DEF b
<1>4. /\ now # <<>> /\ Len(now) = Len(todo) /\ now[1] = b
      /\ \A i \in 1..Len(todo) : i # 1 => now[i] = todo[i]
  BY <1>1, <1>3
<1>5. ASSUME NEW i \in 1..Len(now)
      PROVE  /\ i > 1 => now[i].steps = Attempt.steps
             /\ now[i].ok = "ENABLED" /\ now[i].bad = "FAULT"
             /\ now[i].last = {"done"} /\ ~now[i].found
  <2>1. /\ i > 1 => todo[i].steps = Attempt.steps
        /\ todo[i].ok = "ENABLED" /\ todo[i].bad = "FAULT"
        /\ todo[i].last = {"done"} /\ ~todo[i].found
    BY <1>4 DEF Attempts
  <2>2. CASE i = 1
    BY <1>2, <1>4, <2>1, <2>2
  <2>3. CASE i # 1
    BY <1>4, <2>1, <2>3
  <2> QED BY <2>2, <2>3
<1> QED BY <1>2, <1>4, <1>5 DEF Attempts

LEMMA StepsAhead ==
    ASSUME NEW a, NEW b, NEW c
    PROVE  /\ Head(<<a, b, c>>) = a /\ Tail(<<a, b, c>>) = <<b, c>> /\ Len(<<a, b, c>>) > 1
           /\ Head(<<a, b>>) = a /\ Tail(<<a, b>>) = <<b>> /\ Len(<<a, b>>) > 1
           /\ Head(<<a>>) = a /\ ~(Len(<<a>>) > 1)
           /\ \A d : /\ [<<a, b, c>> EXCEPT ![1] = d] = <<d, b, c>>
                     /\ [<<a, b>> EXCEPT ![1] = d] = <<d, b>>
OBVIOUS

\* A pulse shows only in the fault input and in the status.
LEMMA PulsedView ==
    ASSUME TypeInv, TypeInv', present, present', processor' = processor,
           inputs' = inputs, out' \ {"cbReset"} = out \ {"cbReset"}, NEW c \in Cards,
           View = Turned(c, tripped, st)
    PROVE  View' = Turned(c, tripped', st')
<1> PICK d : d = Turned(c, tripped', st')
  OBVIOUS
<1> PICK v : v = View'
  OBVIOUS
<1>1. tripped' \in BOOLEAN /\ st' \in OpdNodeStates
  BY DEF TypeInv, ChipOK
<1>2. /\ d \in Cards /\ d.present = c.present /\ d.pin = c.pin /\ d.boot = c.boot
      /\ d.ready = c.ready /\ d.tripped = tripped' /\ d.hung = FALSE /\ d.st = st'
  BY <1>1 DEF Cards, Turned
<1>3. /\ View.present = c.present /\ View.pin = c.pin /\ View.boot = c.boot
      /\ View.ready = c.ready
  BY DEF Cards, Turned
<1>4. ("enable" \in out') = ("enable" \in out) /\ ("boot" \in out') = ("boot" \in out)
  OBVIOUS
<1>5. present' = TRUE /\ present = TRUE
  BY DEF TypeInv, ChipOK
<1>6. /\ v \in Cards /\ v.present = c.present /\ v.pin = c.pin /\ v.boot = c.boot
      /\ v.ready = c.ready /\ v.tripped = tripped' /\ v.hung = FALSE /\ v.st = st'
  BY <1>3, <1>4, <1>5, ViewFields, ViewNext
<1>7. v = d
  BY ONLY <1>2, <1>6, CardEqual
<1> QED BY <1>7

LEMMA PulsesAccess ==
    ASSUME TypeInv, NEW t \in Threads, Access(t), Pulses(t),
           call'[t].todo # <<>> => before' = before
    PROVE  IF call'[t].todo = <<>>
           THEN View' \in Sequential!Results(before) /\ "cbReset" \notin out'
           ELSE Pulses(t)'
<1> PICK todo : todo = call[t].todo
  OBVIOUS
<1> PICK left : left = call'[t].todo
  OBVIOUS
<1> PICK S : S = StepsOf(processor)
  OBVIOUS
<1> PICK b : b = Head(todo)
  OBVIOUS
<1> PICK p : p = "cbReset"
  OBVIOUS
<1> PICK a, d, e : a = Set(p) /\ d = Clear(p) /\ e = Fault
  OBVIOUS
<1>1. /\ present /\ tripped \in {FALSE, before.tripped} /\ before \in Cards
      /\ View = Turned(before, tripped, st)
      /\ todo # <<>> /\ Pulsing(todo[1].steps, out) /\ Attempts(todo)
      /\ todo \in Seq(BlocksOf(S)) /\ Block(t) = b
  BY DEF Pulses, TypeInv, CallsIn, HistoryOK, Block
<1>2. /\ b = todo[1] /\ b.ok = "ENABLED" /\ b.bad = "FAULT" /\ b.last = {"done"}
      /\ Attempts(Tail(todo)) /\ (Tail(todo) # <<>> => Tail(todo)[1].steps = Attempt.steps)
      /\ \A s : Entered(Tail(todo), s) = Tail(todo)
  <2> PICK B : B = BlocksOf(S)
    OBVIOUS
  <2>1. todo \in Seq(B) /\ todo # <<>> /\ Attempts(todo)
    BY <1>1
  <2> QED BY <2>1, AttemptsLeft
<1>3. TypeInv' /\ UNCHANGED processor /\ before.present
  <2>1. View.present = before.present
    BY <1>1 DEF Cards, Turned
  <2> QED BY <1>1, <2>1, AccessType, ViewFields DEF Access
<1>4. /\ a.do = "set" /\ a.on = {p} /\ d.do = "clear" /\ d.on = {p} /\ e.do = "fault"
      /\ \A pins : Output(pins).do = "output" /\ Output(pins).on = pins
      /\ Attempt.steps = <<a, d, e>>
  BY StepParts DEF Fault, Attempt, Try
<1>5. ASSUME present', tripped' \in {FALSE, tripped}, inputs' = inputs,
             out' \ {p} = out \ {p}, left # <<>>, Attempts(left),
             NEW steps, steps = left[1].steps, Pulsing(steps, out')
      PROVE  left # <<>> /\ Pulses(t)'
  <2>0. out' \ {"cbReset"} = out \ {"cbReset"}
    BY <1>5
  <2>1. View' = Turned(before, tripped', st')
    BY <1>1, <1>3, <1>5, <2>0, PulsedView, Zenon
  <2>2. before' = before /\ tripped' \in {FALSE, before.tripped}
    BY <1>1, <1>5
  <2> QED BY <1>5, <2>1, <2>2 DEF Pulses
<1>6. ASSUME UNCHANGED chip, st' = st, NEW step,
             left = [todo EXCEPT ![1].steps[1] = step],
             Pulsing([b.steps EXCEPT ![1] = step], out')
      PROVE  left # <<>> /\ Pulses(t)'
  <2> PICK steps : steps = [b.steps EXCEPT ![1] = step]
    OBVIOUS
  <2>1. left = Replaced(todo, steps)
    BY <1>2, <1>6 DEF Replaced
  <2>2. left # <<>> /\ left[1].steps = steps /\ Attempts(left)
    BY <1>1, <2>1, AttemptsSame
  <2>3. present' /\ tripped' = tripped /\ inputs' = inputs /\ out' = out
    BY <1>1, <1>6 DEF chip
  <2> QED BY <1>5, <1>6, <2>2, <2>3
<1>7. ASSUME present', tripped' \in {FALSE, tripped}, inputs' = inputs,
             out' \ {p} = out \ {p}, st' = st,
             left = [todo EXCEPT ![1].steps = Tail(@)], Pulsing(Tail(b.steps), out')
      PROVE  left # <<>> /\ Pulses(t)'
  <2> PICK steps : steps = Tail(b.steps)
    OBVIOUS
  <2>1. left = Replaced(todo, steps)
    BY <1>2, <1>7 DEF Replaced
  <2>2. left # <<>> /\ left[1].steps = steps /\ Attempts(left)
    BY <1>1, <2>1, AttemptsSame
  <2> QED BY <1>5, <1>7, <2>2
<1>8. CASE b.steps = <<a, d, e>> /\ p \notin out
  <2> PICK o : o = Output(out \cup {p})
    OBVIOUS
  <2>1. Step(t) = a
    BY <1>1, <1>8, StepsAhead DEF Step
  <2>2. HasRead(t)
    BY <1>1, <1>4, <2>1, WriteAccess DEF WriteKinds, Failed, HasWritten
  <2>3. [b.steps EXCEPT ![1] = o] = <<o, d, e>>
    BY <1>8, StepsAhead
  <2>4. Pulsing(<<o, d, e>>, out')
    <3>1. out' = out /\ out \cup {p} \in SUBSET Pins
      BY <1>1, <2>2 DEF HasRead, chip, TypeInv, ChipOK, Pins
    <3> QED BY <3>1 DEF Pulsing, Rest
  <2>5. UNCHANGED chip /\ st' = st /\ left = [todo EXCEPT ![1].steps[1] = o]
    BY <1>4, <2>1, <2>2 DEF HasRead, Value
  <2>6. Pulsing([b.steps EXCEPT ![1] = o], out')
    BY ONLY <2>3, <2>4
  <2> QED BY <1>6, <2>5, <2>6, Zenon
<1>9. ASSUME NEW pins \in SUBSET Pins, b.steps = <<Output(pins), d, e>>, pins \ {p} = out \ {p}
      PROVE  left # <<>> /\ Pulses(t)'
  <2> PICK o : o = Output(pins)
    OBVIOUS
  <2>0. Head(b.steps) = o /\ Tail(b.steps) = <<d, e>> /\ Len(b.steps) > 1
    <3>1. b.steps = <<o, d, e>>
      BY <1>9
    <3> QED BY ONLY <3>1, StepsAhead
  <2>01. o.do = "output" /\ o.on = pins
    BY <1>4
  <2>1. Step(t) = o
    BY <1>1, <2>0 DEF Step
  <2>2. HasWritten(t)
    BY <1>1, <2>01, <2>1, WriteAccess DEF WriteKinds, Failed, HasRead
  <2>3. /\ present' /\ out' = pins /\ inputs' = inputs /\ tripped' \in {FALSE, tripped}
        /\ Advances(t)
    BY <2>1, <2>2, <2>01 DEF HasWritten
  <2>4. Len(b.steps) > 1 /\ Tail(b.steps) = <<d, e>>
    BY <2>0
  <2>5. st' = st /\ left = [todo EXCEPT ![1].steps = Tail(@)]
    BY <1>1, <2>3, <2>4 DEF Advances
  <2>6. Pulsing(<<d, e>>, out')
    BY DEF Pulsing
  <2> QED BY <1>7, <1>9, <2>3, <2>4, <2>5, <2>6
<1>10. CASE b.steps = <<d, e>>
  <2> PICK o : o = Output(out \ {p})
    OBVIOUS
  <2>1. Step(t) = d
    BY <1>1, <1>10, StepsAhead DEF Step
  <2>2. HasRead(t)
    BY <1>1, <1>4, <2>1, WriteAccess DEF WriteKinds, Failed, HasWritten
  <2>3. [b.steps EXCEPT ![1] = o] = <<o, e>>
    BY <1>10, StepsAhead
  <2>4. Pulsing(<<o, e>>, out')
    <3>1. out' = out
      BY <2>2 DEF HasRead, chip
    <3> QED BY <3>1 DEF Pulsing, Rest
  <2>5. UNCHANGED chip /\ st' = st /\ left = [todo EXCEPT ![1].steps[1] = o]
    BY <1>4, <2>1, <2>2 DEF HasRead, Value
  <2>6. Pulsing([b.steps EXCEPT ![1] = o], out')
    BY ONLY <2>3, <2>4
  <2> QED BY <1>6, <2>5, <2>6, Zenon
<1>11. CASE b.steps = <<Output(out \ {p}), e>>
  <2> PICK o : o = Output(out \ {p})
    OBVIOUS
  <2>0. Head(b.steps) = o /\ Tail(b.steps) = <<e>> /\ Len(b.steps) > 1
    <3>1. b.steps = <<o, e>>
      BY <1>11
    <3> QED BY ONLY <3>1, StepsAhead
  <2>01. o.do = "output" /\ o.on = out \ {p}
    BY <1>4
  <2>1. Step(t) = o
    BY <1>1, <2>0 DEF Step
  <2>2. HasWritten(t)
    BY <1>1, <2>01, <2>1, WriteAccess DEF WriteKinds, Failed, HasRead
  <2>3. /\ present' /\ out' = out \ {p} /\ inputs' = inputs /\ tripped' \in {FALSE, tripped}
        /\ Advances(t)
    BY <2>1, <2>2, <2>01 DEF HasWritten
  <2>4. Len(b.steps) > 1 /\ Tail(b.steps) = <<e>>
    BY <2>0
  <2>5. st' = st /\ left = [todo EXCEPT ![1].steps = Tail(@)]
    BY <1>1, <2>3, <2>4 DEF Advances
  <2>6. Pulsing(<<e>>, out')
    BY <2>3 DEF Pulsing
  <2> QED BY <1>7, <2>3, <2>4, <2>5, <2>6
<1>12. CASE b.steps = <<e>> /\ p \notin out
  <2>0. Head(b.steps) = e /\ ~(Len(b.steps) > 1)
    BY ONLY <1>12, StepsAhead, Zenon
  <2>1. Step(t) = e /\ ~(Len(b.steps) > 1)
    BY <1>1, <2>0 DEF Step
  <2>2. UNCHANGED chip /\ IF tripped THEN After(t, "failed", "FAULT") ELSE Advances(t)
    BY <1>1, <1>2, <1>4, <2>1, TestAccess DEF TestKinds
  <2>3. present' /\ tripped' = tripped /\ inputs' = inputs /\ out' = out
    BY <1>1, <2>2 DEF chip
  <2>4. CASE tripped
    <3>1. st' = "FAULT" /\ left = Tail(todo)
      BY <1>1, <1>2, <2>2, <2>4 DEF After, Settle, Keep
    <3>2. CASE left = <<>>
      <4>1. View' = Turned(before, tripped', st')
        BY <1>1, <1>3, <2>3, PulsedView, Zenon
      <4>2. View' = Pulsed(before, tripped, FALSE)
        BY <2>3, <2>4, <3>1, <4>1 DEF Pulsed, Turned
      <4> QED BY <1>1, <1>3, <1>12, <2>3, <3>2, <4>2, PulseResults
    <3>3. CASE left # <<>>
      <4> PICK steps : steps = left[1].steps
        OBVIOUS
      <4>1. steps = Attempt.steps /\ Attempts(left)
        BY <1>2, <3>1, <3>3
      <4>2. Pulsing(steps, out')
        BY <1>12, <2>3, <4>1 DEF Pulsing
      <4> QED BY <1>5, <2>3, <3>3, <4>1, <4>2
    <3> QED BY <3>2, <3>3
  <2>5. CASE ~tripped
    <3>1. st' = "ENABLED" /\ left = <<>>
      BY <1>1, <1>2, <2>1, <2>2, <2>5 DEF Advances, After, Settle, Keep
    <3>2. View' = Turned(before, tripped', st')
      BY <1>1, <1>3, <2>3, PulsedView, Zenon
    <3>3. View' = Pulsed(before, FALSE, FALSE)
      BY <2>3, <2>5, <3>1, <3>2 DEF Pulsed, Turned, TypeInv, ChipOK
    <3> QED BY <1>1, <1>3, <1>12, <2>3, <3>1, <3>3, PulseResults
  <2> QED BY <2>4, <2>5
<1> QED BY <1>1, <1>2, <1>4, <1>8, <1>9, <1>10, <1>11, <1>12 DEF Pulsing, Rest

\* An access of a call that is known, whatever the call.
LEMMA KnownAccess ==
    ASSUME TypeInv, NEW t \in Threads, Access(t), Underway(t)
    PROVE  IF call'[t].todo = <<>>
           THEN View' \in Sequential!Results(before) /\ "cbReset" \notin out'
           ELSE Underway(t)' /\ before' = before
<1>1. call'[t].todo # <<>> => before' = before
  BY DEF Access, Ends
<1>2. CASE Pulses(t)
  BY <1>1, <1>2, PulsesAccess DEF Underway
<1>3. CASE Starts(t) /\ "cbReset" \notin out
  BY <1>1, <1>3, StartsAccess DEF Underway, Steady
<1>4. CASE Works(t) /\ "cbReset" \notin out
  BY <1>1, <1>4, WorksAccess DEF Underway, Steady
<1>5. CASE Reports(t) /\ "cbReset" \notin out
  BY <1>1, <1>5, ReportsAccess DEF Underway, Steady
<1>6. CASE Lacks(t) /\ "cbReset" \notin out
  <2>1. UNCHANGED chip
        /\ IF call'[t].todo = <<>> THEN View' \in Sequential!Results(before)
           ELSE /\ ~present' /\ View' = [before EXCEPT !.st = st']
                /\ Doomed(call'[t].todo)
    BY <1>6, LacksAccess
  <2>2. out' = out
    BY <2>1 DEF chip
  <2>3. CASE call'[t].todo = <<>>
    BY <1>6, <2>1, <2>2, <2>3
  <2>4. CASE call'[t].todo # <<>>
    <3>1. ~present' /\ View' = [before' EXCEPT !.st = st'] /\ Doomed(call'[t].todo)
      BY <1>1, <2>1, <2>4
    <3>2. Lacks(t)'
      BY <3>1 DEF Lacks
    <3> QED BY <1>1, <1>6, <2>2, <2>4, <3>2 DEF Underway, Steady
  <2> QED BY <2>3, <2>4
<1> QED BY <1>2, <1>3, <1>4, <1>5, <1>6 DEF Underway, Steady

\* A call that begins.
LEMMA BeginParts ==
    ASSUME TypeInv, NEW t \in Threads, NEW op \in Calls, Begin(t, op)
    PROVE  /\ UNCHANGED <<processor, present, tripped, out, inputs, st>>
           /\ View' = View /\ Registers' = Registers
           /\ call'[t].op = op /\ call'[t].todo = Body(processor, op)
           /\ Body(processor, op) # <<>>
           /\ \A s \in Threads \ {t} : call'[s] = call[s]
<1>1. UNCHANGED <<processor, present, tripped, out, inputs, st>>
  BY DEF Begin, chip
<1>2. View' = View /\ Registers' = Registers
  BY <1>1 DEF View, Registers
<1>3. /\ call' = [call EXCEPT ![t] = [op |-> op, todo |-> Body(processor, op)]]
      /\ Body(processor, op) # <<>>
  BY BeginType
<1>4. call \in [Threads -> CallsIn(processor)]
  BY DEF TypeInv
<1>5. /\ call'[t] = [op |-> op, todo |-> Body(processor, op)]
      /\ \A s \in Threads \ {t} : call'[s] = call[s]
  BY <1>3, <1>4
<1> QED BY <1>1, <1>2, <1>3, <1>5

LEMMA AttemptForms ==
    ASSUME NEW todo \in {<<Attempt>>, <<Attempt, Attempt, Attempt>>}
    PROVE  todo # <<>> /\ todo[1].steps = Attempt.steps /\ Attempts(todo)
<1> PICK a : a = Attempt
  OBVIOUS
<1>1. a.ok = "ENABLED" /\ a.bad = "FAULT" /\ a.last = {"done"} /\ ~a.found
  BY DEF Attempt, Try
<1>2. todo # <<>> /\ todo[1] = a /\ \A i \in 1..Len(todo) : todo[i] = a
  <2>1. CASE todo = <<a>>
    BY <2>1
  <2>2. CASE todo = <<a, a, a>>
    BY <2>2
  <2> QED BY <2>1, <2>2
<1> QED BY <1>1, <1>2 DEF Attempts

LEMMA KnownBegin ==
    ASSUME TypeInv, NEW t \in Threads, NEW op \in Calls, Begin(t, op), ~Busy,
           "cbReset" \notin out
    PROVE  Underway(t)'
<1>1. /\ UNCHANGED <<processor, present, tripped, out, inputs, st>>
      /\ View' = View /\ Registers' = Registers
      /\ call'[t].op = op /\ call'[t].todo = Body(processor, op)
      /\ Body(processor, op) # <<>> /\ processor \in Processors
  BY BeginParts, Constants DEF TypeInv
<1>2. before' = View /\ View \in Cards /\ TypeInv' /\ (op = "bootloader" => processor = "stm32")
  BY BeginType, ViewType DEF Begin
<1>3. ASSUME Steady(t)' PROVE Underway(t)'
  BY <1>1, <1>3 DEF Underway
<1>4. ASSUME ~present PROVE Lacks(t)'
  <2>1. View' = [before' EXCEPT !.st = st']
    <3>1. View.st = st
      BY ViewFields
    <3> QED BY <1>1, <1>2, <3>1 DEF Cards
  <2>2. Doomed(call'[t].todo)
    BY <1>1, DoomedBody
  <2> QED BY <1>1, <1>4, <2>1, <2>2 DEF Lacks
<1>5. ASSUME present, op \in {"probe", "rescan"} PROVE Starts(t)'
  <2>1. Body(processor, op) = <<Asking>>
    BY <1>5 DEF Body, Asking
  <2> QED BY <1>1, <1>2, <1>5, <2>1 DEF Starts
<1>6. ASSUME present, WorksOut(Body(processor, op)) PROVE Works(t)'
  <2> PICK todo : todo = Body(processor, op)
    OBVIOUS
  <2> PICK x : x = Registers'
    OBVIOUS
  <2> PICK c : c = before'
    OBVIOUS
  <2>1. /\ todo = call'[t].todo /\ todo \in Seq(BlocksOf(QuietSteps(processor)))
        /\ Flows(todo) /\ Seen(Outcome(todo, x)) \in Sequential!Results(c)
    BY <1>1, <1>2, <1>6 DEF WorksOut
  <2>2. processor' = processor /\ present' /\ tripped' = tripped
    BY <1>1, <1>6
  <2> QED BY <2>1, <2>2, WorksNext
<1>7. ASSUME present, op = "enable" PROVE WorksOut(Body(processor, op))
  <2>1. Body(processor, op) = EnableCall(processor, FALSE)
    BY <1>7 DEF Body
  <2>2. st = "NOT_FOUND" => processor # "none"
    <3> SUFFICES ASSUME st = "NOT_FOUND", processor = "none" PROVE FALSE
      OBVIOUS
    <3>1. EnableCall(processor, FALSE) = <<>> \o <<Powers>>
      BY DEF EnableCall, Powers
    <3>2. <<>> \o <<Powers>> = <<Powers>>
      <4>1. Powers \in {Powers}
        OBVIOUS
      <4> QED BY <4>1, Pair
    <3>3. Powers.found /\ Head(<<Powers>>) = Powers
      BY DEF Powers, Try
    <3>4. Entered(Body(processor, op), st) # <<>>
      BY DEF Begin
    <3> QED BY <2>1, <3>1, <3>2, <3>3, <3>4 DEF Entered
  <2> QED BY <1>7, <2>1, <2>2, EnableWorks, Zenon
<1>8. ASSUME present, op = "bootloader" PROVE WorksOut(Body(processor, op))
  <2>1. Body(processor, op) = EnableCall(processor, TRUE)
    BY <1>8 DEF Body
  <2>2. processor = "stm32" /\ (st = "NOT_FOUND" => processor # "none")
    BY <1>2, <1>8
  <2> QED BY <1>8, <2>1, <2>2, EnableWorks, Zenon
<1>9. ASSUME present, op = "disable" PROVE WorksOut(Body(processor, op))
  <2>1. Body(processor, op) = DisableCall(processor)
    BY <1>9 DEF Body
  <2> QED BY <1>9, <2>1, DisableWorks
<1>10. ASSUME present, op \in {"connect", "disconnect"} PROVE WorksOut(Body(processor, op))
  <2> PICK step : step = IF op = "connect" THEN Set("uart") ELSE Clear("uart")
    OBVIOUS
  <2>1. Body(processor, op) = UartCall(processor, step) /\ step \in {Set("uart"), Clear("uart")}
    BY <1>10 DEF Body
  <2>2. processor # "none"
    BY <1>1, <2>1 DEF UartCall
  <2> QED BY <1>10, <2>1, <2>2, SelectWorks
<1>11. ASSUME present, op \in {"reset", "reset3"} PROVE Pulses(t)'
  <2>1. Body(processor, op) \in {<<Attempt>>, <<Attempt, Attempt, Attempt>>}
    BY <1>11 DEF Body
  <2>2. /\ call'[t].todo # <<>> /\ call'[t].todo[1].steps = Attempt.steps
        /\ Attempts(call'[t].todo)
    BY <1>1, <2>1, AttemptForms
  <2>3. Pulsing(call'[t].todo[1].steps, out')
    BY <1>1, <2>2 DEF Pulsing
  <2>4. View = Turned(View, tripped, st)
    <3>1. View.tripped = tripped /\ View.hung = FALSE /\ View.st = st
      BY ViewFields
    <3> QED BY <1>2, <3>1 DEF Cards, Turned
  <2>5. View' = Turned(before', tripped', st') /\ tripped' \in {FALSE, before'.tripped}
    BY <1>1, <1>2, <2>4, ViewFields DEF TypeInv, ChipOK
  <2> QED BY <1>1, <1>11, <2>2, <2>3, <2>5 DEF Pulses
<1>12. ASSUME present, op = "status" PROVE Reports(t)'
  <2>1. Body(processor, op) = StatusCall
    BY <1>12 DEF Body
  <2> QED BY <1>1, <1>2, <1>12, <2>1 DEF Reports
<1> QED BY <1>3, <1>4, <1>5, <1>6, <1>7, <1>8, <1>9, <1>10, <1>11, <1>12
        DEF Steady, Underway, Calls
-----------------------------------------------------------------------------
(* A rescan that nothing comes between. *)
LEMMA RescansNext ==
    ASSUME NEW t \in Threads, UNCHANGED processor, present',
           NEW todo, todo = call'[t].todo, todo \in Seq(BlocksOf(BlindSteps(processor))),
           Flows(todo), NEW x, x = Registers', Outcome(todo, x) = Fresh
    PROVE  Rescans(t)'
<1>1. Outcome(call[t].todo, Registers)' = Outcome(todo, x)
  OBVIOUS
<1>2. Fresh' = Fresh
  BY DEF Fresh
<1>3. (call[t].todo \in Seq(BlocksOf(BlindSteps(processor))))' /\ Flows(call[t].todo)'
  OBVIOUS
<1> QED BY <1>1, <1>2, <1>3 DEF Rescans

LEMMA RescanAccess ==
    ASSUME TypeInv, NEW t \in Threads, Access(t), Rescans(t), call[t].op = "rescan"
    PROVE  IF call'[t].todo = <<>>
           THEN st' = "DISABLED" => present' /\ Registers' = Fresh
           ELSE Rescans(t)'
<1> PICK S : S = BlindSteps(processor)
  OBVIOUS
<1>1. processor \in Processors /\ UNCHANGED processor
  BY Constants DEF TypeInv, Access
<1>2. CASE call[t].todo = <<Asking>> /\ ~present
  <2>1. /\ Block(t).bad = "NOT_FOUND" /\ Block(t).last = {"failed"}
    BY <1>2, AskingParts
  <2>2. PICK status \in {Block(t).bad, Keep} : /\ After(t, "failed", status)
                                               /\ status # Block(t).bad => st = "NOT_FOUND"
    BY <1>2, LackingAccess
  <2>3. call'[t].todo = <<>> /\ st' = "NOT_FOUND"
    BY <2>1, <2>2 DEF After, Settle, Keep
  <2> QED BY <2>3
<1>3. CASE call[t].todo = <<Asking>> /\ present
  <2> PICK now : now = Found(processor, st, TRUE)
    OBVIOUS
  <2> PICK y : y = Registers'
    OBVIOUS
  <2>1. UNCHANGED chip /\ call'[t].todo = now
    <3>1. Step(t).do = "valid"
      BY <1>3, AskingParts
    <3>2. UNCHANGED chip /\ ProbeGoesOn(t)
      BY <1>3, <3>1, TestAccess DEF TestKinds
    <3>3. (call[t].op = "rescan") = TRUE
      OBVIOUS
    <3> QED BY <3>2, <3>3 DEF ProbeGoesOn
  <2>2. /\ Output({}) \in S /\ Configuration(Off(processor)) \in S
        /\ Configuration(Pins) \in S /\ Other \in S
    BY <1>1, QuietTypes DEF Modes
  <2>3. /\ Found(processor, st, TRUE) \in Seq(BlocksOf(S)) /\ Found(processor, st, TRUE) # <<>>
        /\ Flows(Found(processor, st, TRUE))
    BY <2>2, FoundFlows, Zenon
  <2>4. Outcome(Found(processor, st, TRUE), y)
        = [out |-> {}, inputs |-> Off(processor), st |-> "DISABLED"]
    BY FoundLast, Zenon
  <2>5. present'
    BY <1>3, <2>1 DEF chip
  <2>6. Rescans(t)'
    <3>1. now \in Seq(BlocksOf(BlindSteps(processor))) /\ Flows(now) /\ Outcome(now, y) = Fresh
      BY <2>3, <2>4 DEF Fresh
    <3> QED BY <1>1, <2>1, <2>5, <3>1, RescansNext
  <2> QED BY <2>1, <2>3, <2>6
<1>4. CASE /\ present /\ call[t].todo \in Seq(BlocksOf(BlindSteps(processor)))
           /\ Flows(call[t].todo) /\ Outcome(call[t].todo, Registers) = Fresh
  <2>1. S \in SUBSET Writing(processor) /\ Step(t) \in S
    BY <1>1, <1>4, QuietTypes, FlowSteps
  <2>2. Step(t).do \notin {"set", "clear"} /\ Step(t).do \in WriteKinds
    BY <2>1 DEF BlindSteps, Writing
  <2>3. \/ call'[t].todo = <<>> /\ Registers' = Fresh
        \/ /\ call'[t].todo \in Seq(BlocksOf(S)) /\ Flows(call'[t].todo)
           /\ Outcome(call'[t].todo, Registers') = Fresh
    BY <1>4, <2>1, <2>2, FlowAccess
  <2>4. present'
    BY <1>4, <2>2, WriteAccess DEF Failed, HasRead, HasWritten, chip
  <2>5. CASE call'[t].todo = <<>>
    <3>1. ~Flows(<<>>)
      BY DEF Flows
    <3> QED BY <2>3, <2>4, <2>5, <3>1
  <2>6. CASE call'[t].todo # <<>>
    <3> PICK now : now = call'[t].todo
      OBVIOUS
    <3> PICK y : y = Registers'
      OBVIOUS
    <3>1. now \in Seq(BlocksOf(BlindSteps(processor))) /\ Flows(now) /\ Outcome(now, y) = Fresh
      BY <2>3, <2>6
    <3> QED BY <1>1, <2>4, <2>6, <3>1, RescansNext
  <2> QED BY <2>5, <2>6
<1> QED BY <1>2, <1>3, <1>4 DEF Rescans

LEMMA RescanStep == ThreadsInv /\ RescanInv /\ [Next]_vars => RescanInv'
<1> SUFFICES ASSUME ThreadsInv, RescanInv, [Next]_vars PROVE RescanInv'
  OBVIOUS
<1>1. TypeInv /\ Overlaps
  BY DEF ThreadsInv
<1> SUFFICES ASSUME NEW t \in Threads, ~Idle(t)', Calm(t)', (call[t].op = "rescan")'
             PROVE  Rescans(t)'
  BY DEF RescanInv
<1>2. ASSUME NEW s \in Threads, NEW op \in Calls, Begin(s, op) PROVE Rescans(t)'
  <2>1. /\ call'[s].op = op /\ call'[s].todo = Body(processor, op)
        /\ \A r \in Threads \ {s} : call'[r] = call[r]
    BY <1>1, <1>2, BeginParts
  <2>2. mixed' = IF Busy THEN Threads ELSE {}
    BY <1>2 DEF Begin
  <2>3. s = t
    BY <2>1, <2>2 DEF Calm, Busy, Idle
  <2>4. call'[t].todo = <<Asking>>
    BY <2>1, <2>3 DEF Body, Asking
  <2> QED BY <2>4 DEF Rescans
<1>3. ASSUME NEW s \in Threads, Access(s) PROVE Rescans(t)'
  <2>1. /\ \A r \in Threads \ {s} : call'[r] = call[r]
        /\ call'[s].todo # <<>> => call'[s].op = call[s].op
    BY <1>1, <1>3, AccessOwn
  <2>2. /\ ~Idle(s)
        /\ mixed' = mixed \/ mixed' = mixed \ {s}
        /\ call'[s].todo # <<>> => mixed' = mixed /\ upset' = upset
    BY <1>3 DEF Access, Ends
  <2>3. s = t
    <3> SUFFICES ASSUME s # t PROVE FALSE
      OBVIOUS
    <3>1. ~Idle(t)
      BY <2>1 DEF Idle
    <3>2. t \in mixed
      BY <1>1, <2>2, <3>1 DEF Overlaps
    <3> QED BY <2>2, <3>2 DEF Calm
  <2>4. call'[t].todo # <<>>
    BY DEF Idle
  <2>5. Rescans(t) /\ call[t].op = "rescan"
    BY <2>1, <2>2, <2>3, <2>4 DEF RescanInv, Calm
  <2> QED BY <1>1, <1>3, <2>3, <2>4, <2>5, RescanAccess
<1>4. CASE Upset \/ Return
  <2>1. upset' = {r \in Threads : ~Idle(r)} \cup upset /\ call' = call
    BY <1>4 DEF Upset, Return, Happens
  <2> QED BY <2>1 DEF Calm, Idle
<1>5. CASE UNCHANGED vars
  <2>1. Rescans(t)
    BY <1>5 DEF RescanInv, vars, history, Idle, Calm
  <2>2. Rescans(t)' = Rescans(t)
    BY <1>5 DEF vars, chip, Rescans, Registers, Fresh
  <2> QED BY <2>1, <2>2
<1> QED BY <1>2, <1>3, <1>4, <1>5 DEF Next

\* A calm rescan that ends with the card DISABLED leaves no other call.
LEMMA RescanEnds ==
    ASSUME ThreadsInv, RescanInv, NEW t \in Threads, Access(t), ~known, known'
    PROVE  /\ present' /\ Registers' = Fresh /\ processor' = processor
           /\ \A s \in Threads : Idle(s)'
<1>1. /\ ~Idle(t) /\ call'[t].todo = <<>> /\ Calm(t) /\ call[t].op = "rescan"
      /\ st' = "DISABLED" /\ processor' = processor
  BY DEF Access, Ends
<1>2. Rescans(t) /\ TypeInv
  BY <1>1 DEF RescanInv, ThreadsInv
<1>3. ASSUME NEW s \in Threads PROVE Idle(s)'
  <2>1. CASE s = t
    BY <1>1, <2>1 DEF Idle
  <2>2. CASE s # t
    <3>1. Idle(s)
      BY <1>1, <2>2 DEF ThreadsInv, Overlaps, Calm
    <3>2. call'[s] = call[s]
      BY <1>2, <2>2, AccessOwn
    <3> QED BY <3>1, <3>2 DEF Idle
  <2> QED BY <2>1, <2>2
<1> QED BY <1>1, <1>2, <1>3, RescanAccess

LEMMA UnderwayStays ==
    ASSUME UNCHANGED vars, NEW t
    PROVE  Underway(t)' = Underway(t)
<1>1. /\ UNCHANGED <<processor, present, tripped, out, inputs, st, call, before>>
  BY DEF vars, chip, history
<1>2. View' = View /\ Registers' = Registers
  BY <1>1 DEF View, Registers
<1>3. Sequential!Results(before)' = Sequential!Results(before)
  BY <1>1 DEF Sequential!Results, Sequential!BootModes, Sequential!UartFailed
<1>4. Starts(t)' = Starts(t) /\ Reports(t)' = Reports(t) /\ Lacks(t)' = Lacks(t)
  BY <1>1, <1>2 DEF Starts, Reports, Lacks
<1>5. Pulses(t)' = Pulses(t)
  BY <1>1, <1>2 DEF Pulses
<1>6. Works(t)' = Works(t)
  <2> PICK x : x = Outcome(call[t].todo, Registers)
    OBVIOUS
  <2>1. Seen(Outcome(call[t].todo, Registers))' = Seen(Outcome(call[t].todo, Registers))
    BY <1>1, <1>2 DEF Seen
  <2> QED BY <1>1, <1>3, <2>1 DEF Works
<1> QED BY <1>1, <1>4, <1>5, <1>6 DEF Underway, Steady

LEMMA KnownStep == CallsInv /\ [Next]_vars => KnownInv'
<1> SUFFICES ASSUME CallsInv, [Next]_vars, known'
             PROVE  /\ \A s \in Threads, t \in Threads : ~Idle(s)' /\ ~Idle(t)' => s = t
                    /\ (\A t \in Threads : Idle(t)') => "cbReset" \notin out'
                    /\ \A t \in Threads : ~Idle(t)' => Underway(t)'
  BY DEF KnownInv
<1>1. TypeInv /\ ThreadsInv /\ RescanInv /\ KnownInv
  BY DEF CallsInv, ThreadsInv
<1>2. ASSUME NEW r \in Threads, NEW op \in Calls, Begin(r, op)
      PROVE  /\ \A s \in Threads, t \in Threads : ~Idle(s)' /\ ~Idle(t)' => s = t
             /\ ~Idle(r)' /\ Underway(r)'
  <2>1. known /\ ~Busy
    BY <1>2 DEF Begin
  <2>2. \A s \in Threads : Idle(s)
    BY <2>1 DEF Busy
  <2>3. "cbReset" \notin out
    BY <1>1, <2>1, <2>2 DEF KnownInv
  <2>4. /\ call'[r].todo # <<>>
        /\ \A s \in Threads \ {r} : call'[s] = call[s]
    BY <1>1, <1>2, BeginParts
  <2>5. Underway(r)'
    BY <1>1, <1>2, <2>1, <2>3, KnownBegin
  <2> QED BY <2>2, <2>4, <2>5 DEF Idle
<1>3. ASSUME NEW r \in Threads, Access(r)
      PROVE  \/ (\A s \in Threads : Idle(s)') /\ "cbReset" \notin out'
             \/ /\ ~Idle(r)' /\ Underway(r)'
                /\ \A s \in Threads \ {r} : Idle(s)'
  <2>1. CASE ~known
    <3>1. Registers' = Fresh /\ \A s \in Threads : Idle(s)'
      BY <1>1, <1>3, <2>1, RescanEnds
    <3>2. out' = {}
      BY <3>1 DEF Registers, Fresh
    <3> QED BY <3>1, <3>2
  <2>2. CASE known
    <3>1. ~Idle(r) /\ \A s \in Threads \ {r} : call'[s] = call[s]
      BY <1>1, <1>3, AccessOwn DEF Access
    <3>2. Underway(r) /\ \A s \in Threads \ {r} : Idle(s)
      BY <1>1, <2>2, <3>1 DEF KnownInv
    <3>3. \A s \in Threads \ {r} : Idle(s)'
      BY <3>1, <3>2 DEF Idle
    <3>4. IF call'[r].todo = <<>> THEN "cbReset" \notin out' ELSE Underway(r)'
      BY <1>1, <1>3, <3>2, KnownAccess
    <3> QED BY <3>3, <3>4 DEF Idle
  <2> QED BY <2>1, <2>2
<1>4. ASSUME Upset \/ Return
      PROVE  (\A s \in Threads : Idle(s)') /\ "cbReset" \notin out'
  <2>1. known /\ ~Busy /\ call' = call /\ (out' = out \/ out' = {})
    BY <1>1, <1>4, HappensType DEF Upset, Return, Happens
  <2> QED BY <1>1, <2>1 DEF KnownInv, Busy, Idle
<1>5. ASSUME UNCHANGED vars
      PROVE  /\ known /\ out' = out /\ \A t \in Threads : Idle(t)' = Idle(t)
             /\ \A t \in Threads : Underway(t)' = Underway(t)
  BY <1>5, UnderwayStays DEF vars, history, chip, Idle
<1>6. CASE \E t \in Threads, op \in Calls : Begin(t, op)
  BY <1>2, <1>6
<1>7. CASE \E t \in Threads : Access(t)
  BY <1>3, <1>7
<1>8. CASE Upset \/ Return
  BY <1>4, <1>8
<1>9. CASE UNCHANGED vars
  BY <1>1, <1>5, <1>9 DEF KnownInv
<1> QED BY <1>6, <1>7, <1>8, <1>9 DEF Next

LEMMA CallsStep == CallsInv /\ [Next]_vars => CallsInv'
BY KnownStep, RescanStep, ThreadsStep DEF CallsInv

LEMMA CallsInit == Init => CallsInv
<1> SUFFICES ASSUME Init PROVE KnownInv /\ RescanInv
  BY ThreadsInit DEF CallsInv
<1> QED BY NoCallType DEF Init, KnownInv, RescanInv, Idle
-----------------------------------------------------------------------------
(* The refinement. *)
Card == IF ~known THEN NoCard ELSE IF Busy THEN before ELSE View

LEMMA Moves ==
    ASSUME UNCHANGED processor
    PROVE  /\ known /\ known' = TRUE /\ Card' \in Sequential!Results(Card)
                => Sequential!Next
           /\ known' = FALSE /\ Card' = NoCard => Sequential!Next
           /\ ~known /\ known' /\ (\E c \in Cards : c.present /\ Card' = Sequential!Unpowered(c))
                => Sequential!Next
           /\ known /\ known' /\ Card' = [Card EXCEPT !.present = present'] /\ present' \in BOOLEAN
                => Sequential!Next
           /\ known /\ known' /\ Card.pin /\ Card.ready /\ Card' = [Card EXCEPT !.tripped = TRUE]
                => Sequential!Next
           /\ known /\ known' /\ Card' = Sequential!BrownedOut(Card)
                => Sequential!Next
BY DEF Card, Sequential!Next, Sequential!Call, Sequential!LoseTrack, Sequential!NoCard,
       NoCard, Sequential!Configured, Sequential!Cards, Cards, Sequential!OpdNodeStates,
       OpdNodeStates, Sequential!World, Sequential!HasPower

LEMMA MapAccess ==
    ASSUME CallsInv, NEW t \in Threads, Access(t)
    PROVE  Sequential!Next \/ UNCHANGED <<processor, known, Card>>
<1>1. TypeInv /\ ThreadsInv /\ RescanInv /\ KnownInv
  BY DEF CallsInv, ThreadsInv
<1>2. /\ ~Idle(t) /\ UNCHANGED processor /\ (known => known')
      /\ \A s \in Threads \ {t} : call'[s] = call[s]
  BY <1>1, AccessOwn DEF Access
<1>3. TypeInv' /\ Busy /\ known \in BOOLEAN /\ known' \in BOOLEAN
  BY <1>1, <1>2, AccessType DEF Busy, TypeInv, HistoryOK
<1>4. CASE known
  <2>1. Card = before /\ known' = TRUE
    BY <1>2, <1>3, <1>4 DEF Card
  <2>2. Underway(t) /\ \A s \in Threads \ {t} : Idle(s)
    BY <1>1, <1>2, <1>4 DEF KnownInv
  <2>3. IF call'[t].todo = <<>> THEN View' \in Sequential!Results(before)
        ELSE before' = before
    BY <1>1, <2>2, KnownAccess
  <2>4. CASE call'[t].todo = <<>>
    <3>1. ~Busy'
      BY <1>2, <2>2, <2>4 DEF Busy, Idle
    <3>2. Card' = View'
      BY <2>1, <3>1 DEF Card
    <3> QED BY <1>2, <1>4, <2>1, <2>3, <2>4, <3>2, Moves
  <2>5. CASE call'[t].todo # <<>>
    <3>1. Busy'
      BY <2>5 DEF Busy, Idle
    <3>2. Card' = before'
      BY <2>1, <3>1 DEF Card
    <3> QED BY <1>2, <1>3, <1>4, <2>1, <2>3, <2>5, <3>2
  <2> QED BY <2>4, <2>5
<1>5. CASE ~known /\ ~known'
  BY <1>2, <1>3, <1>5 DEF Card
<1>6. CASE ~known /\ known'
  <2>1. /\ present' /\ Registers' = Fresh /\ \A s \in Threads : Idle(s)'
    BY <1>1, <1>6, RescanEnds
  <2>2. Card' = View'
    BY <1>6, <2>1 DEF Card, Busy
  <2> PICK v : v = View'
    OBVIOUS
  <2>3. out' = {} /\ inputs' = Off(processor) /\ st' = "DISABLED"
    BY <2>1 DEF Registers, Fresh
  <2>4. /\ v \in Cards /\ v.present /\ ~v.pin /\ ~v.boot /\ v.ready /\ ~v.hung
        /\ v.st = "DISABLED"
    <3>1. "enable" \notin Off(processor)
      BY DEF Off
    <3> QED BY <1>3, <2>1, <2>3, <3>1, ViewNext
  <2>5. v = Sequential!Unpowered(v)
    BY <2>4, ConfiguredCard
  <2>6. \E c \in Cards : c.present /\ Card' = Sequential!Unpowered(c)
    BY <2>2, <2>4, <2>5
  <2> QED BY <1>2, <1>6, <2>6, Moves
<1> QED BY <1>4, <1>5, <1>6

LEMMA MapBegin ==
    ASSUME CallsInv, NEW t \in Threads, NEW op \in Calls, Begin(t, op)
    PROVE  Sequential!Next \/ UNCHANGED <<processor, known, Card>>
<1>1. TypeInv /\ known \in BOOLEAN
  BY DEF CallsInv, ThreadsInv, TypeInv, HistoryOK
<1>2. /\ UNCHANGED processor /\ View' = View /\ call'[t].todo # <<>>
      /\ known' = (known /\ ~Busy) /\ before' = IF Busy THEN NoCard ELSE View
  BY <1>1, BeginParts DEF Begin
<1>3. Busy'
  BY <1>2 DEF Busy, Idle
<1>4. CASE known /\ ~Busy
  <2>1. Card = View /\ Card' = View /\ known' = known
    BY <1>1, <1>2, <1>3, <1>4 DEF Card
  <2> QED BY <1>2, <2>1
<1>5. CASE ~(known /\ ~Busy)
  <2>1. known' = FALSE /\ Card' = NoCard
    BY <1>2, <1>5 DEF Card
  <2> QED BY <1>2, <2>1, Moves
<1> QED BY <1>4, <1>5

LEMMA MapWorld ==
    ASSUME CallsInv, Upset \/ Return
    PROVE  Sequential!Next \/ UNCHANGED <<processor, known, Card>>
<1>1. TypeInv /\ known \in BOOLEAN
  BY DEF CallsInv, ThreadsInv, TypeInv, HistoryOK
<1>2. /\ UNCHANGED <<processor, st, call>> /\ known' = (known /\ ~Busy) /\ TypeInv'
      /\ View \in Cards
  BY <1>1, HappensType, ViewType DEF Upset, Return, Happens
<1>3. CASE known /\ ~Busy
  <2>1. known' /\ ~Busy'
    BY <1>2, <1>3 DEF Busy, Idle
  <2>2. Card = View /\ Card' = View'
    BY <1>3, <2>1 DEF Card
  <2> PICK v : v = View'
    OBVIOUS
  <2>3. /\ v \in Cards /\ v.present = present' /\ v.tripped = tripped'
        /\ v.hung = FALSE /\ v.st = st /\ v.pin = ("enable" \in out')
        /\ v.boot = (processor = "stm32" /\ "boot" \in out')
        /\ v.ready = ("enable" \notin inputs')
    BY <1>2, ViewNext
  <2>4. CASE UNCHANGED <<tripped, out, inputs>>
    <3> PICK d : d = [View EXCEPT !.present = present']
      OBVIOUS
    <3>1. present' \in BOOLEAN
      BY <1>2 DEF TypeInv, ChipOK
    <3>2. /\ d \in Cards /\ d.present = present' /\ d.pin = View.pin /\ d.boot = View.boot
          /\ d.ready = View.ready /\ d.tripped = View.tripped /\ d.hung = View.hung
          /\ d.st = View.st
      BY <1>2, <3>1 DEF Cards
    <3>3. v = d
      <4>1. /\ v \in Cards /\ d \in Cards /\ v.present = d.present /\ v.pin = d.pin
            /\ v.boot = d.boot /\ v.ready = d.ready /\ v.tripped = d.tripped
            /\ v.hung = d.hung /\ v.st = d.st
        BY <2>3, <2>4, <3>2, ViewFields
      <4> QED BY ONLY <4>1, CardEqual
    <3> QED BY <1>2, <1>3, <2>1, <2>2, <3>1, <3>3, Moves
  <2>5. CASE Power /\ ~tripped /\ tripped' = TRUE /\ UNCHANGED <<present, out, inputs>>
    <3> PICK d : d = [View EXCEPT !.tripped = TRUE]
      OBVIOUS
    <3>1. /\ d \in Cards /\ d.present = View.present /\ d.pin = View.pin
          /\ d.boot = View.boot /\ d.ready = View.ready /\ d.tripped = TRUE
          /\ d.hung = View.hung /\ d.st = View.st
      BY <1>2 DEF Cards
    <3>2. v = d
      <4>1. /\ v \in Cards /\ d \in Cards /\ v.present = d.present /\ v.pin = d.pin
            /\ v.boot = d.boot /\ v.ready = d.ready /\ v.tripped = d.tripped
            /\ v.hung = d.hung /\ v.st = d.st
        BY <2>3, <2>5, <3>1, ViewFields
      <4> QED BY ONLY <4>1, CardEqual
    <3>3. View.pin /\ View.ready
      BY <2>5, ViewFields DEF Power
    <3> QED BY <1>2, <1>3, <2>1, <2>2, <3>2, <3>3, Moves
  <2>6. CASE present /\ out' = {} /\ inputs' = Pins /\ UNCHANGED <<present, tripped>>
    <3> PICK d : d = [View EXCEPT !.pin = FALSE, !.boot = FALSE, !.ready = FALSE,
                                  !.hung = FALSE]
      OBVIOUS
    <3>1. /\ d \in Cards /\ d.present = View.present /\ d.pin = FALSE
          /\ d.boot = FALSE /\ d.ready = FALSE /\ d.tripped = View.tripped
          /\ d.hung = FALSE /\ d.st = View.st
      BY <1>2 DEF Cards
    <3>2. v = d
      <4>0. v.pin = FALSE /\ v.boot = FALSE /\ v.ready = FALSE
        <5>1. "enable" \notin out' /\ "boot" \notin out' /\ "enable" \in inputs'
          BY <2>6 DEF Pins
        <5>2. ~v.pin /\ ~v.boot /\ ~v.ready
          BY <2>3, <5>1
        <5> QED BY <2>3, <5>2 DEF Cards
      <4>1. /\ v \in Cards /\ d \in Cards /\ v.present = d.present /\ v.pin = d.pin
            /\ v.boot = d.boot /\ v.ready = d.ready /\ v.tripped = d.tripped
            /\ v.hung = d.hung /\ v.st = d.st
        BY <2>3, <2>6, <3>1, <4>0, ViewFields
      <4> QED BY ONLY <4>1, CardEqual
    <3>3. d = Sequential!BrownedOut(View)
      BY DEF Sequential!BrownedOut
    <3> QED BY <1>2, <1>3, <2>1, <2>2, <3>2, <3>3, Moves
  <2> QED BY <2>4, <2>5, <2>6 DEF Upset, Return
<1>4. CASE ~(known /\ ~Busy)
  <2>1. known' = FALSE /\ Card' = NoCard
    BY <1>2, <1>4 DEF Card
  <2> QED BY <1>2, <2>1, Moves
<1> QED BY <1>3, <1>4

LEMMA MapStep ==
    CallsInv /\ [Next]_vars => Sequential!Next \/ UNCHANGED <<processor, known, Card>>
<1> SUFFICES ASSUME CallsInv, [Next]_vars
             PROVE  Sequential!Next \/ UNCHANGED <<processor, known, Card>>
  OBVIOUS
<1>1. CASE UNCHANGED vars
  BY <1>1 DEF vars, chip, history, Card, Busy, Idle, View
<1> QED BY <1>1, MapBegin, MapAccess, MapWorld DEF Next

\* While no two calls overlap, whatever is lost and found in between, the accesses of
\* a call, their order and their failures add up to the operation that OpdCard gives
\* it: what NodeManager takes for one step on the card is one.
THEOREM Implementation == Spec => ImplementsCalls
<1>1. Init => Sequential!Init
  BY Constants DEF Init, Sequential!Init, Sequential!Processors, Processors,
                   Sequential!NoCard, NoCard
<1>2. CallsInv /\ [Next]_vars
      => [Sequential!Next]_<<processor, known,
            IF ~known THEN NoCard ELSE IF Busy THEN before ELSE View>>
  BY MapStep DEF Card
<1> QED BY <1>1, <1>2, CallsInit, CallsStep, PTL DEF Spec, ImplementsCalls, Sequential!Spec
=============================================================================
