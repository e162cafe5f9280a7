-------------------------- MODULE EdlUplinkProofs --------------------------
(***************************************************************************)
(* Proofs about EdlUplink for every value of its constants: its types, the *)
(* order and completeness of the sequence controlled commands, and what    *)
(* the sequence count guarantees across resets.                            *)
(***************************************************************************)
EXTENDS EdlUplink, TLAPS

LEMMA Constants ==
    /\ Kinds \subseteq AllKinds
    /\ MaxSeq \in Nat
    /\ FlightMode \in BOOLEAN
BY KindsAssumption, BoundsAssumption, FlightAssumption
   DEF KindsAssumption, BoundsAssumption, FlightAssumption

LEMMA Widened ==
    ASSUME NEW S, NEW T, S \subseteq T, NEW q \in Seq(S)
    PROVE  q \in Seq(T)
OBVIOUS

LEMMA Taking ==
    ASSUME NEW S, NEW q \in Seq(S), q # <<>>
    PROVE  /\ Head(q) \in S /\ Head(q) = q[1] /\ Len(q) \in Nat \ {0}
           /\ Tail(q) \in Seq(S)
           /\ Len(Tail(q)) = Len(q) - 1
           /\ \A k \in 1..Len(Tail(q)) : Tail(q)[k] = q[k + 1]
OBVIOUS

LEMMA Adding ==
    ASSUME NEW S, NEW q \in Seq(S), NEW e \in S
    PROVE  /\ Append(q, e) \in Seq(S)
           /\ Len(Append(q, e)) = Len(q) + 1
           /\ \A k \in 1..Len(q) : Append(q, e)[k] = q[k]
           /\ Append(q, e)[Len(q) + 1] = e
OBVIOUS

LEMMA Cutting ==
    ASSUME NEW S, NEW q \in Seq(S), NEW n \in 0..Len(q)
    PROVE  /\ SubSeq(q, 1, n) \in Seq(S)
           /\ Len(SubSeq(q, 1, n)) = n
           /\ \A k \in 1..n : SubSeq(q, 1, n)[k] = q[k]
OBVIOUS
-----------------------------------------------------------------------------
LEMMA OnePacket ==
    ASSUME TypeOK, NEW i \in Sent
    PROVE  /\ i \in Nat \ {None}
           /\ packets[i].vc \in Channels /\ packets[i].bypass \in BOOLEAN
           /\ packets[i].form \in Forms
           /\ packets[i].ns \in Nat /\ packets[i].seq \in Seqs
<1> DEFINE P == [vc : Channels, bypass : BOOLEAN, form : Forms, ns : Nat, seq : Seqs]
<1>1. packets \in Seq(P)
  BY DEF TypeOK
<1> HIDE DEF P
<1>2. i \in 1..Len(packets) /\ packets[i] \in P
  BY <1>1 DEF Sent
<1> QED BY <1>1, <1>2 DEF P, None

\* A sending leaves the packets sent before as they were.
LEMMA SendKeeps ==
    ASSUME TypeOK, NEW kind \in Kinds, NEW ns \in Nat, Send(kind, ns)
    PROVE  /\ packets' \in Seq([vc : Channels, bypass : BOOLEAN, form : Forms,
                                ns : Nat, seq : Seqs])
           /\ \A i \in Sent : i \in Sent' /\ packets'[i] = packets[i]
           /\ Sent \subseteq Sent' /\ Commands \subseteq Commands' /\ Files \subseteq Files'
<1> DEFINE P == [vc : Channels, bypass : BOOLEAN, form : Forms, ns : Nat, seq : Seqs]
           e == [vc |-> kind.vc, bypass |-> kind.bypass, form |-> kind.form,
                 ns |-> ns, seq |-> (Len(packets) + 1) % (MaxSeq + 1)]
<1>1. packets \in Seq(P) /\ packets' = Append(packets, e)
  BY DEF TypeOK, Send
<1>2. e \in P
  <2>1. (Len(packets) + 1) % (MaxSeq + 1) \in Seqs
    BY <1>1, Constants DEF Seqs
  <2> QED BY <2>1, Constants DEF AllKinds
<1> HIDE DEF P, e
<1>3. /\ packets' \in Seq(P) /\ Len(packets') = Len(packets) + 1
      /\ \A i \in 1..Len(packets) : packets'[i] = packets[i]
  BY <1>1, <1>2, Adding
<1>4. Sent = 1..Len(packets) /\ Sent' = 1..(Len(packets) + 1)
  BY <1>1, <1>3 DEF Sent
<1>5. \A i \in Sent : i \in Sent' /\ packets'[i] = packets[i]
  BY <1>1, <1>3, <1>4
<1> QED BY <1>3, <1>5 DEF P, Commands, Files

\* Types, and that each queue holds packets of its channel.
THEOREM Typing == Spec => []TypeOK
<1>1. Init => TypeOK
  BY Constants DEF Init, TypeOK, Seqs, Sent, Commands, Files
<1>2. TypeOK /\ [Next]_vars => TypeOK'
  <2> SUFFICES ASSUME TypeOK, [Next]_vars PROVE TypeOK'
    OBVIOUS
  <2>1. CASE SendAny
    <3> PICK kind \in Kinds, ns \in {vs, vr} : Send(kind, ns)
      BY <2>1 DEF SendAny
    <3>1. ns \in Nat
      BY DEF TypeOK
    <3>2. /\ packets' \in Seq([vc : Channels, bypass : BOOLEAN, form : Forms,
                               ns : Nat, seq : Seqs])
          /\ Sent \subseteq Sent' /\ Commands \subseteq Commands' /\ Files \subseteq Files'
      BY <3>1, SendKeeps
    <3>3. /\ recvQ \in Seq(Sent' \cup {None}) /\ copQ \in Seq(Commands')
          /\ cmdQ \in Seq(Commands') /\ fileQ \in Seq(Files')
          /\ executed \in Seq(Commands' \cup Files')
      <4>1. /\ Sent \cup {None} \subseteq Sent' \cup {None}
            /\ Commands \cup Files \subseteq Commands' \cup Files'
        BY <3>2
      <4> QED BY <3>2, <4>1, Widened DEF TypeOK
    <3>4. vs' \in Nat
      BY <3>1 DEF Send, TypeOK
    <3> QED BY <3>2, <3>3, <3>4 DEF Send, TypeOK, queues, farm, edl, Seqs
  <2>2. CASE ReceiveAny
    <3> PICK i \in Sent \cup {None} : Receive(i)
      BY <2>2 DEF ReceiveAny
    <3>1. recvQ' \in Seq(Sent \cup {None})
      BY DEF Receive, TypeOK
    <3> QED BY <3>1 DEF Receive, TypeOK, ground, farm, edl, Sent, Commands, Files, Seqs
  <2>3. CASE Router
    <3>0. UNCHANGED packets
      BY <2>3 DEF Router, ground
    <3>1. CASE recvQ = <<>>
      BY <2>3, <3>0, <3>1 DEF Router, RouterLoop, RouteOne, queues, TypeOK, ground, farm,
                        edl, Sent, Commands, Files, Seqs
    <3>2. CASE recvQ # <<>>
      <4>1. recvQ' = Tail(recvQ) /\ Routed(Head(recvQ)) /\ down' = 0
        BY <2>3, <3>2 DEF Router, RouterLoop, RouteOne
      <4>2. Head(recvQ) \in Sent \cup {None} /\ recvQ' \in Seq(Sent \cup {None})
        BY <3>2, <4>1, Taking DEF TypeOK
      <4>3. copQ' \in Seq(Commands) /\ fileQ' \in Seq(Files) /\ cmdQ' \in Seq(Commands)
        <5>1. Head(recvQ) # None /\ packets[Head(recvQ)].vc = "command"
                => Head(recvQ) \in Commands
          BY <4>2 DEF Commands
        <5>2. Head(recvQ) # None /\ packets[Head(recvQ)].vc = "file"
                => Head(recvQ) \in Files
          BY <4>2 DEF Files
        <5> QED BY <4>1, <5>1, <5>2, Adding DEF Routed, TypeOK
      <4> QED BY <2>3, <3>0, <4>1, <4>2, <4>3
              DEF Router, TypeOK, ground, farm, edl, Sent, Commands, Files, Seqs
    <3> QED BY <3>1, <3>2
  <2>4. CASE Cop
    <3>0. UNCHANGED packets
      BY <2>4 DEF Cop, ground
    <3>1. cmdQ' \in Seq(Commands)
      BY <2>4, Adding DEF Cop, CopLoop, FarmHigher, TypeOK
    <3>2. copQ' \in Seq(Commands) /\ fdu' \in Commands \cup {None} /\ vr' \in Nat
      <4>1. CASE copQ = <<>>
        BY <2>4, <4>1 DEF Cop, CopLoop, FarmLower, TypeOK
      <4>2. CASE copQ # <<>>
        <5> DEFINE i == Head(copQ)
        <5>1. i \in Commands /\ copQ' \in Seq(Commands)
          BY <2>4, <4>2, Taking DEF Cop, CopLoop, FarmLower, TypeOK
        <5>2. vr' \in {vr, vr + 1} /\ fdu' \in {i, None}
          BY <2>4, <4>2 DEF Cop, CopLoop, FarmLower
        <5> QED BY <5>1, <5>2 DEF TypeOK
      <4> QED BY <4>1, <4>2
    <3> QED BY <2>4, <3>0, <3>1, <3>2
            DEF Cop, TypeOK, ground, edl, Sent, Commands, Files, Seqs
  <2>5. CASE PollCommand
    <3>0. UNCHANGED packets
      BY <2>5 DEF PollCommand, ground
    <3>1. CASE cmdQ = <<>>
      BY <2>5, <3>0, <3>1 DEF PollCommand, TypeOK, ground, farm, Sent, Commands, Files, Seqs
    <3>2. CASE cmdQ # <<>>
      <4> DEFINE i == Head(cmdQ)
      <4>1. i \in Commands /\ cmdQ' \in Seq(Commands)
        BY <2>5, <3>2, Taking DEF PollCommand, TypeOK
      <4>2. i \in Sent /\ packets[i].seq \in Seqs /\ packets[i].ns \in Nat /\ i # None
        BY <4>1, OnePacket DEF Commands
      <4>3. count' \in Seqs
        BY <2>5, <3>2, <4>2 DEF PollCommand, CountAfter, TypeOK
      <4>4. running' \in Commands \cup {None} /\ (pc' = "run" <=> running' # None)
             /\ pc' \in {"command", "run", "file", "failed"}
        BY <2>5, <3>2, <4>1, <4>2 DEF PollCommand, Raises, Accepted, Valid
      <4>5. delivered' \in Seq(Nat)
        <5>1. delivered' \in {delivered, Append(delivered, packets[i].ns)}
          BY <2>5, <3>2 DEF PollCommand
        <5>2. delivered \in Seq(Nat) /\ packets[i].ns \in Nat
          BY <4>2 DEF TypeOK
        <5> QED BY <5>1, <5>2, Adding
      <4> QED BY <2>5, <3>0, <4>1, <4>3, <4>4, <4>5
              DEF PollCommand, TypeOK, ground, farm, Sent, Commands, Files, Seqs
    <3> QED BY <3>1, <3>2
  <2>6. CASE Run
    <3>0. UNCHANGED packets
      BY <2>6 DEF Run, ground
    <3>1. executed' \in Seq(Commands \cup Files) /\ Len(executed') = Len(executed) + 1
      BY <2>6, Adding DEF Run, TypeOK
    <3> QED BY <2>6, <3>0, <3>1
            DEF Run, TypeOK, ground, farm, queues, Sent, Commands, Files, Seqs
  <2>7. CASE PollFile
    <3>0. UNCHANGED packets
      BY <2>7 DEF PollFile, ground
    <3>1. CASE fileQ = <<>>
      BY <2>7, <3>0, <3>1 DEF PollFile, TypeOK, ground, farm, Sent, Commands, Files, Seqs
    <3>2. CASE fileQ # <<>>
      <4> DEFINE i == Head(fileQ)
      <4>1. i \in Files /\ fileQ' \in Seq(Files)
        BY <2>7, <3>2, Taking DEF PollFile, TypeOK
      <4>2. i \in Sent /\ packets[i].seq \in Seqs
        BY <4>1, OnePacket DEF Files
      <4>3. count' \in Seqs
        BY <2>7, <3>2, <4>2 DEF PollFile, CountAfter, TypeOK
      <4>4. executed' \in Seq(Commands \cup Files) /\ Len(executed') \in Nat
             /\ Len(executed') >= Len(executed)
        <5>1. executed' \in {executed, Append(executed, i)}
          BY <2>7, <3>2 DEF PollFile
        <5>2. i \in Commands \cup Files /\ executed \in Seq(Commands \cup Files)
          BY <4>1 DEF TypeOK
        <5> QED BY <5>1, <5>2, Adding
      <4>5. /\ pc' \in {"command", "failed"} /\ pc = "file"
            /\ UNCHANGED <<vs, received, recvQ, copQ, cmdQ, vr, fdu, down, running,
                           saved, resets, kept, delivered>>
        BY <2>7, <3>2 DEF PollFile, ground, farm
      <4>6. Sent' = Sent /\ Commands' = Commands /\ Files' = Files
        BY <3>0 DEF Sent, Commands, Files
      <4>7. running = None /\ pc' # "run"
        BY <4>5 DEF TypeOK
      <4>8. fileQ' \in Seq(Files') /\ executed' \in Seq(Commands' \cup Files')
             /\ kept' \in 0..Len(executed')
        BY <4>1, <4>4, <4>5, <4>6 DEF TypeOK
      <4> QED BY <3>0, <4>3, <4>5, <4>6, <4>7, <4>8 DEF TypeOK, Seqs
    <3> QED BY <3>1, <3>2
  <2>8. CASE Save
    BY <2>8 DEF Save, TypeOK, ground, farm, queues, edl, Sent, Commands, Files, Seqs
  <2>9. CASE Reset
    <3>1. executed' \in Seq(Commands \cup Files) /\ Len(executed') = kept
      BY <2>9, Cutting DEF Reset, Restart, TypeOK
    <3> QED BY <2>9, <3>1
            DEF Reset, Restart, Restored, TypeOK, ground, Sent, Commands, Files, Seqs
  <2>11. CASE Bite
    <3>1. executed' \in Seq(Commands \cup Files) /\ Len(executed') = kept
      BY <2>11, Cutting DEF Bite, Restart, TypeOK
    <3> QED BY <2>11, <3>1
            DEF Bite, Restart, Restored, TypeOK, ground, Sent, Commands, Files, Seqs
  <2>10. CASE UNCHANGED vars
    BY <2>10 DEF vars, TypeOK, ground, farm, queues, edl, Sent, Commands, Files, Seqs
  <2> QED BY <2>1, <2>2, <2>3, <2>4, <2>5, <2>6, <2>7, <2>8, <2>9, <2>10, <2>11 DEF Next, Edl
<1> QED BY <1>1, <1>2, PTL DEF Spec
-----------------------------------------------------------------------------
\* NoneOlder rests on the count: it is never below the number of a packet
\* carried out, the saved copy never below one carried out before the save,
\* and equal to the number of the command about to be carried out.
CountInv ==
    FlightMode =>
        /\ \A j \in 1..Len(executed) : packets[executed[j]].seq <= count
        /\ \A j \in 1..kept : packets[executed[j]].seq <= saved
        /\ pc = "run" => packets[running].seq = count

\* A packet added to those carried out keeps them in order when its number
\* has become the count.
LEMMA InSequence ==
    ASSUME TypeOK, NoneOlder, CountInv, FlightMode, NEW i \in Sent,
           executed' = Append(executed, i), UNCHANGED packets,
           packets[i].seq >= count
    PROVE  /\ NoneOlder'
           /\ \A j \in 1..Len(executed') : packets[executed'[j]].seq <= packets[i].seq
           /\ \A j \in 1..Len(executed) : executed'[j] = executed[j]
           /\ Len(executed') = Len(executed) + 1
<1>0. /\ executed \in Seq(Sent) /\ Len(executed) \in Nat /\ count \in Nat
      /\ \A j \in 1..Len(executed) : packets[executed[j]].seq \in Nat
  <2>1. Commands \cup Files \subseteq Sent
    BY DEF Commands, Files
  <2>2. executed \in Seq(Sent)
    BY <2>1, Widened DEF TypeOK
  <2>3. \A j \in 1..Len(executed) : executed[j] \in Sent
    BY <2>2
  <2>4. Seqs \subseteq Nat /\ count \in Seqs
    BY DEF TypeOK, Seqs
  <2>5. \A j \in 1..Len(executed) : packets[executed[j]].seq \in Nat
    BY <2>3, <2>4, OnePacket
  <2> QED BY <2>2, <2>4, <2>5
<1>1. /\ Len(executed') = Len(executed) + 1
      /\ \A j \in 1..Len(executed) : executed'[j] = executed[j]
      /\ executed'[Len(executed) + 1] = i
      /\ executed' \in Seq(Sent)
  BY <1>0, Adding
<1>2. packets[i].seq \in Nat
  BY OnePacket DEF Seqs
<1>3. \A j \in 1..Len(executed') : packets[executed'[j]].seq <= packets[i].seq
  <2> SUFFICES ASSUME NEW j \in 1..Len(executed')
               PROVE  packets[executed'[j]].seq <= packets[i].seq
    OBVIOUS
  <2>1. CASE j = Len(executed) + 1
    BY <2>1, <1>1, <1>2
  <2>2. CASE j \in 1..Len(executed)
    <3>1. packets[executed[j]].seq <= count
      BY <2>2 DEF CountInv
    <3> QED BY <2>2, <3>1, <1>0, <1>1, <1>2
  <2> QED BY <2>1, <2>2, <1>0, <1>1
<1>4. NoneOlder'
  <2> SUFFICES ASSUME NEW a \in 1..Len(executed'), NEW b \in 1..Len(executed'), a < b
               PROVE  packets[executed'[a]].seq <= packets[executed'[b]].seq
    BY <1>1 DEF NoneOlder
  <2>1. CASE b = Len(executed) + 1
    BY <2>1, <1>1, <1>3
  <2>2. CASE b \in 1..Len(executed)
    <3>1. a \in 1..Len(executed)
      BY <2>2
    <3> QED BY <2>2, <3>1, <1>0, <1>1 DEF NoneOlder
  <2> QED BY <2>1, <2>2, <1>0, <1>1
<1> QED BY <1>1, <1>3, <1>4

\* No packet is carried out after a later one, on either channel and across
\* resets, but for those a reset made the C3 forget.
THEOREM Sequence == Spec => []NoneOlder
<1>1. Init => NoneOlder /\ CountInv
  BY DEF Init, NoneOlder, CountInv
<1>2. TypeOK /\ TypeOK' /\ NoneOlder /\ CountInv /\ [Next]_vars => NoneOlder' /\ CountInv'
  <2> SUFFICES ASSUME TypeOK, TypeOK', NoneOlder, CountInv, [Next]_vars, FlightMode
               PROVE  NoneOlder' /\ CountInv'
    BY DEF NoneOlder, CountInv
  <2>0. /\ Len(executed) \in Nat /\ kept \in 0..Len(executed)
        /\ \A j \in 1..Len(executed) : executed[j] \in Sent
        /\ count \in Nat /\ saved \in Nat
    <3>1. executed \in Seq(Commands \cup Files) /\ Commands \cup Files \subseteq Sent
      BY DEF TypeOK, Commands, Files
    <3>2. \A j \in 1..Len(executed) : executed[j] \in Sent
      BY <3>1
    <3> QED BY <3>1, <3>2 DEF TypeOK, Seqs
  <2>n. \A j \in 1..Len(executed) : packets[executed[j]].seq \in Nat
    BY <2>0, OnePacket DEF Seqs
  <2>1. CASE SendAny
    <3> PICK kind \in Kinds, ns \in {vs, vr} : Send(kind, ns)
      BY <2>1 DEF SendAny
    <3>1. ns \in Nat
      BY DEF TypeOK
    <3>2. \A j \in Sent : packets'[j] = packets[j]
      BY <3>1, SendKeeps
    <3>3. UNCHANGED <<executed, kept, count, saved, pc, running>>
      BY DEF Send, edl
    <3>4. pc = "run" => running \in Sent
      BY DEF TypeOK, Commands
    <3> QED BY <2>0, <3>2, <3>3, <3>4 DEF NoneOlder, CountInv
  <2>2. CASE ReceiveAny
    BY <2>2 DEF ReceiveAny, Receive, NoneOlder, CountInv, edl, ground
  <2>3. CASE Router
    BY <2>3 DEF Router, NoneOlder, CountInv, edl, ground
  <2>4. CASE Cop
    BY <2>4 DEF Cop, NoneOlder, CountInv, edl, ground
  <2>5. CASE PollCommand
    <3>0. UNCHANGED <<packets, executed, kept, saved>>
      BY <2>5 DEF PollCommand, ground
    <3>1. count <= count'
      <4>1. CASE cmdQ = <<>>
        BY <2>0, <2>5, <4>1 DEF PollCommand
      <4>2. CASE cmdQ # <<>>
        <5>1. Head(cmdQ) \in Sent
          BY <4>2, Taking DEF TypeOK, Commands
        <5>2. packets[Head(cmdQ)].seq \in Nat
          BY <5>1, OnePacket DEF Seqs
        <5>3. count' = CountAfter(Head(cmdQ))
          BY <2>5, <4>2 DEF PollCommand
        <5> QED BY <2>0, <5>2, <5>3 DEF CountAfter, Accepted
      <4> QED BY <4>1, <4>2
    <3>2. pc' = "run" => packets[running'].seq = count'
      BY <2>5 DEF PollCommand, CountAfter
    <3>3. count' \in Nat
      BY DEF TypeOK, Seqs
    <3>4. \A j \in 1..Len(executed) : packets[executed[j]].seq <= count'
      BY <2>0, <2>n, <3>1, <3>3 DEF CountInv
    <3> QED BY <3>0, <3>2, <3>4 DEF NoneOlder, CountInv
  <2>6. CASE Run
    <3>1. /\ UNCHANGED <<packets, kept, saved, count>> /\ pc' = "file"
          /\ executed' = Append(executed, running)
      BY <2>6 DEF Run, ground
    <3>2. running \in Sent /\ packets[running].seq = count
      BY <2>6 DEF Run, TypeOK, Commands, CountInv
    <3>3. packets[running].seq >= count
      BY <2>0, <3>2
    <3>4. /\ NoneOlder'
          /\ \A j \in 1..Len(executed') : packets[executed'[j]].seq <= packets[running].seq
          /\ \A j \in 1..Len(executed) : executed'[j] = executed[j]
      BY <3>1, <3>2, <3>3, InSequence
    <3>5. \A j \in 1..kept : packets[executed'[j]].seq <= saved
      BY <2>0, <3>4 DEF CountInv
    <3> QED BY <3>1, <3>2, <3>4, <3>5 DEF CountInv
  <2>7. CASE PollFile
    <3>0. UNCHANGED <<packets, kept, saved>> /\ pc' # "run"
      BY <2>7 DEF PollFile, ground
    <3>1. CASE UNCHANGED executed
      <4>1. count' = count \/ (fileQ # <<>> /\ count' = CountAfter(Head(fileQ)))
        BY <2>7 DEF PollFile
      <4>2. count' >= count
        <5>1. CASE fileQ # <<>> /\ count' = CountAfter(Head(fileQ))
          <6>1. Head(fileQ) \in Sent
            BY <5>1, Taking DEF TypeOK, Files
          <6>2. packets[Head(fileQ)].seq \in Nat
            BY <6>1, OnePacket DEF Seqs
          <6> QED BY <2>0, <5>1, <6>2 DEF CountAfter, Accepted
        <5> QED BY <2>0, <4>1, <5>1
      <4>3. count' \in Nat
        BY DEF TypeOK, Seqs
      <4>4. \A j \in 1..Len(executed) : packets[executed[j]].seq <= count'
        BY <2>0, <2>n, <4>2, <4>3 DEF CountInv
      <4> QED BY <3>0, <3>1, <4>4 DEF NoneOlder, CountInv
    <3>2. CASE ~UNCHANGED executed
      <4> DEFINE i == Head(fileQ)
      <4>0. fileQ # <<>> /\ count' = CountAfter(i)
             /\ executed' = IF Accepted(i) /\ ~RaisesAsPdu(i)
                            THEN Append(executed, i) ELSE executed
        BY <2>7, <3>2 DEF PollFile
      <4>1. i \in Sent
        BY <4>0, Taking DEF TypeOK, Files
      <4>2. Accepted(i)
        BY <3>2, <4>0
      <4>3. count' = packets[i].seq /\ packets[i].seq >= count
             /\ executed' = Append(executed, i)
        BY <2>0, <4>0, <4>2, <3>2 DEF CountAfter, Accepted
      <4>4. /\ NoneOlder'
            /\ \A j \in 1..Len(executed') : packets[executed'[j]].seq <= packets[i].seq
            /\ \A j \in 1..Len(executed) : executed'[j] = executed[j]
        BY <3>0, <4>1, <4>3, InSequence
      <4>5. \A j \in 1..kept : packets[executed'[j]].seq <= saved
        BY <2>0, <4>4 DEF CountInv
      <4> QED BY <3>0, <4>3, <4>4, <4>5 DEF CountInv
    <3> QED BY <3>1, <3>2
  <2>8. CASE Save
    BY <2>0, <2>8 DEF Save, NoneOlder, CountInv, edl, ground
  <2>9. CASE Restart
    <3>1. /\ UNCHANGED <<packets, kept, saved>> /\ count' = saved /\ pc' = "command"
          /\ executed' = SubSeq(executed, 1, kept)
      BY <2>9 DEF Restart, Restored, ground
    <3>2. Len(executed') = kept /\ \A j \in 1..kept : executed'[j] = executed[j]
      BY <2>0, <3>1, Cutting DEF TypeOK
    <3>3. executed' \in Seq(Commands \cup Files)
      BY <2>0, <3>1, Cutting DEF TypeOK
    <3>4. \A j \in 1..kept : j \in 1..Len(executed)
      BY <2>0
    <3> QED BY <3>1, <3>2, <3>3, <3>4 DEF NoneOlder, CountInv
  <2>10. CASE UNCHANGED vars
    BY <2>10 DEF vars, NoneOlder, CountInv, edl, ground
  <2> QED BY <2>1, <2>2, <2>3, <2>4, <2>5, <2>6, <2>7, <2>8, <2>9, <2>10
       DEF Next, Edl, Reset, Bite
<1> QED BY <1>1, <1>2, Typing, PTL DEF Spec
-----------------------------------------------------------------------------
\* InOrder rests on the pipeline behind it: the sequence controlled commands
\* FARM-1 admitted and the EDL service has not taken yet are those numbered
\* from Len(delivered) to V(R) - 1, each there, in order, the last of them
\* maybe still in FARM-1's buffer.
Waiting == {k \in 1..Len(cmdQ) : Controlled(cmdQ[k])}
NsAt(k) == packets[cmdQ[k]].ns
Buffered == fdu # None /\ Controlled(fdu)

InRange ==
    /\ \A k \in Waiting : NsAt(k) \in Len(delivered)..(vr - 1)
    /\ Buffered => packets[fdu].ns \in Len(delivered)..(vr - 1)
Increasing ==
    /\ \A j, k \in Waiting : j < k => NsAt(j) < NsAt(k)
    /\ Buffered => \A k \in Waiting : NsAt(k) < packets[fdu].ns
Complete ==
    \A n \in Len(delivered)..(vr - 1) :
        (\E k \in Waiting : NsAt(k) = n) \/ (Buffered /\ packets[fdu].ns = n)
PipelineInv == Len(delivered) <= vr /\ InRange /\ Increasing /\ Complete

LEMMA PipelineTypes ==
    ASSUME TypeOK
    PROVE  /\ vr \in Nat /\ Len(cmdQ) \in Nat /\ Len(delivered) \in Nat
           /\ \A k \in 1..Len(cmdQ) : cmdQ[k] \in Commands /\ NsAt(k) \in Nat
           /\ fdu # None => fdu \in Commands /\ packets[fdu].ns \in Nat
<1>1. \A i \in Commands : i \in Sent /\ packets[i].ns \in Nat
  BY OnePacket DEF Commands
<1>2. cmdQ \in Seq(Commands) /\ fdu \in Commands \cup {None}
  BY DEF TypeOK
<1>3. \A k \in 1..Len(cmdQ) : cmdQ[k] \in Commands
  BY <1>2
<1> QED BY <1>1, <1>2, <1>3 DEF TypeOK, NsAt

\* A step that leaves the pipeline alone; new packets may be sent meanwhile.
LEMMA PipelineKept ==
    ASSUME TypeOK, InOrder, PipelineInv, UNCHANGED <<cmdQ, fdu, vr, delivered>>,
           \A i \in Sent : packets'[i] = packets[i]
    PROVE  InOrder' /\ PipelineInv'
<1>1. /\ \A k \in 1..Len(cmdQ) : cmdQ[k] \in Sent
      /\ fdu # None => fdu \in Sent
  BY PipelineTypes DEF Commands
<1>2. \A k \in 1..Len(cmdQ) : (Controlled(cmdQ[k]))' = Controlled(cmdQ[k]) /\ NsAt(k)' = NsAt(k)
  BY <1>1 DEF Controlled, NsAt
<1>3. Buffered' = Buffered /\ (Buffered => packets'[fdu'].ns = packets[fdu].ns)
  BY <1>1 DEF Buffered, Controlled
<1>4. Waiting' = Waiting /\ Waiting \subseteq 1..Len(cmdQ)
  BY <1>2 DEF Waiting
<1>5. InOrder' /\ Len(delivered') = Len(delivered)
  BY DEF InOrder
<1>6. InRange'
  BY <1>2, <1>3, <1>4 DEF PipelineInv, InRange
<1>7. Increasing'
  BY <1>2, <1>3, <1>4 DEF PipelineInv, Increasing
<1>8. Complete'
  BY <1>2, <1>3, <1>4 DEF PipelineInv, Complete
<1> QED BY <1>5, <1>6, <1>7, <1>8 DEF PipelineInv

\* FARM-1 admits the command numbered V(R) once what it admitted before has
\* gone to the EDL service.
LEMMA PipelineCop ==
    ASSUME TypeOK, InOrder, PipelineInv, Cop
    PROVE  InOrder' /\ PipelineInv'
<1> DEFINE L == Len(cmdQ)
<1>0. /\ UNCHANGED <<packets, delivered>>
      /\ FarmHigher /\ FarmLower
  BY DEF Cop, CopLoop, ground
<1>t. /\ vr \in Nat /\ L \in Nat /\ Len(delivered) \in Nat
      /\ \A k \in 1..L : NsAt(k) \in Nat
      /\ fdu # None => fdu \in Commands /\ packets[fdu].ns \in Nat
  BY PipelineTypes
<1>1. /\ \A k \in 1..L : cmdQ'[k] = cmdQ[k]
      /\ fdu = None => Len(cmdQ') = L
      /\ fdu # None => Len(cmdQ') = L + 1 /\ cmdQ'[L + 1] = fdu
  <2>1. cmdQ \in Seq(Commands)
    BY DEF TypeOK
  <2> QED BY <1>0, <1>t, <2>1, Adding DEF FarmHigher
<1>2. Waiting' = Waiting \cup {k \in {L + 1} : Buffered}
  BY <1>0, <1>1, <1>t DEF Waiting, Buffered, Controlled
<1>3. /\ \A k \in Waiting : k \in 1..L /\ NsAt(k)' = NsAt(k)
      /\ Buffered => \A k \in {L + 1} : NsAt(k)' = packets[fdu].ns
  BY <1>0, <1>1 DEF Waiting, NsAt, Buffered
<1>4. \A k \in Waiting' : NsAt(k)' \in Len(delivered)..(vr - 1)
  <2> SUFFICES ASSUME NEW k \in Waiting' PROVE NsAt(k)' \in Len(delivered)..(vr - 1)
    OBVIOUS
  <2>1. CASE k \in Waiting
    BY <2>1, <1>3 DEF PipelineInv, InRange
  <2>2. CASE Buffered /\ k = L + 1
    BY <2>2, <1>3 DEF PipelineInv, InRange
  <2> QED BY <2>1, <2>2, <1>2
<1>5. \A j, k \in Waiting' : j < k => NsAt(j)' < NsAt(k)'
  <2> SUFFICES ASSUME NEW j \in Waiting', NEW k \in Waiting', j < k
               PROVE  NsAt(j)' < NsAt(k)'
    OBVIOUS
  <2>1. j \in Waiting
    BY <1>2, <1>3, <1>t
  <2>2. CASE k \in Waiting
    BY <2>1, <2>2, <1>3 DEF PipelineInv, Increasing
  <2>3. CASE Buffered /\ k = L + 1
    BY <2>1, <2>3, <1>3 DEF PipelineInv, Increasing
  <2> QED BY <2>2, <2>3, <1>2
<1>6. \A n \in Len(delivered)..(vr - 1) : \E k \in Waiting' : NsAt(k)' = n
  <2> SUFFICES ASSUME NEW n \in Len(delivered)..(vr - 1)
               PROVE  \E k \in Waiting' : NsAt(k)' = n
    OBVIOUS
  <2>1. CASE \E k \in Waiting : NsAt(k) = n
    BY <2>1, <1>2, <1>3
  <2>2. CASE Buffered /\ packets[fdu].ns = n
    BY <2>2, <1>2, <1>3
  <2> QED BY <2>1, <2>2 DEF PipelineInv, Complete
<1>7. \/ vr' = vr /\ ~Buffered'
      \/ vr' = vr + 1 /\ Buffered' /\ packets'[fdu'].ns = vr
  <2>1. CASE copQ = <<>>
    BY <1>0, <2>1 DEF FarmLower, Buffered
  <2>2. CASE copQ # <<>>
    <3> DEFINE i == Head(copQ)
    <3>1. i \in Commands /\ i # None /\ packets[i].vc = "command"
      BY <2>2, Taking, OnePacket DEF TypeOK, Commands
    <3>2. /\ fdu' = IF Admitted(i) THEN i ELSE None
          /\ vr' = IF ~packets[i].bypass /\ packets[i].ns = vr THEN vr + 1 ELSE vr
      BY <1>0, <2>2 DEF FarmLower
    <3> QED BY <1>0, <3>1, <3>2 DEF Admitted, Buffered, Controlled
  <2> QED BY <2>1, <2>2
<1>8. InOrder' /\ Len(delivered') = Len(delivered)
  BY <1>0 DEF InOrder
<1>9. CASE vr' = vr /\ ~Buffered'
  BY <1>4, <1>5, <1>6, <1>8, <1>9 DEF PipelineInv, InRange, Increasing, Complete
<1>10. CASE vr' = vr + 1 /\ Buffered' /\ packets'[fdu'].ns = vr
  <2>1. Len(delivered') <= vr' /\ InRange'
    BY <1>t, <1>4, <1>8, <1>10 DEF PipelineInv, InRange
  <2>2. Increasing'
    BY <1>t, <1>4, <1>5, <1>10 DEF Increasing
  <2>3. Complete'
    BY <1>t, <1>6, <1>8, <1>10 DEF Complete
  <2> QED BY <1>8, <2>1, <2>2, <2>3 DEF PipelineInv
<1> QED BY <1>7, <1>9, <1>10

\* The first sequence controlled command waiting is the one numbered
\* Len(delivered).
LEMMA PipelinePoll ==
    ASSUME TypeOK, InOrder, PipelineInv, PollCommand, cmdQ # <<>>
    PROVE  InOrder' /\ PipelineInv'
<1> DEFINE d == Len(delivered)
<1>t. /\ vr \in Nat /\ Len(cmdQ) \in Nat \ {0} /\ d \in Nat
      /\ \A k \in 1..Len(cmdQ) : NsAt(k) \in Nat
      /\ fdu # None => packets[fdu].ns \in Nat
  BY PipelineTypes, Taking DEF TypeOK
<1>0. /\ UNCHANGED <<packets, fdu, vr>>
      /\ cmdQ' = Tail(cmdQ)
      /\ delivered' = IF Controlled(cmdQ[1]) THEN Append(delivered, NsAt(1)) ELSE delivered
  BY Taking DEF PollCommand, ground, farm, NsAt, TypeOK
<1>1. Len(cmdQ') = Len(cmdQ) - 1 /\ \A k \in 1..Len(cmdQ') : cmdQ'[k] = cmdQ[k + 1]
  BY <1>0, Taking DEF TypeOK
<1>2. /\ \A k \in Waiting' : k \in Nat /\ k >= 1 /\ k + 1 \in Waiting /\ NsAt(k)' = NsAt(k + 1)
      /\ \A k \in Waiting : k # 1 => k - 1 \in Waiting' /\ NsAt(k - 1)' = NsAt(k)
  BY <1>0, <1>1, <1>t DEF Waiting, NsAt, Controlled
<1>3. Buffered' = Buffered /\ (Buffered => packets'[fdu'].ns = packets[fdu].ns)
  BY <1>0 DEF Buffered, Controlled
<1>4. \A k \in Waiting : k \in 1..Len(cmdQ) /\ NsAt(k) \in Nat
  BY <1>t DEF Waiting
<1>5. Increasing'
  <2>1. \A j, k \in Waiting' : j < k => NsAt(j)' < NsAt(k)'
    BY <1>2 DEF PipelineInv, Increasing
  <2>2. Buffered => \A k \in Waiting' : NsAt(k)' < packets[fdu].ns
    BY <1>2 DEF PipelineInv, Increasing
  <2> QED BY <2>1, <2>2, <1>3 DEF Increasing
<1>6. CASE ~Controlled(cmdQ[1])
  <2>1. 1 \notin Waiting /\ delivered' = delivered
    BY <1>0, <1>6 DEF Waiting
  <2>2. InRange'
    BY <1>0, <1>2, <1>3, <2>1 DEF PipelineInv, InRange
  <2>3. Complete'
    BY <1>0, <1>2, <1>3, <2>1 DEF PipelineInv, Complete
  <2> QED BY <1>0, <1>5, <2>1, <2>2, <2>3 DEF PipelineInv, InOrder
<1>7. CASE Controlled(cmdQ[1])
  <2>1. 1 \in Waiting
    BY <1>7, <1>t DEF Waiting
  <2>2. NsAt(1) = d
    <3>1. NsAt(1) \in d..(vr - 1)
      BY <2>1 DEF PipelineInv, InRange
    <3>2. d \in d..(vr - 1)
      BY <3>1, <1>t
    <3>3. CASE \E k \in Waiting : NsAt(k) = d
      <4> PICK k \in Waiting : NsAt(k) = d
        BY <3>3
      <4>1. 1 < k => NsAt(1) < NsAt(k)
        BY <2>1 DEF PipelineInv, Increasing
      <4> QED BY <3>1, <4>1, <1>4, <1>t
    <3>4. CASE Buffered /\ packets[fdu].ns = d
      BY <3>1, <3>4, <2>1, <1>t DEF PipelineInv, Increasing
    <3> QED BY <3>2, <3>3, <3>4 DEF PipelineInv, Complete
  <2>3. /\ Len(delivered') = d + 1 /\ delivered'[d + 1] = d
        /\ \A k \in 1..d : delivered'[k] = delivered[k]
        /\ DOMAIN delivered' = 1..(d + 1) /\ DOMAIN delivered = 1..d
    BY <1>0, <1>7, <2>2, <1>t, Adding DEF TypeOK
  <2>4. InOrder'
    BY <2>3, <1>t DEF InOrder
  <2>5. d + 1 <= vr
    BY <2>1, <2>2, <1>t DEF PipelineInv, InRange
  <2>6. InRange'
    <3>1. \A k \in Waiting' : NsAt(k)' \in (d + 1)..(vr - 1)
      <4> TAKE k \in Waiting'
      <4>1. k + 1 \in Waiting /\ NsAt(k)' = NsAt(k + 1) /\ 1 < k + 1
        BY <1>2
      <4>2. NsAt(1) < NsAt(k + 1) /\ NsAt(k + 1) \in d..(vr - 1)
        BY <4>1, <2>1 DEF PipelineInv, Increasing, InRange
      <4> QED BY <4>1, <4>2, <2>2, <1>t
    <3>2. Buffered => packets[fdu].ns \in (d + 1)..(vr - 1)
      BY <2>1, <2>2, <1>t DEF PipelineInv, Increasing, InRange
    <3> QED BY <3>1, <3>2, <2>3, <1>0, <1>3 DEF InRange
  <2>7. Complete'
    <3> SUFFICES ASSUME NEW n \in (d + 1)..(vr - 1)
                 PROVE  (\E k \in Waiting' : NsAt(k)' = n)
                          \/ (Buffered /\ packets[fdu].ns = n)
      BY <2>3, <1>0, <1>3 DEF Complete
    <3>1. n \in d..(vr - 1) /\ n # d
      BY <1>t
    <3>2. CASE \E k \in Waiting : NsAt(k) = n
      <4> PICK k \in Waiting : NsAt(k) = n
        BY <3>2
      <4>1. k # 1
        BY <2>2, <3>1
      <4> QED BY <4>1, <1>2
    <3> QED BY <3>1, <3>2 DEF PipelineInv, Complete
  <2> QED BY <1>0, <1>5, <2>3, <2>4, <2>5, <2>6, <2>7 DEF PipelineInv
<1> QED BY <1>6, <1>7

\* Sequence controlled commands come to the EDL service in order, with none
\* missing and none twice, from each start of the C3.
THEOREM Ordering == Spec => []InOrder
<1>1. Init => InOrder /\ PipelineInv
  BY DEF Init, InOrder, PipelineInv, InRange, Increasing, Complete, Waiting, Buffered
<1>2. TypeOK /\ InOrder /\ PipelineInv /\ [Next]_vars => InOrder' /\ PipelineInv'
  <2> SUFFICES ASSUME TypeOK, InOrder, PipelineInv, [Next]_vars
               PROVE  InOrder' /\ PipelineInv'
    OBVIOUS
  <2>1. CASE SendAny
    <3> PICK kind \in Kinds, ns \in {vs, vr} : Send(kind, ns)
      BY <2>1 DEF SendAny
    <3>1. ns \in Nat
      BY DEF TypeOK
    <3>2. \A i \in Sent : packets'[i] = packets[i]
      BY <3>1, SendKeeps
    <3> QED BY <3>2, PipelineKept DEF Send, queues, farm
  <2>2. CASE ReceiveAny
    BY <2>2, PipelineKept DEF ReceiveAny, Receive, ground, farm
  <2>3. CASE Router
    <3>1. UNCHANGED cmdQ
      BY <2>3 DEF Router, RouterLoop, RouteOne, Routed, queues
    <3> QED BY <2>3, <3>1, PipelineKept DEF Router, ground, farm
  <2>4. CASE Cop
    BY <2>4, PipelineCop
  <2>5. CASE PollCommand
    <3>1. CASE cmdQ = <<>>
      BY <2>5, <3>1, PipelineKept DEF PollCommand, ground, farm
    <3>2. CASE cmdQ # <<>>
      BY <2>5, <3>2, PipelinePoll
    <3> QED BY <3>1, <3>2
  <2>6. CASE Run
    BY <2>6, PipelineKept DEF Run, ground, farm, queues
  <2>7. CASE PollFile
    BY <2>7, PipelineKept DEF PollFile, ground, farm
  <2>8. CASE Save
    BY <2>8, PipelineKept DEF Save, ground, farm, queues
  <2>9. CASE Restart
    BY <2>9 DEF Restart, InOrder, PipelineInv, InRange, Increasing, Complete, Waiting, Buffered
  <2>10. CASE UNCHANGED vars
    BY <2>10, PipelineKept DEF vars, ground, farm, queues
  <2> QED BY <2>1, <2>2, <2>3, <2>4, <2>5, <2>6, <2>7, <2>8, <2>9, <2>10
       DEF Next, Edl, Reset, Bite
<1> QED BY <1>1, <1>2, Typing, PTL DEF Spec
=============================================================================
