----------------------------- MODULE EdlUplink -----------------------------
(***************************************************************************)
(* The way of an EDL packet from the radio to the thread that carries it   *)
(* out: the channel router, the COP-1 manager (FARM-1 on the command       *)
(* channel only) and the EDL service, three threads joined by queues; the  *)
(* sequence count packets are compared with, the copy of it the state      *)
(* service keeps in F-RAM, and the reset after which only that copy is     *)
(* left.                                                                   *)
(*                                                                         *)
(* A packet is the number of its sending: packets[i] is the i-th packet    *)
(* the ground sent.  The link loses, duplicates and reorders packets: the  *)
(* two receivers feed one socket.                                          *)
(*                                                                         *)
(* Left out: FARM-1's lockout and window, and the directives that set its  *)
(* V(R) (the bounds keep V(S) - V(R) under the window); the rejected count *)
(* and od.edl.last_timestamp (C3State has the latter).                     *)
(***************************************************************************)
EXTENDS Integers, Sequences

CONSTANTS
    Kinds,       \* bound: the kinds of packet on the uplink
    MaxSeq,      \* the greatest sequence number (2^32 - 1 in the code)
    FlightMode,  \* flight_mode
    MaxPackets,  \* bound: packets sent
    MaxReceived, \* bound: packets received, duplicates included
    MaxResets    \* bound: resets of the C3

Channels == {"command", "file", "idle"}
\* "bad" packets are refused: HMAC, channel, or an error that from_frame wraps.
\* Those that "raise" are authentic, but their request does not unpack: an
\* unknown command, too few bytes, a text that is no UTF-8.  A "stray" one is a
\* PDU that get_packet_destination knows no destination for.
Forms == {"good", "bad", "raises", "stray"}
AllKinds == [vc : Channels, bypass : BOOLEAN, form : Forms]

ASSUME KindsAssumption == Kinds \subseteq AllKinds
ASSUME BoundsAssumption == {MaxSeq, MaxPackets, MaxReceived, MaxResets} \subseteq Nat
ASSUME FlightAssumption == FlightMode \in BOOLEAN

VARIABLES
    packets,   \* the packets sent: kind, V(S) and sequence number of each
    vs,        \* the ground's V(S)
    received,  \* packets received
    recvQ,     \* RadiosService.recv_queue
    copQ,      \* CopManagerService.recv_queue
    vr,        \* V(R) of FARM-1 on the command channel
    fdu,       \* the packet in its higher interface's buffer, or None
    cmdQ,      \* EdlService._cmd_uplink
    fileQ,     \* EdlService._file_uplink
    down,      \* how many responses wait in _cmd_downlink
    pc,        \* where the EDL thread is
    running,   \* the command it runs, or None
    count,     \* od["edl"]["sequence_count"]
    saved,     \* the copy of it in F-RAM
    resets,    \* resets so far
    executed,  \* history: the packets carried out, less those a reset made
               \* the C3 forget: carried out after count was last saved
    kept,      \* history: how many of them when count was last saved
    delivered  \* history: N(S) of the sequence controlled commands the EDL
               \* service took off its queue since the C3 started

ground == <<packets, vs>>
queues == <<recvQ, copQ, cmdQ, fileQ>>
farm   == <<vr, fdu>>
edl    == <<pc, running, count>>
vars == <<ground, received, queues, farm, down, edl, saved, resets, executed,
          kept, delivered>>

\* No packet: also what a frame with a bad checksum is.
None == 0
Seqs == 0..MaxSeq
Sent == DOMAIN packets

Controlled(i) == packets[i].vc = "command" /\ ~packets[i].bypass

Init ==
    /\ packets = <<>> /\ vs = 0 /\ received = 0
    /\ recvQ = <<>> /\ copQ = <<>> /\ cmdQ = <<>> /\ fileQ = <<>>
    /\ vr = 0 /\ fdu = None /\ down = 0
    /\ pc = "command" /\ running = None /\ count = 0
    /\ saved = 0 /\ resets = 0
    /\ executed = <<>> /\ kept = 0 /\ delivered = <<>>
-----------------------------------------------------------------------------
\* The ground numbers every packet with the next sequence number.  FOP-1 gives
\* a sequence controlled one its V(S), which a CLCW may set back to V(R).
Send(kind, ns) ==
    /\ Len(packets) < MaxPackets
    /\ packets' = Append(packets,
                     [vc |-> kind.vc, bypass |-> kind.bypass, form |-> kind.form,
                      ns |-> ns, seq |-> (Len(packets) + 1) % (MaxSeq + 1)])
    /\ vs' = IF kind.vc = "command" /\ ~kind.bypass THEN ns + 1 ELSE vs
    /\ UNCHANGED <<received, queues, farm, down, edl, saved, resets, executed,
                   kept, delivered>>

\* A datagram reaches RadiosService: any packet sent, again or for the first
\* time, or one that arrives garbled.
Receive(i) ==
    /\ received < MaxReceived
    /\ received' = received + 1
    /\ recvQ' = Append(recvQ, i)
    /\ UNCHANGED <<ground, copQ, cmdQ, fileQ, farm, down, edl, saved, resets,
                   executed, kept, delivered>>
-----------------------------------------------------------------------------
\* ChannelRouterService._uplink_routes: commands go by the COP, a garbled or
\* idle frame goes nowhere.
RoutedPastCop(i) ==
    /\ cmdQ' = IF i # None /\ packets[i].vc = "command" THEN Append(cmdQ, i) ELSE cmdQ
    /\ fileQ' = IF i # None /\ packets[i].vc = "file" THEN Append(fileQ, i) ELSE fileQ
    /\ copQ' = copQ
Routed(i) ==
    /\ copQ' = IF i # None /\ packets[i].vc = "command" THEN Append(copQ, i) ELSE copQ
    /\ fileQ' = IF i # None /\ packets[i].vc = "file" THEN Append(fileQ, i) ELSE fileQ
    /\ cmdQ' = cmdQ

\* At most one frame is unpacked and routed in a loop.
RouteOne ==
    \/ recvQ = <<>> /\ UNCHANGED queues
    \/ recvQ # <<>> /\ recvQ' = Tail(recvQ) /\ Routed(Head(recvQ))

\* One loop of the channel router: every response is sent, then one frame is
\* routed.
RouterLoop ==
    /\ RouteOne
    /\ down' = 0

Router ==
    /\ RouterLoop
    /\ UNCHANGED <<ground, received, farm, edl, saved, resets, executed, kept,
                   delivered>>
-----------------------------------------------------------------------------
\* FARM-1's frame acceptance check (ccsds_cop.cop_1.farm).
Admitted(i) == packets[i].bypass \/ packets[i].ns = vr

\* CopManagerService._process_farm_higher, then _process_farm_lower: what FARM
\* passed on in the last loop goes to the EDL service, and the next frame is
\* given to FARM.
FarmHigher == cmdQ' = IF fdu = None THEN cmdQ ELSE Append(cmdQ, fdu)

FarmUnchecked ==
    /\ fdu' = IF copQ = <<>> THEN None ELSE Head(copQ)
    /\ copQ' = IF copQ = <<>> THEN <<>> ELSE Tail(copQ)
    /\ vr' = vr
FarmLower ==
    \/ /\ copQ = <<>>
       /\ fdu' = None
       /\ UNCHANGED <<copQ, vr>>
    \/ /\ copQ # <<>>
       /\ copQ' = Tail(copQ)
       /\ LET i == Head(copQ)
          IN /\ fdu' = IF Admitted(i) THEN i ELSE None
             /\ vr' = IF ~packets[i].bypass /\ packets[i].ns = vr THEN vr + 1 ELSE vr

CopOnFrame ==
    IF copQ = <<>> THEN UNCHANGED <<cmdQ, copQ, vr, fdu>> ELSE FarmHigher /\ FarmLower
CopLoop == FarmHigher /\ FarmLower

Cop ==
    /\ CopLoop
    /\ UNCHANGED <<ground, received, recvQ, fileQ, down, edl, saved, resets,
                   executed, kept, delivered>>
-----------------------------------------------------------------------------
\* EdlService._frame_to_packet: the HMAC and the payload are right and, in
\* flight mode, the number is not below the count, which becomes that number.
Valid(i) == packets[i].form \in {"good", "stray"}
Accepted(i) == Valid(i) /\ (FlightMode => packets[i].seq >= count)
CountAfter(i) == IF Accepted(i) /\ FlightMode THEN packets[i].seq ELSE count

\* What it does not catch, and what _handle_pdu raises, ends the service.
Raises(i) == packets[i].form = "raises"
RaisesAsPdu(i) == Raises(i) \/ (packets[i].form = "stray" /\ Accepted(i))

\* _process_command, up to where it runs the command, ...
PollCommand ==
    /\ pc = "command"
    /\ \/ /\ cmdQ = <<>>
          /\ pc' = "file"
          /\ UNCHANGED <<cmdQ, running, count, delivered>>
       \/ /\ cmdQ # <<>>
          /\ cmdQ' = Tail(cmdQ)
          /\ LET i == Head(cmdQ)
             IN /\ count' = CountAfter(i)
                /\ pc' = IF Raises(i) THEN "failed" ELSE IF Accepted(i) THEN "run" ELSE "file"
                /\ running' = IF Accepted(i) THEN i ELSE None
                /\ delivered' = IF Controlled(i) THEN Append(delivered, packets[i].ns)
                                                 ELSE delivered
    /\ UNCHANGED <<ground, received, recvQ, copQ, fileQ, farm, down, saved, resets,
                   executed, kept>>

\* ... which may have a response, ...
Run ==
    /\ pc = "run"
    /\ executed' = Append(executed, running)
    /\ down' \in {down, down + 1}
    /\ pc' = "file" /\ running' = None
    /\ UNCHANGED <<ground, received, queues, farm, count, saved, resets, kept,
                   delivered>>

\* ... then _process_cfdp: a PDU goes to the file transfer's own threads.
PollFile ==
    /\ pc = "file"
    /\ \/ /\ fileQ = <<>>
          /\ pc' = "command"
          /\ UNCHANGED <<fileQ, count, executed>>
       \/ /\ fileQ # <<>>
          /\ fileQ' = Tail(fileQ)
          /\ LET i == Head(fileQ)
             IN /\ count' = CountAfter(i)
                /\ pc' = IF RaisesAsPdu(i) THEN "failed" ELSE "command"
                /\ executed' = IF Accepted(i) /\ ~RaisesAsPdu(i)
                               THEN Append(executed, i) ELSE executed
    /\ UNCHANGED <<ground, received, recvQ, copQ, cmdQ, farm, down, running, saved,
                   resets, kept, delivered>>

Edl == PollCommand \/ Run \/ PollFile
-----------------------------------------------------------------------------
\* StateService.store_state: the count is one of the objects saved.
Save ==
    /\ saved' = count
    /\ kept' = Len(executed)
    /\ UNCHANGED <<ground, received, queues, farm, down, edl, resets, executed,
                   delivered>>

\* A reset of the C3: the queues and FARM-1 start afresh, the count is restored.
RestoredDefault == 0
Restored == saved

Restart ==
    /\ recvQ' = <<>> /\ copQ' = <<>> /\ cmdQ' = <<>> /\ fileQ' = <<>>
    /\ vr' = 0 /\ fdu' = None /\ down' = 0
    /\ pc' = "command" /\ running' = None /\ count' = Restored
    /\ delivered' = <<>>
    /\ executed' = SubSeq(executed, 1, kept)
    /\ UNCHANGED <<ground, received, saved, kept>>

Reset ==
    /\ resets < MaxResets
    /\ resets' = resets + 1
    /\ Restart

\* In flight mode the watchdog is not petted once a service has failed.
Bite ==
    /\ pc = "failed" /\ FlightMode
    /\ resets' = resets
    /\ Restart

SendAny == \E kind \in Kinds, ns \in {vs, vr} : Send(kind, ns)
ReceiveAny == \E i \in Sent \cup {None} : Receive(i)

Next == SendAny \/ ReceiveAny \/ Router \/ Cop \/ Edl \/ Save \/ Reset \/ Bite

Spec == Init /\ [][Next]_vars

\* The three threads keep looping, and the watchdog bites.
Fairness == WF_vars(Router) /\ WF_vars(Cop) /\ WF_vars(Edl) /\ WF_vars(Bite)
FairSpec == Spec /\ Fairness
-----------------------------------------------------------------------------
\* Types: every queue holds packets of its channel, what the COP passes on
\* and what the EDL service carries out are packets that were sent.
Commands == {i \in Sent : packets[i].vc = "command"}
Files == {i \in Sent : packets[i].vc = "file"}
TypeOK ==
    /\ packets \in Seq([vc : Channels, bypass : BOOLEAN, form : Forms, ns : Nat,
                        seq : Seqs])
    /\ vs \in Nat /\ vr \in Nat /\ received \in Nat /\ resets \in Nat /\ down \in Nat
    /\ recvQ \in Seq(Sent \cup {None})
    /\ copQ \in Seq(Commands) /\ fdu \in Commands \cup {None}
    /\ cmdQ \in Seq(Commands) /\ fileQ \in Seq(Files)
    /\ pc \in {"command", "run", "file", "failed"}
    /\ running \in Commands \cup {None} /\ (pc = "run" <=> running # None)
    /\ count \in Seqs /\ saved \in Seqs
    /\ executed \in Seq(Commands \cup Files) /\ kept \in 0..Len(executed)
    /\ delivered \in Seq(Nat)

\* "Sequence Controlled Service (guaranteed in-order delivery)": since the C3
\* started, the sequence controlled commands the EDL service took were those
\* numbered 0, 1, 2, ... with none missing, none twice and none out of place,
\* whatever the link did and whatever bypassed FARM-1 in between.
InOrder == \A k \in DOMAIN delivered : delivered[k] = k - 1

\* The sequence count does its work, on both channels at once and across
\* resets: no packet is carried out after a later one, unless a reset made the
\* C3 forget the later one before its number was saved.
NoneOlder ==
    FlightMode => \A i, j \in DOMAIN executed :
                      i < j => packets[executed[i]].seq <= packets[executed[j]].seq

\* A command FARM-1 acknowledged (N(S) below V(R)) comes to the EDL service, or
\* a reset sets V(R) back, so that the ground's next CLCW tells: the operator's
\* or, in flight mode, the watchdog's when a packet ended the service first, and
\* the commands behind it are lost with it.  Only outside flight mode may it
\* stay acknowledged and never come: the service ended and the watchdog is petted.
EndedForGood == pc = "failed" /\ ~FlightMode
AcknowledgedArrives ==
    \A n \in 0..(MaxPackets - 1) :
        n < vr ~> (n < Len(delivered) \/ vr <= n \/ EndedForGood)
-----------------------------------------------------------------------------
\* The packet the EDL service takes off a queue in this step.
Takes(q, qNext) ==
    q # <<>> /\ qNext = Tail(q) /\ resets' = resets /\ pc # "failed"
Taken ==
    IF Takes(cmdQ, cmdQ') THEN Head(cmdQ)
    ELSE IF Takes(fileQ, fileQ') THEN Head(fileQ) ELSE None

\* docs/edl.rst:76-77: "Any EDL packet received must have a higher number that
\* the C3 internal count, otherwise the C3 will ignore it."
OnlyHigherAccepted ==
    [][FlightMode /\ Taken # None /\ Accepted(Taken) => packets[Taken].seq > count]_vars

\* docs/edl.rst:78: "Number rolls over at FF FF FF FF": the packet numbered 0
\* after the one numbered MaxSeq is accepted.
RollsOver ==
    [][Taken # None /\ Valid(Taken) /\ packets[Taken].seq = 0 /\ count = MaxSeq
        => Accepted(Taken)]_vars

\* docs/edl.rst:58, "guaranteed in-order delivery": a valid sequence controlled
\* command FARM-1 acknowledged is carried out.
AcknowledgedRuns ==
    [][Taken # None /\ Controlled(Taken) /\ Valid(Taken) => Accepted(Taken)]_vars
=============================================================================
