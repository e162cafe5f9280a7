---------------------------- MODULE FileTransfer ----------------------------
(***************************************************************************)
(* Files on their way to the ground: the two threads of                    *)
(* oresat_c3/protocols/cfdp.py, the cache they share                       *)
(* (oresat_c3/protocols/cachestore.py), the mission database that removes  *)
(* files from it, and a ground that asks for a file or for a listing.      *)
(*                                                                         *)
(* One call of a state machine is a step, and so is one access to the      *)
(* cache, the length of its lock.  A file is its version and its number of *)
(* segments; the checksum of a file is what its accesses read.  What       *)
(* cfdppy does of itself is modelled as the tests and the overrides show   *)
(* it: tests/protocols/test_cfdp.py counts its timeouts.  Files sent by    *)
(* the ground are left out.  The queues of PDUs between the EDL service    *)
(* and the two threads only delay them, as the link does: a PDU arrives    *)
(* when its thread takes it.                                               *)
(***************************************************************************)
EXTENDS Integers, Sequences, SequencesExt

CONSTANTS
    Recording,   \* a file of the mission database
    Listing,     \* DIRECTORY_LISTING_FILE
    NoFile,      \* the source file of a metadata-only put request
    AckLimit,    \* positive_ack_timer_expiration_limit
    MaxRequests, \* bound: requests of the ground
    MaxSize,     \* bound: segments of a file
    MaxPdus      \* bound: PDUs that arrive from the ground

VARIABLES
    store,     \* CacheStore: what each file holds, or Gone
    listed,    \* listings written so far
    putQ,      \* put_req_queue
    src,       \* the source thread and its handler
    active,    \* active_proxy_put_reqs of the source's user
    dst,       \* the dest thread and its handler
    gnd,       \* what the ground has of the last transaction sent to it
    asked,     \* the requests begun
    left,      \* PDUs that may still arrive from the ground
    rewritten  \* history: the file was rewritten while its checksum was taken

cache == <<store, listed, rewritten>>
source == <<src, active, gnd>>
vars == <<cache, source, putQ, dst, asked, left>>

Files == {Recording, Listing}
Kinds == {"proxy", "elsewhere", "listing"}
Requests == 1..MaxRequests

ASSUME FileTransferAssumption ==
    /\ Recording # Listing /\ NoFile \notin Files
    /\ {AckLimit, MaxRequests, MaxSize, MaxPdus} \subseteq Nat \ {0}
-----------------------------------------------------------------------------
\* The cache.

Contents == [version : Nat, size : 0..MaxSize]
Gone == [version |-> 0, size |-> -1]
RemovedFirst == Gone
Empty == [version |-> 0, size |-> 0]

\* A segment is told from those of other versions and, as the last one, of other sizes.
Segments == Nat \X (1..MaxSize) \X (0..MaxSize)
Nothing == <<0, 1, 0>>
Segment(c, i) == IF i <= c.size THEN <<c.version, i, c.size>> ELSE Nothing

\* A file is rewritten while the source thread takes its checksum.
Rewriting(file) ==
    rewritten' = (rewritten \/ (src.step = "summing" /\ src.req.file = file))

\* Put requests: origin is the request of the ground whose transaction is to be
\* answered, 0 for none; since, for a listing, is the one written for this request.
PutRequests == [file : Files \cup {NoFile}, ground : BOOLEAN, origin : 0..MaxRequests,
                since : Nat]
ProxyPut(r, kind) == [file |-> Recording, ground |-> kind = "proxy", origin |-> r,
                      since |-> 0]
ListingPut(r, version) == [file |-> Listing, ground |-> TRUE, origin |-> r,
                           since |-> version]
PutResponse(r) == [file |-> NoFile, ground |-> TRUE, origin |-> 0, since |-> 0]

IdleSource(tid) ==
    [step |-> "idle", req |-> PutResponse(0), tid |-> tid, size |-> 0, progress |-> 0,
     sum |-> <<>>, tries |-> 0, canceled |-> FALSE]
IdleDest == [step |-> "idle", request |-> 0, ended |-> FALSE, tries |-> 0,
             canceled |-> FALSE]

\* The ground's side of a transaction: nothing of it yet.
NoSum == <<Nothing>>
Blank == [meta |-> FALSE, size |-> 0, since |-> 0,
          got |-> [i \in 1..MaxSize |-> Nothing], sum |-> NoSum]

SourceSteps == {"idle", "start", "size", "sending", "summing", "eofAck", "finished",
                "dead"}
TypeOK ==
    /\ store \in [Files -> Contents \cup {Gone}]
    /\ listed \in Nat
    /\ putQ \in Seq(PutRequests)
    /\ src \in [step : SourceSteps, req : PutRequests, tid : Nat, size : 0..MaxSize,
                progress : 0..MaxSize, sum : Seq(Segments), tries : 0..AckLimit,
                canceled : BOOLEAN]
    /\ active \in SUBSET (Nat \X Requests)
    /\ dst \in [step : {"idle", "listing", "receiving", "missing", "finished"},
                request : 0..MaxRequests, ended : BOOLEAN, tries : 0..AckLimit,
                canceled : BOOLEAN]
    /\ gnd \in [meta : BOOLEAN, size : 0..MaxSize, since : Nat,
                got : [1..MaxSize -> Segments], sum : Seq(Segments)]
    /\ asked \in 0..MaxRequests /\ left \in 0..MaxPdus /\ rewritten \in BOOLEAN

Init ==
    /\ store = [f \in Files |-> IF f = Listing THEN Gone
                               ELSE [version |-> 1, size |-> MaxSize]]
    /\ listed = 0
    /\ putQ = <<>> /\ src = IdleSource(0) /\ active = {} /\ dst = IdleDest
    /\ gnd = Blank /\ asked = 0 /\ left = MaxPdus /\ rewritten = FALSE
-----------------------------------------------------------------------------
\* The ground.  A PDU sent to it, through _cfdp_tm_queue, may be lost.

Hears(next) == gnd' \in {gnd, next}

WithMetadata(g, s) == [g EXCEPT !.meta = TRUE, !.size = s.size, !.since = s.req.since]
WithData(i, segment) == [gnd EXCEPT !.got[i] = segment]
WithEof(sum) == [gnd EXCEPT !.sum = sum]

Missing == {i \in 1..gnd.size : gnd.got[i] = Nothing}
Received == gnd.meta /\ gnd.sum # NoSum /\ Missing = {}

\* A PDU arrives from the ground, and goes to its thread: EdlService._handle_pdu.
Arrives == left > 0 /\ left' = left - 1
-----------------------------------------------------------------------------
\* The source thread.

Running(step) == src.step = step
File == store[src.req.file]
Died == src' = [src EXCEPT !.step = "dead"] \* FileNotFoundError, which nobody catches
Dropped == src' = IdleSource(src.tid)

IdleHandling ==
    /\ Running("idle") /\ putQ # <<>>
    /\ putQ' = Tail(putQ)
    /\ IF Head(putQ).ground
       THEN src' = [IdleSource(src.tid) EXCEPT !.step = "start", !.req = Head(putQ)]
       ELSE UNCHANGED src
    /\ UNCHANGED <<cache, active, gnd, dst, asked, left>>

\* The transaction gets its number, the user its indication, the ground its metadata.
Begun(size) ==
    /\ src' = [src EXCEPT !.step = "sending", !.tid = @ + 1, !.size = size]
    /\ active' = active \cup ({<<src.tid + 1, src.req.origin>>} \ {<<src.tid + 1, 0>>})
    /\ gnd' \in {Blank, WithMetadata(Blank, src')}
    /\ rewritten' = FALSE

TransactionStart ==
    /\ \/ Running("start") /\ src.req.file = NoFile /\ Begun(0)
       \/ Running("size") /\ File # Gone /\ Begun(File.size)
       \/ /\ Running("start") /\ src.req.file # NoFile
          /\ IF File = Gone THEN Dropped ELSE src' = [src EXCEPT !.step = "size"]
          /\ UNCHANGED <<active, gnd, rewritten>>
       \/ Running("size") /\ File = Gone /\ Died /\ UNCHANGED <<active, gnd, rewritten>>
    /\ UNCHANGED <<store, listed, putQ, dst, asked, left>>

\* A data PDU; one without data fills no gap.
SendsData(i) == Hears(WithData(i, Segment(File, i)))

MoreData == src.progress < src.size

SendData ==
    /\ Running("sending") /\ MoreData
    /\ IF File = Gone THEN Died /\ UNCHANGED gnd
       ELSE src' = [src EXCEPT !.progress = @ + 1] /\ SendsData(src.progress + 1)
    /\ UNCHANGED <<cache, putQ, active, dst, asked, left>>

SumOfSent(sum) ==
    /\ src' = [src EXCEPT !.step = "eofAck", !.sum = sum]
    /\ Hears(WithEof([i \in 1..src.size |-> gnd.got[i]]))
SendsEof(sum) ==
    /\ src' = [src EXCEPT !.step = "eofAck", !.sum = sum]
    /\ Hears(WithEof(sum))

\* The checksum is taken piece by piece, until a read returns nothing.
SendEof ==
    /\ \/ Running("sending") /\ src.size = 0 /\ SendsEof(<<>>)
       \/ /\ Running("sending") /\ src.size > 0 /\ src.progress = src.size
          /\ IF File = Gone THEN Dropped ELSE src' = [src EXCEPT !.step = "summing"]
          /\ UNCHANGED gnd
       \/ Running("summing") /\ File = Gone /\ Died /\ UNCHANGED gnd
       \/ /\ Running("summing") /\ Len(src.sum) < File.size
          /\ src' = [src EXCEPT !.sum = Append(@, Segment(File, Len(@) + 1))]
          /\ UNCHANGED gnd
       \/ /\ Running("summing") /\ File # Gone /\ Len(src.sum) >= File.size
          /\ SendsEof(src.sum)
    /\ UNCHANGED <<cache, putQ, active, dst, asked, left>>

\* transaction_finished_indication: the request this transaction goes back to is
\* answered, by a put request that goes back to none.
Indication ==
    LET origins == {p \in active : p[1] = src.tid} IN
    /\ active' = active \ origins
    /\ putQ' = putQ \o SetToSeq({PutResponse(p[2]) : p \in origins})

Waits == Running("eofAck") \/ Running("finished")

\* What the ground sends the source thread.  (A PDU of an earlier transaction, or one
\* that is not waited for, is ignored: PduIgnoredForSource.)
Acknowledged ==
    /\ Waits /\ gnd.sum # NoSum
    /\ IF src.canceled THEN Dropped /\ Indication
       ELSE src' = [src EXCEPT !.step = "finished"] /\ UNCHANGED <<putQ, active>>
    /\ Arrives /\ UNCHANGED <<cache, gnd, dst, asked>>

Finished ==
    /\ Running("finished") /\ Received
    /\ Dropped /\ Indication
    /\ Arrives /\ UNCHANGED <<cache, gnd, dst, asked>>

Retransmission ==
    /\ Waits /\ gnd.sum # NoSum
    /\ \/ ~gnd.meta /\ Hears(WithMetadata(gnd, src)) /\ UNCHANGED src
       \/ \E i \in 1..src.size :
            IF File = Gone THEN Died /\ UNCHANGED gnd ELSE SendsData(i) /\ UNCHANGED src
    /\ Arrives /\ UNCHANGED <<cache, putQ, active, dst, asked>>

\* The timer of the EOF: it is sent again, then the transaction is cancelled, which
\* the ground has to acknowledge too, then abandoned, with or without indication.
\* There is none for the Finished PDU that is to follow the acknowledgement.
SourceTimedOut ==
    /\ Running("eofAck")
    /\ LET again == src.tries + 1 < AckLimit IN
       \/ /\ again /\ src' = [src EXCEPT !.tries = @ + 1]
          /\ Hears(IF src.canceled THEN Blank ELSE WithEof(src.sum))
          /\ UNCHANGED <<putQ, active>>
       \/ /\ ~again /\ ~src.canceled
          /\ src' = [src EXCEPT !.step = "eofAck", !.tries = 0, !.canceled = TRUE]
          /\ Hears(Blank) /\ UNCHANGED <<putQ, active>>
       \/ /\ ~again /\ src.canceled
          /\ Dropped /\ UNCHANGED gnd
          /\ Indication \/ UNCHANGED <<putQ, active>>
    /\ UNCHANGED <<cache, dst, asked, left>>
-----------------------------------------------------------------------------
\* The dest thread.

\* The first PDU of a transaction, be it the metadata or, if that was lost, the EOF.
Begins(request) ==
    dst.step = "idle" /\ asked < MaxRequests /\ request = asked + 1 /\ asked' = request

\* The user has seen the metadata: the transaction is complete if its EOF came.
Seen(request, ended) ==
    dst' = [IdleDest EXCEPT !.request = request,
                            !.step = IF ended THEN "finished" ELSE "receiving"]

\* A listing request first truncates the file.
HandleMetadata ==
    /\ Arrives
    /\ \E request \in 1..MaxRequests, kind \in Kinds :
         /\ \/ Begins(request)
            \/ dst.step = "missing" /\ request = dst.request /\ UNCHANGED asked
         /\ IF kind = "listing"
            THEN /\ dst' = [IdleDest EXCEPT !.step = "listing", !.request = request,
                                            !.ended = dst.step = "missing"]
                 /\ store' = [store EXCEPT ![Listing] = Empty]
                 /\ Rewriting(Listing) /\ UNCHANGED putQ
            ELSE /\ putQ' = Append(putQ, ProxyPut(request, kind))
                 /\ Seen(request, dst.step = "missing")
                 /\ UNCHANGED <<store, rewritten>>
    /\ UNCHANGED <<listed, source>>

\* The rest of list_directory: ls fails, or what it prints is written; either way the
\* file is to be sent.
ListDirectory ==
    /\ dst.step = "listing"
    /\ \/ UNCHANGED cache /\ putQ' = Append(putQ, ListingPut(dst.request, 0))
       \/ /\ \E size \in 1..MaxSize :
               store' = [store EXCEPT ![Listing] = [version |-> listed + 1,
                                                    size |-> size]]
          /\ listed' = listed + 1 /\ Rewriting(Listing)
          /\ putQ' = Append(putQ, ListingPut(dst.request, listed + 1))
    /\ Seen(dst.request, dst.ended)
    /\ UNCHANGED <<source, asked, left>>

\* An EOF before its metadata begins a transaction; one that comes again is
\* acknowledged again, and may have the Finished PDU sent again too.
HandleEof ==
    /\ Arrives
    /\ \/ \E request \in 1..MaxRequests :
            /\ Begins(request)
            /\ dst' = [IdleDest EXCEPT !.step = "missing", !.request = request]
       \/ dst.step = "receiving" /\ Seen(dst.request, TRUE) /\ UNCHANGED asked
       \/ dst.step = "finished" /\ dst' = [dst EXCEPT !.tries = 0] /\ UNCHANGED asked
    /\ UNCHANGED <<cache, source, putQ>>

HandleAck ==
    /\ dst.step = "finished" /\ dst' = IdleDest
    /\ Arrives /\ UNCHANGED <<cache, source, putQ, asked>>

CancelAgain == dst' = [dst EXCEPT !.step = "finished", !.tries = 0, !.canceled = TRUE]
DeclareFault ==
    dst' = IF dst.canceled THEN IdleDest
           ELSE [dst EXCEPT !.step = "finished", !.tries = 0, !.canceled = TRUE]

\* The timer of the Finished PDU.
DestTimedOut ==
    /\ dst.step = "finished"
    /\ IF dst.tries + 1 >= AckLimit THEN DeclareFault
       ELSE dst' = [dst EXCEPT !.tries = @ + 1]
    /\ UNCHANGED <<cache, source, putQ, asked, left>>

\* A limit reached before there is a Finished PDU: of NAKs, or of checks.
DestGivesUp ==
    /\ dst.step \in {"receiving", "missing"} /\ DeclareFault
    /\ UNCHANGED <<cache, source, putQ, asked, left>>

\* MissionDatabaseService.update_files removes its oldest file.
UpdateFiles ==
    /\ store[Recording] # Gone
    /\ store' = [store EXCEPT ![Recording] = Gone]
    /\ UNCHANGED <<listed, rewritten, source, putQ, dst, asked, left>>
-----------------------------------------------------------------------------
SourceEntityHandler ==
    \/ IdleHandling \/ TransactionStart \/ SendData \/ SendEof \/ SourceTimedOut
DestEntityHandler == ListDirectory \/ DestTimedOut
Arrivals ==
    \/ Acknowledged \/ Finished \/ Retransmission
    \/ HandleMetadata \/ HandleEof \/ HandleAck

\* Two threads with nothing to do look into empty queues, the source also while its
\* transaction lacks the Finished PDU.
Polling ==
    /\ Running("dead") \/ Running("finished") \/ (Running("idle") /\ putQ = <<>>)
    /\ dst.step \in {"idle", "receiving", "missing"}
    /\ UNCHANGED vars

Next ==
    \/ SourceEntityHandler \/ DestEntityHandler \/ DestGivesUp
    \/ Arrivals \/ UpdateFiles \/ Polling
Spec == Init /\ [][Next]_vars
FairSpec == Spec /\ WF_vars(SourceEntityHandler) /\ WF_vars(DestEntityHandler)
-----------------------------------------------------------------------------
\* Properties.

\* A file the ground has received in full, with the checksum it was sent, is a file as
\* it was in the cache, and a listing is not older than its request, whatever rewrites
\* it on its way, whatever is lost and whatever is sent again later: unless it was
\* rewritten just while the source thread took its checksum.
Content == [i \in 1..gnd.size |-> gnd.got[i]]
Accepted == Received /\ gnd.size > 0 /\ gnd.sum = Content
WholeFile == \E v \in gnd.since..listed + 1 :
                Content = [i \in 1..gnd.size |-> <<v, i, gnd.size>>]
AcceptedWhole == Accepted /\ ~rewritten => WholeFile

\* Once the ground falls silent every put request has been dealt with, those that
\* answer others too, and the source thread is idle, whatever becomes of the listing
\* meanwhile.  It may fall silent too early: having acknowledged an EOF, before it
\* sends Finished, which the source thread awaits for ever with all put requests
\* behind it.  And the thread dies when a recording is removed while it is sent.
Served == putQ = <<>> /\ Running("idle")
Lost == Running("dead") /\ src.req.file = Recording /\ store[Recording] = Gone
Stranded == Running("finished") /\ ~src.canceled
Quiesces == <>[](Served \/ Lost \/ Stranded)

\* The dest thread does not wait for ever for the acknowledgement of a Finished PDU.
DestEnds == dst.step = "finished" ~> dst.step # "finished"
-----------------------------------------------------------------------------
\* What the documentation says, and the code does not do.

\* tests/protocols/test_cfdp.py:462-465, the ground's listing is the satellite's: also
\* when another is asked for while the first is on its way.
ListingIsOne == Accepted => WholeFile

\* cachestore.py:168-169: a listing that was written is not received empty.
ListingNotEmpty ==
    Received /\ gnd.since > 0 => gnd.size > 0

\* cfdp.py:620-622, a source file that does not exist is logged and the handler reset:
\* also when it ceases to exist while it is being sent.
SourceSurvives == ~Running("dead")
=============================================================================
