------------------------- MODULE FileTransferProofs -------------------------
(***************************************************************************)
(* Proofs about FileTransfer, for files of any size and any number of      *)
(* requests and PDUs.                                                      *)
(***************************************************************************)
EXTENDS FileTransfer, FiniteSetTheorems, TLAPS

LEMMA Constants ==
    /\ Recording # Listing /\ NoFile \notin Files
    /\ AckLimit \in Nat \ {0} /\ MaxRequests \in Nat \ {0}
    /\ MaxSize \in Nat \ {0} /\ MaxPdus \in Nat \ {0}
BY FileTransferAssumption DEF FileTransferAssumption
-----------------------------------------------------------------------------
(* Typing. *)
Sources ==
    [step : SourceSteps, req : PutRequests, tid : Nat, size : 0..MaxSize,
     progress : 0..MaxSize, sum : Seq(Segments), tries : 0..AckLimit, canceled : BOOLEAN]
Dests ==
    [step : {"idle", "listing", "receiving", "missing", "finished"},
     request : 0..MaxRequests, ended : BOOLEAN, tries : 0..AckLimit, canceled : BOOLEAN]
Grounds ==
    [meta : BOOLEAN, size : 0..MaxSize, since : Nat, got : [1..MaxSize -> Segments],
     sum : Seq(Segments)]

CacheOK ==
    store \in [Files -> Contents \cup {Gone}] /\ listed \in Nat /\ rewritten \in BOOLEAN
QueueOK == putQ \in Seq(PutRequests)
SourceOK == src \in Sources /\ active \in SUBSET (Nat \X Requests)
CountsOK == asked \in 0..MaxRequests /\ left \in 0..MaxPdus

\* Only a put request with a file is read from.
FileNamed ==
    src.req.file = NoFile => src.size = 0 /\ src.step \notin {"size", "summing"}

TypeInv ==
    /\ CacheOK /\ QueueOK /\ SourceOK /\ dst \in Dests /\ gnd \in Grounds /\ CountsOK
    /\ FileNamed

LEMMA SegmentType ==
    ASSUME NEW c \in Contents \cup {Gone}, NEW i \in 1..MaxSize
    PROVE  Segment(c, i) \in Segments
<1>1. Nothing \in Segments
  BY Constants DEF Nothing, Segments
<1>2. ASSUME i <= c.size PROVE <<c.version, i, c.size>> \in Segments
  BY <1>2, Constants DEF Segments, Contents, Gone
<1> QED BY <1>1, <1>2 DEF Segment

LEMMA RequestTypes ==
    /\ \A r \in 0..MaxRequests : PutResponse(r) \in PutRequests
    /\ \A r \in Requests, kind \in Kinds : ProxyPut(r, kind) \in PutRequests
    /\ \A r \in 0..MaxRequests, v \in Nat : ListingPut(r, v) \in PutRequests
BY Constants DEF PutResponse, ProxyPut, ListingPut, PutRequests, Files, Requests

LEMMA IdleTypes ==
    /\ \A tid \in Nat : IdleSource(tid) \in Sources
    /\ IdleDest \in Dests /\ Blank \in Grounds
<1>1. PutResponse(0) \in PutRequests
  BY RequestTypes, Constants
<1>2. <<>> \in Seq(Segments)
  OBVIOUS
<1>3. \A tid \in Nat : IdleSource(tid) \in Sources
  BY <1>1, <1>2, Constants DEF IdleSource, Sources, SourceSteps
<1>4. IdleDest \in Dests
  BY Constants DEF IdleDest, Dests
<1>5. Nothing \in Segments /\ NoSum \in Seq(Segments)
  BY Constants DEF Nothing, Segments, NoSum
<1>6. Blank \in Grounds
  BY <1>5, Constants DEF Blank, Grounds
<1> QED BY <1>3, <1>4, <1>6

\* Whatever transactions are answered, the answer is the same put request.
LEMMA Answers ==
    ASSUME NEW x, NEW S \in SUBSET {x}
    PROVE  SetToSeq(S) \in Seq({x})
<1>1. CASE S = {}
  <2>1. Cardinality(S) = 0
    BY <1>1, FS_EmptySet
  <2>2. [i \in 1..0 |-> x] \in [1..Cardinality(S) -> S] /\ IsInjective([i \in 1..0 |-> x])
    BY <2>1 DEF IsInjective
  <2>3. SetToSeq(S) \in [1..0 -> S]
    BY <2>1, <2>2 DEF SetToSeq
  <2> QED BY <1>1, <2>3
<1>2. CASE S = {x}
  <2>1. Cardinality(S) = 1
    BY <1>2, FS_Singleton
  <2>2. [i \in 1..1 |-> x] \in [1..Cardinality(S) -> S] /\ IsInjective([i \in 1..1 |-> x])
    BY <1>2, <2>1 DEF IsInjective
  <2>3. SetToSeq(S) \in [1..1 -> S]
    BY <2>1, <2>2 DEF SetToSeq
  <2> DEFINE f == SetToSeq(S)
  <2>4. f = [i \in 1..1 |-> x]
    <3>1. f \in [1..1 -> {x}]
      BY <1>2, <2>3
    <3> HIDE DEF f
    <3> QED BY <3>1
  <2>5. [i \in 1..1 |-> x] \in Seq({x})
    OBVIOUS
  <2> QED BY <2>4, <2>5
<1> QED BY <1>1, <1>2

LEMMA IndicationType ==
    ASSUME SourceOK, QueueOK, Indication
    PROVE  /\ active' \in SUBSET (Nat \X Requests)
           /\ \E a \in Seq({PutResponse(0)}) : putQ' = putQ \o a
           /\ QueueOK'
<1> DEFINE origins == {p \in active : p[1] = src.tid}
           S == {PutResponse(p[2]) : p \in origins}
<1>1. active' = active \ origins /\ putQ' = putQ \o SetToSeq(S)
  BY DEF Indication
<1>2. S \in SUBSET {PutResponse(0)}
  BY DEF PutResponse
<1>3. SetToSeq(S) \in Seq({PutResponse(0)})
  BY <1>2, Answers
<1>4. PutResponse(0) \in PutRequests
  BY RequestTypes, Constants
<1>5. Seq({PutResponse(0)}) \subseteq Seq(PutRequests)
  BY <1>4
<1>6. QueueOK'
  BY <1>1, <1>3, <1>5 DEF QueueOK
<1> QED BY <1>1, <1>3, <1>6 DEF SourceOK

LEMMA GroundTypes ==
    /\ \A g \in Grounds, s \in Sources : WithMetadata(g, s) \in Grounds
    /\ gnd \in Grounds => /\ \A i \in 1..MaxSize, d \in Segments : WithData(i, d) \in Grounds
                          /\ \A sum \in Seq(Segments) : WithEof(sum) \in Grounds
<1>1. \A g \in Grounds, s \in Sources : WithMetadata(g, s) \in Grounds
  BY DEF WithMetadata, Grounds, Sources, PutRequests
<1>2. ASSUME gnd \in Grounds, NEW i \in 1..MaxSize, NEW d \in Segments
      PROVE  WithData(i, d) \in Grounds
  <2>1. [gnd.got EXCEPT ![i] = d] \in [1..MaxSize -> Segments]
    BY <1>2 DEF Grounds
  <2> QED BY <1>2, <2>1 DEF WithData, Grounds
<1>3. ASSUME gnd \in Grounds, NEW sum \in Seq(Segments) PROVE WithEof(sum) \in Grounds
  BY <1>3 DEF WithEof, Grounds
<1> QED BY <1>1, <1>2, <1>3

LEMMA InitType == Init => TypeInv
<1> SUFFICES ASSUME Init PROVE TypeInv
  OBVIOUS
<1>1. CacheOK
  <2>1. [version |-> 1, size |-> MaxSize] \in Contents
    BY Constants DEF Contents
  <2> QED BY <2>1, Constants DEF Init, CacheOK, Files
<1>2. src \in Sources /\ dst \in Dests /\ gnd \in Grounds
  BY IdleTypes DEF Init
<1>3. QueueOK /\ CountsOK /\ active \in SUBSET (Nat \X Requests)
  BY Constants DEF Init, QueueOK, CountsOK
<1>4. FileNamed
  BY DEF Init, FileNamed, IdleSource
<1> QED BY <1>1, <1>2, <1>3, <1>4 DEF TypeInv, SourceOK

\* The file of a put request, where there is one.
LEMMA FileType ==
    ASSUME TypeInv, src.req.file # NoFile
    PROVE  src.req.file \in Files /\ File \in Contents \cup {Gone}
           /\ (File # Gone => File.size \in 0..MaxSize)
BY DEF TypeInv, CacheOK, SourceOK, Sources, PutRequests, File, Contents, Gone

\* A source that is idle, or whose request has been given up.
LEMMA DroppedType ==
    ASSUME TypeInv, Dropped
    PROVE  src' \in Sources /\ FileNamed'
<1>1. src' = IdleSource(src.tid) /\ src.tid \in Nat
  BY DEF Dropped, TypeInv, SourceOK, Sources
<1>2. src'.size = 0 /\ src'.step = "idle"
  BY <1>1 DEF IdleSource
<1> QED BY <1>1, <1>2, IdleTypes DEF FileNamed

LEMMA DiedType ==
    ASSUME TypeInv, Died
    PROVE  src' \in Sources /\ FileNamed'
BY DEF Died, TypeInv, SourceOK, Sources, SourceSteps, FileNamed

LEMMA BegunType ==
    ASSUME TypeInv, NEW size \in 0..MaxSize, Begun(size), UNCHANGED <<store, listed>>,
           src.req.file = NoFile => size = 0
    PROVE  CacheOK' /\ SourceOK' /\ gnd' \in Grounds /\ FileNamed'
<1>1. /\ src' = [src EXCEPT !.step = "sending", !.tid = @ + 1, !.size = size]
      /\ active' = active \cup ({<<src.tid + 1, src.req.origin>>} \ {<<src.tid + 1, 0>>})
      /\ gnd' \in {Blank, WithMetadata(Blank, src')} /\ rewritten' = FALSE
  BY DEF Begun
<1>2. src \in Sources /\ active \in SUBSET (Nat \X Requests)
  BY DEF TypeInv, SourceOK
<1>3. src' \in Sources
  <2>1. src.tid + 1 \in Nat /\ "sending" \in SourceSteps
    BY <1>2 DEF Sources, SourceSteps
  <2>2. src' = [src EXCEPT !.step = "sending", !.tid = src.tid + 1, !.size = size]
    BY <1>1
  <2> QED BY <1>2, <2>1, <2>2 DEF Sources
<1>4. active' \in SUBSET (Nat \X Requests)
  <2>1. src.tid \in Nat /\ src.req.origin \in 0..MaxRequests
    BY <1>2 DEF Sources, PutRequests
  <2>2. src.req.origin # 0 => src.req.origin \in Requests
    BY <2>1, Constants DEF Requests
  <2> QED BY <1>1, <1>2, <2>1, <2>2
<1>5. gnd' \in Grounds
  BY <1>1, <1>3, GroundTypes, IdleTypes
<1>6. FileNamed'
  BY <1>1, <1>2 DEF FileNamed, Sources
<1>7. CacheOK'
  BY <1>1 DEF TypeInv, CacheOK
<1> QED BY <1>3, <1>4, <1>5, <1>6, <1>7 DEF SourceOK

LEMMA TransactionStartType ==
    ASSUME TypeInv, TransactionStart
    PROVE  TypeInv'
<1>1. UNCHANGED <<store, listed, putQ, dst, asked, left>>
  BY DEF TransactionStart
<1>2. QueueOK' /\ dst' \in Dests /\ CountsOK'
  BY <1>1 DEF TypeInv, QueueOK, CountsOK
<1>3. CASE src.req.file = NoFile /\ Begun(0)
  BY <1>1, <1>2, <1>3, BegunType, Constants DEF TypeInv
<1>4. CASE Running("size") /\ File # Gone /\ Begun(File.size)
  <2>1. File.size \in 0..MaxSize /\ src.req.file # NoFile
    BY <1>4, FileType DEF TypeInv, FileNamed, Running
  <2> QED BY <1>1, <1>2, <1>4, <2>1, BegunType DEF TypeInv
<1>5. CASE /\ Running("start") /\ src.req.file # NoFile
           /\ IF File = Gone THEN Dropped ELSE src' = [src EXCEPT !.step = "size"]
           /\ UNCHANGED <<active, gnd, rewritten>>
  <2>1. CASE Dropped
    BY <1>1, <1>2, <1>5, <2>1, DroppedType DEF TypeInv, CacheOK, SourceOK
  <2>2. CASE src' = [src EXCEPT !.step = "size"]
    <3>1. src' \in Sources /\ src'.req = src.req
      BY <2>2 DEF TypeInv, SourceOK, Sources, SourceSteps
    <3> QED BY <1>1, <1>2, <1>5, <3>1 DEF TypeInv, CacheOK, SourceOK, FileNamed
  <2> QED BY <1>5, <2>1, <2>2
<1>6. CASE Died /\ UNCHANGED <<active, gnd, rewritten>>
  BY <1>1, <1>2, <1>6, DiedType DEF TypeInv, CacheOK, SourceOK
<1> QED BY <1>3, <1>4, <1>5, <1>6 DEF TransactionStart

LEMMA SendDataType ==
    ASSUME TypeInv, SendData
    PROVE  TypeInv'
<1>1. UNCHANGED <<cache, putQ, active, dst, asked, left>>
  BY DEF SendData
<1>2. CacheOK' /\ QueueOK' /\ dst' \in Dests /\ CountsOK' /\ active' \in SUBSET (Nat \X Requests)
  BY <1>1 DEF cache, TypeInv, CacheOK, QueueOK, CountsOK, SourceOK
<1>3. src \in Sources /\ src.progress < src.size /\ src.req.file # NoFile
  BY DEF SendData, MoreData, TypeInv, SourceOK, FileNamed, Sources
<1>4. CASE Died /\ UNCHANGED gnd
  BY <1>2, <1>4, DiedType DEF TypeInv, SourceOK
<1>5. CASE src' = [src EXCEPT !.progress = @ + 1] /\ SendsData(src.progress + 1)
  <2>1. src.progress + 1 \in 1..MaxSize
    BY <1>3, Constants DEF Sources
  <2>2. src' \in Sources /\ src'.req = src.req
    BY <1>3, <1>5, <2>1 DEF Sources
  <2>3. FileNamed'
    BY <1>3, <2>2 DEF FileNamed
  <2>4. Segment(File, src.progress + 1) \in Segments
    BY <1>3, <2>1, FileType, SegmentType
  <2>5. gnd' \in Grounds
    BY <1>5, <2>1, <2>4, GroundTypes DEF SendsData, Hears, TypeInv
  <2> QED BY <1>2, <2>2, <2>3, <2>5 DEF TypeInv, SourceOK
<1> QED BY <1>4, <1>5 DEF SendData

LEMMA SendsEofType ==
    ASSUME TypeInv, NEW sum \in Seq(Segments), SendsEof(sum)
    PROVE  src' \in Sources /\ FileNamed' /\ gnd' \in Grounds
<1>1. src' = [src EXCEPT !.step = "eofAck", !.sum = sum] /\ src \in Sources
  BY DEF SendsEof, TypeInv, SourceOK
<1>2. src' \in Sources /\ src'.req = src.req /\ src'.size = src.size /\ src'.step = "eofAck"
  BY <1>1 DEF Sources, SourceSteps
<1>3. gnd' \in Grounds
  BY GroundTypes DEF SendsEof, Hears, TypeInv
<1> QED BY <1>2, <1>3 DEF FileNamed, TypeInv

LEMMA SendEofType ==
    ASSUME TypeInv, SendEof
    PROVE  TypeInv'
<1>1. UNCHANGED <<cache, putQ, active, dst, asked, left>>
  BY DEF SendEof
<1>2. CacheOK' /\ QueueOK' /\ dst' \in Dests /\ CountsOK' /\ active' \in SUBSET (Nat \X Requests)
  BY <1>1 DEF cache, TypeInv, CacheOK, QueueOK, CountsOK, SourceOK
<1>3. src \in Sources
  BY DEF TypeInv, SourceOK
<1> SUFFICES src' \in Sources /\ FileNamed' /\ gnd' \in Grounds
  BY <1>2 DEF TypeInv, SourceOK
<1>4. CASE SendsEof(<<>>)
  <2>1. <<>> \in Seq(Segments)
    OBVIOUS
  <2> QED BY <1>4, <2>1, SendsEofType
<1>5. CASE SendsEof(src.sum)
  BY <1>3, <1>5, SendsEofType DEF Sources
<1>6. CASE (Dropped \/ Died) /\ UNCHANGED gnd
  BY <1>6, DroppedType, DiedType DEF TypeInv
<1>7. CASE src.size > 0 /\ src' = [src EXCEPT !.step = "summing"] /\ UNCHANGED gnd
  <2>1. src.req.file # NoFile
    BY <1>3, <1>7 DEF TypeInv, FileNamed, Sources
  <2>2. src' \in Sources /\ src'.req = src.req
    BY <1>3, <1>7 DEF Sources, SourceSteps
  <2> QED BY <1>7, <2>1, <2>2 DEF FileNamed, TypeInv
<1>8. CASE /\ Running("summing") /\ Len(src.sum) < File.size
           /\ src' = [src EXCEPT !.sum = Append(@, Segment(File, Len(@) + 1))]
           /\ UNCHANGED gnd
  <2>1. src.req.file # NoFile
    BY <1>8 DEF TypeInv, FileNamed, Running
  <2>2. src.sum \in Seq(Segments) /\ Len(src.sum) \in Nat
    BY <1>3 DEF Sources
  <2>3. File # Gone
    BY <1>8, <2>2 DEF Gone
  <2>4. Len(src.sum) + 1 \in 1..MaxSize
    BY <1>8, <2>1, <2>2, <2>3, FileType, Constants
  <2>5. Append(src.sum, Segment(File, Len(src.sum) + 1)) \in Seq(Segments)
    <3>1. Segment(File, Len(src.sum) + 1) \in Segments
      BY <2>1, <2>4, FileType, SegmentType
    <3> QED BY <2>2, <3>1
  <2>6. src' \in Sources /\ src'.req = src.req
    BY <1>3, <1>8, <2>5 DEF Sources
  <2> QED BY <1>8, <2>1, <2>6 DEF FileNamed, TypeInv
<1> QED BY <1>4, <1>5, <1>6, <1>7, <1>8 DEF SendEof

LEMMA IdleHandlingType ==
    ASSUME TypeInv, IdleHandling
    PROVE  TypeInv'
<1>1. UNCHANGED <<cache, active, gnd, dst, asked, left>>
      /\ putQ # <<>> /\ putQ' = Tail(putQ)
  BY DEF IdleHandling
<1>2. CacheOK' /\ dst' \in Dests /\ CountsOK' /\ active' \in SUBSET (Nat \X Requests)
      /\ gnd' \in Grounds
  BY <1>1 DEF cache, TypeInv, CacheOK, CountsOK, SourceOK
<1>3. QueueOK' /\ Head(putQ) \in PutRequests
  BY <1>1 DEF TypeInv, QueueOK
<1>4. CASE UNCHANGED src
  BY <1>2, <1>3, <1>4 DEF TypeInv, SourceOK, FileNamed
<1>5. CASE src' = [IdleSource(src.tid) EXCEPT !.step = "start", !.req = Head(putQ)]
  <2>1. src.tid \in Nat
    BY DEF TypeInv, SourceOK, Sources
  <2>2. IdleSource(src.tid) \in Sources
    BY <2>1, IdleTypes
  <2>3. src' \in Sources
    BY <1>3, <1>5, <2>2 DEF Sources, SourceSteps
  <2>4. FileNamed'
    BY <1>5 DEF IdleSource, FileNamed
  <2> QED BY <1>2, <1>3, <2>3, <2>4 DEF TypeInv, SourceOK
<1> QED BY <1>4, <1>5 DEF IdleHandling

\* The ground's PDUs, and the timers.
LEMMA ArrivesType ==
    ASSUME CountsOK, Arrives, asked' \in 0..MaxRequests
    PROVE  CountsOK'
BY Constants DEF CountsOK, Arrives

LEMMA AnswersType ==
    ASSUME TypeInv, Acknowledged \/ Finished
    PROVE  TypeInv'
<1>1. UNCHANGED <<cache, gnd, dst, asked>> /\ Arrives
  BY DEF Acknowledged, Finished
<1>2. CacheOK' /\ dst' \in Dests /\ CountsOK' /\ gnd' \in Grounds
  BY <1>1, ArrivesType DEF cache, TypeInv, CacheOK, CountsOK
<1>3. CASE Dropped /\ Indication
  <2>1. QueueOK' /\ active' \in SUBSET (Nat \X Requests)
    BY <1>3, IndicationType DEF TypeInv
  <2> QED BY <1>2, <1>3, <2>1, DroppedType DEF TypeInv, SourceOK
<1>4. CASE Waits /\ src' = [src EXCEPT !.step = "finished"] /\ UNCHANGED <<putQ, active>>
  <2>1. src' \in Sources /\ FileNamed'
    BY <1>4 DEF TypeInv, SourceOK, Sources, SourceSteps, FileNamed
  <2> QED BY <1>2, <1>4, <2>1 DEF TypeInv, SourceOK, QueueOK
<1> QED BY <1>3, <1>4 DEF Acknowledged, Finished

LEMMA RetransmissionType ==
    ASSUME TypeInv, Retransmission
    PROVE  TypeInv'
<1>1. UNCHANGED <<cache, putQ, active, dst, asked>> /\ Arrives
  BY DEF Retransmission
<1>2. CacheOK' /\ QueueOK' /\ dst' \in Dests /\ CountsOK' /\ active' \in SUBSET (Nat \X Requests)
  BY <1>1, ArrivesType DEF cache, TypeInv, CacheOK, QueueOK, CountsOK, SourceOK
<1>3. src \in Sources /\ gnd \in Grounds
  BY DEF TypeInv, SourceOK
<1>4. CASE Hears(WithMetadata(gnd, src)) /\ UNCHANGED src
  BY <1>2, <1>3, <1>4, GroundTypes DEF Hears, TypeInv, SourceOK, FileNamed
<1>5. ASSUME NEW i \in 1..src.size,
             IF File = Gone THEN Died /\ UNCHANGED gnd ELSE SendsData(i) /\ UNCHANGED src
      PROVE  TypeInv'
  <2>1. i \in 1..MaxSize /\ src.req.file # NoFile
    <3>1. src.size \in 0..MaxSize
      BY <1>3 DEF Sources
    <3> QED BY <3>1, Constants DEF TypeInv, FileNamed
  <2>2. CASE Died /\ UNCHANGED gnd
    BY <1>2, <1>3, <2>2, DiedType DEF TypeInv, SourceOK
  <2>3. CASE SendsData(i) /\ UNCHANGED src
    <3>1. Segment(File, i) \in Segments
      BY <2>1, FileType, SegmentType
    <3>2. gnd' \in Grounds
      BY <1>3, <2>1, <2>3, <3>1, GroundTypes DEF SendsData, Hears
    <3> QED BY <1>2, <2>3, <3>2 DEF TypeInv, SourceOK, FileNamed
  <2> QED BY <1>5, <2>2, <2>3
<1> QED BY <1>4, <1>5 DEF Retransmission

LEMMA SourceTimedOutType ==
    ASSUME TypeInv, SourceTimedOut
    PROVE  TypeInv'
<1>1. UNCHANGED <<cache, dst, asked, left>> /\ Waits
  BY DEF SourceTimedOut, Waits
<1>2. CacheOK' /\ dst' \in Dests /\ CountsOK'
  BY <1>1 DEF cache, TypeInv, CacheOK, CountsOK
<1>3. src \in Sources /\ gnd \in Grounds
  BY DEF TypeInv, SourceOK
<1>4. CASE /\ src.tries + 1 < AckLimit /\ src' = [src EXCEPT !.tries = @ + 1]
           /\ Hears(IF src.canceled THEN Blank ELSE WithEof(src.sum))
           /\ UNCHANGED <<putQ, active>>
  <2>1. src.tries + 1 \in 0..AckLimit
    BY <1>3, <1>4, Constants DEF Sources
  <2>2. src' \in Sources /\ FileNamed'
    BY <1>3, <1>4, <2>1 DEF Sources, TypeInv, FileNamed
  <2>3. src.sum \in Seq(Segments)
    BY <1>3 DEF Sources
  <2>4. gnd' \in Grounds
    BY <1>3, <1>4, <2>3, GroundTypes, IdleTypes DEF Hears
  <2> QED BY <1>2, <1>4, <2>2, <2>4 DEF TypeInv, SourceOK, QueueOK
<1>5. CASE /\ src' = [src EXCEPT !.step = "eofAck", !.tries = 0, !.canceled = TRUE]
           /\ Hears(Blank) /\ UNCHANGED <<putQ, active>>
  <2>1. src' \in Sources /\ src'.req = src.req /\ src'.size = src.size /\ src'.step = "eofAck"
    <3>1. 0 \in 0..AckLimit /\ "eofAck" \in SourceSteps
      BY Constants DEF SourceSteps
    <3> QED BY <1>3, <1>5, <3>1 DEF Sources
  <2>2. FileNamed'
    BY <2>1 DEF TypeInv, FileNamed
  <2> QED BY <1>2, <1>3, <1>5, <2>1, <2>2, IdleTypes DEF Hears, TypeInv, SourceOK, QueueOK
<1>6. CASE Dropped /\ UNCHANGED gnd /\ (Indication \/ UNCHANGED <<putQ, active>>)
  <2>1. QueueOK' /\ active' \in SUBSET (Nat \X Requests)
    BY <1>6, IndicationType DEF TypeInv, QueueOK, SourceOK
  <2> QED BY <1>2, <1>3, <1>6, <2>1, DroppedType DEF TypeInv, SourceOK
<1> QED BY <1>4, <1>5, <1>6 DEF SourceTimedOut

\* The dest thread, and the removal of a file.
LEMMA QueuedType ==
    ASSUME QueueOK, NEW q \in PutRequests, putQ' = Append(putQ, q)
    PROVE  QueueOK'
BY DEF QueueOK

LEMMA WrittenType ==
    ASSUME CacheOK, NEW f \in Files, NEW c \in Contents \cup {Gone},
           store' = [store EXCEPT ![f] = c], listed' \in Nat, rewritten' \in BOOLEAN
    PROVE  CacheOK'
BY DEF CacheOK

LEMMA RewritingType ==
    ASSUME CacheOK, NEW f, Rewriting(f)
    PROVE  rewritten' \in BOOLEAN
BY DEF CacheOK, Rewriting

LEMMA HandleMetadataType ==
    ASSUME TypeInv, HandleMetadata
    PROVE  TypeInv'
<1>1. UNCHANGED <<listed, source>> /\ Arrives
  BY DEF HandleMetadata
<1>2. SourceOK' /\ gnd' \in Grounds /\ FileNamed'
  BY <1>1 DEF source, TypeInv, SourceOK, FileNamed
<1>3. PICK request \in 1..MaxRequests, kind \in Kinds :
         /\ \/ Begins(request)
            \/ dst.step = "missing" /\ request = dst.request /\ UNCHANGED asked
         /\ IF kind = "listing"
            THEN /\ dst' = [IdleDest EXCEPT !.step = "listing", !.request = request,
                                            !.ended = dst.step = "missing"]
                 /\ store' = [store EXCEPT ![Listing] = Empty]
                 /\ Rewriting(Listing) /\ UNCHANGED putQ
            ELSE /\ putQ' = Append(putQ, ProxyPut(request, kind))
                 /\ Seen(request, dst.step = "missing")
                 /\ UNCHANGED <<store, rewritten>>
  BY DEF HandleMetadata
<1>4. asked' \in 0..MaxRequests
  BY <1>3, Constants DEF Begins, TypeInv, CountsOK
<1>5. CountsOK'
  BY <1>1, <1>4, ArrivesType DEF TypeInv
<1>6. IdleDest \in Dests /\ request \in 0..MaxRequests
  BY IdleTypes, Constants
<1>7. CASE kind = "listing"
  <2>1. dst' \in Dests
    BY <1>3, <1>6, <1>7 DEF Dests
  <2>2. Empty \in Contents /\ Listing \in Files
    BY Constants DEF Empty, Contents, Files
  <2>3. CacheOK'
    BY <1>1, <1>3, <1>7, <2>2, WrittenType, RewritingType DEF TypeInv, CacheOK
  <2> QED BY <1>2, <1>3, <1>5, <1>7, <2>1, <2>3 DEF TypeInv, QueueOK
<1>8. CASE kind # "listing"
  <2>1. dst' \in Dests
    BY <1>3, <1>6, <1>8 DEF Dests, Seen
  <2>2. ProxyPut(request, kind) \in PutRequests
    BY RequestTypes DEF Requests
  <2>3. QueueOK'
    BY <1>3, <1>8, <2>2, QueuedType DEF TypeInv
  <2> QED BY <1>1, <1>2, <1>3, <1>5, <1>8, <2>1, <2>3 DEF TypeInv, CacheOK
<1> QED BY <1>7, <1>8

LEMMA ListDirectoryType ==
    ASSUME TypeInv, ListDirectory
    PROVE  TypeInv'
<1>1. UNCHANGED <<source, asked, left>> /\ Seen(dst.request, dst.ended)
  BY DEF ListDirectory
<1>2. SourceOK' /\ gnd' \in Grounds /\ FileNamed' /\ CountsOK'
  BY <1>1 DEF source, TypeInv, SourceOK, FileNamed, CountsOK
<1>3. dst' \in Dests /\ dst.request \in 0..MaxRequests
  BY <1>1, IdleTypes DEF Seen, TypeInv, Dests
<1>4. CASE UNCHANGED cache /\ putQ' = Append(putQ, ListingPut(dst.request, 0))
  <2>1. ListingPut(dst.request, 0) \in PutRequests
    BY <1>3, RequestTypes
  <2> QED BY <1>2, <1>3, <1>4, <2>1, QueuedType DEF TypeInv, cache, CacheOK
<1>5. ASSUME NEW size \in 1..MaxSize,
             store' = [store EXCEPT ![Listing] = [version |-> listed + 1, size |-> size]],
             listed' = listed + 1, Rewriting(Listing),
             putQ' = Append(putQ, ListingPut(dst.request, listed + 1))
      PROVE  TypeInv'
  <2>1. listed + 1 \in Nat /\ [version |-> listed + 1, size |-> size] \in Contents
    BY <1>5, Constants DEF TypeInv, CacheOK, Contents
  <2>2. ListingPut(dst.request, listed + 1) \in PutRequests
    BY <1>3, <2>1, RequestTypes
  <2>3. CacheOK'
    BY <1>5, <2>1, WrittenType, RewritingType DEF TypeInv, Files
  <2> QED BY <1>2, <1>3, <1>5, <2>2, <2>3, QueuedType DEF TypeInv
<1> QED BY <1>4, <1>5 DEF ListDirectory

LEMMA DestType ==
    ASSUME TypeInv, HandleEof \/ HandleAck \/ DestTimedOut \/ DestGivesUp
    PROVE  TypeInv'
<1>1. UNCHANGED <<cache, source, putQ>>
  BY DEF HandleEof, HandleAck, DestTimedOut, DestGivesUp
<1>2. CacheOK' /\ QueueOK' /\ SourceOK' /\ gnd' \in Grounds /\ FileNamed'
  BY <1>1 DEF cache, source, TypeInv, CacheOK, QueueOK, SourceOK, FileNamed
<1>3. dst \in Dests /\ dst.tries \in 0..AckLimit /\ IdleDest \in Dests
  BY IdleTypes DEF TypeInv, Dests
<1>4. ASSUME DeclareFault PROVE dst' \in Dests
  <2>1. 0 \in 0..AckLimit
    BY Constants
  <2> QED BY <1>3, <1>4, <2>1 DEF DeclareFault, Dests
<1>5. CASE HandleEof
  <2>1. asked' \in 0..MaxRequests
    <3>1. asked \in 0..MaxRequests
      BY DEF TypeInv, CountsOK
    <3>2. ASSUME NEW request \in 1..MaxRequests, Begins(request) PROVE asked' \in 0..MaxRequests
      BY <3>2, Constants DEF Begins
    <3> QED BY <1>5, <3>1, <3>2 DEF HandleEof
  <2>2. CountsOK'
    BY <1>5, <2>1, ArrivesType DEF HandleEof, TypeInv
  <2>3. dst' \in Dests
    <3>1. ASSUME NEW request \in 1..MaxRequests,
                 dst' = [IdleDest EXCEPT !.step = "missing", !.request = request]
          PROVE  dst' \in Dests
      <4>1. request \in 0..MaxRequests
        BY Constants
      <4> QED BY <1>3, <3>1, <4>1 DEF Dests
    <3>2. CASE Seen(dst.request, TRUE)
      BY <1>3, <3>2 DEF Seen, Dests
    <3>3. CASE dst' = [dst EXCEPT !.tries = 0]
      BY <1>3, <3>3, Constants DEF Dests
    <3> QED BY <1>5, <3>1, <3>2, <3>3 DEF HandleEof
  <2> QED BY <1>2, <2>2, <2>3 DEF TypeInv
<1>6. CASE HandleAck
  BY <1>2, <1>3, <1>6, ArrivesType DEF HandleAck, TypeInv, CountsOK
<1>7. CASE DestTimedOut
  <2>1. dst' \in Dests
    <3>1. CASE dst.tries + 1 >= AckLimit
      BY <1>4, <1>7, <3>1 DEF DestTimedOut
    <3>2. CASE ~(dst.tries + 1 >= AckLimit)
      <4>1. dst.tries + 1 \in 0..AckLimit
        BY <1>3, <3>2, Constants
      <4>2. dst' = [dst EXCEPT !.tries = dst.tries + 1]
        BY <1>7, <3>2 DEF DestTimedOut
      <4> QED BY <1>3, <4>1, <4>2 DEF Dests
    <3> QED BY <3>1, <3>2
  <2> QED BY <1>2, <1>7, <2>1 DEF DestTimedOut, TypeInv, CountsOK
<1>8. CASE DestGivesUp
  BY <1>2, <1>4, <1>8 DEF DestGivesUp, TypeInv, CountsOK
<1> QED BY <1>5, <1>6, <1>7, <1>8

LEMMA UpdateFilesType ==
    ASSUME TypeInv, UpdateFiles
    PROVE  TypeInv'
<1>1. /\ store' = [store EXCEPT ![Recording] = Gone]
      /\ UNCHANGED <<listed, rewritten, source, putQ, dst, asked, left>>
  BY DEF UpdateFiles
<1>2. CacheOK'
  BY <1>1, WrittenType DEF TypeInv, CacheOK, Files
<1> QED BY <1>1, <1>2 DEF source, TypeInv, QueueOK, SourceOK, FileNamed, CountsOK

LEMMA TypeNext == TypeInv /\ [Next]_vars => TypeInv'
<1> SUFFICES ASSUME TypeInv, [Next]_vars PROVE TypeInv'
  OBVIOUS
<1>1. CASE UNCHANGED vars
  BY <1>1 DEF vars, cache, source, TypeInv, CacheOK, QueueOK, SourceOK, FileNamed, CountsOK
<1> QED
  BY <1>1, IdleHandlingType, TransactionStartType, SendDataType, SendEofType,
     SourceTimedOutType, AnswersType, RetransmissionType, HandleMetadataType,
     ListDirectoryType, DestType, UpdateFilesType
     DEF Next, SourceEntityHandler, DestEntityHandler, Arrivals, Polling

LEMMA Typed == Spec => []TypeInv
BY InitType, TypeNext, PTL DEF Spec

\* TypeOK: the model keeps its types, and a file that is read is one the cache may hold
\* (cachestore.py:27), for every size of a file and any number of requests.
THEOREM Typing == Spec => []TypeOK
<1>1. TypeInv => TypeOK
  BY Zenon DEF TypeInv, TypeOK, CacheOK, QueueOK, SourceOK, CountsOK, Sources, Dests, Grounds
<1> QED BY <1>1, Typed, PTL
-----------------------------------------------------------------------------
(* Which version a transaction may send.  A put request asks for a version *)
(* of the listing that has been written; the listing, when it holds        *)
(* anything, is never older than a request already in the queue.           *)
WrittenBy(q, files, last) ==
    /\ q.since <= last
    /\ q.file # Listing => q.since = 0
    /\ files[Listing].size > 0 => q.since <= files[Listing].version
Written(q) == WrittenBy(q, store, listed)

Versions ==
    /\ store[Recording].version \in {0, 1}
    /\ store[Listing].version <= listed
    /\ \A i \in 1..Len(putQ) : Written(putQ[i])
    /\ Written(src.req)

\* Where the put requests and the request under way come from in a step of the source.
RequestFrom(q) == q = PutResponse(0) \/ \E j \in 1..Len(putQ) : q = putQ[j]
SourceFrame ==
    /\ UNCHANGED <<store, listed>>
    /\ src'.req = src.req \/ RequestFrom(src'.req)
    /\ \A i \in 1..Len(putQ') : RequestFrom(putQ'[i])

LEMMA QueueKept ==
    ASSUME TypeInv, UNCHANGED putQ \/ Indication
    PROVE  \A i \in 1..Len(putQ') : RequestFrom(putQ'[i])
<1>1. CASE UNCHANGED putQ
  BY <1>1 DEF RequestFrom
<1>2. CASE Indication
  <2>1. PICK a \in Seq({PutResponse(0)}) : putQ' = putQ \o a
    BY <1>2, IndicationType DEF TypeInv
  <2>2. putQ \in Seq(PutRequests) /\ Len(putQ) \in Nat /\ Len(a) \in Nat
        /\ \A i \in 1..Len(a) : a[i] = PutResponse(0)
    BY DEF TypeInv, QueueOK
  <2>3. Len(putQ') = Len(putQ) + Len(a)
        /\ \A i \in 1..Len(putQ') : putQ'[i] = IF i <= Len(putQ) THEN putQ[i]
                                              ELSE a[i - Len(putQ)]
    BY <2>1, <2>2
  <2>4. ASSUME NEW i \in 1..Len(putQ') PROVE RequestFrom(putQ'[i])
    <3>1. CASE i <= Len(putQ)
      BY <2>2, <2>3, <2>4, <3>1 DEF RequestFrom
    <3>2. CASE ~(i <= Len(putQ))
      <4>1. i - Len(putQ) \in 1..Len(a)
        BY <2>2, <2>3, <2>4, <3>2
      <4> QED BY <2>2, <2>3, <3>2, <4>1 DEF RequestFrom
    <3> QED BY <3>1, <3>2
  <2> QED BY <2>4
<1> QED BY <1>1, <1>2

LEMMA SourceFramed ==
    ASSUME TypeInv,
           SourceEntityHandler \/ Acknowledged \/ Finished \/ Retransmission
    PROVE  SourceFrame
<1>1. UNCHANGED <<store, listed>>
  BY DEF SourceEntityHandler, IdleHandling, TransactionStart, SendData, SendEof,
         SourceTimedOut, Acknowledged, Finished, Retransmission, cache
<1>2. ASSUME Dropped PROVE RequestFrom(src'.req)
  BY <1>2 DEF Dropped, IdleSource, RequestFrom
<1>3. ASSUME Died PROVE src'.req = src.req
  BY <1>3 DEF Died, TypeInv, SourceOK, Sources
<1>4. src \in Sources
  BY DEF TypeInv, SourceOK
<1>5. CASE IdleHandling
  <2>1. putQ # <<>> /\ putQ' = Tail(putQ) /\ putQ \in Seq(PutRequests)
    BY <1>5 DEF IdleHandling, TypeInv, QueueOK
  <2>2. \A i \in 1..Len(putQ') : RequestFrom(putQ'[i])
    BY <2>1 DEF RequestFrom
  <2>3. src' = src \/ src'.req = Head(putQ)
    BY <1>5 DEF IdleHandling, IdleSource
  <2>4. Head(putQ) = putQ[1] /\ 1 \in 1..Len(putQ)
    BY <2>1
  <2> QED BY <1>1, <2>2, <2>3, <2>4 DEF SourceFrame, RequestFrom
<1>6. ASSUME UNCHANGED putQ \/ Indication, src'.req = src.req \/ RequestFrom(src'.req)
      PROVE  SourceFrame
  BY <1>1, <1>6, QueueKept DEF SourceFrame
<1>7. CASE TransactionStart
  <2>1. ASSUME NEW size, Begun(size) PROVE src'.req = src.req
    BY <1>4, <2>1 DEF Begun, Sources
  <2>2. src' = [src EXCEPT !.step = "size"] => src'.req = src.req
    BY <1>4 DEF Sources
  <2> QED BY <1>2, <1>3, <1>6, <1>7, <2>1, <2>2 DEF TransactionStart
<1>8. CASE SendData
  <2>1. src'.req = src.req
    BY <1>3, <1>4, <1>8 DEF SendData, Sources
  <2> QED BY <1>6, <1>8, <2>1 DEF SendData
<1>9. CASE SendEof
  <2>1. ASSUME NEW sum, SendsEof(sum) PROVE src'.req = src.req
    BY <1>4, <2>1 DEF SendsEof, Sources
  <2>2. src' = [src EXCEPT !.step = "summing"] => src'.req = src.req
    BY <1>4 DEF Sources
  <2>3. src' = [src EXCEPT !.sum = Append(@, Segment(File, Len(@) + 1))]
        => src'.req = src.req
    BY <1>4 DEF Sources
  <2> QED BY <1>2, <1>3, <1>6, <1>9, <2>1, <2>2, <2>3 DEF SendEof
<1>10. CASE SourceTimedOut
  <2>1. src' = [src EXCEPT !.tries = @ + 1] => src'.req = src.req
    BY <1>4 DEF Sources
  <2>2. src' = [src EXCEPT !.step = "eofAck", !.tries = 0, !.canceled = TRUE]
        => src'.req = src.req
    BY <1>4 DEF Sources
  <2> QED BY <1>2, <1>6, <1>10, <2>1, <2>2 DEF SourceTimedOut
<1>11. CASE Acknowledged \/ Finished
  <2>1. src' = [src EXCEPT !.step = "finished"] => src'.req = src.req
    BY <1>4 DEF Sources
  <2> QED BY <1>2, <1>6, <1>11, <2>1 DEF Acknowledged, Finished
<1>12. CASE Retransmission
  BY <1>3, <1>6, <1>12 DEF Retransmission
<1> QED BY <1>5, <1>7, <1>8, <1>9, <1>10, <1>11, <1>12 DEF SourceEntityHandler

\* The cache's files have a version and a size.
LEMMA CacheTypes ==
    ASSUME CacheOK
    PROVE  /\ listed \in Nat
           /\ \A f \in Files : /\ store[f].version \in Nat /\ store[f].size \in Int
                               /\ store[f].size <= MaxSize
BY Constants DEF CacheOK, Contents, Gone

LEMMA AnswerWritten ==
    ASSUME CacheOK
    PROVE  WrittenBy(PutResponse(0), store, listed)
BY CacheTypes, Constants DEF WrittenBy, PutResponse, Files

\* The steps of the dest thread and of the mission database.
LEMMA OthersFramed ==
    ASSUME TypeInv,
           DestEntityHandler \/ DestGivesUp \/ HandleMetadata \/ HandleEof \/ HandleAck
             \/ UpdateFiles \/ Polling \/ UNCHANGED vars
    PROVE  /\ UNCHANGED <<src, gnd>>
           /\ \/ UNCHANGED <<store, listed, rewritten>>
              \/ /\ store' = [store EXCEPT ![Recording] = Gone]
                 /\ UNCHANGED <<listed, rewritten>>
              \/ /\ \/ store' = [store EXCEPT ![Listing] = Empty] /\ UNCHANGED listed
                    \/ /\ listed' = listed + 1
                       /\ \E size \in 1..MaxSize :
                            store' = [store EXCEPT ![Listing] =
                                                [version |-> listed + 1, size |-> size]]
                 /\ Rewriting(Listing)
           /\ \/ UNCHANGED putQ
              \/ \E q \in PutRequests :
                   /\ putQ' = Append(putQ, q)
                   /\ q.since = 0 \/ (q.since = listed + 1 /\ listed' = listed + 1
                                       /\ q.file = Listing)
<1> USE DEF source, cache
<1>1. CASE DestTimedOut \/ DestGivesUp \/ HandleEof \/ HandleAck \/ UpdateFiles \/ Polling
           \/ UNCHANGED vars
  BY <1>1 DEF DestTimedOut, DestGivesUp, HandleEof, HandleAck, UpdateFiles, Polling, vars
<1>2. CASE HandleMetadata
  <2>1. UNCHANGED <<listed, src, gnd>>
    BY <1>2 DEF HandleMetadata
  <2>2. PICK request \in 1..MaxRequests, kind \in Kinds :
          IF kind = "listing"
          THEN /\ store' = [store EXCEPT ![Listing] = Empty]
               /\ Rewriting(Listing) /\ UNCHANGED putQ
          ELSE /\ putQ' = Append(putQ, ProxyPut(request, kind))
               /\ UNCHANGED <<store, rewritten>>
    BY <1>2 DEF HandleMetadata
  <2>3. ProxyPut(request, kind) \in PutRequests /\ ProxyPut(request, kind).since = 0
    BY RequestTypes DEF ProxyPut, Requests
  <2> QED BY <2>1, <2>2, <2>3
<1>3. CASE ListDirectory
  <2>1. UNCHANGED <<src, gnd>> /\ dst.request \in 0..MaxRequests /\ listed \in Nat
    BY <1>3 DEF ListDirectory, TypeInv, Dests, CacheOK
  <2>2. \A v \in Nat : /\ ListingPut(dst.request, v) \in PutRequests
                       /\ ListingPut(dst.request, v).since = v
                       /\ ListingPut(dst.request, v).file = Listing
    BY <2>1, RequestTypes DEF ListingPut
  <2>3. CASE UNCHANGED cache /\ putQ' = Append(putQ, ListingPut(dst.request, 0))
    BY <2>1, <2>2, <2>3
  <2>4. CASE /\ \E size \in 1..MaxSize :
                   store' = [store EXCEPT ![Listing] = [version |-> listed + 1,
                                                        size |-> size]]
             /\ listed' = listed + 1 /\ Rewriting(Listing)
             /\ putQ' = Append(putQ, ListingPut(dst.request, listed + 1))
    <3>1. listed + 1 \in Nat
      BY <2>1
    <3> DEFINE q == ListingPut(dst.request, listed + 1)
    <3>2. q \in PutRequests /\ q.since = listed + 1 /\ q.file = Listing
      BY <2>2, <3>1
    <3>3. \E p \in PutRequests : /\ putQ' = Append(putQ, p)
                                 /\ p.since = listed + 1 /\ p.file = Listing
      <4>1. putQ' = Append(putQ, q)
        BY <2>4
      <4> HIDE DEF q
      <4> QED BY <3>2, <4>1
    <3> QED BY <2>1, <2>4, <3>3
  <2> QED BY <1>3, <2>3, <2>4 DEF ListDirectory
<1> QED BY <1>1, <1>2, <1>3 DEF DestEntityHandler

LEMMA VersionsNext == TypeInv /\ Versions /\ [Next]_vars => Versions'
<1> SUFFICES ASSUME TypeInv, Versions, [Next]_vars PROVE Versions'
  OBVIOUS
<1>1. CacheOK /\ CacheOK' /\ QueueOK
  BY TypeNext DEF TypeInv
<1>2. CASE SourceEntityHandler \/ Acknowledged \/ Finished \/ Retransmission
  <2>1. SourceFrame
    BY <1>2, SourceFramed
  <2>2. ASSUME NEW q, RequestFrom(q) PROVE WrittenBy(q, store, listed)
    BY <1>1, <2>2, AnswerWritten DEF RequestFrom, Versions, Written
  <2>3. WrittenBy(src'.req, store, listed)
    BY <2>1, <2>2 DEF SourceFrame, Versions, Written
  <2> QED BY <2>1, <2>2, <2>3 DEF SourceFrame, Versions, Written
<1>3. CASE ~(SourceEntityHandler \/ Acknowledged \/ Finished \/ Retransmission)
  <2> DEFINE Cut == store' = [store EXCEPT ![Recording] = Gone]
             Emptied == store' = [store EXCEPT ![Listing] = Empty]
             Fresh(q) == q.since = 0 \/ (q.since = listed + 1 /\ listed' = listed + 1
                                         /\ q.file = Listing)
  <2>0. DestEntityHandler \/ DestGivesUp \/ HandleMetadata \/ HandleEof \/ HandleAck
        \/ UpdateFiles \/ Polling \/ UNCHANGED vars
    BY <1>3 DEF Next, Arrivals
  <2>1. /\ UNCHANGED <<src, gnd>>
        /\ \/ UNCHANGED <<store, listed>>
           \/ Cut /\ UNCHANGED listed
           \/ Emptied /\ UNCHANGED listed
           \/ /\ listed' = listed + 1
              /\ \E size \in 1..MaxSize :
                   store' = [store EXCEPT ![Listing] = [version |-> listed + 1, size |-> size]]
        /\ \/ UNCHANGED putQ
           \/ \E q \in PutRequests : putQ' = Append(putQ, q) /\ Fresh(q)
    BY <2>0, OthersFramed
  <2>2. /\ listed' \in {listed, listed + 1} /\ listed \in Nat
        /\ store'[Recording].version \in {0, 1}
        /\ store'[Listing].version <= listed'
        /\ store'[Listing].version \in Nat
        /\ store'[Listing].size > 0 =>
             \/ store'[Listing] = store[Listing] /\ listed' = listed
             \/ store'[Listing].version = listed + 1 /\ listed' = listed + 1
    <3>1. Recording \in Files /\ Listing \in Files /\ Recording # Listing
          /\ DOMAIN store = Files
      BY Constants, <1>1 DEF Files, CacheOK
    <3>2. listed \in Nat /\ store'[Listing].version \in Nat
      BY <1>1, <3>1, CacheTypes DEF CacheOK, Contents, Gone
    <3>3. CASE UNCHANGED <<store, listed>>
      BY <3>2, <3>3 DEF Versions
    <3>4. CASE Cut /\ UNCHANGED listed
      BY <3>1, <3>2, <3>4 DEF Versions, Gone
    <3>5. CASE Emptied /\ UNCHANGED listed
      BY <3>1, <3>2, <3>5 DEF Versions, Empty
    <3>6. ASSUME NEW size \in 1..MaxSize, listed' = listed + 1,
                 store' = [store EXCEPT ![Listing] = [version |-> listed + 1, size |-> size]]
          PROVE  /\ store'[Recording] = store[Recording]
                 /\ store'[Listing].version = listed'
      BY <3>1, <3>6
    <3> QED BY <2>1, <3>2, <3>3, <3>4, <3>5, <3>6 DEF Versions
  <2>3. ASSUME NEW q, q.since \in Nat, WrittenBy(q, store, listed)
        PROVE  WrittenBy(q, store', listed')
    BY <2>2, <2>3 DEF WrittenBy
  <2>4. ASSUME NEW q \in PutRequests, Fresh(q) PROVE WrittenBy(q, store', listed')
    BY <2>2, <2>4 DEF WrittenBy
  <2>5. src.req.since \in Nat /\ \A i \in 1..Len(putQ) : putQ[i].since \in Nat
    <3>1. src.req \in PutRequests /\ \A i \in 1..Len(putQ) : putQ[i] \in PutRequests
      BY DEF TypeInv, SourceOK, Sources, QueueOK
    <3> QED BY <3>1 DEF PutRequests
  <2>6. WrittenBy(src'.req, store', listed')
    BY <2>1, <2>3, <2>5 DEF Versions, Written
  <2>7. ASSUME NEW i \in 1..Len(putQ') PROVE WrittenBy(putQ'[i], store', listed')
    <3>1. CASE UNCHANGED putQ
      BY <2>3, <2>5, <3>1 DEF Versions, Written
    <3>2. ASSUME NEW q \in PutRequests, putQ' = Append(putQ, q), Fresh(q)
          PROVE  WrittenBy(putQ'[i], store', listed')
      <4>1. (i \in 1..Len(putQ) /\ putQ'[i] = putQ[i]) \/ putQ'[i] = q
        BY <1>1, <3>2 DEF QueueOK
      <4> QED BY <2>3, <2>4, <2>5, <3>2, <4>1 DEF Versions, Written
    <3> QED BY <2>1, <3>1, <3>2
  <2> QED BY <2>2, <2>6, <2>7 DEF Versions, Written
<1> QED BY <1>2, <1>3
-----------------------------------------------------------------------------
(* What the checksums say.  A checksum that was taken while nobody rewrote *)
(* the file is that of one version, not older than the one asked for.      *)
SumOf(sum, version) == \A i \in 1..Len(sum) : sum[i] = <<version, i, Len(sum)>>
SummedBy(sum, since, last) == \E v \in since..last + 1 : SumOf(sum, v)
Summed(sum, since) == SummedBy(sum, since, listed)

\* Nothing is summed before the file is sent, or heard before it is summed.
Unsummed == src.step \in {"start", "size", "sending"} => src.sum = <<>>
Unheard == src.step \in {"sending", "summing"} => gnd.sum = NoSum

\* The ground has the metadata of the transaction under way, or none.
Current ==
    src.step \in {"sending", "summing", "eofAck", "finished"} => gnd.since <= src.req.since

\* What of the file has been read for the checksum, if it is still the same file.
ReadSoFar(sum, c) ==
    Len(sum) <= c.size /\ \A i \in 1..Len(sum) : sum[i] = <<c.version, i, c.size>>
Summing ==
    src.step = "summing" /\ ~rewritten /\ File # Gone => ReadSoFar(src.sum, File)

Sums ==
    ~rewritten =>
        /\ Waits => Summed(src.sum, src.req.since)
        /\ gnd.sum = NoSum \/ Summed(gnd.sum, gnd.since)
        /\ Waits => gnd.sum = NoSum \/ Summed(gnd.sum, src.req.since)

SumInv == Unsummed /\ Unheard /\ Current /\ Summing /\ Sums

LEMMA SummedLonger ==
    ASSUME NEW sum, NEW since \in Nat, NEW earlier \in Nat, NEW last \in Nat, NEW later \in Nat,
           SummedBy(sum, since, last), earlier <= since, last <= later
    PROVE  SummedBy(sum, earlier, later)
<1>1. PICK v \in since..last + 1 : SumOf(sum, v)
  BY DEF SummedBy
<1>2. v \in earlier..later + 1
  BY <1>1
<1> QED BY <1>1, <1>2 DEF SummedBy

LEMMA SinceTypes ==
    ASSUME TypeInv
    PROVE  gnd.since \in Nat /\ src.req.since \in Nat /\ listed \in Nat
BY DEF TypeInv, CacheOK, SourceOK, Sources, PutRequests, Grounds

\* The source ends its transaction, or has none.
LEMMA EndsSummed ==
    ASSUME SumInv, UNCHANGED <<gnd, rewritten, listed>>,
           \/ src'.step \in {"idle", "dead"}
           \/ src'.step \in {"start", "size"} /\ src'.sum = <<>>
    PROVE  SumInv'
BY DEF SumInv, Unsummed, Unheard, Current, Summing, Sums, Summed, Waits, Running

LEMMA DroppedSummed ==
    ASSUME TypeInv, SumInv, UNCHANGED <<gnd, rewritten, listed>>, Dropped \/ Died
    PROVE  SumInv'
<1>1. src'.step \in {"idle", "dead"}
  BY DEF Dropped, Died, IdleSource, TypeInv, SourceOK, Sources
<1> QED BY <1>1, EndsSummed

LEMMA BegunSummed ==
    ASSUME TypeInv, SumInv, NEW size, Begun(size), UNCHANGED listed,
           src.step \in {"start", "size"}
    PROVE  SumInv'
<1>1. src'.step = "sending" /\ src'.sum = src.sum /\ src'.req = src.req
  BY DEF Begun, TypeInv, SourceOK, Sources
<1>2. gnd'.sum = NoSum /\ gnd'.since \in {0, src'.req.since}
  <2>1. Blank.sum = NoSum /\ Blank.since = 0
    BY DEF Blank
  <2>2. \A t : WithMetadata(Blank, t).sum = NoSum /\ WithMetadata(Blank, t).since = t.req.since
    BY DEF Blank, WithMetadata
  <2>3. gnd' \in {Blank, WithMetadata(Blank, src')}
    BY DEF Begun
  <2> QED BY <2>1, <2>2, <2>3
<1>3. Unsummed'
  BY <1>1 DEF SumInv, Unsummed
<1>4. Current'
  BY <1>1, <1>2, SinceTypes DEF Current
<1> QED BY <1>1, <1>2, <1>3, <1>4 DEF SumInv, Unheard, Summing, Sums, Waits, Running

\* Data and metadata sent leave the checksums alone.
LEMMA SentSummed ==
    ASSUME TypeInv, SumInv, UNCHANGED <<rewritten, listed, store>>,
           src'.step = src.step, src'.sum = src.sum, src'.req = src.req,
           gnd'.sum = gnd.sum,
           \/ gnd'.since = gnd.since
           \/ Waits /\ gnd'.since = src.req.since
    PROVE  SumInv'
<1>1. Unsummed' /\ Unheard' /\ Current' /\ Summing'
  BY SinceTypes DEF SumInv, Unsummed, Unheard, Current, Summing, File
<1>2. Sums'
  BY DEF SumInv, Sums, Summed, Waits, Running
<1> QED BY <1>1, <1>2 DEF SumInv

\* The source waits with a checksum it has taken or sent before.
LEMMA WaitsSummed ==
    ASSUME TypeInv, SumInv, UNCHANGED <<rewritten, listed>>,
           src'.step \in {"eofAck", "finished"}, src'.req = src.req,
           gnd.since <= src.req.since, gnd'.since \in {gnd.since, 0},
           gnd'.sum \in {gnd.sum, NoSum, src'.sum},
           ~rewritten => /\ Summed(src'.sum, src.req.since)
                         /\ gnd.sum = NoSum \/ Summed(gnd.sum, src.req.since)
    PROVE  SumInv'
<1>1. Unsummed' /\ Unheard' /\ Current' /\ Summing'
  BY SinceTypes DEF Unsummed, Unheard, Current, Summing
<1>2. ~rewritten => /\ Summed(src'.sum, src.req.since)
                    /\ gnd'.sum = NoSum \/ Summed(gnd'.sum, src.req.since)
  OBVIOUS
<1>3. gnd'.since \in Nat /\ gnd'.since <= src.req.since
  BY SinceTypes
<1>4. \A sum : SummedBy(sum, src.req.since, listed) => SummedBy(sum, gnd'.since, listed)
  BY <1>3, SummedLonger, SinceTypes
<1>5. Sums'
  BY <1>2, <1>4 DEF Sums, Summed
<1> QED BY <1>1, <1>5 DEF SumInv

LEMMA SendEofSummed ==
    ASSUME TypeInv, Versions, SumInv, SendEof
    PROVE  SumInv'
<1>1. UNCHANGED <<store, rewritten, listed>> /\ src \in Sources /\ gnd \in Grounds
  BY DEF SendEof, cache, TypeInv, SourceOK
<1>2. src.step \in {"sending", "summing"} => gnd.sum = NoSum /\ gnd.since <= src.req.since
  BY DEF SumInv, Unheard, Current
<1>3. ASSUME NEW sum, SendsEof(sum), src.step \in {"sending", "summing"},
             ~rewritten => Summed(sum, src.req.since)
      PROVE  SumInv'
  <2>1. src'.step = "eofAck" /\ src'.sum = sum /\ src'.req = src.req
    BY <1>1, <1>3 DEF SendsEof, Sources
  <2>2. gnd'.since = gnd.since /\ gnd'.sum \in {gnd.sum, sum}
    BY <1>1, <1>3 DEF SendsEof, Hears, WithEof, Grounds
  <2> QED BY <1>1, <1>2, <1>3, <2>1, <2>2, WaitsSummed
<1>4. CASE Running("sending") /\ src.size = 0 /\ SendsEof(<<>>)
  <2>1. Summed(<<>>, src.req.since)
    <3>1. listed + 1 \in src.req.since..listed + 1
      BY SinceTypes DEF Versions, Written, WrittenBy
    <3>2. SumOf(<<>>, listed + 1)
      BY DEF SumOf
    <3> QED BY <3>1, <3>2 DEF Summed, SummedBy
  <2> QED BY <1>3, <1>4, <2>1 DEF Running
<1>5. CASE (Dropped \/ Died) /\ UNCHANGED gnd
  BY <1>1, <1>5, DroppedSummed
<1>6. CASE Running("sending") /\ src' = [src EXCEPT !.step = "summing"] /\ UNCHANGED gnd
           /\ File # Gone /\ src.size > 0
  <2>1. src'.step = "summing" /\ src'.sum = <<>> /\ src'.req = src.req
    BY <1>1, <1>6 DEF Sources, SumInv, Unsummed, Running
  <2>2. File.size >= 0
    <3>1. src.req.file # NoFile
      BY <1>1, <1>6 DEF TypeInv, FileNamed, Sources
    <3> QED BY <1>6, <3>1, FileType, Constants
  <2>3. Summing'
    BY <1>1, <2>1, <2>2 DEF Summing, ReadSoFar, File
  <2>4. Sums'
    BY <1>1, <1>6, <2>1 DEF SumInv, Sums, Summed, Waits, Running
  <2>5. Unsummed' /\ Unheard' /\ Current'
    BY <1>2, <1>6, <2>1 DEF Unsummed, Unheard, Current, Running
  <2> QED BY <2>3, <2>4, <2>5 DEF SumInv
<1>7. CASE /\ Running("summing") /\ Len(src.sum) < File.size
           /\ src' = [src EXCEPT !.sum = Append(@, Segment(File, Len(@) + 1))]
           /\ UNCHANGED gnd
  <2>1. /\ src'.step = "summing" /\ src'.req = src.req
        /\ src'.sum = Append(src.sum, Segment(File, Len(src.sum) + 1))
    BY <1>1, <1>7 DEF Sources, Running
  <2>2. src.sum \in Seq(Segments) /\ Len(src.sum) \in Nat
    BY <1>1 DEF Sources
  <2>3. src.req.file # NoFile /\ File # Gone /\ File.size \in 0..MaxSize
    <3>1. src.req.file # NoFile
      BY <1>7 DEF TypeInv, FileNamed, Running
    <3>2. File # Gone
      BY <1>7, <2>2 DEF Gone
    <3> QED BY <3>1, <3>2, FileType
  <2>4. Segment(File, Len(src.sum) + 1) = <<File.version, Len(src.sum) + 1, File.size>>
    BY <1>7, <2>2, <2>3, Constants DEF Segment
  <2>5. ASSUME ReadSoFar(src.sum, File) PROVE ReadSoFar(src'.sum, File)
    <3>1. Len(src'.sum) = Len(src.sum) + 1 /\ Len(src'.sum) <= File.size
      BY <1>7, <2>1, <2>2, <2>3, Constants
    <3>2. ASSUME NEW i \in 1..Len(src'.sum)
          PROVE  src'.sum[i] = <<File.version, i, File.size>>
      <4>1. CASE i = Len(src.sum) + 1
        BY <2>1, <2>2, <2>4, <4>1
      <4>2. CASE i \in 1..Len(src.sum)
        BY <2>1, <2>2, <2>5, <4>2 DEF ReadSoFar
      <4> QED BY <2>2, <3>1, <4>1, <4>2
    <3> QED BY <3>1, <3>2 DEF ReadSoFar
  <2>6. Summing'
    BY <1>1, <1>7, <2>1, <2>3, <2>5 DEF SumInv, Summing, File, Running
  <2>7. Sums'
    BY <1>1, <1>7, <2>1 DEF SumInv, Sums, Summed, Waits, Running
  <2>8. Unsummed' /\ Unheard' /\ Current'
    BY <1>2, <1>7, <2>1 DEF Unsummed, Unheard, Current, Running
  <2> QED BY <2>6, <2>7, <2>8 DEF SumInv
<1>8. CASE Running("summing") /\ File # Gone /\ Len(src.sum) >= File.size /\ SendsEof(src.sum)
  <2>1. src.req.file # NoFile /\ File.size \in 0..MaxSize /\ Len(src.sum) \in Nat
    <3>1. src.req.file # NoFile
      BY <1>8 DEF TypeInv, FileNamed, Running
    <3> QED BY <1>1, <1>8, <3>1, FileType DEF Sources
  <2>2. ASSUME ~rewritten PROVE Summed(src.sum, src.req.since)
    <3>1. ReadSoFar(src.sum, File)
      BY <1>8, <2>2 DEF SumInv, Summing, Running
    <3>2. Len(src.sum) = File.size /\ SumOf(src.sum, File.version)
      BY <1>8, <2>1, <3>1, Constants DEF ReadSoFar, SumOf
    <3>3. CASE File.size > 0
      <4>1. src.req.since <= File.version /\ File.version <= listed + 1 /\ File.version \in Nat
        <5>1. src.req.file \in {Recording, Listing}
          BY <2>1, FileType DEF Files
        <5>2. CASE src.req.file = Recording
          BY <3>3, <5>2, SinceTypes, Constants DEF Versions, Written, WrittenBy, File
        <5>3. CASE src.req.file = Listing
          <6>1. store[Listing].version \in Nat
            BY CacheTypes DEF TypeInv, Files
          <6> QED BY <3>3, <5>3, <6>1, SinceTypes DEF Versions, Written, WrittenBy, File
        <5> QED BY <5>1, <5>2, <5>3
      <4>2. File.version \in src.req.since..listed + 1
        BY <4>1, SinceTypes
      <4> QED BY <3>2, <4>2 DEF Summed, SummedBy
    <3>4. CASE File.size = 0
      <4>1. SumOf(src.sum, listed + 1)
        BY <3>2, <3>4 DEF SumOf
      <4>2. listed + 1 \in src.req.since..listed + 1
        BY SinceTypes DEF Versions, Written, WrittenBy
      <4> QED BY <4>1, <4>2 DEF Summed, SummedBy
    <3> QED BY <2>1, <3>3, <3>4, Constants
  <2> QED BY <1>3, <1>8, <2>2 DEF Running
<1> QED BY <1>4, <1>5, <1>6, <1>7, <1>8 DEF SendEof

\* The steps of the source thread, and what the ground sends it.
LEMMA SourceSummed ==
    ASSUME TypeInv, Versions, SumInv,
           SourceEntityHandler \/ Acknowledged \/ Finished \/ Retransmission
    PROVE  SumInv'
<1>1. src \in Sources /\ gnd \in Grounds /\ UNCHANGED <<store, listed>>
  BY SourceFramed DEF TypeInv, SourceOK, SourceFrame
<1>2. ASSUME NEW i, SendsData(i) PROVE gnd'.sum = gnd.sum /\ gnd'.since = gnd.since
  BY <1>1, <1>2 DEF SendsData, Hears, WithData, Grounds
<1>3. Waits => /\ gnd.since <= src.req.since
               /\ ~rewritten => /\ Summed(src.sum, src.req.since)
                                /\ gnd.sum = NoSum \/ Summed(gnd.sum, src.req.since)
  BY DEF SumInv, Current, Sums, Waits, Running
<1>4. CASE IdleHandling
  <2>1. UNCHANGED <<gnd, rewritten>>
    BY <1>4 DEF IdleHandling, cache
  <2>2. CASE UNCHANGED src
    BY <1>1, <2>1, <2>2, SentSummed
  <2>3. CASE src' = [IdleSource(src.tid) EXCEPT !.step = "start", !.req = Head(putQ)]
    <3>1. src'.step = "start" /\ src'.sum = <<>>
      BY <2>3 DEF IdleSource
    <3> QED BY <1>1, <2>1, <3>1, EndsSummed
  <2> QED BY <1>4, <2>2, <2>3 DEF IdleHandling
<1>5. CASE TransactionStart
  <2>1. ASSUME NEW size, Begun(size), Running("start") \/ Running("size") PROVE SumInv'
    BY <1>1, <2>1, BegunSummed DEF Running
  <2>2. CASE src' = [src EXCEPT !.step = "size"] /\ Running("start")
             /\ UNCHANGED <<gnd, rewritten>>
    <3>1. src'.step = "size" /\ src'.sum = <<>>
      BY <1>1, <2>2 DEF Sources, SumInv, Unsummed, Running
    <3> QED BY <1>1, <2>2, <3>1, EndsSummed
  <2>3. CASE (Dropped \/ Died) /\ UNCHANGED <<gnd, rewritten>>
    BY <1>1, <2>3, DroppedSummed
  <2> QED BY <1>5, <2>1, <2>2, <2>3 DEF TransactionStart
<1>6. CASE SendData
  <2>1. UNCHANGED rewritten
    BY <1>6 DEF SendData, cache
  <2>2. CASE Died /\ UNCHANGED gnd
    BY <1>1, <2>1, <2>2, DroppedSummed
  <2>3. CASE src' = [src EXCEPT !.progress = @ + 1] /\ SendsData(src.progress + 1)
    <3>1. src'.step = src.step /\ src'.sum = src.sum /\ src'.req = src.req
      BY <1>1, <2>3 DEF Sources
    <3>2. gnd'.sum = gnd.sum /\ gnd'.since = gnd.since
      BY <1>2, <2>3
    <3> QED BY <1>1, <2>1, <3>1, <3>2, SentSummed
  <2> QED BY <1>6, <2>2, <2>3 DEF SendData
<1>7. CASE SendEof
  BY <1>7, SendEofSummed
<1>8. CASE Acknowledged \/ Finished
  <2>1. UNCHANGED <<gnd, rewritten>>
    BY <1>8 DEF Acknowledged, Finished, cache
  <2>2. CASE Dropped
    BY <1>1, <2>1, <2>2, DroppedSummed
  <2>3. CASE Waits /\ src' = [src EXCEPT !.step = "finished"]
    <3>1. src'.step = "finished" /\ src'.sum = src.sum /\ src'.req = src.req
      BY <1>1, <2>3 DEF Sources
    <3> QED BY <1>1, <1>3, <2>1, <2>3, <3>1, WaitsSummed
  <2> QED BY <1>8, <2>2, <2>3 DEF Acknowledged, Finished
<1>9. CASE Retransmission
  <2>1. UNCHANGED rewritten /\ Waits
    BY <1>9 DEF Retransmission, cache
  <2>2. CASE Hears(WithMetadata(gnd, src)) /\ UNCHANGED src
    <3>1. gnd'.sum = gnd.sum /\ gnd'.since \in {gnd.since, src.req.since}
      BY <1>1, <2>2 DEF Hears, WithMetadata, Grounds
    <3> QED BY <1>1, <2>1, <2>2, <3>1, SentSummed
  <2>3. CASE Died /\ UNCHANGED gnd
    BY <1>1, <2>1, <2>3, DroppedSummed
  <2>4. ASSUME NEW i, SendsData(i), UNCHANGED src PROVE SumInv'
    BY <1>1, <1>2, <2>1, <2>4, SentSummed
  <2> QED BY <1>9, <2>2, <2>3, <2>4 DEF Retransmission
<1>10. CASE SourceTimedOut
  <2>1. UNCHANGED rewritten /\ Waits
    BY <1>10 DEF SourceTimedOut, Waits, cache
  <2>2. Blank.sum = NoSum /\ Blank.since = 0
    BY DEF Blank
  <2>3. CASE /\ src' = [src EXCEPT !.tries = @ + 1] /\ Running("eofAck")
             /\ Hears(IF src.canceled THEN Blank ELSE WithEof(src.sum))
    <3>1. src'.step = "eofAck" /\ src'.sum = src.sum /\ src'.req = src.req
      BY <1>1, <2>3 DEF Sources, Running
    <3>2. gnd'.since \in {gnd.since, 0} /\ gnd'.sum \in {gnd.sum, NoSum, src.sum}
      BY <1>1, <2>2, <2>3 DEF Hears, WithEof, Grounds
    <3> QED BY <1>1, <1>3, <2>1, <3>1, <3>2, WaitsSummed
  <2>4. CASE /\ src' = [src EXCEPT !.step = "eofAck", !.tries = 0, !.canceled = TRUE]
             /\ Hears(Blank)
    <3>1. src'.step = "eofAck" /\ src'.sum = src.sum /\ src'.req = src.req
      BY <1>1, <2>4 DEF Sources
    <3>2. gnd'.since \in {gnd.since, 0} /\ gnd'.sum \in {gnd.sum, NoSum}
      BY <2>2, <2>4 DEF Hears
    <3> QED BY <1>1, <1>3, <2>1, <3>1, <3>2, WaitsSummed
  <2>5. CASE Dropped /\ UNCHANGED gnd
    BY <1>1, <2>1, <2>5, DroppedSummed
  <2> QED BY <1>10, <2>3, <2>4, <2>5 DEF SourceTimedOut
<1> QED BY <1>4, <1>5, <1>6, <1>7, <1>8, <1>9, <1>10 DEF SourceEntityHandler

\* The others rewrite the file while it is summed, and the history says so; or they
\* take it away, and then nothing more is read of it.
LEMMA OthersSummed ==
    ASSUME TypeInv, Versions, SumInv,
           DestEntityHandler \/ DestGivesUp \/ HandleMetadata \/ HandleEof \/ HandleAck
             \/ UpdateFiles \/ Polling \/ UNCHANGED vars
    PROVE  SumInv'
<1>1. UNCHANGED <<src, gnd>>
  BY OthersFramed
<1>2. listed' \in {listed, listed + 1} /\ rewritten' \in BOOLEAN
      /\ (~rewritten' => ~rewritten)
  BY OthersFramed, TypeNext DEF Rewriting, TypeInv, CacheOK
<1>3. Unsummed' /\ Unheard' /\ Current'
  BY <1>1 DEF SumInv, Unsummed, Unheard, Current
<1>4. Sums'
  <2>1. \A sum : /\ SummedBy(sum, gnd.since, listed) => SummedBy(sum, gnd.since, listed')
                 /\ SummedBy(sum, src.req.since, listed) => SummedBy(sum, src.req.since, listed')
    BY <1>2, SinceTypes, SummedLonger
  <2> QED BY <1>1, <1>2, <2>1 DEF SumInv, Sums, Summed, Waits, Running
<1>5. Summing'
  <2> SUFFICES ASSUME src.step = "summing", ~rewritten', File' # Gone
               PROVE  ReadSoFar(src.sum, File')
    BY <1>1 DEF Summing
  <2>1. src.req.file \in Files /\ store \in [Files -> Contents \cup {Gone}]
        /\ Recording \in Files /\ Listing \in Files
    BY FileType DEF TypeInv, FileNamed, CacheOK, Files
  <2>2. File' = File
    <3>1. CASE UNCHANGED store
      BY <1>1, <3>1 DEF File
    <3>2. CASE store' = [store EXCEPT ![Recording] = Gone]
      BY <1>1, <2>1, <3>2 DEF File
    <3>3. CASE Rewriting(Listing) /\ \E c : store' = [store EXCEPT ![Listing] = c]
      BY <1>1, <2>1, <3>3 DEF File, Rewriting
    <3> QED BY <3>1, <3>2, <3>3, OthersFramed
  <2> QED BY <1>2, <2>2 DEF SumInv, Summing
<1> QED BY <1>3, <1>4, <1>5 DEF SumInv

WholeInv == TypeInv /\ Versions /\ SumInv

LEMMA WholeNext == WholeInv /\ [Next]_vars => WholeInv'
BY TypeNext, VersionsNext, SourceSummed, OthersSummed
   DEF WholeInv, Next, Arrivals

LEMMA WholeInit == Init => WholeInv
<1> SUFFICES ASSUME Init PROVE Versions /\ SumInv
  BY InitType DEF WholeInv
<1>1. /\ store[Recording].version = 1 /\ store[Listing] = Gone
      /\ listed = 0 /\ putQ = <<>> /\ rewritten = FALSE
  BY Constants DEF Init, Files
<1>2. src.step = "idle" /\ src.req = PutResponse(0) /\ gnd.sum = NoSum
  BY DEF Init, IdleSource, Blank
<1>3. WrittenBy(PutResponse(0), store, listed)
  BY AnswerWritten, InitType DEF TypeInv
<1>4. Versions
  BY <1>1, <1>2, <1>3 DEF Versions, Written, Gone
<1>5. SumInv
  BY <1>2 DEF SumInv, Unsummed, Unheard, Current, Summing, Sums, Waits, Running
<1> QED BY <1>4, <1>5

\* AcceptedWhole: a file the ground has received in full and checked is one version of
\* the file as it was in the cache, a listing not older than its request
\* (cachestore.py:171, cfdp.py:134), for files of any size and any number of requests,
\* unless it was rewritten just while its checksum was taken.
THEOREM WholeFiles == Spec => []AcceptedWhole
<1>1. WholeInv => AcceptedWhole
  <2> SUFFICES ASSUME WholeInv, Accepted, ~rewritten PROVE WholeFile
    BY DEF AcceptedWhole
  <2>1. gnd.sum = Content /\ gnd.sum # NoSum /\ gnd.size \in Nat /\ gnd.sum \in Seq(Segments)
    BY DEF Accepted, Received, WholeInv, TypeInv, Grounds
  <2>2. PICK v \in gnd.since..listed + 1 : SumOf(gnd.sum, v)
    BY <2>1 DEF WholeInv, SumInv, Sums, Summed, SummedBy
  <2>3. Len(gnd.sum) = gnd.size
    <3>1. DOMAIN gnd.sum = 1..gnd.size /\ DOMAIN gnd.sum = 1..Len(gnd.sum)
      BY <2>1 DEF Content
    <3> QED BY <2>1, <3>1
  <2>4. Content = [i \in 1..gnd.size |-> <<v, i, gnd.size>>]
    BY <2>1, <2>2, <2>3 DEF Content, SumOf
  <2> QED BY <2>2, <2>4 DEF WholeFile
<1> QED BY <1>1, WholeInit, WholeNext, PTL DEF Spec
=============================================================================
