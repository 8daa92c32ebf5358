------------------------ MODULE SniffOperationProofs ------------------------
(***************************************************************************)
(* Proofs about SniffOperation, for every packet alphabet, every sequence  *)
(* number width and every set of pairs.                                    *)
(***************************************************************************)
EXTENDS SniffOperation, SequenceTheorems, FiniteSetTheorems, TLAPS

(***************************************************************************)
(* Lemmas about the helpers.                                               *)
(***************************************************************************)

\* Part of a byte sequence is a byte sequence.
LEMMA SubSeqBytes ==
    ASSUME NEW data \in Seq(Bytes), NEW m \in Nat \ {0}, NEW n \in Nat,
           n <= Len(data)
    PROVE  SubSeq(data, m, n) \in Seq(Bytes)
<1>1. \A i \in m .. n : data[i] \in Bytes
  BY ElementOfSeq, LenProperties
<1>2. QED
  BY <1>1, SubSeqProperties

\* replaceBytesInRange: builds a byte sequence out of byte sequences, for any
\* location inside the data and any length.
LEMMA ReplaceBytesType ==
    ASSUME NEW data \in Seq(Bytes), NEW bytes \in Seq(Bytes),
           NEW location \in 0 .. Len(data), NEW length \in Nat
    PROVE  ReplaceBytes(data, location, length, bytes) \in Seq(Bytes)
<1>1. Len(data) \in Nat
  BY LenProperties
<1>2. SubSeq(data, 1, location) \in Seq(Bytes)
  BY <1>1, SubSeqBytes
<1>3. SubSeq(data, location + length + 1, Len(data)) \in Seq(Bytes)
  BY <1>1, SubSeqBytes
<1>4. SubSeq(data, 1, location) \o bytes \in Seq(Bytes)
  BY <1>2, ConcatProperties
<1>5. QED
  BY <1>3, <1>4, ConcatProperties DEF ReplaceBytes

\* The response handed out is a prefix of the data.
LEMMA ParseHTTPResponseType ==
    ASSUME NEW data \in Seq(Bytes)
    PROVE  ParseHTTPResponse(data) \in Seq(Bytes)
<1> DEFINE header == {k \in 1 .. Len(data) :
                         \A j \in 1 .. k - 1 : ~EmptyLineAt(data, j)}
<1>1. Len(data) \in Nat
  BY LenProperties
<1>2. /\ IsFiniteSet(1 .. Len(data))
      /\ Cardinality(1 .. Len(data)) = Len(data)
  BY <1>1, FS_Interval
<1>3. header \subseteq 1 .. Len(data)
  OBVIOUS
<1>4. IsFiniteSet(header) /\ Cardinality(header) <= Len(data)
  BY <1>2, <1>3, FS_Subset
<1>5. Cardinality(header) \in Nat
  BY <1>4, FS_CardinalityType
<1> HIDE DEF header
<1>6. SubSeq(data, 1, Cardinality(header)) \in Seq(Bytes)
  BY <1>4, <1>5, SubSeqBytes
<1>7. QED
  BY <1>6 DEF ParseHTTPResponse, header

\* The offset of a response segment is a natural number, whatever wraps.
LEMMA NewDataOffsetType ==
    ASSUME TypeOK, NEW p \in Packets, PairOf(p) \in Pairs
    PROVE  FirstSeq(p) \in SeqNr /\ NewDataOffset(p) \in Nat
<1>1. p.seq \in SeqNr
  BY DEF Packets
<1>2. FirstSeq(p) \in SeqNr
  BY <1>1 DEF TypeOK, PairType, FirstSeq
<1>3. p.seq - FirstSeq(p) \in Int
  BY <1>1, <1>2, SniffAssumption DEF SeqNr
<1>4. WordMod \in Nat \ {0}
  BY SniffAssumption
<1>5. NewDataOffset(p) \in Nat
  BY <1>3, <1>4 DEF NewDataOffset
<1>6. QED
  BY <1>2, <1>5

\* A known response segment leads to a pair object and stays inside the types.
LEMMA KnownResponseType ==
    ASSUME TypeOK, NEW p \in Packets, IsKnownResponse(p)
    PROVE  /\ PairOf(p) \in Pairs
           /\ p.ack \in SeqNr /\ p.seq \in SeqNr
           /\ p.payload \in Seq(Bytes)
           /\ pair[PairOf(p)].responseData \in Seq(Bytes)
<1>1. p.ack \in SeqNr /\ p.seq \in SeqNr /\ p.payload \in Seq(Bytes)
  BY SniffAssumption DEF Packets
<1>2. PairOf(p) \in Pairs
  BY <1>1 DEF TypeOK, PairOf, IsKnownResponse
<1>3. QED
  BY <1>1, <1>2 DEF TypeOK, PairType

\* The rewrite of the key and its removal keep the map a map.
LEMMA RewrittenType ==
    ASSUME TypeOK, NEW p \in Packets, IsKnownResponse(p)
    PROVE  /\ Rewritten(p) \in [SeqNr -> Pairs \cup {NoPair}]
           /\ Retired(p) \in [SeqNr -> Pairs \cup {NoPair}]
<1>1. Rewritten(p) \in [SeqNr -> Pairs \cup {NoPair}]
  BY KnownResponseType DEF TypeOK, Rewritten
<1>2. QED
  BY <1>1 DEF Retired

\* The data after a response segment inside the range.
LEMMA ExtendedDataType ==
    ASSUME TypeOK, NEW p \in Packets, IsKnownResponse(p), ~OffsetOutOfRange(p)
    PROVE  ExtendedData(p) \in Seq(Bytes)
<1> DEFINE data == pair[PairOf(p)].responseData
           offset == NewDataOffset(p)
           length == RangeLength(data, offset, p.payload)
<1>1. data \in Seq(Bytes) /\ p.payload \in Seq(Bytes) /\ PairOf(p) \in Pairs
  BY KnownResponseType
<1>2. offset \in Nat
  BY <1>1, NewDataOffsetType
<1>3. Len(data) \in Nat
  BY <1>1, LenProperties
<1>4. offset \in 0 .. Len(data)
  BY <1>2, <1>3 DEF OffsetOutOfRange
<1>5. length \in Nat
  BY DEF RangeLength
<1> HIDE DEF length
<1>6. ReplaceBytes(data, offset, length, p.payload) \in Seq(Bytes)
  BY <1>1, <1>4, <1>5, ReplaceBytesType
<1>7. QED
  BY <1>6 DEF ExtendedData, length

\* The pair object after a response segment.
LEMMA ExtendedPairType ==
    ASSUME TypeOK, NEW p \in Packets, IsKnownResponse(p),
           NEW data \in Seq(Bytes)
    PROVE  /\ ExtendedPair(p, data) \in [Pairs -> PairType]
           /\ \A o \in Pairs :
                 ExtendedPair(p, data)[o].request = pair[o].request
<1>1. PairOf(p) \in Pairs
  BY KnownResponseType
<1>2. FirstSeq(p) \in SeqNr
  BY <1>1, NewDataOffsetType
<1>3. QED
  BY <1>1, <1>2 DEF TypeOK, PairType, ExtendedPair

-----------------------------------------------------------------------------
(***************************************************************************)
(* Type correctness.                                                       *)
(***************************************************************************)

ReportType == [pair : Pairs, request : Requests, response : Seq(Bytes)]

\* A known pair was created for a request, so its report is well formed.
LEMMA ReportedType ==
    ASSUME TypeOK, Filed \subseteq Allocated,
           NEW p \in Packets, IsKnownResponse(p), ~OffsetOutOfRange(p)
    PROVE  [pair |-> PairOf(p), request |-> pair[PairOf(p)].request,
            response |-> ParseHTTPResponse(ExtendedData(p))] \in ReportType
<1>1. PairOf(p) \in Pairs /\ p.ack \in SeqNr /\ p.seq \in SeqNr
  BY KnownResponseType
<1>2. PairOf(p) \in Filed
  BY <1>1 DEF PairOf, KnownByAck, IsKnownResponse, Filed
<1>3. pair[PairOf(p)].request \in Requests
  BY <1>1, <1>2 DEF Allocated, TypeOK, PairType
<1>4. ParseHTTPResponse(ExtendedData(p)) \in Seq(Bytes)
  BY ExtendedDataType, ParseHTTPResponseType
<1>5. QED
  BY <1>1, <1>3, <1>4 DEF ReportType

(***************************************************************************)
(* The inductive invariant.  None of its conjuncts is inductive alone: the *)
(* type of a report needs filed pairs to be allocated, a request files a   *)
(* fresh pair only because filed and reported pairs are allocated, and a   *)
(* pair reported once has no key left only because it had a single key.    *)
(***************************************************************************)
IInv ==
    /\ TypeOK
    /\ FiledAllocated
    /\ OneKeyPerPair
    /\ ReportedOnce

LEMMA InitIInv == Init => IInv
<1> SUFFICES ASSUME Init PROVE IInv
  OBVIOUS
<1>1. NoRequest \in Requests \cup {NoRequest} /\ <<>> \in Seq(Bytes)
      /\ 0 \in SeqNr /\ \A o \in Pairs : NewPair(NoRequest) \in PairType
  BY SniffAssumption DEF SeqNr, NewPair, PairType
<1>2. TypeOK
  <2>1. /\ requestMap \in [SeqNr -> Pairs \cup {NoPair}]
        /\ pair \in [Pairs -> PairType]
        /\ crashed \in BOOLEAN
    BY <1>1 DEF Init
  <2>2. reported \in Seq(ReportType)
    BY DEF Init
  <2>3. QED
    BY <2>1, <2>2 DEF TypeOK, ReportType
<1>3. Filed = {} /\ ReportedPairs = {} /\ DOMAIN reported = {}
  BY DEF Init, Filed, ReportedPairs
<1>4. QED
  BY <1>2, <1>3 DEF IInv, FiledAllocated, OneKeyPerPair, ReportedOnce, Init

\* A request files a fresh pair in the place of whatever its key led to.
LEMMA RecordRequestStep ==
    ASSUME IInv, NEW p \in Packets, RecordRequest(p)
    PROVE  IInv'
<1>1. PICK o \in Pairs \ Allocated :
          /\ pair' = [pair EXCEPT ![o] = NewPair(ParseHTTPRequest(p.payload))]
          /\ requestMap' = [requestMap EXCEPT ![p.ack] = o]
  BY DEF RecordRequest
<1>2. UNCHANGED <<reported, crashed>>
  BY DEF RecordRequest
<1>3. p.ack \in SeqNr
  BY DEF Packets
<1>4. ParseHTTPRequest(p.payload) \in Requests
  <2>1. \E i \in FirstLine(p.payload) : p.payload[i] \in Requests
    BY DEF RecordRequest, ParseHTTPRequest
  <2>2. p.payload[CHOOSE i \in FirstLine(p.payload) : p.payload[i] \in Requests]
           \in Requests
    BY <2>1
  <2>3. QED
    BY <2>1, <2>2 DEF ParseHTTPRequest
<1>5. NewPair(ParseHTTPRequest(p.payload)) \in PairType
  <2>1. 0 \in SeqNr
    BY SniffAssumption DEF SeqNr
  <2>2. QED
    BY <1>4, <2>1 DEF NewPair, PairType
<1>6. TypeOK'
  BY <1>1, <1>2, <1>3, <1>5 DEF IInv, TypeOK
<1>7. o \notin Filed /\ o \notin ReportedPairs
  BY <1>1 DEF IInv, FiledAllocated
<1>8. Allocated' = Allocated \cup {o}
  <2>1. ParseHTTPRequest(p.payload) # NoRequest
    BY DEF RecordRequest
  <2>2. QED
    BY <1>1, <2>1 DEF Allocated, NewPair, IInv, TypeOK
<1>9. Filed' \subseteq Filed \cup {o}
  BY <1>1, <1>3 DEF Filed, IInv, TypeOK
<1>10. ReportedPairs' = ReportedPairs
  BY <1>2 DEF ReportedPairs
<1>11. FiledAllocated'
  BY <1>8, <1>9, <1>10 DEF IInv, FiledAllocated
<1>12. OneKeyPerPair'
  <2>1. \A k \in SeqNr : requestMap[k] # o
    BY <1>1, <1>7, SniffAssumption DEF Filed
  <2>2. QED
    BY <1>1, <1>3, <2>1 DEF OneKeyPerPair, IInv, TypeOK
<1>13. ReportedOnce'
  <2>1. \A i \in DOMAIN reported : reported[i].pair # o
    BY <1>7 DEF ReportedPairs
  <2>2. \A i \in DOMAIN reported : pair'[reported[i].pair] = pair[reported[i].pair]
    BY <1>1, <2>1 DEF IInv, TypeOK
  <2>3. QED
    BY <1>2, <1>9, <2>1, <2>2 DEF ReportedOnce, IInv
<1>14. QED
  BY <1>6, <1>11, <1>12, <1>13 DEF IInv

\* What every path for a known response does to the map: nothing new is filed
\* and the pair keeps exactly one key, the acknowledgement number.
LEMMA RewrittenKeys ==
    ASSUME IInv, NEW p \in Packets, IsKnownResponse(p)
    PROVE  /\ \A k \in SeqNr : Rewritten(p)[k] = PairOf(p) <=> k = p.ack
           /\ \A k \in SeqNr : Rewritten(p)[k] # NoPair =>
                 Rewritten(p)[k] \in Filed
           /\ \A k, l \in SeqNr :
                 Rewritten(p)[k] = Rewritten(p)[l] /\ Rewritten(p)[k] # NoPair
                    => k = l
<1>1. PairOf(p) \in Pairs /\ p.ack \in SeqNr /\ p.seq \in SeqNr
  BY KnownResponseType DEF IInv
<1>2. PairOf(p) # NoPair
  BY DEF IsKnownResponse
<1>3. requestMap \in [SeqNr -> Pairs \cup {NoPair}] /\ OneKeyPerPair
  BY DEF IInv, TypeOK
<1>4. CASE KnownByAck(p)
  BY <1>1, <1>2, <1>3, <1>4 DEF Rewritten, PairOf, KnownByAck, OneKeyPerPair, Filed
<1>5. CASE ~KnownByAck(p)
  <2>1. PairOf(p) = requestMap[p.seq] /\ requestMap[p.ack] = NoPair
    BY <1>5 DEF PairOf, KnownByAck
  <2>2. p.seq # p.ack
    BY <2>1, <1>2
  <2>3. Rewritten(p) = [requestMap EXCEPT ![p.ack] = PairOf(p), ![p.seq] = NoPair]
    BY <1>5 DEF Rewritten
  <2>4. \A k \in SeqNr : Rewritten(p)[k] =
           IF k = p.seq THEN NoPair
           ELSE IF k = p.ack THEN PairOf(p) ELSE requestMap[k]
    BY <2>2, <2>3, <1>1, <1>3
  <2>5. PairOf(p) \in Filed
    BY <2>1, <1>1, <1>2 DEF Filed
  <2>6. QED
    BY <1>1, <1>2, <1>3, <2>1, <2>2, <2>4, <2>5 DEF OneKeyPerPair, Filed
<1>6. QED
  BY <1>4, <1>5

\* A segment of a known response that is not reported leaves the pair filed,
\* under its one key.
LEMMA FiledResponseStep ==
    ASSUME IInv, NEW p \in Packets, IsKnownResponse(p),
           NEW data \in Seq(Bytes),
           pair' = ExtendedPair(p, data),
           requestMap' = Rewritten(p),
           UNCHANGED reported, crashed' \in BOOLEAN
    PROVE  IInv'
<1>1. TypeOK'
  BY RewrittenType, ExtendedPairType DEF IInv, TypeOK
<1>2. \A o \in Pairs : pair'[o].request = pair[o].request
  BY ExtendedPairType DEF IInv
<1>3. Filed' \subseteq Filed
  BY RewrittenKeys DEF Filed
<1>4. ReportedPairs' = ReportedPairs
  BY DEF ReportedPairs
<1>5. FiledAllocated'
  BY <1>2, <1>3, <1>4 DEF IInv, FiledAllocated, Allocated
<1>6. OneKeyPerPair'
  BY RewrittenKeys DEF OneKeyPerPair
<1>7. ReportedOnce'
  <2>1. \A i \in DOMAIN reported : reported[i].pair \in Pairs
    BY DEF IInv, FiledAllocated, ReportedPairs, Allocated
  <2>2. QED
    BY <1>2, <1>3, <2>1 DEF IInv, ReportedOnce
<1>8. QED
  BY <1>1, <1>5, <1>6, <1>7 DEF IInv

\* A reported pair loses its only key, and was not reported before because it
\* still had one.
LEMMA CompleteResponseStep ==
    ASSUME IInv, NEW p \in Packets, CompleteResponse(p)
    PROVE  IInv'
<1> DEFINE report == [pair |-> PairOf(p), request |-> pair[PairOf(p)].request,
                      response |-> ParseHTTPResponse(ExtendedData(p))]
<1>1. IsKnownResponse(p) /\ ~OffsetOutOfRange(p) /\ TypeOK
  BY DEF CompleteResponse, IInv
<1>2. /\ pair' = ExtendedPair(p, ExtendedData(p))
      /\ requestMap' = Retired(p)
      /\ reported' = IF HasReceiver THEN Append(reported, report) ELSE reported
      /\ crashed' = crashed
  BY DEF CompleteResponse
<1>3. PairOf(p) \in Pairs /\ p.ack \in SeqNr
  BY <1>1, KnownResponseType
<1>4. report \in ReportType
  BY <1>1, ReportedType DEF IInv, FiledAllocated
<1>5. reported \in Seq(ReportType)
  BY <1>1 DEF TypeOK, ReportType
<1> HIDE DEF report
<1>6. reported' \in Seq(ReportType)
  BY <1>2, <1>4, <1>5, AppendProperties
<1>7. TypeOK'
  BY <1>1, <1>2, <1>6, RewrittenType, ExtendedPairType, ExtendedDataType
     DEF TypeOK, ReportType
<1>8. \A o \in Pairs : pair'[o].request = pair[o].request
  BY <1>1, <1>2, ExtendedPairType, ExtendedDataType
<1>9. \A k \in SeqNr : requestMap'[k] =
         IF k = p.ack THEN NoPair ELSE Rewritten(p)[k]
  BY <1>1, <1>2, <1>3, RewrittenType DEF Retired
<1>10. PairOf(p) \in Filed
  BY <1>1, KnownResponseType DEF PairOf, IsKnownResponse, Filed
<1>11. Filed' \subseteq Filed \ {PairOf(p)}
  BY <1>1, <1>9, RewrittenKeys DEF Filed
<1>12. PairOf(p) \notin ReportedPairs
  BY <1>10 DEF IInv, ReportedOnce, ReportedPairs
<1>13. /\ DOMAIN reported = 1 .. Len(reported)
       /\ \/ reported' = reported
          \/ /\ DOMAIN reported' = 1 .. Len(reported) + 1
             /\ \A i \in 1 .. Len(reported) : reported'[i] = reported[i]
             /\ reported'[Len(reported) + 1] = report
  BY <1>2, <1>4, <1>5, AppendProperties, LenProperties
<1>14. Len(reported) \in Nat
  BY <1>5, LenProperties
<1>15. \A i \in DOMAIN reported' :
          \/ i \in DOMAIN reported /\ reported'[i] = reported[i]
          \/ i = Len(reported) + 1 /\ i \notin DOMAIN reported
             /\ reported'[i] = report
  BY <1>13, <1>14
<1>16. report.pair = PairOf(p) /\ report.request = pair[PairOf(p)].request
  BY DEF report
<1>17. ReportedPairs' \subseteq ReportedPairs \cup {PairOf(p)}
  BY <1>15, <1>16 DEF ReportedPairs
<1>18. FiledAllocated'
  <2>1. Allocated' = Allocated
    BY <1>8 DEF Allocated
  <2>2. QED
    BY <1>10, <1>11, <1>17, <2>1 DEF IInv, FiledAllocated
<1>19. OneKeyPerPair'
  BY <1>1, <1>9, RewrittenKeys DEF OneKeyPerPair
<1>20. ReportedOnce'
  <2>1. \A i \in DOMAIN reported :
           /\ reported[i].pair \in ReportedPairs
           /\ reported[i].pair \in Pairs
    BY DEF ReportedPairs, IInv, FiledAllocated, Allocated
  <2>2. \A i, j \in DOMAIN reported' :
           reported'[i].pair = reported'[j].pair => i = j
    BY <1>12, <1>15, <1>16, <2>1 DEF IInv, ReportedOnce
  <2>3. \A i \in DOMAIN reported' : reported'[i].pair \notin Filed'
    BY <1>11, <1>15, <1>16 DEF IInv, ReportedOnce
  <2>4. \A i \in DOMAIN reported' :
           reported'[i].request = pair'[reported'[i].pair].request
    BY <1>3, <1>8, <1>15, <1>16, <2>1 DEF IInv, ReportedOnce
  <2>5. QED
    BY <2>2, <2>3, <2>4 DEF ReportedOnce
<1>21. QED
  BY <1>7, <1>18, <1>19, <1>20 DEF IInv

LEMMA NextIInv == IInv /\ [Next]_vars => IInv'
<1> SUFFICES ASSUME IInv, [Next]_vars PROVE IInv'
  OBVIOUS
<1>1. CASE UNCHANGED vars
  BY <1>1 DEF vars, IInv, TypeOK, FiledAllocated, OneKeyPerPair, ReportedOnce,
     Filed, ReportedPairs, Allocated
<1>2. ASSUME NEW p \in Packets, HandlePDU(p) PROVE IInv'
  <2>1. CASE RecordRequest(p)
    BY <2>1, RecordRequestStep
  <2>2. CASE ExtendResponse(p)
    <3>1. ExtendedData(p) \in Seq(Bytes)
      BY <2>2, ExtendedDataType DEF ExtendResponse, IInv
    <3>2. crashed' \in BOOLEAN
      BY <2>2 DEF ExtendResponse, IInv, TypeOK
    <3>3. QED
      BY <2>2, <3>1, <3>2, FiledResponseStep DEF ExtendResponse
  <2>3. CASE CompleteResponse(p)
    BY <2>3, CompleteResponseStep
  <2>4. CASE RaiseRangeException(p)
    <3>1. pair[PairOf(p)].responseData \in Seq(Bytes)
      BY <2>4, KnownResponseType DEF RaiseRangeException, IInv
    <3>2. QED
      BY <2>4, <3>1, FiledResponseStep DEF RaiseRangeException
  <2>5. CASE IgnorePDU(p)
    BY <1>1, <2>5 DEF IgnorePDU
  <2>6. QED
    BY <1>2, <2>1, <2>2, <2>3, <2>4, <2>5 DEF HandlePDU
<1>3. QED
  BY <1>1, <1>2 DEF Next

\* The inductive invariant holds in every reachable state.
THEOREM InvariantHolds == Spec => []IInv
<1>1. QED
  BY InitIInv, NextIInv, PTL DEF Spec

(***************************************************************************)
(* The properties the runs check, for every value of the constants.        *)
(***************************************************************************)

\* Every operation keeps its variables well typed: in particular no offset,
\* wrapped or not, ever makes the data of a pair anything but bytes.
THEOREM TypeCorrect == Spec => []TypeOK
<1>1. IInv => TypeOK
  BY DEF IInv
<1>2. QED
  BY <1>1, InvariantHolds, PTL

\* No sequence of packets brings a pair under two keys of requestMap.
THEOREM KeysAreUnique == Spec => []OneKeyPerPair
<1>1. IInv => OneKeyPerPair
  BY DEF IInv
<1>2. QED
  BY <1>1, InvariantHolds, PTL

\* No sequence of packets reports a pair twice, or with another request than
\* its own: lost, repeated, reordered or colliding segments included.
THEOREM ReportsAreUnique == Spec => []ReportedOnce
<1>1. IInv => ReportedOnce
  BY DEF IInv
<1>2. QED
  BY <1>1, InvariantHolds, PTL

-----------------------------------------------------------------------------
(***************************************************************************)
(* A filed pair never holds a complete header.  Beside IInv the proof only *)
(* needs that a segment changes the data of one filed pair, the one it is  *)
(* looked up for.                                                          *)
(***************************************************************************)

\* What is filed after a segment of a known response was filed before it.
LEMMA FiledResponsePending ==
    ASSUME IInv, PendingIncomplete, NEW p \in Packets, IsKnownResponse(p),
           NEW data,
           pair' = ExtendedPair(p, data),
           Filed' \subseteq Filed,
           PairOf(p) \in Filed' => ~HeaderFinished(data)
    PROVE  PendingIncomplete'
<1>1. Filed \subseteq Pairs /\ PairOf(p) \in Pairs
  BY KnownResponseType DEF IInv, FiledAllocated, Allocated
<1>2. \A o \in Pairs : pair'[o].responseData =
         IF o = PairOf(p) THEN data ELSE pair[o].responseData
  BY <1>1 DEF ExtendedPair, IInv, TypeOK, PairType
<1>3. ASSUME NEW o \in Filed' PROVE ~HeaderFinished(pair'[o].responseData)
  <2>1. o \in Filed /\ o \in Pairs
    BY <1>1
  <2>2. CASE o = PairOf(p)
    BY <1>2, <2>1, <2>2
  <2>3. CASE o # PairOf(p)
    BY <1>2, <2>1, <2>3 DEF PendingIncomplete
  <2>4. QED
    BY <2>2, <2>3
<1>4. QED
  BY <1>3 DEF PendingIncomplete

LEMMA RecordRequestPending ==
    ASSUME IInv, PendingIncomplete, NEW p \in Packets, RecordRequest(p)
    PROVE  PendingIncomplete'
<1>1. PICK o \in Pairs \ Allocated :
          /\ pair' = [pair EXCEPT ![o] = NewPair(ParseHTTPRequest(p.payload))]
          /\ requestMap' = [requestMap EXCEPT ![p.ack] = o]
  BY DEF RecordRequest
<1>2. Filed' \subseteq Filed \cup {o}
  BY <1>1 DEF Filed, IInv, TypeOK
<1>3. Filed \subseteq Pairs /\ o \notin Filed
  BY <1>1 DEF IInv, FiledAllocated, Allocated
<1>4. \A q \in Filed : pair'[q] = pair[q]
  BY <1>1, <1>3 DEF IInv, TypeOK
<1>5. pair'[o].responseData = <<>>
  BY <1>1 DEF IInv, TypeOK, NewPair
<1>6. ~HeaderFinished(<<>>)
  BY DEF HeaderFinished
<1>7. ASSUME NEW q \in Filed' PROVE ~HeaderFinished(pair'[q].responseData)
  <2>1. CASE q = o
    BY <1>5, <1>6, <2>1
  <2>2. CASE q # o
    BY <1>2, <1>4, <2>2 DEF PendingIncomplete
  <2>3. QED
    BY <2>1, <2>2
<1>8. QED
  BY <1>7 DEF PendingIncomplete

LEMMA NextPending ==
    IInv /\ PendingIncomplete /\ [Next]_vars => PendingIncomplete'
<1> SUFFICES ASSUME IInv, PendingIncomplete, [Next]_vars
             PROVE  PendingIncomplete'
  OBVIOUS
<1>1. CASE UNCHANGED vars
  BY <1>1 DEF vars, PendingIncomplete, Filed
<1>2. ASSUME NEW p \in Packets, HandlePDU(p) PROVE PendingIncomplete'
  <2>1. CASE RecordRequest(p)
    BY <2>1, RecordRequestPending
  <2>2. CASE ExtendResponse(p)
    <3>1. /\ IsKnownResponse(p) /\ pair' = ExtendedPair(p, ExtendedData(p))
          /\ requestMap' = Rewritten(p) /\ ~HeaderFinished(ExtendedData(p))
      BY <2>2 DEF ExtendResponse, FinishesHeader
    <3>2. Filed' \subseteq Filed
      BY <3>1, RewrittenKeys DEF Filed
    <3>3. QED
      BY <3>1, <3>2, FiledResponsePending
  <2>3. CASE CompleteResponse(p)
    <3>1. /\ IsKnownResponse(p) /\ pair' = ExtendedPair(p, ExtendedData(p))
          /\ requestMap' = Retired(p) /\ TypeOK
      BY <2>3 DEF CompleteResponse, IInv
    <3>2. p.ack \in SeqNr
      BY <3>1, KnownResponseType
    <3>3. \A k \in SeqNr : requestMap'[k] =
             IF k = p.ack THEN NoPair ELSE Rewritten(p)[k]
      BY <3>1, <3>2, RewrittenType DEF Retired
    <3>4. Filed' \subseteq Filed \ {PairOf(p)}
      BY <3>1, <3>3, RewrittenKeys DEF Filed
    <3>5. QED
      BY <3>1, <3>4, FiledResponsePending
  <2>4. CASE RaiseRangeException(p)
    <3>1. /\ IsKnownResponse(p) /\ requestMap' = Rewritten(p)
          /\ pair' = ExtendedPair(p, pair[PairOf(p)].responseData)
      BY <2>4 DEF RaiseRangeException
    <3>2. Filed' \subseteq Filed
      BY <3>1, RewrittenKeys DEF Filed
    <3>3. PairOf(p) \in Filed' => ~HeaderFinished(pair[PairOf(p)].responseData)
      BY <3>2 DEF PendingIncomplete
    <3>4. QED
      BY <3>1, <3>2, <3>3, FiledResponsePending
  <2>5. CASE IgnorePDU(p)
    BY <1>1, <2>5 DEF IgnorePDU
  <2>6. QED
    BY <1>2, <2>1, <2>2, <2>3, <2>4, <2>5 DEF HandlePDU
<1>3. QED
  BY <1>1, <1>2 DEF Next

\* No pair that could be reported is ever left in requestMap: whichever segment
\* completes the header, at whatever offset it lands, the pair is reported.
THEOREM NothingCompleteIsLeft == Spec => []PendingIncomplete
<1>1. Init => PendingIncomplete
  BY DEF Init, PendingIncomplete, Filed
<1>2. QED
  BY <1>1, InvariantHolds, NextPending, PTL DEF Spec

-----------------------------------------------------------------------------
(***************************************************************************)
(* The operation implements an exchange tracker.                           *)
(***************************************************************************)
Stage == [o \in Pairs |-> StageOf(o)]

\* A step that changes neither what is filed, reported nor allocated stutters.
LEMMA StageUnchanged ==
    ASSUME Filed' = Filed, ReportedPairs' = ReportedPairs, Allocated' = Allocated
    PROVE  Stage' = Stage
  BY DEF Stage, StageOf

LEMMA InitRefines == Init => Tracker!Init
<1> SUFFICES ASSUME Init PROVE Stage = [o \in Pairs |-> "new"]
  BY DEF Tracker!Init, Stage
<1>1. Filed = {} /\ ReportedPairs = {} /\ Allocated = {}
  BY DEF Init, Filed, ReportedPairs, Allocated, NewPair
<1>2. QED
  BY <1>1 DEF Stage, StageOf

\* A request opens an exchange, in the place of the one its key led to.
LEMMA RecordRequestRefines ==
    ASSUME IInv, NEW p \in Packets, RecordRequest(p)
    PROVE  Tracker!Next
<1>1. PICK o \in Pairs \ Allocated :
          /\ pair' = [pair EXCEPT ![o] = NewPair(ParseHTTPRequest(p.payload))]
          /\ requestMap' = [requestMap EXCEPT ![p.ack] = o]
  BY DEF RecordRequest
<1> DEFINE d == requestMap[p.ack]
<1>2. p.ack \in SeqNr /\ TypeOK /\ o # NoPair /\ NoPair \notin Pairs
  BY SniffAssumption DEF Packets, IInv
<1>3. ParseHTTPRequest(p.payload) # NoRequest /\ reported' = reported
  BY DEF RecordRequest
<1>4. Allocated' = Allocated \cup {o}
  BY <1>1, <1>2, <1>3 DEF Allocated, NewPair, TypeOK
<1>5. ReportedPairs' = ReportedPairs
  BY <1>3 DEF ReportedPairs
<1>6. o \notin Filed /\ o \notin ReportedPairs
  BY <1>1 DEF IInv, FiledAllocated
<1>7. \A k \in SeqNr : requestMap'[k] = IF k = p.ack THEN o ELSE requestMap[k]
  BY <1>1, <1>2 DEF TypeOK
<1>8. Filed' = (Filed \ {d}) \cup {o}
  <2>1. \A k \in SeqNr : k # p.ack /\ requestMap[k] # NoPair => requestMap[k] # d
    BY <1>2 DEF IInv, OneKeyPerPair
  <2>2. QED
    BY <1>2, <1>7, <2>1 DEF Filed
<1>9. Stage[o] = "new"
  BY <1>1, <1>6 DEF Stage, StageOf
<1>10. CASE d = NoPair
  <2>1. Filed' = Filed \cup {o}
    BY <1>8, <1>10 DEF Filed
  <2>2. Stage' = [Stage EXCEPT ![o] = "pending"]
    BY <1>1, <1>4, <1>5, <1>6, <2>1 DEF Stage, StageOf
  <2>3. Tracker!Open(o)
    BY <1>9, <2>2 DEF Tracker!Open, Stage
  <2>4. QED
    BY <1>1, <2>3 DEF Tracker!Next
<1>11. CASE d # NoPair
  <2>1. d \in Pairs /\ d \in Filed
    BY <1>2, <1>11 DEF Filed, TypeOK
  <2>2. d \in Allocated /\ d \notin ReportedPairs /\ d # o
    BY <1>6, <2>1 DEF IInv, FiledAllocated, ReportedOnce, ReportedPairs
  <2>3. Stage[d] = "pending"
    BY <2>1, <2>2 DEF Stage, StageOf
  <2>4. Stage' = [Stage EXCEPT ![o] = "pending", ![d] = "lost"]
    BY <1>1, <1>4, <1>5, <1>6, <1>8, <2>1, <2>2 DEF Stage, StageOf
  <2>5. Tracker!Supersede(o, d)
    BY <1>9, <2>3, <2>4 DEF Tracker!Supersede, Stage
  <2>6. QED
    BY <1>1, <2>1, <2>5 DEF Tracker!Next
<1>12. QED
  BY <1>10, <1>11

\* The rewrite of a key loses no pair.
LEMMA RewrittenFiles ==
    ASSUME IInv, NEW p \in Packets, IsKnownResponse(p)
    PROVE  {Rewritten(p)[k] : k \in SeqNr} \ {NoPair} = Filed
<1>1. p.ack \in SeqNr /\ p.seq \in SeqNr /\ PairOf(p) \in Pairs
  BY KnownResponseType DEF IInv
<1>2. \A k \in SeqNr : Rewritten(p)[k] # NoPair => Rewritten(p)[k] \in Filed
  BY RewrittenKeys
<1>3. ASSUME NEW k \in SeqNr, requestMap[k] # NoPair
      PROVE  \E l \in SeqNr : Rewritten(p)[l] = requestMap[k]
  <2>1. CASE requestMap[k] = PairOf(p)
    BY <1>1, <2>1, RewrittenKeys
  <2>2. CASE requestMap[k] # PairOf(p)
    <3>1. Rewritten(p)[k] = requestMap[k]
      BY <1>1, <1>3, <2>2 DEF Rewritten, PairOf, KnownByAck, IInv, TypeOK
    <3>2. QED
      BY <3>1
  <2>3. QED
    BY <2>1, <2>2
<1>4. QED
  BY <1>2, <1>3 DEF Filed

\* A segment that is not reported changes the stage of no exchange.
LEMMA FiledResponseRefines ==
    ASSUME IInv, NEW p \in Packets, IsKnownResponse(p),
           NEW data \in Seq(Bytes),
           pair' = ExtendedPair(p, data),
           requestMap' = Rewritten(p),
           UNCHANGED reported
    PROVE  Stage' = Stage
<1>1. Filed' = Filed
  BY RewrittenFiles DEF Filed
<1>2. ReportedPairs' = ReportedPairs
  BY DEF ReportedPairs
<1>3. Allocated' = Allocated
  BY ExtendedPairType DEF Allocated, IInv
<1>4. QED
  BY <1>1, <1>2, <1>3, StageUnchanged

\* The segment that completes a header finishes its exchange.
LEMMA CompleteResponseRefines ==
    ASSUME IInv, NEW p \in Packets, CompleteResponse(p)
    PROVE  Tracker!Next
<1> DEFINE o == PairOf(p)
           report == [pair |-> o, request |-> pair[o].request,
                      response |-> ParseHTTPResponse(ExtendedData(p))]
<1>1. IsKnownResponse(p) /\ ~OffsetOutOfRange(p) /\ TypeOK
  BY DEF CompleteResponse, IInv
<1>2. /\ pair' = ExtendedPair(p, ExtendedData(p))
      /\ requestMap' = Retired(p)
      /\ reported' = IF HasReceiver THEN Append(reported, report) ELSE reported
  BY DEF CompleteResponse
<1>3. o \in Pairs /\ p.ack \in SeqNr
  BY <1>1, KnownResponseType
<1>4. o \in Filed /\ o \in Allocated /\ o \notin ReportedPairs
  <2>1. o \in Filed
    BY <1>1, KnownResponseType DEF PairOf, IsKnownResponse, Filed
  <2>2. QED
    BY <2>1 DEF IInv, FiledAllocated, ReportedOnce, ReportedPairs
<1>5. Stage[o] = "pending"
  BY <1>3, <1>4 DEF Stage, StageOf
<1>6. Allocated' = Allocated
  BY <1>1, <1>2, ExtendedPairType, ExtendedDataType DEF Allocated
<1>7. Filed' = Filed \ {o}
  <2>1. \A k \in SeqNr : requestMap'[k] =
           IF k = p.ack THEN NoPair ELSE Rewritten(p)[k]
    BY <1>1, <1>2, <1>3, RewrittenType DEF Retired
  <2>2. \A k \in SeqNr : Rewritten(p)[k] = o <=> k = p.ack
    BY <1>1, RewrittenKeys
  <2>3. {Rewritten(p)[k] : k \in SeqNr} \ {NoPair} = Filed
    BY <1>1, RewrittenFiles
  <2>4. QED
    BY <2>1, <2>2, <2>3 DEF Filed
<1>8. ReportedPairs' = IF HasReceiver THEN ReportedPairs \cup {o} ELSE ReportedPairs
  <2>1. report \in ReportType /\ report.pair = o
    BY <1>1, ReportedType DEF IInv, FiledAllocated
  <2>2. reported \in Seq(ReportType)
    BY <1>1 DEF TypeOK, ReportType
  <2> HIDE DEF report
  <2>3. CASE HasReceiver
    <3>1. /\ DOMAIN reported = 1 .. Len(reported) /\ Len(reported) \in Nat
          /\ DOMAIN reported' = 1 .. Len(reported) + 1
          /\ \A i \in 1 .. Len(reported) : reported'[i] = reported[i]
          /\ reported'[Len(reported) + 1] = report
      BY <1>2, <2>1, <2>2, <2>3, AppendProperties, LenProperties
    <3>2. \A i \in DOMAIN reported' :
             \/ i \in DOMAIN reported /\ reported'[i] = reported[i]
             \/ reported'[i] = report
      BY <3>1
    <3>3. \A i \in DOMAIN reported : i \in DOMAIN reported' /\ reported'[i] = reported[i]
      BY <3>1
    <3>4. \E i \in DOMAIN reported' : reported'[i] = report
      BY <3>1
    <3>5. QED
      BY <2>1, <2>3, <3>2, <3>3, <3>4 DEF ReportedPairs
  <2>4. CASE ~HasReceiver
    BY <1>2, <2>4 DEF ReportedPairs
  <2>5. QED
    BY <2>3, <2>4
<1>9. Stage' = [Stage EXCEPT ![o] = IF HasReceiver THEN "reported" ELSE "lost"]
  BY <1>3, <1>4, <1>6, <1>7, <1>8 DEF Stage, StageOf
<1>10. Tracker!Finish(o)
  BY <1>5, <1>9 DEF Tracker!Finish, Stage
<1>11. QED
  BY <1>3, <1>10 DEF Tracker!Next

LEMMA NextRefines == IInv /\ [Next]_vars => Tracker!Next \/ Stage' = Stage
<1> SUFFICES ASSUME IInv, [Next]_vars PROVE Tracker!Next \/ Stage' = Stage
  OBVIOUS
<1>1. CASE UNCHANGED vars
  BY <1>1, StageUnchanged DEF vars, Filed, ReportedPairs, Allocated
<1>2. ASSUME NEW p \in Packets, HandlePDU(p) PROVE Tracker!Next \/ Stage' = Stage
  <2>1. CASE RecordRequest(p)
    BY <2>1, RecordRequestRefines
  <2>2. CASE ExtendResponse(p)
    <3>1. ExtendedData(p) \in Seq(Bytes)
      BY <2>2, ExtendedDataType DEF ExtendResponse, IInv
    <3>2. QED
      BY <2>2, <3>1, FiledResponseRefines DEF ExtendResponse
  <2>3. CASE CompleteResponse(p)
    BY <2>3, CompleteResponseRefines
  <2>4. CASE RaiseRangeException(p)
    <3>1. pair[PairOf(p)].responseData \in Seq(Bytes)
      BY <2>4, KnownResponseType DEF RaiseRangeException, IInv
    <3>2. QED
      BY <2>4, <3>1, FiledResponseRefines DEF RaiseRangeException
  <2>5. CASE IgnorePDU(p)
    BY <1>1, <2>5 DEF IgnorePDU
  <2>6. QED
    BY <1>2, <2>1, <2>2, <2>3, <2>4, <2>5 DEF HandlePDU
<1>3. QED
  BY <1>1, <1>2 DEF Next

\* The operation implements an exchange tracker: an exchange is reported once,
\* from the pending stage, and is given up only when a request replaces it.
THEOREM ImplementsTracker == Spec => TrackerSpec
<1>1. IInv /\ [Next]_vars => [Tracker!Next]_([o \in Pairs |-> StageOf(o)])
  BY NextRefines DEF Stage
<1>2. QED
  BY <1>1, InitRefines, InitIInv, NextIInv, PTL
     DEF Spec, TrackerSpec, Tracker!Spec
=============================================================================
