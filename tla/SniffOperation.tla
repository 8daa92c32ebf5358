--------------------------- MODULE SniffOperation ---------------------------
(***************************************************************************)
(* One RHSniffOperation of HelperTool/RHSniffOperation.mm: the map from    *)
(* TCP sequence numbers to half-finished HTTP exchanges, and what          *)
(* _handlePDU does to it for one captured packet.                          *)
(*                                                                         *)
(* The packets are arbitrary here: any packet of Packets may come next, so *)
(* what holds of Spec holds whatever the network loses, repeats, reorders  *)
(* or interleaves.  Module TcpCapture feeds the same handler with the      *)
(* packets of real TCP connections.                                        *)
(***************************************************************************)
EXTENDS Integers, Sequences, FiniteSets

CONSTANTS
    SeqMod,    \* TCP sequence numbers are uint32_t: SeqMod stands for 2^32
    WordMod,   \* offsets are NSUInteger: WordMod stands for 2^64
    Hosts,     \* IP addresses
    LocalAddresses, \* the "inet4" and "inet6" addresses of the interface
    Pairs,     \* identities of RHHTTPRequestResponsePair objects
    NoPair,    \* nil, as the value of a key of requestMap
    Requests,  \* what _parseHTTPRequestWithData can return
    NoRequest, \* nil, as its result
    Bytes,     \* units of payload: the property-relevant chunks of bytes
    CRLF,      \* the units that are a line end "\r\n"
    Payloads,  \* the TCP payloads that can be captured
    HasReceiver, \* is the block didReceiveHTTPRequestResponse set?
    MaxData    \* bound: response data of a pair longer than this is not extended

ASSUME SniffAssumption ==
    /\ SeqMod \in Nat \ {0}
    /\ WordMod \in Nat /\ WordMod >= SeqMod
    /\ LocalAddresses \subseteq Hosts
    /\ NoPair \notin Pairs
    /\ NoRequest \notin Requests
    /\ Requests \subseteq Bytes
    /\ CRLF \subseteq Bytes
    /\ Payloads \subseteq Seq(Bytes)
    /\ HasReceiver \in BOOLEAN
    /\ MaxData \in Nat

SeqNr == 0 .. SeqMod - 1

\* The TCP flag combinations _handlePDU distinguishes; "data" is every other.
Flags == {"SYN", "SYN+ACK", "FIN", "data"}

Packets == [flags : Flags, src : Hosts, dst : Hosts,
            seq : SeqNr, ack : SeqNr, payload : Payloads]

PairType == [request : Requests \cup {NoRequest},
             responseData : Seq(Bytes),
             firstResponseDataSeq : SeqNr]

VARIABLES
    requestMap, \* sequence number -> pair, NoPair where the key is absent
    pair,       \* the fields of each pair object
    reported,   \* calls of didReceiveHTTPRequestResponse, in order
    crashed     \* an NSRangeException left _handlePDU: nothing catches it

vars == <<requestMap, pair, reported, crashed>>

NewPair(request) == [request |-> request, responseData |-> <<>>,
                     firstResponseDataSeq |-> 0]

Allocated == {o \in Pairs : pair[o].request # NoRequest}

-----------------------------------------------------------------------------
(***************************************************************************)
(* The helpers of _handlePDU.                                              *)
(***************************************************************************)
IpAddressIsSourceAddress(address) == address \in LocalAddresses

\* Empty lines in front of the first line are skipped.
FirstLine(payload) ==
    {i \in DOMAIN payload : /\ payload[i] \notin CRLF
                            /\ \A j \in 1 .. i - 1 : payload[j] \in CRLF}

\* A unit of Requests is a request line together with its Host header: the
\* parser returns nil for a segment whose first line is no such unit.
ParseHTTPRequest(payload) ==
    IF \E i \in FirstLine(payload) : payload[i] \in Requests
    THEN payload[CHOOSE i \in FirstLine(payload) : payload[i] \in Requests]
    ELSE NoRequest

BlankLineAt(data, i) == data[i] \in CRLF /\ data[i + 1] \in CRLF

HeaderFinished(data) == \E i \in 1 .. Len(data) - 1 : BlankLineAt(data, i)

\* Mutant: the parser does not stop at the blank line.
Mut_ParsesWholeData(data) == data

EmptyLineAt(data, i) ==
    data[i] \in CRLF /\ (i = 1 \/ data[i - 1] \in CRLF)

\* The parser stops at the first empty line: the units counted here are those
\* that no empty line precedes.
ParseHTTPResponse(data) ==
    LET header == {k \in 1 .. Len(data) :
                      \A j \in 1 .. k - 1 : ~EmptyLineAt(data, j)}
    IN  SubSeq(data, 1, Cardinality(header))

\* -[NSMutableData replaceBytesInRange:withBytes:length:]
ReplaceBytes(data, location, length, bytes) ==
    SubSeq(data, 1, location) \o bytes
        \o SubSeq(data, location + length + 1, Len(data))

\* maxDataLengthAfterOffset is the truth value of a comparison, 0 or 1, so the
\* new bytes replace at most one old byte and push the rest back.
RangeLength(data, offset, payload) ==
    IF (Len(data) - offset) % WordMod > Len(payload) THEN 1 ELSE 0

-----------------------------------------------------------------------------
IsRequestSegment(p) ==
    /\ p.flags = "data"
    /\ IpAddressIsSourceAddress(p.src)
    /\ p.payload # <<>>

IsResponseSegment(p) ==
    /\ p.flags = "data"
    /\ ~IpAddressIsSourceAddress(p.src)
    /\ IpAddressIsSourceAddress(p.dst)
    /\ p.payload # <<>>

\* The pair a response segment belongs to: looked up by acknowledgement number
\* and, failing that, by sequence number.
KnownByAck(p) == requestMap[p.ack] # NoPair

PairOf(p) == IF KnownByAck(p) THEN requestMap[p.ack] ELSE requestMap[p.seq]

\* Mutants of Rewritten: the old key is kept; the new key is forgotten; the new
\* key is the number the next segment of the response will have.
Mut_RewrittenKeepsOldKey(p) ==
    IF KnownByAck(p) THEN requestMap
    ELSE [requestMap EXCEPT ![p.ack] = PairOf(p)]

Mut_RewrittenForgetsNewKey(p) ==
    IF KnownByAck(p) THEN requestMap
    ELSE [requestMap EXCEPT ![p.seq] = NoPair]

Mut_RewrittenToNextSeq(p) ==
    [requestMap EXCEPT ![(p.seq + Len(p.payload)) % SeqMod] = PairOf(p),
                       ![p.seq] = NoPair]

\* The first response segment moves the pair from its sequence number to its
\* acknowledgement number, which the following segments share.
Rewritten(p) ==
    IF KnownByAck(p) THEN requestMap
    ELSE [requestMap EXCEPT ![p.ack] = PairOf(p), ![p.seq] = NoPair]

\* Mutants: the number after the segment's first byte, not wrapped; the number
\* of every segment, so that offsets are always zero.
Mut_FirstSeqAfter(p) ==
    IF KnownByAck(p) THEN pair[PairOf(p)].firstResponseDataSeq ELSE p.seq + 1

Mut_FirstSeqOfEverySegment(p) == p.seq

FirstSeq(p) ==
    IF KnownByAck(p) THEN pair[PairOf(p)].firstResponseDataSeq ELSE p.seq

NewDataOffset(p) == (p.seq - FirstSeq(p)) % WordMod

ExtendedData(p) ==
    LET data == pair[PairOf(p)].responseData
        offset == NewDataOffset(p)
    IN  ReplaceBytes(data, offset, RangeLength(data, offset, p.payload),
                     p.payload)

ExtendedPair(p, data) ==
    [pair EXCEPT ![PairOf(p)].responseData = data,
                 ![PairOf(p)].firstResponseDataSeq = FirstSeq(p)]

IsKnownResponse(p) == IsResponseSegment(p) /\ PairOf(p) # NoPair

\* Mutant: only the new segment is searched for the blank line.
Mut_FinishesHeaderInSegment(p) == HeaderFinished(p.payload)

\* The whole data is searched, so a blank line split by a segment is found.
FinishesHeader(p) == HeaderFinished(ExtendedData(p))

\* Mutant: the key removed is the sequence number.
Mut_RetiredBySeq(p) == [Rewritten(p) EXCEPT ![p.seq] = NoPair]

\* A reported pair's key is the acknowledgement number, found or rewritten.
Retired(p) == [Rewritten(p) EXCEPT ![p.ack] = NoPair]

OffsetOutOfRange(p) == NewDataOffset(p) > Len(pair[PairOf(p)].responseData)

-----------------------------------------------------------------------------
(***************************************************************************)
(* _handlePDU, one action per path through it.                             *)
(***************************************************************************)

\* A request replaces whatever pair was filed under its acknowledgement number.
RecordRequest(p) ==
    /\ IsRequestSegment(p)
    /\ ParseHTTPRequest(p.payload) # NoRequest
    /\ \E o \in Pairs \ Allocated :
          /\ pair' = [pair EXCEPT ![o] = NewPair(ParseHTTPRequest(p.payload))]
          /\ requestMap' = [requestMap EXCEPT ![p.ack] = o]
    /\ UNCHANGED <<reported, crashed>>

\* A response segment that does not finish the header.
ExtendResponse(p) ==
    /\ IsKnownResponse(p)
    /\ ~OffsetOutOfRange(p)
    /\ Len(pair[PairOf(p)].responseData) + Len(p.payload) <= MaxData
    /\ ~FinishesHeader(p)
    /\ pair' = ExtendedPair(p, ExtendedData(p))
    /\ requestMap' = Rewritten(p)
    /\ UNCHANGED <<reported, crashed>>

\* The segment that finishes the header: the exchange is reported on the main
\* queue and its key removed.
CompleteResponse(p) ==
    /\ IsKnownResponse(p)
    /\ ~OffsetOutOfRange(p)
    /\ FinishesHeader(p)
    /\ pair' = ExtendedPair(p, ExtendedData(p))
    /\ reported' =
          IF HasReceiver
          THEN Append(reported,
                      [pair |-> PairOf(p),
                       request |-> pair[PairOf(p)].request,
                       response |-> ParseHTTPResponse(ExtendedData(p))])
          ELSE reported
    /\ requestMap' = Retired(p)
    /\ UNCHANGED crashed

\* A response segment that lies beyond the data received so far: the range is
\* out of bounds, the exception unwinds through handle and sniff_loop.
RaiseRangeException(p) ==
    /\ IsKnownResponse(p)
    /\ OffsetOutOfRange(p)
    /\ pair' = ExtendedPair(p, pair[PairOf(p)].responseData)
    /\ requestMap' = Rewritten(p)
    /\ crashed' = TRUE
    /\ UNCHANGED reported

\* Every packet that changes nothing: connection set-up, an empty payload,
\* other hosts' traffic, a request that does not parse, an unknown response.
IgnorePDU(p) ==
    /\ ~(IsRequestSegment(p) /\ ParseHTTPRequest(p.payload) # NoRequest)
    /\ ~IsKnownResponse(p)
    /\ UNCHANGED vars

HandlePDU(p) ==
    /\ ~crashed
    /\ \/ RecordRequest(p)
       \/ ExtendResponse(p)
       \/ CompleteResponse(p)
       \/ RaiseRangeException(p)
       \/ IgnorePDU(p)

-----------------------------------------------------------------------------
Init ==
    /\ requestMap = [k \in SeqNr |-> NoPair]
    /\ pair = [o \in Pairs |-> NewPair(NoRequest)]
    /\ reported = <<>>
    /\ crashed = FALSE

Next == \E p \in Packets : HandlePDU(p)

Spec == Init /\ [][Next]_vars

-----------------------------------------------------------------------------
TypeOK ==
    /\ requestMap \in [SeqNr -> Pairs \cup {NoPair}]
    /\ pair \in [Pairs -> PairType]
    /\ reported \in Seq([pair : Pairs, request : Requests,
                         response : Seq(Bytes)])
    /\ crashed \in BOOLEAN

Filed == {requestMap[k] : k \in SeqNr} \ {NoPair}

ReportedPairs == {reported[i].pair : i \in DOMAIN reported}

\* The rewrite of a key (set under the new number, remove the old one) never
\* leaves a pair under two keys, nor duplicates it, whatever packets arrive.
OneKeyPerPair ==
    \A k, l \in SeqNr :
        requestMap[k] = requestMap[l] /\ requestMap[k] # NoPair => k = l

\* A pair is handed to didReceiveHTTPRequestResponse at most once, with the
\* request it was created for, however often the network repeats a segment:
\* by the time of the call no key leads to the pair any more.
ReportedOnce ==
    /\ \A i, j \in DOMAIN reported :
          reported[i].pair = reported[j].pair => i = j
    /\ \A i \in DOMAIN reported :
          /\ reported[i].pair \notin Filed
          /\ reported[i].request = pair[reported[i].pair].request

\* While a pair waits for its header, its data holds no complete header: no
\* exchange that could be reported is left lying in the map.
PendingIncomplete ==
    \A o \in Filed : ~HeaderFinished(pair[o].responseData)

\* What keeps the three above: filed and reported pairs are real objects.
FiledAllocated ==
    /\ Filed \subseteq Allocated
    /\ ReportedPairs \subseteq Allocated

\* The operation is one implementation of an exchange tracker, in which a
\* pair is new, pending, and then either reported or lost for good.
StageOf(o) ==
    IF o \in ReportedPairs THEN "reported"
    ELSE IF o \in Filed THEN "pending"
    ELSE IF o \in Allocated THEN "lost"
    ELSE "new"

Tracker == INSTANCE ExchangeTracker WITH stage <- [o \in Pairs |-> StageOf(o)]

TrackerSpec == Tracker!Spec

=============================================================================
