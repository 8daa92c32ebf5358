-------------------------- MODULE TcpCaptureProofs --------------------------
(***************************************************************************)
(* Proofs about TcpCapture: an operation that is fed by TCP connections    *)
(* does what one that is fed with any packets does, so that everything     *)
(* proved of the latter holds of it, on any network.                       *)
(***************************************************************************)
EXTENDS TcpCapture, SniffOperationProofs

\* Sequence numbers wrap.
LEMMA Wrapped == \A n \in Nat : n % SeqMod \in SeqNr
  BY SniffAssumption DEF SeqNr

LEMMA Numbers ==
    ASSUME NEW c \in Conns
    PROVE  ClientISN[c] \in Nat /\ ServerISN[c] \in Nat
<1>1. ClientISN[c] \in SeqNr /\ ServerISN[c] \in SeqNr
  BY CaptureAssumption
<1>2. QED
  BY <1>1, SniffAssumption DEF SeqNr

LEMMA Lengths ==
    /\ RequestLen \in Nat \ {0} /\ ResponseLen \in Nat \ {0}
    /\ Exchanges \in Nat \ {0} /\ MaxSegment \in Nat \ {0}
  BY CaptureAssumption

LEMMA RequestIsPacket ==
    ASSUME NEW c \in Conns, NEW x \in 0 .. Exchanges - 1,
           NEW i \in 0 .. RequestLen - 1
    PROVE  RequestPacket(c, x, i) \in Packets
<1>1. /\ ClientISN[c] \in Nat /\ ServerISN[c] \in Nat
      /\ x \in Nat /\ i \in Nat /\ RequestLen \in Nat /\ ResponseLen \in Nat
  BY Numbers, Lengths
<1>2. x * RequestLen \in Nat /\ x * ResponseLen \in Nat
  BY <1>1
<1>3. /\ ClientISN[c] + x * RequestLen + i \in Nat
      /\ ServerISN[c] + x * ResponseLen \in Nat
  BY <1>1, <1>2
<1>4. /\ (ClientISN[c] + x * RequestLen + i) % SeqMod \in SeqNr
      /\ (ServerISN[c] + x * ResponseLen) % SeqMod \in SeqNr
  BY <1>3, Wrapped
<1>5. <<Unit(c, x, -i)>> \in Payloads /\ Client \in Hosts /\ Server \in Hosts
  BY PayloadAssumption, CaptureAssumption, SniffAssumption
<1>6. QED
  BY <1>4, <1>5 DEF RequestPacket, Packets, Flags

LEMMA SegmentIsPacket ==
    ASSUME NEW s \in Segments
    PROVE  SegmentPacket(s) \in Packets
<1>1. /\ s.conn \in Conns /\ s.exchange \in 0 .. Exchanges - 1
      /\ s.acked \in 0 .. RequestLen
      /\ s.from \in 0 .. ResponseLen /\ s.to \in 0 .. ResponseLen /\ s.from <= s.to
  BY DEF Segments
<1>2. /\ ClientISN[s.conn] \in Nat /\ ServerISN[s.conn] \in Nat
      /\ s.exchange \in Nat /\ s.from \in Nat /\ s.acked \in Nat
      /\ RequestLen \in Nat /\ ResponseLen \in Nat
  BY <1>1, Numbers, Lengths
<1>3. s.exchange * RequestLen \in Nat /\ s.exchange * ResponseLen \in Nat
  BY <1>2
<1>4. /\ ServerISN[s.conn] + s.exchange * ResponseLen + s.from \in Nat
      /\ ClientISN[s.conn] + s.exchange * RequestLen + s.acked \in Nat
  BY <1>2, <1>3
<1>5. /\ (ServerISN[s.conn] + s.exchange * ResponseLen + s.from) % SeqMod \in SeqNr
      /\ (ClientISN[s.conn] + s.exchange * RequestLen + s.acked) % SeqMod \in SeqNr
  BY <1>4, Wrapped
<1>6. SegmentPacket(s).payload \in Payloads
  BY <1>1, PayloadAssumption DEF SegmentPacket, PaddingOf
<1>7. Client \in Hosts /\ Server \in Hosts
  BY CaptureAssumption, SniffAssumption
<1>8. QED
  BY <1>5, <1>6, <1>7 DEF SegmentPacket, Packets, Flags

\* Every step of a capture is a packet that the operation handles, or passes it by.
LEMMA CaptureSniffs == NetTypes /\ [CaptureNext]_captureVars => [Next]_vars
<1> SUFFICES ASSUME NetTypes, [CaptureNext]_captureVars PROVE [Next]_vars
  OBVIOUS
<1>1. ASSUME NEW c \in Conns PROVE tcp[c] \in Connections
  BY DEF NetTypes
<1>2. ASSUME NEW p \in Packets, HandlePDU(p) PROVE Next
  BY <1>2 DEF Next
<1>3. CASE UNCHANGED captureVars
  BY <1>3 DEF captureVars
<1>4. ASSUME NEW c \in Conns, SendRequest(c) PROVE Next
  <2>1. /\ tcp[c].exchange \in 0 .. Exchanges - 1
        /\ tcp[c].requested \in 0 .. RequestLen - 1
    BY <1>1, <1>4, CaptureAssumption DEF SendRequest, Connections
  <2>2. QED
    BY <1>2, <1>4, <2>1, RequestIsPacket DEF SendRequest
<1>5. ASSUME NEW c \in Conns, ResendRequest(c) PROVE Next
  <2>1. tcp[c].exchange \in 0 .. Exchanges - 1 /\ 0 \in 0 .. RequestLen - 1
    BY <1>1, CaptureAssumption DEF Connections
  <2>2. QED
    BY <1>2, <1>5, <2>1, RequestIsPacket DEF ResendRequest
<1>6. ASSUME NEW c \in Conns, NextExchange(c) \/ Acknowledge(c) \/ SendSegment(c)
      PROVE  UNCHANGED vars
  BY <1>6 DEF NextExchange, Acknowledge, SendSegment
<1>7. ASSUME NEW s \in net, Arrive(s) \/ ArriveAndRepeat(s) PROVE Next
  BY <1>2, <1>7, SegmentIsPacket DEF Arrive, ArriveAndRepeat, NetTypes
<1>8. ASSUME NEW s \in net, ArriveUncaptured(s) PROVE UNCHANGED vars
  BY <1>8 DEF ArriveUncaptured
<1>9. QED
  BY <1>3, <1>4, <1>5, <1>6, <1>7, <1>8 DEF CaptureNext

-----------------------------------------------------------------------------
(***************************************************************************)
(* The connections, their segments and the budgets keep their types.       *)
(***************************************************************************)
LEMMA InitNet == CaptureInit => NetTypes
<1> SUFFICES ASSUME CaptureInit PROVE NetTypes
  OBVIOUS
<1>1. /\ 0 \in 0 .. Exchanges - 1 /\ 0 \in 0 .. RequestLen
      /\ 0 \in 0 .. ResponseLen
  BY Lengths
<1>2. tcp \in [Conns -> Connections]
  BY <1>1 DEF CaptureInit, Connections
<1>3. budget \in Budgets
  BY CaptureAssumption DEF CaptureInit, Budgets
<1>4. QED
  BY <1>2, <1>3 DEF CaptureInit, NetTypes

LEMMA SendRequestNet ==
    ASSUME NetTypes, NEW c \in Conns, SendRequest(c)
    PROVE  NetTypes'
<1>1. tcp[c] \in Connections
  BY DEF NetTypes
<1>2. tcp[c].requested + 1 \in 0 .. RequestLen
  BY <1>1, Lengths DEF SendRequest, Connections
<1>3. [tcp[c] EXCEPT !.requested = @ + 1] \in Connections
  BY <1>1, <1>2 DEF Connections
<1>4. tcp' = [tcp EXCEPT ![c] = [tcp[c] EXCEPT !.requested = @ + 1]]
  BY DEF SendRequest
<1>5. tcp' \in [Conns -> Connections]
  BY <1>3, <1>4 DEF NetTypes
<1>6. QED
  BY <1>5 DEF SendRequest, NetTypes

\* Spending from a budget leaves a budget.
LEMMA Spent ==
    ASSUME budget \in Budgets
    PROVE  /\ budget.resends > 0 => [budget EXCEPT !.resends = @ - 1] \in Budgets
           /\ budget.repeats > 0 => [budget EXCEPT !.repeats = @ - 1] \in Budgets
           /\ budget.drops > 0 => [budget EXCEPT !.drops = @ - 1] \in Budgets
<1>1. /\ budget.resends \in 0 .. Resends /\ budget.repeats \in 0 .. Repeats
      /\ budget.drops \in 0 .. Drops
      /\ Resends \in Nat /\ Repeats \in Nat /\ Drops \in Nat
  BY CaptureAssumption DEF Budgets
<1>2. /\ budget.resends > 0 => budget.resends - 1 \in 0 .. Resends
      /\ budget.repeats > 0 => budget.repeats - 1 \in 0 .. Repeats
      /\ budget.drops > 0 => budget.drops - 1 \in 0 .. Drops
  BY <1>1
<1>3. QED
  BY <1>2 DEF Budgets

LEMMA ResendRequestNet ==
    ASSUME NetTypes, NEW c \in Conns, ResendRequest(c)
    PROVE  NetTypes'
<1>1. budget' \in Budgets
  BY Spent DEF NetTypes, ResendRequest
<1>2. QED
  BY <1>1 DEF NetTypes, ResendRequest

LEMMA NextExchangeNet ==
    ASSUME NetTypes, NEW c \in Conns, NextExchange(c)
    PROVE  NetTypes'
<1>1. tcp[c] \in Connections
  BY DEF NetTypes
<1>2. /\ tcp[c].exchange + 1 \in 0 .. Exchanges - 1
      /\ 0 \in 0 .. RequestLen /\ 0 \in 0 .. ResponseLen
  BY <1>1, Lengths DEF NextExchange, Connections
<1>3. [exchange |-> tcp[c].exchange + 1, requested |-> 0, acked |-> 0,
       sent |-> 0, arrived |-> {}, answered |-> FALSE] \in Connections
  BY <1>2 DEF Connections
<1>4. tcp' \in [Conns -> Connections]
  BY <1>3 DEF NextExchange, NetTypes
<1>5. QED
  BY <1>4 DEF NextExchange, NetTypes

LEMMA AcknowledgeNet ==
    ASSUME NetTypes, NEW c \in Conns, Acknowledge(c)
    PROVE  NetTypes'
<1>1. tcp[c] \in Connections
  BY DEF NetTypes
<1>2. /\ tcp[c].exchange \in 0 .. Exchanges - 1
      /\ tcp[c].requested \in 0 .. RequestLen /\ 0 \in 0 .. ResponseLen
  BY <1>1, Lengths DEF Connections
<1>3. [conn |-> c, exchange |-> tcp[c].exchange, acked |-> tcp[c].requested,
       from |-> 0, to |-> 0] \in Segments
  BY <1>2 DEF Segments
<1>4. [tcp[c] EXCEPT !.acked = tcp[c].requested] \in Connections
  BY <1>1, <1>2 DEF Connections
<1>5. tcp' = [tcp EXCEPT ![c] = [tcp[c] EXCEPT !.acked = tcp[c].requested]]
  BY DEF Acknowledge
<1>6. tcp' \in [Conns -> Connections]
  BY <1>4, <1>5 DEF NetTypes
<1>7. net' \subseteq Segments
  BY <1>3 DEF NetTypes, Acknowledge
<1>8. QED
  BY <1>6, <1>7 DEF NetTypes, Acknowledge

LEMMA SendSegmentNet ==
    ASSUME NetTypes, NEW c \in Conns, SendSegment(c)
    PROVE  NetTypes'
<1>1. tcp[c] \in Connections
  BY DEF NetTypes
<1>2. PICK to \in tcp[c].sent + 1 .. tcp[c].sent + MaxSegment :
          /\ to <= ResponseLen
          /\ net' = net \cup {[conn |-> c, exchange |-> tcp[c].exchange,
                               acked |-> RequestLen,
                               from |-> tcp[c].sent, to |-> to]}
          /\ tcp' = [tcp EXCEPT ![c].sent = to, ![c].acked = RequestLen]
  BY DEF SendSegment
<1>3. /\ tcp[c].exchange \in 0 .. Exchanges - 1
      /\ tcp[c].sent \in 0 .. ResponseLen
  BY <1>1 DEF Connections
<1>4. /\ to \in 0 .. ResponseLen /\ tcp[c].sent <= to
      /\ RequestLen \in 0 .. RequestLen
  BY <1>2, <1>3, Lengths
<1>5. [conn |-> c, exchange |-> tcp[c].exchange, acked |-> RequestLen,
       from |-> tcp[c].sent, to |-> to] \in Segments
  BY <1>3, <1>4 DEF Segments
<1>6. [tcp[c] EXCEPT !.sent = to, !.acked = RequestLen] \in Connections
  BY <1>1, <1>4 DEF Connections
<1>7. tcp' = [tcp EXCEPT ![c] = [tcp[c] EXCEPT !.sent = to, !.acked = RequestLen]]
  BY <1>2, <1>6 DEF NetTypes
<1>8. tcp' \in [Conns -> Connections]
  BY <1>6, <1>7 DEF NetTypes
<1>9. net' \subseteq Segments
  BY <1>2, <1>5 DEF NetTypes
<1>10. QED
  BY <1>8, <1>9 DEF NetTypes, SendSegment

LEMMA ReceivedType ==
    ASSUME NetTypes, NEW s \in net
    PROVE  Received(s) \in [Conns -> Connections]
<1> DEFINE c == s.conn
           got == [tcp[c] EXCEPT !.arrived = @ \cup s.from + 1 .. s.to,
                                 !.answered = TRUE]
<1>1. /\ s \in Segments /\ c \in Conns
      /\ s.from \in 0 .. ResponseLen /\ s.to \in 0 .. ResponseLen
  BY DEF NetTypes, Segments
<1>2. tcp[c] \in Connections
  BY <1>1 DEF NetTypes
<1>3. s.from + 1 .. s.to \subseteq 1 .. ResponseLen
  BY <1>1, Lengths
<1>4. got \in Connections
  BY <1>2, <1>3 DEF Connections
<1>5. [tcp EXCEPT ![c] = got] \in [Conns -> Connections]
  BY <1>4 DEF NetTypes
<1>6. Received(s) = tcp \/ Received(s) = [tcp EXCEPT ![c] = got]
  BY <1>1 DEF Received, NetTypes
<1>7. QED
  BY <1>5, <1>6 DEF NetTypes

LEMMA ArrivalNet ==
    ASSUME NetTypes, NEW s \in net,
           Arrive(s) \/ ArriveAndRepeat(s) \/ ArriveUncaptured(s)
    PROVE  NetTypes'
<1>1. tcp' \in [Conns -> Connections]
  BY ReceivedType DEF Arrive, ArriveAndRepeat, ArriveUncaptured
<1>2. net' \subseteq Segments
  BY DEF NetTypes, Arrive, ArriveAndRepeat, ArriveUncaptured
<1>3. budget' \in Budgets
  BY Spent DEF NetTypes, Arrive, ArriveAndRepeat, ArriveUncaptured
<1>4. QED
  BY <1>1, <1>2, <1>3 DEF NetTypes

LEMMA NextNet == NetTypes /\ [CaptureNext]_captureVars => NetTypes'
<1> SUFFICES ASSUME NetTypes, [CaptureNext]_captureVars PROVE NetTypes'
  OBVIOUS
<1>1. CASE UNCHANGED captureVars
  BY <1>1 DEF captureVars, NetTypes
<1>2. ASSUME NEW c \in Conns, SendRequest(c) PROVE NetTypes'
  BY <1>2, SendRequestNet
<1>3. ASSUME NEW c \in Conns, ResendRequest(c) PROVE NetTypes'
  BY <1>3, ResendRequestNet
<1>4. ASSUME NEW c \in Conns, NextExchange(c) PROVE NetTypes'
  BY <1>4, NextExchangeNet
<1>5. ASSUME NEW c \in Conns, Acknowledge(c) PROVE NetTypes'
  BY <1>5, AcknowledgeNet
<1>6. ASSUME NEW c \in Conns, SendSegment(c) PROVE NetTypes'
  BY <1>6, SendSegmentNet
<1>7. ASSUME NEW s \in net,
             Arrive(s) \/ ArriveAndRepeat(s) \/ ArriveUncaptured(s)
      PROVE  NetTypes'
  BY <1>7, ArrivalNet
<1>8. QED
  BY <1>1, <1>2, <1>3, <1>4, <1>5, <1>6, <1>7 DEF CaptureNext

-----------------------------------------------------------------------------
(***************************************************************************)
(* The theorems.                                                           *)
(***************************************************************************)
\* Whatever connections and network do, the operation sees nothing but packets
\* it may be fed with, so that a capture is a behaviour of SniffOperation and
\* its theorems apply: in no capture does _handlePDU: file a pair under two
\* keys, report one twice or keep one whose header is complete.
THEOREM CaptureImplementsSniff == CaptureSpec => Spec
<1>1. CaptureInit => Init /\ NetTypes
  BY InitNet DEF CaptureInit
<1>2. NetTypes /\ [CaptureNext]_captureVars => [Next]_vars /\ NetTypes'
  BY CaptureSniffs, NextNet
<1>3. QED
  BY <1>1, <1>2, PTL DEF CaptureSpec, Spec

-----------------------------------------------------------------------------
(***************************************************************************)
(* Whose answer a pair holds.  On any network, while numbers stay apart    *)
(* and nothing pads a segment, a filed pair either waits under the number  *)
(* its request acknowledges and is empty, or is found under the number     *)
(* that acknowledges its request and holds units of the answer to it,      *)
(* beginning with the first.                                               *)
(***************************************************************************)
Answers(data, c, x) ==
    /\ data # <<>> /\ data[1] = Unit(c, x, 1)
    /\ \A j \in DOMAIN data : \E i \in 1 .. ResponseLen : data[j] = Unit(c, x, i)

Started(k, o, c, x) ==
    /\ k = StartKey(c, x)
    /\ pair[o].request = RequestOf(c, x)
    /\ pair[o].responseData = <<>>

Continued(k, o, c, x) ==
    /\ k = EndKey(c, x)
    /\ pair[o].request = RequestOf(c, x)
    /\ pair[o].firstResponseDataSeq = StartKey(c, x)
    /\ Answers(pair[o].responseData, c, x)

FiledAnswers ==
    \A k \in SeqNr : requestMap[k] # NoPair =>
        \E c \in Conns, x \in 0 .. Exchanges - 1 :
            Started(k, requestMap[k], c, x) \/ Continued(k, requestMap[k], c, x)

\* The server sends data once it has the whole request.
DataAcknowledgesAll == \A s \in net : s.from < s.to => s.acked = RequestLen

LEMMA KeyTypes ==
    ASSUME NEW c \in Conns, NEW x \in 0 .. Exchanges - 1, NEW i \in Nat
    PROVE  /\ SegmentNr(c, x, i) \in SeqNr /\ StartKey(c, x) \in SeqNr
           /\ EndKey(c, x) \in SeqNr
<1>1. /\ ClientISN[c] \in Nat /\ ServerISN[c] \in Nat /\ x \in Nat
      /\ RequestLen \in Nat /\ ResponseLen \in Nat
  BY Numbers, Lengths
<1>2. x * ResponseLen \in Nat /\ (x + 1) * RequestLen \in Nat
  BY <1>1
<1>3. /\ ServerISN[c] + x * ResponseLen + i \in Nat
      /\ ServerISN[c] + x * ResponseLen + 0 \in Nat
      /\ ClientISN[c] + (x + 1) * RequestLen \in Nat
  BY <1>1, <1>2
<1>4. QED
  BY <1>3, Wrapped DEF SegmentNr, StartKey, EndKey

Concatenable(a, b) == \E S : a \in Seq(S) /\ b \in Seq(S)

\* A segment's data, with the padding of its frame behind it.
LEMMA PaddedPayload ==
    ASSUME NEW s \in Segments, NEW q, q = SegmentPacket(s).payload,
           NEW d, d = SubSeq(ResponseOf(s.conn, s.exchange), s.from + 1, s.to)
    PROVE  /\ s.from = s.to => q = Padding
           /\ Padding = <<>> => q = d
           /\ q = d \/ q = d \o Padding
           /\ Concatenable(d, Padding)
<1>1. /\ s.from \in 0 .. ResponseLen /\ s.to \in 0 .. ResponseLen
      /\ ResponseLen \in Nat /\ ShortFrame \in Nat /\ Padding \in Seq(Bytes)
  BY Lengths, CaptureAssumption DEF Segments
<1>2. PICK R : R = ResponseOf(s.conn, s.exchange)
  OBVIOUS
<1>3. PICK S : S = Bytes \cup {R[i] : i \in 1 .. ResponseLen}
  OBVIOUS
<1>4. PICK from \in Nat, to \in Nat : from = s.from /\ to = s.to /\ to <= ResponseLen
  BY <1>1
<1>5. d = SubSeq(R, from + 1, to)
  BY <1>2, <1>4
<1>6. d \in Seq(S)
  <2>1. \A i \in from + 1 .. to : R[i] \in S
    BY <1>1, <1>3, <1>4
  <2>2. PICK lo \in Int, hi \in Int : lo = from + 1 /\ hi = to
    OBVIOUS
  <2>3. (\A i \in lo .. hi : R[i] \in S) /\ d = SubSeq(R, lo, hi)
    BY <1>5, <2>1, <2>2
  <2>4. SubSeq(R, lo, hi) \in Seq(S)
    BY <2>3, SubSeqProperties
  <2>5. QED
    BY <2>3, <2>4
<1>7. Padding \in Seq(S)
  BY <1>1, <1>3
<1>8. q = d \o PaddingOf(s)
  BY DEF SegmentPacket
<1>9. PaddingOf(s) = Padding \/ PaddingOf(s) = <<>>
  BY DEF PaddingOf
<1>10. d \o <<>> = d /\ <<>> \o Padding = Padding
  BY <1>6, <1>7, ConcatEmptySeq
<1>11. ASSUME s.from = s.to PROVE q = Padding
  <2>1. d = <<>>
    BY <1>4, <1>5, <1>11, SubSeqEmpty
  <2>2. to - from = 0 /\ 0 <= ShortFrame
    BY <1>1, <1>4, <1>11
  <2>3. PaddingOf(s) = Padding
    BY <1>4, <2>2 DEF PaddingOf
  <2>4. QED
    BY <1>8, <1>10, <2>1, <2>3
<1>12. Concatenable(d, Padding)
  BY <1>6, <1>7 DEF Concatenable
<1>13. QED
  BY <1>8, <1>9, <1>10, <1>11, <1>12

LEMMA SegmentPayload ==
    ASSUME NEW c \in Conns, NEW x \in 0 .. Exchanges - 1,
           NEW from \in 0 .. ResponseLen, NEW to \in 0 .. ResponseLen, from < to,
           NEW q, q = SubSeq(ResponseOf(c, x), from + 1, to)
    PROVE  /\ Len(q) = to - from /\ DOMAIN q = 1 .. to - from
           /\ \A j \in 1 .. to - from : q[j] = Unit(c, x, from + j)
<1>1. ResponseLen \in Nat /\ Len(ResponseOf(c, x)) = ResponseLen
  BY Lengths DEF ResponseOf
<1> DEFINE S == {Unit(c, x, i) : i \in 1 .. ResponseLen}
<1>2. ResponseOf(c, x) \in Seq(S)
  BY <1>1 DEF ResponseOf
<1>3. \A i \in from + 1 .. to : ResponseOf(c, x)[i] \in S
  BY <1>1 DEF ResponseOf
<1>4. /\ Len(q) = to - from
      /\ \A j \in 1 .. to - from : q[j] = ResponseOf(c, x)[from + j]
      /\ DOMAIN q = 1 .. to - from
  <2> HIDE DEF S
  <2>1. QED
    BY <1>1, <1>2, SubSeqProperties
<1>5. QED
  BY <1>1, <1>4 DEF ResponseOf

\* A captured segment that is looked at carries part of an answer.
LEMMA SegmentFacts ==
    ASSUME Padding = <<>>, NetTypes, DataAcknowledgesAll, NEW s \in net,
           NEW c, NEW x, NEW p, c = s.conn, x = s.exchange, p = SegmentPacket(s),
           IsResponseSegment(p)
    PROVE  /\ c \in Conns /\ x \in 0 .. Exchanges - 1 /\ p \in Packets
           /\ s.from \in 0 .. ResponseLen - 1 /\ s.to \in 0 .. ResponseLen
           /\ s.from < s.to
           /\ p.ack = EndKey(c, x) /\ p.seq = SegmentNr(c, x, s.from)
           /\ p.payload = SubSeq(ResponseOf(c, x), s.from + 1, s.to)
           /\ p.payload # <<>>
           /\ p.payload[1] = Unit(c, x, s.from + 1)
           /\ \A j \in DOMAIN p.payload :
                 \E i \in 1 .. ResponseLen : p.payload[j] = Unit(c, x, i)
<1>1. /\ s \in Segments /\ s.conn \in Conns /\ s.exchange \in 0 .. Exchanges - 1
      /\ s.from \in 0 .. ResponseLen /\ s.to \in 0 .. ResponseLen /\ s.from <= s.to
  BY DEF NetTypes, Segments
<1>2. /\ p.payload = SubSeq(ResponseOf(c, x), s.from + 1, s.to)
      /\ s.from = s.to => p.payload = <<>>
      /\ p.ack = (ClientISN[c] + x * RequestLen + s.acked) % SeqMod
      /\ p.seq = SegmentNr(c, x, s.from)
  <2>1. PICK q, d : q = SegmentPacket(s).payload
                    /\ d = SubSeq(ResponseOf(s.conn, s.exchange), s.from + 1, s.to)
    OBVIOUS
  <2>2. (s.from = s.to => q = Padding) /\ (Padding = <<>> => q = d)
    BY <1>1, <2>1, PaddedPayload
  <2>3. QED
    BY <2>1, <2>2 DEF SegmentPacket, SegmentNr
<1>3. s.from # s.to
  BY <1>2 DEF IsResponseSegment
<1>4. /\ s.from < s.to /\ ResponseLen \in Nat
      /\ p.payload = SubSeq(ResponseOf(c, x), s.from + 1, s.to)
  <2>1. p.payload = SubSeq(ResponseOf(c, x), s.from + 1, s.to)
    BY <1>2, <1>3
  <2>2. \A m, n \in Nat : m <= n /\ m # n => m < n
    OBVIOUS
  <2>3. s.from \in Nat /\ s.to \in Nat
    BY <1>1, Lengths
  <2>4. QED
    BY <1>1, <1>3, <2>1, <2>2, <2>3, Lengths
<1>5. /\ Len(p.payload) = s.to - s.from /\ DOMAIN p.payload = 1 .. s.to - s.from
      /\ \A j \in 1 .. s.to - s.from : p.payload[j] = Unit(c, x, s.from + j)
  <2>1. PICK from \in 0 .. ResponseLen, to \in 0 .. ResponseLen :
            from = s.from /\ to = s.to
    BY <1>1
  <2>2. PICK q : q = p.payload
    OBVIOUS
  <2>3. q = SubSeq(ResponseOf(c, x), from + 1, to) /\ from < to
    BY <1>4, <2>1, <2>2
  <2>4. c \in Conns /\ x \in 0 .. Exchanges - 1
    BY <1>1
  <2>5. /\ Len(q) = to - from /\ DOMAIN q = 1 .. to - from
        /\ \A j \in 1 .. to - from : q[j] = Unit(c, x, from + j)
    BY <2>3, <2>4, SegmentPayload
  <2>6. QED
    BY <2>1, <2>2, <2>5
<1>6. p.ack = EndKey(c, x)
  <2>1. s.acked = RequestLen
    BY <1>4 DEF DataAcknowledgesAll
  <2>2. ClientISN[c] \in Nat /\ x \in Nat /\ RequestLen \in Nat
    BY <1>1, Numbers, Lengths
  <2>3. ClientISN[c] + x * RequestLen + RequestLen = ClientISN[c] + (x + 1) * RequestLen
    BY <2>2
  <2>4. QED
    BY <1>2, <2>1, <2>3 DEF EndKey
<1>7. p \in Packets
  BY <1>1, SegmentIsPacket
<1>8. s.from \in 0 .. ResponseLen - 1
  BY <1>1, <1>4
<1>9. p.payload # <<>> /\ p.payload[1] = Unit(c, x, s.from + 1)
  <2>1. \A m, n \in Nat : m < n => 1 \in 1 .. n - m
    OBVIOUS
  <2>2. 1 \in 1 .. s.to - s.from
    BY <1>1, <1>4, <2>1
  <2>3. QED
    BY <1>5, <2>2 DEF IsResponseSegment
<1>10. \A j \in 1 .. s.to - s.from : s.from + j \in 1 .. ResponseLen
  <2>1. \A m, n, l \in Nat : m < n /\ n <= l =>
           \A j \in 1 .. n - m : m + j \in 1 .. l
    OBVIOUS
  <2>2. s.from \in Nat /\ s.to \in Nat /\ s.to <= ResponseLen
    BY <1>1, <1>4
  <2>3. QED
    BY <1>4, <2>1, <2>2
<1>11. QED
  BY <1>1, <1>2, <1>4, <1>5, <1>6, <1>7, <1>8, <1>9, <1>10

\* The pair it is looked up for is that of its own exchange.
LEMMA LookedUpRightly ==
    ASSUME NumbersApart, Padding = <<>>, TypeOK, NetTypes, DataAcknowledgesAll,
           FiledAnswers,
           NEW s \in net, NEW c, NEW x, NEW p,
           c = s.conn, x = s.exchange, p = SegmentPacket(s), IsKnownResponse(p)
    PROVE  /\ pair[PairOf(p)].request = RequestOf(c, x)
           /\ FirstSeq(p) = StartKey(c, x)
           /\ \/ Answers(pair[PairOf(p)].responseData, c, x)
              \/ pair[PairOf(p)].responseData = <<>> /\ s.from = 0
<1>1. /\ c \in Conns /\ x \in 0 .. Exchanges - 1 /\ p \in Packets
      /\ s.from \in 0 .. ResponseLen - 1
      /\ p.ack = EndKey(c, x) /\ p.seq = SegmentNr(c, x, s.from)
  BY SegmentFacts DEF IsKnownResponse
<1>2. p.ack \in SeqNr /\ p.seq \in SeqNr /\ PairOf(p) # NoPair
  BY <1>1, KnownResponseType DEF IsKnownResponse
<1>3. \A d \in Conns, y \in 0 .. Exchanges - 1 :
          /\ EndKey(c, x) # StartKey(d, y)
          /\ EndKey(c, x) = EndKey(d, y) => d = c /\ y = x
          /\ SegmentNr(c, x, s.from) # EndKey(d, y)
          /\ SegmentNr(c, x, s.from) = StartKey(d, y) => d = c /\ y = x /\ s.from = 0
  <2>1. 0 \in 0 .. ResponseLen - 1
    BY Lengths
  <2>2. QED
    BY <1>1, <2>1 DEF NumbersApart, StartKey
<1>4. CASE KnownByAck(p)
  <2>1. PairOf(p) = requestMap[p.ack] /\ requestMap[p.ack] # NoPair
    BY <1>4 DEF PairOf, KnownByAck
  <2>2. PICK d \in Conns, y \in 0 .. Exchanges - 1 :
           Started(p.ack, PairOf(p), d, y) \/ Continued(p.ack, PairOf(p), d, y)
    BY <1>2, <2>1 DEF FiledAnswers
  <2>3. ~Started(p.ack, PairOf(p), d, y)
    BY <1>1, <1>3 DEF Started
  <2>4. Continued(p.ack, PairOf(p), d, y) /\ d = c /\ y = x
    BY <1>1, <1>3, <2>2, <2>3 DEF Continued
  <2>5. FirstSeq(p) = pair[PairOf(p)].firstResponseDataSeq
    BY <1>4 DEF FirstSeq
  <2>6. QED
    BY <2>4, <2>5 DEF Continued
<1>5. CASE ~KnownByAck(p)
  <2>1. PairOf(p) = requestMap[p.seq] /\ requestMap[p.seq] # NoPair
    BY <1>2, <1>5 DEF PairOf
  <2>2. PICK d \in Conns, y \in 0 .. Exchanges - 1 :
           Started(p.seq, PairOf(p), d, y) \/ Continued(p.seq, PairOf(p), d, y)
    BY <1>2, <2>1 DEF FiledAnswers
  <2>3. ~Continued(p.seq, PairOf(p), d, y)
    BY <1>1, <1>3 DEF Continued
  <2>4. Started(p.seq, PairOf(p), d, y) /\ d = c /\ y = x /\ s.from = 0
    BY <1>1, <1>3, <2>2, <2>3 DEF Started
  <2>5. FirstSeq(p) = p.seq
    BY <1>5 DEF FirstSeq
  <2>6. QED
    BY <2>4, <2>5 DEF Started
<1>6. QED
  BY <1>4, <1>5

LEMMA Concatenation ==
    ASSUME NEW S, NEW a \in Seq(S), NEW b \in Seq(S)
    PROVE  /\ a \o b \in Seq(S) /\ Len(a \o b) = Len(a) + Len(b)
           /\ Len(a) \in Nat /\ Len(b) \in Nat
           /\ \A j \in 1 .. Len(a) : (a \o b)[j] = a[j]
           /\ \A j \in 1 .. Len(b) : (a \o b)[Len(a) + j] = b[j]
<1>1. /\ a \o b \in Seq(S) /\ Len(a \o b) = Len(a) + Len(b)
      /\ \A i \in 1 .. Len(a) + Len(b) :
            (a \o b)[i] = IF i <= Len(a) THEN a[i] ELSE b[i - Len(a)]
      /\ Len(a) \in Nat /\ Len(b) \in Nat
  BY ConcatProperties, LenProperties
<1>2. QED
  BY <1>1

\* Where new bytes go, and that what was behind them stays behind them.
Replaced(r, data, location, bytes) ==
    /\ DOMAIN r = 1 .. Len(r)
    /\ Len(r) \in Nat /\ location + Len(bytes) <= Len(r)
    /\ \A j \in 1 .. location : r[j] = data[j]
    /\ \A j \in 1 .. Len(bytes) : r[location + j] = bytes[j]
    /\ \A j \in location + Len(bytes) + 1 .. Len(r) :
          \E i \in location + 1 .. Len(data) : r[j] = data[i]

LEMMA ReplaceBytesAt ==
    ASSUME NEW S, NEW data \in Seq(S), NEW bytes \in Seq(S),
           NEW location \in 0 .. Len(data), NEW length \in Nat,
           NEW r, r = ReplaceBytes(data, location, length, bytes)
    PROVE  Replaced(r, data, location, bytes)
<1> DEFINE front == SubSeq(data, 1, location)
           n == location + length + 1
           back == SubSeq(data, n, Len(data))
           head == front \o bytes
<1>1. /\ Len(data) \in Nat /\ location \in Nat /\ location <= Len(data)
      /\ n \in Nat /\ n > 0 /\ n > location /\ Len(bytes) \in Nat
  BY LenProperties
<1>2. /\ front \in Seq(S) /\ Len(front) = location
      /\ \A j \in 1 .. location : front[j] = data[j]
  <2>1. \A i \in 1 .. location : data[i] \in S
    BY <1>1, ElementOfSeq
  <2>2. Len(front) = IF 1 <= location THEN location - 1 + 1 ELSE 0
    BY <1>1, <2>1, SubSeqProperties
  <2>3. QED
    BY <1>1, <2>1, <2>2, SubSeqProperties
<1> HIDE DEF n
<1>3. /\ back \in Seq(S) /\ Len(back) \in Nat
      /\ \A j \in 1 .. Len(back) :
            n + j - 1 \in location + 1 .. Len(data) /\ back[j] = data[n + j - 1]
  <2>1. \A i \in n .. Len(data) : data[i] \in S
    BY <1>1, ElementOfSeq
  <2>2. /\ Len(back) = IF n <= Len(data) THEN Len(data) - n + 1 ELSE 0
        /\ back \in Seq(S)
        /\ \A j \in 1 .. Len(data) - n + 1 : back[j] = data[n + j - 1]
    BY <1>1, <2>1, SubSeqProperties
  <2> HIDE DEF back
  <2>3. QED
    BY <1>1, <2>2
<1> HIDE DEF front, back
<1>4. /\ head \in Seq(S) /\ Len(head) = location + Len(bytes)
      /\ \A j \in 1 .. location : head[j] = data[j]
      /\ \A j \in 1 .. Len(bytes) : head[location + j] = bytes[j]
  <2>1. front \in Seq(S)
    BY <1>2
  <2>2. /\ head \in Seq(S) /\ Len(head) = Len(front) + Len(bytes)
        /\ \A j \in 1 .. Len(front) : head[j] = front[j]
        /\ \A j \in 1 .. Len(bytes) : head[Len(front) + j] = bytes[j]
    BY <2>1, Concatenation
  <2> HIDE DEF head
  <2>3. QED
    BY <1>2, <2>2
<1>5. r = head \o back
  BY DEF ReplaceBytes, front, back, n
<1> HIDE DEF head
<1>6. /\ r \in Seq(S) /\ Len(r) = Len(head) + Len(back)
      /\ \A j \in 1 .. Len(head) : r[j] = head[j]
      /\ \A j \in 1 .. Len(back) : r[Len(head) + j] = back[j]
  <2>1. head \in Seq(S) /\ back \in Seq(S)
    BY <1>3, <1>4
  <2>2. QED
    BY <1>5, <2>1, Concatenation
<1>7. ASSUME NEW j \in location + Len(bytes) + 1 .. Len(r)
      PROVE  \E i \in location + 1 .. Len(data) : r[j] = data[i]
  <2>1. PICK i \in 1 .. Len(back) : j = Len(head) + i
    <3>1. /\ j - Len(head) \in 1 .. Len(back)
          /\ j = Len(head) + (j - Len(head))
      BY <1>1, <1>3, <1>4, <1>6
    <3>2. QED
      BY <3>1
  <2>2. r[j] = data[n + i - 1] /\ n + i - 1 \in location + 1 .. Len(data)
    BY <1>3, <1>6, <2>1
  <2>3. QED
    BY <2>2
<1>8. /\ Len(r) \in Nat /\ location + Len(bytes) <= Len(r)
      /\ \A j \in 1 .. location : r[j] = data[j]
      /\ \A j \in 1 .. Len(bytes) : r[location + j] = bytes[j]
  <2>1. Len(r) = location + Len(bytes) + Len(back)
    BY <1>4, <1>6
  <2>2. \A j \in 1 .. location : j \in 1 .. Len(head)
    BY <1>1, <1>4
  <2>3. \A j \in 1 .. Len(bytes) : location + j \in 1 .. Len(head)
    BY <1>1, <1>4
  <2>4. QED
    BY <1>1, <1>3, <1>4, <1>6, <2>1, <2>2, <2>3
<1>9. DOMAIN r = 1 .. Len(r)
  BY <1>6, LenProperties
<1>10. QED
  BY <1>7, <1>8, <1>9 DEF Replaced

\* New bytes leave the first byte in its place, unless they go in front of it.
LEMMA ReplaceBytesElements ==
    ASSUME NEW S, NEW data \in Seq(S), NEW bytes \in Seq(S), bytes # <<>>,
           NEW location \in 0 .. Len(data), NEW length \in Nat,
           NEW r, r = ReplaceBytes(data, location, length, bytes)
    PROVE  /\ r # <<>>
           /\ r[1] = IF location = 0 THEN bytes[1] ELSE data[1]
           /\ \A j \in DOMAIN r : \/ \E i \in DOMAIN data : r[j] = data[i]
                                  \/ \E i \in DOMAIN bytes : r[j] = bytes[i]
<1>1. /\ Len(data) \in Nat /\ location \in Nat /\ location <= Len(data)
      /\ Len(bytes) \in Nat \ {0}
      /\ DOMAIN data = 1 .. Len(data) /\ DOMAIN bytes = 1 .. Len(bytes)
  BY EmptySeq, LenProperties
<1>2. /\ DOMAIN r = 1 .. Len(r)
      /\ Len(r) \in Nat /\ location + Len(bytes) <= Len(r)
      /\ \A j \in 1 .. location : r[j] = data[j]
      /\ \A j \in 1 .. Len(bytes) : r[location + j] = bytes[j]
      /\ \A j \in location + Len(bytes) + 1 .. Len(r) :
            \E i \in location + 1 .. Len(data) : r[j] = data[i]
  <2>1. Replaced(r, data, location, bytes)
    BY ReplaceBytesAt
  <2>2. QED
    BY <2>1 DEF Replaced
<1>3. r # <<>>
  <2>1. 1 \in DOMAIN r
    BY <1>1, <1>2
  <2>2. DOMAIN <<>> = {}
    OBVIOUS
  <2>3. QED
    BY <2>1, <2>2
<1>4. r[1] = IF location = 0 THEN bytes[1] ELSE data[1]
  BY <1>1, <1>2
<1>5. ASSUME NEW j \in DOMAIN r
      PROVE  \/ \E i \in DOMAIN data : r[j] = data[i]
             \/ \E i \in DOMAIN bytes : r[j] = bytes[i]
  <2>1. CASE j <= location
    BY <1>1, <1>2, <1>3, <2>1
  <2>2. CASE location < j /\ j <= location + Len(bytes)
    <3>1. j - location \in 1 .. Len(bytes) /\ j = location + (j - location)
      BY <1>1, <1>2, <2>2
    <3>2. QED
      BY <1>1, <1>2, <3>1
  <2>3. CASE location + Len(bytes) < j
    <3>1. j \in location + Len(bytes) + 1 .. Len(r)
      BY <1>1, <1>2, <2>3
    <3>2. location + 1 .. Len(data) \subseteq DOMAIN data
      BY <1>1
    <3>3. QED
      BY <1>2, <3>1, <3>2
  <2>4. QED
    BY <1>1, <1>2, <2>1, <2>2, <2>3
<1>6. QED
  BY <1>3, <1>4, <1>5

\* The parser returns the beginning of the data, the first unit included.
LEMMA ParsedBeginning ==
    ASSUME NEW S, NEW data \in Seq(S), data # <<>>,
           NEW r, r = ParseHTTPResponse(data)
    PROVE  /\ Len(r) \in 1 .. Len(data) /\ DOMAIN r = 1 .. Len(r)
           /\ \A j \in 1 .. Len(r) : r[j] = data[j]
<1> DEFINE header == {k \in 1 .. Len(data) :
                         \A j \in 1 .. k - 1 : ~EmptyLineAt(data, j)}
           n == Cardinality(header)
<1>1. Len(data) \in Nat \ {0}
  BY EmptySeq, LenProperties
<1>2. IsFiniteSet(1 .. Len(data)) /\ Cardinality(1 .. Len(data)) = Len(data)
  BY <1>1, FS_Interval
<1>3. IsFiniteSet(header) /\ n <= Len(data)
  <2>1. header \subseteq 1 .. Len(data)
    OBVIOUS
  <2> HIDE DEF header
  <2>2. QED
    BY <1>2, <2>1, FS_Subset
<1>4. n \in Nat /\ n # 0
  <2>1. 1 \in header
    BY <1>1
  <2> HIDE DEF header
  <2>2. QED
    BY <1>3, <2>1, FS_CardinalityType, FS_EmptySet
<1>5. n \in 1 .. Len(data)
  <2> HIDE DEF n
  <2>1. QED
    BY <1>1, <1>3, <1>4
<1>6. r = SubSeq(data, 1, n)
  BY DEF ParseHTTPResponse
<1> HIDE DEF n
<1>7. \A i \in 1 .. n : data[i] \in S
  BY <1>1, <1>5, ElementOfSeq
<1>8. r \in Seq(S) /\ Len(r) = n /\ \A j \in 1 .. n : r[j] = data[j]
  BY <1>5, <1>6, <1>7, SubSeqProperties
<1>9. QED
  BY <1>5, <1>8, LenProperties

\* Bytes of the same answer extend an answer to an answer.
LEMMA ExtendedAnswers ==
    ASSUME NumbersApart, Padding = <<>>, TypeOK, NetTypes, DataAcknowledgesAll,
           FiledAnswers,
           NEW s \in net, NEW c, NEW x, NEW p,
           c = s.conn, x = s.exchange, p = SegmentPacket(s), IsKnownResponse(p)
    PROVE  /\ OffsetOutOfRange(p) => Answers(pair[PairOf(p)].responseData, c, x)
           /\ ~OffsetOutOfRange(p) => Answers(ExtendedData(p), c, x)
<1> DEFINE data == pair[PairOf(p)].responseData
           offset == NewDataOffset(p)
           length == RangeLength(data, offset, p.payload)
<1>1. /\ c \in Conns /\ x \in 0 .. Exchanges - 1 /\ p \in Packets
      /\ s.from \in 0 .. ResponseLen - 1 /\ p.seq = SegmentNr(c, x, s.from)
      /\ p.payload # <<>> /\ p.payload[1] = Unit(c, x, s.from + 1)
      /\ \A j \in DOMAIN p.payload :
            \E i \in 1 .. ResponseLen : p.payload[j] = Unit(c, x, i)
  BY SegmentFacts DEF IsKnownResponse
<1>2. /\ p.seq \in SeqNr /\ p.payload \in Seq(Bytes) /\ data \in Seq(Bytes)
      /\ PairOf(p) \in Pairs
  BY <1>1, KnownResponseType
<1>3. /\ FirstSeq(p) = StartKey(c, x)
      /\ Answers(data, c, x) \/ (data = <<>> /\ s.from = 0)
  BY LookedUpRightly
<1>4. offset \in Nat /\ FirstSeq(p) \in SeqNr /\ Len(data) \in Nat
  BY <1>1, <1>2, NewDataOffsetType, LenProperties
\* Only the first segment lies at the beginning.
<1>5. offset = 0 => s.from = 0
  <2>1. /\ SeqMod \in Nat /\ WordMod \in Nat /\ WordMod >= SeqMod
        /\ p.seq \in Nat /\ FirstSeq(p) \in Nat
        /\ p.seq < SeqMod /\ FirstSeq(p) < SeqMod
    BY <1>2, <1>4, SniffAssumption DEF SeqNr
  <2>2. \A a, b, w \in Nat : a < w /\ b < w /\ (a - b) % w = 0 => a = b
    <3> SUFFICES ASSUME NEW a \in Nat, NEW b \in Nat, NEW w \in Nat,
                        a < w, b < w, (a - b) % w = 0
                 PROVE  a = b
      OBVIOUS
    <3>1. CASE a >= b
      <4>1. a - b \in Nat /\ a - b < w
        BY <3>1
      <4>2. QED
        BY <4>1
    <3>2. CASE a < b
      <4>1. a - b + w \in 1 .. w - 1
        BY <3>2
      <4>2. (a - b) % w = a - b + w
        BY <4>1
      <4>3. QED
        BY <4>1, <4>2
    <3>3. QED
      BY <3>1, <3>2
  <2>3. offset = 0 => p.seq = FirstSeq(p)
    <3>1. p.seq < WordMod /\ FirstSeq(p) < WordMod
      BY <2>1
    <3>2. QED
      BY <2>1, <2>2, <3>1 DEF NewDataOffset
  <2>4. SegmentNr(c, x, s.from) = StartKey(c, x) => s.from = 0
    BY <1>1 DEF NumbersApart
  <2>5. QED
    BY <1>1, <1>3, <2>3, <2>4
<1>6. CASE OffsetOutOfRange(p)
  <2>1. offset > Len(data)
    BY <1>6 DEF OffsetOutOfRange
  <2>2. ~(data = <<>> /\ s.from = 0)
    <3>1. SUFFICES ASSUME data = <<>>, s.from = 0 PROVE FALSE
      OBVIOUS
    <3>2. p.seq = FirstSeq(p)
      BY <1>1, <1>3, <3>1 DEF StartKey
    <3>3. p.seq - FirstSeq(p) = 0
      BY <1>2, <3>2, SniffAssumption DEF SeqNr
    <3>4. 0 % WordMod = 0
      BY SniffAssumption
    <3>5. offset = 0
      BY <3>3, <3>4 DEF NewDataOffset
    <3>6. QED
      BY <1>4, <2>1, <3>5
  <2>3. QED
    BY <1>3, <1>6, <2>2
<1>7. CASE ~OffsetOutOfRange(p)
  <2>1. offset \in 0 .. Len(data)
    BY <1>4, <1>7 DEF OffsetOutOfRange
  <2>2. length \in Nat
    BY DEF RangeLength
  <2>3. PICK r : r = ExtendedData(p)
    OBVIOUS
  <2>4. r = ReplaceBytes(data, offset, length, p.payload)
    BY <2>3 DEF ExtendedData
  <2>5. /\ r # <<>>
        /\ r[1] = IF offset = 0 THEN p.payload[1] ELSE data[1]
        /\ \A j \in DOMAIN r : \/ \E i \in DOMAIN data : r[j] = data[i]
                               \/ \E i \in DOMAIN p.payload : r[j] = p.payload[i]
    <3>1. /\ data \in Seq(Bytes) /\ p.payload \in Seq(Bytes)
          /\ p.payload # <<>>
      BY <1>1, <1>2
    <3> HIDE DEF data, offset, length
    <3>2. QED
      BY <2>1, <2>2, <2>4, <3>1, ReplaceBytesElements
  <2>6. \A j \in DOMAIN data : \E i \in 1 .. ResponseLen : data[j] = Unit(c, x, i)
    <3> HIDE DEF data
    <3>1. CASE data = <<>>
      BY <3>1
    <3>2. CASE Answers(data, c, x)
      BY <3>2 DEF Answers
    <3>3. QED
      BY <1>3, <3>1, <3>2
  <2>7. r[1] = Unit(c, x, 1)
    <3>1. CASE offset = 0
      BY <1>1, <1>5, <2>5, <3>1
    <3>2. CASE offset # 0
      <4>1. data # <<>>
        BY <2>1, <3>2
      <4>2. QED
        BY <1>3, <2>5, <3>2, <4>1 DEF Answers
    <3>3. QED
      BY <3>1, <3>2
  <2> HIDE DEF data
  <2>8. \A j \in DOMAIN r : \E i \in 1 .. ResponseLen : r[j] = Unit(c, x, i)
    BY <1>1, <2>5, <2>6
  <2>9. Answers(r, c, x)
    BY <2>5, <2>7, <2>8 DEF Answers
  <2>10. QED
    BY <1>7, <2>3, <2>9
<1>8. QED
  BY <1>6, <1>7

\* A response segment leaves only answers filed, wherever it moves its pair.
LEMMA ResponseFilesAnswers ==
    ASSUME NumbersApart, Padding = <<>>, IInv, NetTypes, DataAcknowledgesAll,
           FiledAnswers,
           NEW s \in net, NEW c, NEW x, NEW p,
           c = s.conn, x = s.exchange, p = SegmentPacket(s), IsKnownResponse(p),
           NEW data, Answers(data, c, x), pair' = ExtendedPair(p, data),
           \A k \in SeqNr : requestMap'[k] \in {NoPair, Rewritten(p)[k]}
    PROVE  FiledAnswers'
<1>1. /\ c \in Conns /\ x \in 0 .. Exchanges - 1 /\ p \in Packets
      /\ p.ack = EndKey(c, x)
  BY SegmentFacts DEF IsKnownResponse
<1>2. /\ pair[PairOf(p)].request = RequestOf(c, x)
      /\ FirstSeq(p) = StartKey(c, x)
  BY LookedUpRightly DEF IInv
<1>3. PairOf(p) \in Pairs /\ p.ack \in SeqNr /\ p.seq \in SeqNr
  BY <1>1, KnownResponseType DEF IInv
<1>4. /\ pair'[PairOf(p)].request = RequestOf(c, x)
      /\ pair'[PairOf(p)].responseData = data
      /\ pair'[PairOf(p)].firstResponseDataSeq = StartKey(c, x)
      /\ \A o \in Pairs \ {PairOf(p)} : pair'[o] = pair[o]
  BY <1>2, <1>3 DEF ExtendedPair, IInv, TypeOK, PairType
<1> SUFFICES ASSUME NEW k \in SeqNr, requestMap'[k] # NoPair
             PROVE  \E d \in Conns, y \in 0 .. Exchanges - 1 :
                       \/ Started(k, requestMap[k], d, y)'
                       \/ Continued(k, requestMap[k], d, y)'
  BY DEF FiledAnswers
<1>5. requestMap'[k] = Rewritten(p)[k]
  OBVIOUS
<1>6. CASE Rewritten(p)[k] = PairOf(p)
  <2>1. k = EndKey(c, x)
    BY <1>1, <1>6, RewrittenKeys
  <2>2. Continued(k, requestMap[k], c, x)'
    BY <1>4, <1>5, <1>6, <2>1 DEF Continued, Answers, StartKey, EndKey, SegmentNr
  <2>3. QED
    BY <1>1, <2>2
<1>7. CASE Rewritten(p)[k] # PairOf(p)
  <2>1. requestMap[k] = Rewritten(p)[k]
    BY <1>3, <1>5, <1>7 DEF Rewritten, IInv, TypeOK
  <2>2. requestMap'[k] = requestMap[k] /\ requestMap[k] \in Pairs \ {PairOf(p)}
    BY <1>5, <1>7, <2>1 DEF IInv, TypeOK
  <2>3. pair'[requestMap'[k]] = pair[requestMap[k]]
    BY <1>4, <2>2
  <2>4. PICK d \in Conns, y \in 0 .. Exchanges - 1 :
           Started(k, requestMap[k], d, y) \/ Continued(k, requestMap[k], d, y)
    BY <2>2 DEF FiledAnswers
  <2>5. Started(k, requestMap[k], d, y)' \/ Continued(k, requestMap[k], d, y)'
    <3>1. CASE Started(k, requestMap[k], d, y)
      BY <2>2, <2>3, <3>1 DEF Started
    <3>2. CASE Continued(k, requestMap[k], d, y)
      BY <2>2, <2>3, <3>2 DEF Continued
    <3>3. QED
      BY <2>4, <3>1, <3>2
  <2>6. QED
    BY <2>5
<1>8. QED
  BY <1>6, <1>7

\* Only the first segment of a request parses, and as the request.
LEMMA OnlyFirstParses ==
    ASSUME Requests \subseteq RequestLines,
           NEW c \in Conns, NEW x \in 0 .. Exchanges - 1,
           NEW i \in 0 .. RequestLen - 1,
           ParseHTTPRequest(<<Unit(c, x, -i)>>) # NoRequest
    PROVE  i = 0 /\ ParseHTTPRequest(<<Unit(c, x, -i)>>) = RequestOf(c, x)
<1> DEFINE q == <<Unit(c, x, -i)>>
<1>1. \E j \in FirstLine(q) : q[j] \in Requests
  BY DEF ParseHTTPRequest
<1>2. FirstLine(q) \subseteq {1}
  BY DEF FirstLine
<1>3. Unit(c, x, -i) \in Requests /\ FirstLine(q) = {1}
  BY <1>1, <1>2
<1>4. PICK d \in Conns, y \in 0 .. Exchanges - 1 : Unit(c, x, -i) = RequestOf(d, y)
  BY <1>3 DEF RequestLines
<1>5. -i = 0
  BY <1>4 DEF Unit, RequestOf
<1>6. i = 0
  BY <1>5, Lengths
<1>7. ParseHTTPRequest(q) = Unit(c, x, -i)
  BY <1>1, <1>3 DEF ParseHTTPRequest
<1>8. QED
  BY <1>5, <1>6, <1>7 DEF RequestOf

\* A request files an empty pair under the number it acknowledges.
LEMMA RequestFilesAnswers ==
    ASSUME Requests \subseteq RequestLines, IInv, FiledAnswers,
           NEW c \in Conns, NEW x \in 0 .. Exchanges - 1,
           NEW i \in 0 .. RequestLen - 1,
           NEW p, p = RequestPacket(c, x, i), RecordRequest(p)
    PROVE  FiledAnswers'
<1>1. PICK o \in Pairs \ Allocated :
          /\ pair' = [pair EXCEPT ![o] = NewPair(ParseHTTPRequest(p.payload))]
          /\ requestMap' = [requestMap EXCEPT ![p.ack] = o]
  BY DEF RecordRequest
<1>2. /\ p \in Packets /\ p.payload = <<Unit(c, x, -i)>>
      /\ p.ack = (ServerISN[c] + x * ResponseLen) % SeqMod
  BY RequestIsPacket DEF RequestPacket
<1>3. ParseHTTPRequest(p.payload) = RequestOf(c, x)
  BY <1>2, OnlyFirstParses DEF RecordRequest
<1>4. p.ack = StartKey(c, x) /\ p.ack \in SeqNr
  <2>1. ServerISN[c] \in Nat /\ x * ResponseLen \in Nat
    BY Numbers, Lengths
  <2>2. QED
    BY <1>2, <2>1 DEF StartKey, SegmentNr, Packets
<1>5. /\ pair'[o].request = RequestOf(c, x) /\ pair'[o].responseData = <<>>
      /\ \A q \in Pairs \ {o} : pair'[q] = pair[q]
  BY <1>1, <1>3 DEF IInv, TypeOK, NewPair
<1>6. requestMap'[p.ack] = o /\ \A k \in SeqNr \ {p.ack} : requestMap'[k] = requestMap[k]
  BY <1>1, <1>4 DEF IInv, TypeOK
<1> SUFFICES ASSUME NEW k \in SeqNr, requestMap'[k] # NoPair
             PROVE  \E d \in Conns, y \in 0 .. Exchanges - 1 :
                       \/ Started(k, requestMap[k], d, y)'
                       \/ Continued(k, requestMap[k], d, y)'
  BY DEF FiledAnswers
<1>7. CASE k = p.ack
  <2>1. Started(k, requestMap[k], c, x)'
    BY <1>4, <1>5, <1>6, <1>7 DEF Started
  <2>2. QED
    BY <2>1
<1>8. CASE k # p.ack
  <2>1. requestMap'[k] = requestMap[k] /\ requestMap[k] \in Pairs \ {o}
    <3>1. requestMap'[k] = requestMap[k] /\ requestMap[k] \in Pairs
      BY <1>6, <1>8 DEF IInv, TypeOK
    <3>2. requestMap[k] \in Filed
      BY <3>1 DEF Filed
    <3>3. QED
      BY <1>1, <3>1, <3>2 DEF IInv, FiledAllocated
  <2>2. pair'[requestMap'[k]] = pair[requestMap[k]]
    BY <1>5, <2>1
  <2>3. PICK d \in Conns, y \in 0 .. Exchanges - 1 :
           Started(k, requestMap[k], d, y) \/ Continued(k, requestMap[k], d, y)
    BY <2>1 DEF FiledAnswers
  <2>4. Started(k, requestMap[k], d, y)' \/ Continued(k, requestMap[k], d, y)'
    <3>1. CASE Started(k, requestMap[k], d, y)
      BY <2>1, <2>2, <3>1 DEF Started
    <3>2. CASE Continued(k, requestMap[k], d, y)
      BY <2>1, <2>2, <3>2 DEF Continued
    <3>3. QED
      BY <2>3, <3>1, <3>2
  <2>5. QED
    BY <2>4
<1>9. QED
  BY <1>7, <1>8

LEMMA NextAcknowledgesAll ==
    ASSUME NetTypes, DataAcknowledgesAll, [CaptureNext]_captureVars
    PROVE  DataAcknowledgesAll'
<1>1. CASE UNCHANGED captureVars
  BY <1>1 DEF captureVars, DataAcknowledgesAll
<1>2. ASSUME NEW c \in Conns, SendRequest(c) \/ ResendRequest(c) \/ NextExchange(c)
      PROVE  DataAcknowledgesAll'
  BY <1>2 DEF SendRequest, ResendRequest, NextExchange, DataAcknowledgesAll
<1>3. ASSUME NEW c \in Conns, Acknowledge(c) PROVE DataAcknowledgesAll'
  <2>1. PICK a : /\ a = [conn |-> c, exchange |-> tcp[c].exchange,
                         acked |-> tcp[c].requested, from |-> 0, to |-> 0]
                 /\ net' = net \cup {a}
    BY <1>3 DEF Acknowledge
  <2>2. ~(a.from < a.to)
    BY <2>1
  <2>3. QED
    BY <2>1, <2>2 DEF DataAcknowledgesAll
<1>4. ASSUME NEW c \in Conns, SendSegment(c) PROVE DataAcknowledgesAll'
  <2>1. PICK a : a.acked = RequestLen /\ net' = net \cup {a}
    BY <1>4 DEF SendSegment
  <2>2. QED
    BY <2>1 DEF DataAcknowledgesAll
<1>5. ASSUME NEW s \in net, Arrive(s) \/ ArriveAndRepeat(s) \/ ArriveUncaptured(s)
      PROVE  DataAcknowledgesAll'
  BY <1>5 DEF Arrive, ArriveAndRepeat, ArriveUncaptured, DataAcknowledgesAll
<1>6. QED
  BY <1>1, <1>2, <1>3, <1>4, <1>5 DEF CaptureNext

\* What the interface sees of the connections: a request, or a segment of net.
LEMMA CapturedPackets ==
    ASSUME NetTypes, [CaptureNext]_captureVars
    PROVE  \/ UNCHANGED vars
           \/ \E c \in Conns, i \in 0 .. RequestLen - 1 :
                 HandlePDU(RequestPacket(c, tcp[c].exchange, i))
           \/ \E s \in net : HandlePDU(SegmentPacket(s))
<1>1. ASSUME NEW c \in Conns, SendRequest(c)
      PROVE  \E i \in 0 .. RequestLen - 1 :
                HandlePDU(RequestPacket(c, tcp[c].exchange, i))
  <2>1. tcp[c] \in Connections
    BY DEF NetTypes
  <2>2. tcp[c].requested \in 0 .. RequestLen - 1
    BY <1>1, <2>1, Lengths DEF SendRequest, Connections
  <2>3. QED
    BY <1>1, <2>2 DEF SendRequest
<1>2. ASSUME NEW c \in Conns, ResendRequest(c)
      PROVE  HandlePDU(RequestPacket(c, tcp[c].exchange, 0))
  BY <1>2 DEF ResendRequest
<1>3. 0 \in 0 .. RequestLen - 1
  BY Lengths
<1>4. ASSUME NEW c \in Conns, NextExchange(c) \/ Acknowledge(c) \/ SendSegment(c)
      PROVE  UNCHANGED vars
  BY <1>4 DEF NextExchange, Acknowledge, SendSegment
<1>5. ASSUME NEW s \in net, Arrive(s) \/ ArriveAndRepeat(s) \/ ArriveUncaptured(s)
      PROVE  HandlePDU(SegmentPacket(s)) \/ UNCHANGED vars
  BY <1>5 DEF Arrive, ArriveAndRepeat, ArriveUncaptured
<1>6. UNCHANGED captureVars => UNCHANGED vars
  BY DEF captureVars
<1>7. QED
  BY <1>1, <1>2, <1>3, <1>4, <1>5, <1>6 DEF CaptureNext

\* The two paths of the handler on which a request or a response counts.
LEMMA SegmentIsNoRequest ==
    ASSUME NEW s \in Segments
    PROVE  ~IsRequestSegment(SegmentPacket(s))
  BY CaptureAssumption
     DEF SegmentPacket, IsRequestSegment, IpAddressIsSourceAddress

LEMMA RequestIsNoResponse ==
    ASSUME NEW c \in Conns, NEW x, NEW i
    PROVE  ~IsResponseSegment(RequestPacket(c, x, i))
  BY CaptureAssumption
     DEF RequestPacket, IsResponseSegment, IpAddressIsSourceAddress

AnswersInv ==
    IInv /\ NetTypes /\ DataAcknowledgesAll /\ FiledAnswers /\ AnswersItsRequest

LEMMA NextAnswers ==
    ASSUME NumbersApart, Requests \subseteq RequestLines, Padding = <<>>,
           AnswersInv, [CaptureNext]_captureVars
    PROVE  FiledAnswers' /\ AnswersItsRequest'
<1>1. IInv /\ NetTypes /\ DataAcknowledgesAll /\ FiledAnswers /\ AnswersItsRequest
  BY DEF AnswersInv
<1>2. CASE UNCHANGED vars
  BY <1>1, <1>2 DEF vars, FiledAnswers, Started, Continued, AnswersItsRequest
<1>3. ASSUME NEW c \in Conns, NEW i \in 0 .. RequestLen - 1,
             HandlePDU(RequestPacket(c, tcp[c].exchange, i))
      PROVE  FiledAnswers' /\ AnswersItsRequest'
  <2>1. tcp[c].exchange \in 0 .. Exchanges - 1
    BY <1>1 DEF NetTypes, Connections
  <2>2. PICK p : p = RequestPacket(c, tcp[c].exchange, i)
    OBVIOUS
  <2>3. RecordRequest(p) \/ UNCHANGED vars
    BY <1>3, <2>2, RequestIsNoResponse
       DEF HandlePDU, ExtendResponse, CompleteResponse, RaiseRangeException,
           IgnorePDU, IsKnownResponse
  <2>4. CASE RecordRequest(p)
    <3>1. FiledAnswers'
      BY <1>1, <2>1, <2>2, <2>4, RequestFilesAnswers
    <3>2. reported' = reported
      BY <2>4 DEF RecordRequest
    <3>3. QED
      BY <1>1, <3>1, <3>2 DEF AnswersItsRequest
  <2>5. QED
    BY <1>2, <2>3, <2>4
<1>4. ASSUME NEW s \in net, HandlePDU(SegmentPacket(s))
      PROVE  FiledAnswers' /\ AnswersItsRequest'
  <2>1. PICK p, c, x : p = SegmentPacket(s) /\ c = s.conn /\ x = s.exchange
    OBVIOUS
  <2>2. /\ ~IsRequestSegment(p) /\ p \in Packets /\ c \in Conns
        /\ x \in 0 .. Exchanges - 1
    BY <1>1, <2>1, SegmentIsNoRequest, SegmentIsPacket DEF NetTypes, Segments
  <2>3. CASE ExtendResponse(p) \/ RaiseRangeException(p)
    <3>1. PICK data : Answers(data, c, x) /\ pair' = ExtendedPair(p, data)
      BY <1>1, <2>1, <2>3, ExtendedAnswers
         DEF ExtendResponse, RaiseRangeException, IInv
    <3>2. requestMap' = Rewritten(p) /\ reported' = reported /\ IsKnownResponse(p)
      BY <2>3 DEF ExtendResponse, RaiseRangeException
    <3>3. FiledAnswers'
      BY <1>1, <2>1, <3>1, <3>2, ResponseFilesAnswers
    <3>4. QED
      BY <1>1, <3>2, <3>3 DEF AnswersItsRequest
  <2>4. CASE CompleteResponse(p)
    <3>1. IsKnownResponse(p) /\ ~OffsetOutOfRange(p)
      BY <2>4 DEF CompleteResponse
    <3>2. PICK data : data = ExtendedData(p)
      OBVIOUS
    <3>3. /\ Answers(data, c, x)
          /\ pair[PairOf(p)].request = RequestOf(c, x)
      BY <1>1, <2>1, <3>1, <3>2, ExtendedAnswers, LookedUpRightly DEF IInv
    <3>4. /\ pair' = ExtendedPair(p, data) /\ requestMap' = Retired(p)
          /\ \/ reported' = reported
             \/ reported' = Append(reported,
                                   [pair |-> PairOf(p), request |-> RequestOf(c, x),
                                    response |-> ParseHTTPResponse(data)])
      BY <2>4, <3>2, <3>3 DEF CompleteResponse
    <3>5. \A k \in SeqNr : requestMap'[k] \in {NoPair, Rewritten(p)[k]}
      <4>1. Rewritten(p) \in [SeqNr -> Pairs \cup {NoPair}] /\ p.ack \in SeqNr
        BY <1>1, <2>2, <3>1, RewrittenType, KnownResponseType DEF IInv
      <4>2. QED
        BY <3>4, <4>1 DEF Retired
    <3>6. FiledAnswers'
      BY <1>1, <2>1, <3>1, <3>3, <3>4, <3>5, ResponseFilesAnswers
    <3>7. data \in Seq(Bytes)
      BY <1>1, <2>2, <3>1, <3>2, ExtendedDataType DEF IInv
    <3>8. PICK r : r = ParseHTTPResponse(data)
      OBVIOUS
    <3>9. Answers(r, c, x)
      <4>1. /\ Len(r) \in 1 .. Len(data) /\ DOMAIN r = 1 .. Len(r)
            /\ \A j \in 1 .. Len(r) : r[j] = data[j]
        BY <3>3, <3>7, <3>8, ParsedBeginning DEF Answers
      <4>2. Len(data) \in Nat /\ DOMAIN data = 1 .. Len(data)
        BY <3>7, LenProperties
      <4>3. 1 \in DOMAIN r /\ DOMAIN r \subseteq DOMAIN data
        BY <4>1, <4>2
      <4>4. r # <<>> /\ r[1] = Unit(c, x, 1)
        BY <3>3, <4>1, <4>3 DEF Answers
      <4>5. QED
        BY <3>3, <4>1, <4>3, <4>4 DEF Answers
    <3>10. AnswersItsRequest'
      <4>1. CASE reported' = reported
        BY <1>1, <4>1 DEF AnswersItsRequest
      <4>2. CASE reported' # reported
        <5>1. PICK e : /\ reported' = Append(reported, e)
                       /\ e.request = RequestOf(c, x) /\ e.response = r
          BY <3>4, <3>8, <4>2
        <5>2. /\ DOMAIN reported' = DOMAIN reported \cup {Len(reported) + 1}
              /\ reported'[Len(reported) + 1] = e
              /\ \A i \in DOMAIN reported : reported'[i] = reported[i]
          BY <1>1, <5>1 DEF IInv, TypeOK
        <5>3. ASSUME NEW i \in DOMAIN reported'
              PROVE  \E d \in Conns, y \in 0 .. Exchanges - 1 :
                        /\ reported'[i].request = RequestOf(d, y)
                        /\ reported'[i].response[1] = Unit(d, y, 1)
                        /\ \A j \in DOMAIN reported'[i].response :
                              \E k \in 1 .. ResponseLen :
                                 reported'[i].response[j] = Unit(d, y, k)
          <6>1. CASE i \in DOMAIN reported
            BY <1>1, <5>2, <6>1 DEF AnswersItsRequest
          <6>2. CASE i = Len(reported) + 1
            BY <2>2, <3>9, <5>1, <5>2, <6>2 DEF Answers
          <6>3. QED
            BY <5>2, <6>1, <6>2
        <5>4. QED
          BY <5>3 DEF AnswersItsRequest
      <4>3. QED
        BY <4>1, <4>2
    <3>11. QED
      BY <3>6, <3>10
  <2>5. CASE IgnorePDU(p)
    BY <1>2, <2>5 DEF IgnorePDU
  <2>6. QED
    BY <1>4, <2>1, <2>2, <2>3, <2>4, <2>5 DEF HandlePDU, RecordRequest
<1>5. QED
  BY <1>1, <1>2, <1>3, <1>4, CapturedPackets

\* On a network that reorders, repeats and loses what it likes, no exchange is
\* ever reported with a byte of another one's answer, nor with one that lacks its
\* beginning, while the numbers of the exchanges stay apart.
THEOREM AnswersItsRequestAlways ==
    ASSUME NumbersApart, Requests \subseteq RequestLines, Padding = <<>>
    PROVE  CaptureSpec => []AnswersItsRequest
<1>1. CaptureInit => AnswersInv
  <2> SUFFICES ASSUME CaptureInit PROVE AnswersInv
    OBVIOUS
  <2>1. IInv /\ NetTypes
    BY InitIInv, InitNet DEF CaptureInit
  <2>2. DataAcknowledgesAll /\ FiledAnswers /\ AnswersItsRequest
    BY DEF CaptureInit, Init, DataAcknowledgesAll, FiledAnswers, AnswersItsRequest
  <2>3. QED
    BY <2>1, <2>2 DEF AnswersInv
<1>2. AnswersInv /\ [CaptureNext]_captureVars => AnswersInv'
  <2> SUFFICES ASSUME AnswersInv, [CaptureNext]_captureVars PROVE AnswersInv'
    OBVIOUS
  <2>1. IInv' /\ NetTypes'
    BY CaptureSniffs, NextIInv, NextNet DEF AnswersInv
  <2>2. DataAcknowledgesAll'
    BY NextAcknowledgesAll DEF AnswersInv
  <2>3. QED
    BY <2>1, <2>2, NextAnswers DEF AnswersInv
<1>3. AnswersInv => AnswersItsRequest
  BY DEF AnswersInv
<1>4. QED
  BY <1>1, <1>2, <1>3, PTL DEF CaptureSpec

-----------------------------------------------------------------------------
(***************************************************************************)
(* An orderly network.  What a connection has on its way continues what    *)
(* has arrived, without gap or overlap, and belongs to the exchange it is  *)
(* in the middle of.                                                       *)
(***************************************************************************)
SegmentsOf(c) == {s \in net : s.conn = c}

\* Unit k has arrived last, or is the last of a segment on its way.
Reached(c, n, k) == k = n \/ \E t \in SegmentsOf(c) : t.from < t.to /\ t.to = k

Apart(s, t) == s.from < s.to /\ t.from < t.to => s = t \/ s.to <= t.from \/ t.to <= s.from

Continues(c, n, s) ==
    /\ s.exchange = tcp[c].exchange /\ tcp[c].requested > 0
    /\ n <= s.from /\ s.to <= tcp[c].sent
    /\ Reached(c, n, s.from)
    /\ s.from = s.to => s.from = 0
    /\ s.from < s.to \/ ~PartialAcks => s.acked = RequestLen
    /\ \A t \in SegmentsOf(c) : Apart(s, t)

Streams(c, n) ==
    /\ tcp[c].arrived = 1 .. n /\ n <= tcp[c].sent
    /\ tcp[c].sent > 0 => tcp[c].requested = RequestLen
    /\ n > 0 => tcp[c].answered
    /\ tcp[c].answered => tcp[c].requested > 0
    /\ Reached(c, n, tcp[c].sent)
    /\ \A s \in SegmentsOf(c) : Continues(c, n, s)

InOrder == \A c \in Conns : \E n \in 0 .. ResponseLen : Streams(c, n)

LEMMA SegmentsTyped ==
    ASSUME NetTypes, NEW c, NEW s \in SegmentsOf(c)
    PROVE  /\ s \in net /\ s.conn = c
           /\ s.exchange \in Nat /\ s.acked \in Nat /\ s.acked <= RequestLen
           /\ s.from \in Nat /\ s.to \in Nat /\ s.from <= s.to /\ s.to <= ResponseLen
           /\ s.to \in 0 .. ResponseLen
<1>1. s \in Segments /\ s \in net /\ s.conn = c
  BY DEF SegmentsOf, NetTypes
<1>2. /\ s.exchange \in 0 .. Exchanges - 1 /\ s.acked \in 0 .. RequestLen
      /\ s.from \in 0 .. ResponseLen /\ s.to \in 0 .. ResponseLen /\ s.from <= s.to
  BY <1>1 DEF Segments
<1>3. QED
  BY <1>1, <1>2, Lengths

LEMMA ConnectionTyped ==
    ASSUME NetTypes, NEW c \in Conns
    PROVE  /\ tcp[c] \in Connections
           /\ tcp[c].exchange \in 0 .. Exchanges - 1 /\ tcp[c].exchange \in Nat
           /\ tcp[c].requested \in Nat /\ tcp[c].requested <= RequestLen
           /\ tcp[c].acked \in Nat
           /\ tcp[c].sent \in Nat /\ tcp[c].sent <= ResponseLen
           /\ tcp[c].answered \in BOOLEAN
<1>1. tcp[c] \in Connections
  BY DEF NetTypes
<1>2. /\ tcp[c].exchange \in 0 .. Exchanges - 1
      /\ tcp[c].requested \in 0 .. RequestLen /\ tcp[c].acked \in 0 .. RequestLen
      /\ tcp[c].sent \in 0 .. ResponseLen /\ tcp[c].answered \in BOOLEAN
  BY <1>1 DEF Connections
<1>3. QED
  BY <1>1, <1>2, Lengths

\* A connection that an action leaves alone.
LEMMA StreamsKept ==
    ASSUME NEW d, NEW n, Streams(d, n),
           tcp'[d] = tcp[d], SegmentsOf(d)' = SegmentsOf(d)
    PROVE  Streams(d, n)'
  BY DEF Streams, Continues, Reached, Apart

LEMMA SendRequestInOrder ==
    ASSUME NetTypes, InOrder, NEW c \in Conns, SendRequest(c)
    PROVE  InOrder'
<1>1. /\ tcp' = [tcp EXCEPT ![c].requested = @ + 1]
      /\ net' = net /\ tcp[c].requested < RequestLen
  BY DEF SendRequest
<1>2. \A d \in Conns : SegmentsOf(d)' = SegmentsOf(d)
  BY <1>1 DEF SegmentsOf
<1>3. \A d \in Conns \ {c} : tcp'[d] = tcp[d]
  BY <1>1 DEF NetTypes
<1>4. PICK n \in 0 .. ResponseLen : Streams(c, n)
  BY DEF InOrder
<1>5. /\ tcp'[c].arrived = tcp[c].arrived /\ tcp'[c].sent = tcp[c].sent
      /\ tcp'[c].answered = tcp[c].answered /\ tcp'[c].exchange = tcp[c].exchange
      /\ tcp'[c].requested = tcp[c].requested + 1
  BY <1>1, ConnectionTyped DEF NetTypes, Connections
<1>6. tcp[c].sent = 0 /\ tcp'[c].requested > 0
  BY <1>1, <1>4, <1>5, ConnectionTyped, Lengths DEF Streams
<1>7. Reached(c, n, tcp[c].sent)' /\ \A s \in SegmentsOf(c) : Continues(c, n, s)'
  <2>1. \A k : Reached(c, n, k) => Reached(c, n, k)'
    BY <1>2 DEF Reached
  <2>2. Reached(c, n, tcp[c].sent)'
    BY <1>4, <1>5, <2>1 DEF Streams, Reached
  <2>3. ASSUME NEW s \in SegmentsOf(c) PROVE Continues(c, n, s)'
    <3>1. Continues(c, n, s)
      BY <1>4 DEF Streams
    <3>2. QED
      BY <1>2, <1>5, <1>6, <2>1, <3>1 DEF Continues, Apart
  <2>4. QED
    BY <2>2, <2>3
<1>8. Streams(c, n)'
  BY <1>2, <1>4, <1>5, <1>6, <1>7 DEF Streams
<1>9. QED
  BY <1>2, <1>3, <1>8, StreamsKept DEF InOrder

LEMMA NextExchangeInOrder ==
    ASSUME NetTypes, InOrder, NEW c \in Conns, NextExchange(c)
    PROVE  InOrder' /\ SegmentsOf(c) = {}
<1>1. /\ tcp' = [tcp EXCEPT ![c] =
                  [exchange |-> tcp[c].exchange + 1, requested |-> 0, acked |-> 0,
                   sent |-> 0, arrived |-> {}, answered |-> FALSE]]
      /\ net' = net /\ tcp[c].arrived = 1 .. ResponseLen
  BY DEF NextExchange
<1>2. \A d \in Conns : SegmentsOf(d)' = SegmentsOf(d)
  BY <1>1 DEF SegmentsOf
<1>3. \A d \in Conns \ {c} : tcp'[d] = tcp[d]
  BY <1>1 DEF NetTypes
<1>4. PICK n \in 0 .. ResponseLen : Streams(c, n)
  BY DEF InOrder
<1>5. n = ResponseLen /\ ResponseLen > 0
  BY <1>1, <1>4, Lengths DEF Streams
<1>6. SegmentsOf(c) = {}
  <2>1. SUFFICES ASSUME NEW s \in SegmentsOf(c) PROVE FALSE
    OBVIOUS
  <2>2. n <= s.from /\ (s.from = s.to => s.from = 0)
    BY <1>4 DEF Streams, Continues
  <2>3. QED
    BY <1>5, <2>2, SegmentsTyped, Lengths
<1>7. tcp'[c] = [exchange |-> tcp[c].exchange + 1, requested |-> 0, acked |-> 0,
                 sent |-> 0, arrived |-> {}, answered |-> FALSE]
  BY <1>1 DEF NetTypes
<1>8. Streams(c, 0)'
  <2>1. {} = 1 .. 0
    OBVIOUS
  <2>2. Reached(c, 0, tcp[c].sent)'
    BY <1>7 DEF Reached
  <2>3. QED
    BY <1>2, <1>6, <1>7, <2>1, <2>2 DEF Streams
<1>9. 0 \in 0 .. ResponseLen
  BY Lengths
<1>10. QED
  BY <1>2, <1>3, <1>6, <1>8, <1>9, StreamsKept DEF InOrder

LEMMA AcknowledgeInOrder ==
    ASSUME NetTypes, InOrder, NEW c \in Conns, Acknowledge(c)
    PROVE  InOrder'
<1>1. PICK a : a = [conn |-> c, exchange |-> tcp[c].exchange,
                    acked |-> tcp[c].requested, from |-> 0, to |-> 0]
  OBVIOUS
<1>2. /\ net' = net \cup {a} /\ tcp' = [tcp EXCEPT ![c].acked = tcp[c].requested]
      /\ tcp[c].acked < tcp[c].requested /\ tcp[c].sent = 0
      /\ PartialAcks \/ tcp[c].requested = RequestLen
  BY <1>1 DEF Acknowledge
<1>3. SegmentsOf(c)' = SegmentsOf(c) \cup {a}
  BY <1>1, <1>2 DEF SegmentsOf
<1>4. \A d \in Conns \ {c} : tcp'[d] = tcp[d] /\ SegmentsOf(d)' = SegmentsOf(d)
  BY <1>1, <1>2 DEF NetTypes, SegmentsOf
<1>5. PICK n \in 0 .. ResponseLen : Streams(c, n)
  BY DEF InOrder
<1>6. /\ tcp'[c].arrived = tcp[c].arrived /\ tcp'[c].sent = tcp[c].sent
      /\ tcp'[c].answered = tcp[c].answered /\ tcp'[c].exchange = tcp[c].exchange
      /\ tcp'[c].requested = tcp[c].requested
  BY <1>2, ConnectionTyped DEF NetTypes, Connections
<1>7. n = 0 /\ tcp[c].requested > 0
  BY <1>2, <1>5, ConnectionTyped, Lengths DEF Streams
<1>8. \A k : Reached(c, n, k) => Reached(c, n, k)'
  BY <1>3 DEF Reached
<1>9. \A s : Apart(s, a) /\ Apart(a, s)
  BY <1>1 DEF Apart
<1>10. ASSUME NEW s \in SegmentsOf(c) PROVE Continues(c, n, s)'
  <2>1. Continues(c, n, s)
    BY <1>5 DEF Streams
  <2>2. \A t \in SegmentsOf(c)' : Apart(s, t)
    BY <1>3, <1>9, <2>1 DEF Continues
  <2>3. QED
    BY <1>6, <1>8, <2>1, <2>2 DEF Continues, Apart
<1>11. Continues(c, n, a)'
  <2>1. Reached(c, n, a.from)'
    BY <1>1, <1>7 DEF Reached
  <2>2. a.exchange = tcp'[c].exchange /\ a.from = 0 /\ a.to = 0
        /\ ~(a.from < a.to) /\ n <= a.from /\ a.to <= tcp'[c].sent
    BY <1>1, <1>2, <1>6, <1>7
  <2>3. ~PartialAcks => a.acked = RequestLen
    BY <1>1, <1>2
  <2>4. QED
    BY <1>6, <1>7, <1>9, <2>1, <2>2, <2>3 DEF Continues, Apart
<1>12. Streams(c, n)'
  BY <1>3, <1>5, <1>6, <1>8, <1>10, <1>11 DEF Streams, Reached
<1>13. QED
  BY <1>4, <1>12, StreamsKept DEF InOrder

LEMMA SendSegmentInOrder ==
    ASSUME NetTypes, InOrder, NEW c \in Conns, SendSegment(c)
    PROVE  InOrder'
<1>1. PICK to \in tcp[c].sent + 1 .. tcp[c].sent + MaxSegment :
          /\ to <= ResponseLen
          /\ net' = net \cup {[conn |-> c, exchange |-> tcp[c].exchange,
                               acked |-> RequestLen,
                               from |-> tcp[c].sent, to |-> to]}
          /\ tcp' = [tcp EXCEPT ![c].sent = to, ![c].acked = RequestLen]
  BY DEF SendSegment
<1>2. PICK a : a = [conn |-> c, exchange |-> tcp[c].exchange, acked |-> RequestLen,
                    from |-> tcp[c].sent, to |-> to]
  OBVIOUS
<1>3. SegmentsOf(c)' = SegmentsOf(c) \cup {a}
  BY <1>1, <1>2 DEF SegmentsOf
<1>4. \A d \in Conns \ {c} : tcp'[d] = tcp[d] /\ SegmentsOf(d)' = SegmentsOf(d)
  BY <1>1, <1>2 DEF NetTypes, SegmentsOf
<1>5. PICK n \in 0 .. ResponseLen : Streams(c, n)
  BY DEF InOrder
<1>6. /\ tcp'[c].arrived = tcp[c].arrived /\ tcp'[c].sent = to
      /\ tcp'[c].answered = tcp[c].answered /\ tcp'[c].exchange = tcp[c].exchange
      /\ tcp'[c].requested = tcp[c].requested
  BY <1>1, ConnectionTyped DEF NetTypes, Connections
<1>7. /\ tcp[c].requested = RequestLen /\ tcp[c].requested > 0
      /\ n \in Nat /\ to \in Nat /\ tcp[c].sent \in Nat /\ tcp[c].sent < to
      /\ n <= tcp[c].sent /\ n <= to
  <2>1. tcp[c].requested = RequestLen
    BY DEF SendSegment
  <2>2. n <= tcp[c].sent /\ tcp[c].sent \in Nat /\ n \in Nat
    BY <1>5, ConnectionTyped, Lengths DEF Streams
  <2>3. to \in Nat /\ tcp[c].sent < to
    BY <1>1, <2>2, Lengths
  <2>4. QED
    BY <2>1, <2>2, <2>3, Lengths
<1>8. \A k : Reached(c, n, k) => Reached(c, n, k)'
  BY <1>3 DEF Reached
<1>9. ASSUME NEW s \in SegmentsOf(c) PROVE s.to \in Nat /\ s.to <= a.from
  BY <1>2, <1>5, SegmentsTyped DEF Streams, Continues
<1>10. ASSUME NEW s \in SegmentsOf(c) PROVE Continues(c, n, s)'
  <2>1. Continues(c, n, s)
    BY <1>5 DEF Streams
  <2>2. \A t \in SegmentsOf(c)' : Apart(s, t)
    BY <1>3, <1>9, <2>1 DEF Continues, Apart
  <2>3. s.to <= tcp'[c].sent
    BY <1>2, <1>6, <1>7, <1>9
  <2>4. QED
    BY <1>6, <1>8, <2>1, <2>2, <2>3 DEF Continues, Apart
<1>11. Continues(c, n, a)'
  <2>1. Reached(c, n, a.from)'
    BY <1>2, <1>5, <1>8 DEF Streams
  <2>2. \A t \in SegmentsOf(c)' : Apart(a, t)
    BY <1>3, <1>9 DEF Apart
  <2>3. /\ a.exchange = tcp'[c].exchange /\ n <= a.from /\ a.to <= tcp'[c].sent
        /\ a.from # a.to /\ a.acked = RequestLen
    BY <1>2, <1>6, <1>7
  <2>4. QED
    BY <1>6, <1>7, <2>1, <2>2, <2>3 DEF Continues, Apart
<1>12. Streams(c, n)'
  <2>1. Reached(c, n, to)'
    BY <1>2, <1>3, <1>7 DEF Reached
  <2>2. Reached(c, n, tcp[c].sent)'
    BY <1>6, <2>1 DEF Reached
  <2>3. QED
    BY <1>3, <1>5, <1>6, <1>7, <1>10, <1>11, <2>2 DEF Streams
<1>13. QED
  BY <1>4, <1>12, StreamsKept DEF InOrder

\* Segments of a connection arrive in order, so the one that arrives is next.
LEMMA ArrivesNext ==
    ASSUME ~Reordering, NetTypes, InOrder, NEW s \in net, MayArrive(s),
           NEW c, c = s.conn, NEW n \in 0 .. ResponseLen, Streams(c, n)
    PROVE  /\ c \in Conns /\ s \in SegmentsOf(c) /\ s.from = n
           /\ s.exchange = tcp[c].exchange
           /\ s.from < s.to => \A t \in SegmentsOf(c) : t.from < t.to
<1>1. /\ s \in SegmentsOf(c) /\ c \in Conns
      /\ \A t \in SegmentsOf(c) : t.conn = s.conn /\ t \in net
  BY DEF NetTypes, Segments, SegmentsOf
<1>2. \A t \in SegmentsOf(c) : ~SentBefore(t, s)
  BY <1>1 DEF MayArrive
<1>3. Continues(c, n, s) /\ n \in Nat
  BY <1>1, Lengths DEF Streams
<1>4. \A t \in SegmentsOf(c) :
         /\ t.exchange = s.exchange /\ t.acked \in Nat /\ t.acked <= RequestLen
         /\ t.from \in Nat /\ t.to \in Nat /\ t.from <= t.to
         /\ t.from = t.to => t.from = 0
         /\ t.from < t.to => t.acked = RequestLen
  BY <1>1, SegmentsTyped DEF Streams, Continues
<1>5. CASE s.from = s.to
  BY <1>1, <1>3, <1>4, <1>5 DEF Continues
<1>6. CASE s.from < s.to
  <2>1. s.acked = RequestLen /\ s.to \in Nat /\ s.from \in Nat
    BY <1>1, <1>4, <1>6
  <2>2. ASSUME NEW t \in SegmentsOf(c) PROVE ~(t.to < s.to)
    <3>1. t.acked <= s.acked /\ t.acked \in Nat /\ s.acked \in Nat
      BY <1>1, <1>4, <2>1
    <3>2. t.acked < s.acked \/ t.acked = s.acked
      BY <3>1
    <3>3. QED
      BY <1>1, <1>2, <1>4, <3>2 DEF SentBefore
  <2>3. ASSUME NEW t \in SegmentsOf(c) PROVE t.from < t.to
    BY <1>4, <1>6, <2>1, <2>2
  <2>4. s.from = n
    BY <1>3, <1>6, <2>1, <2>2, <1>4 DEF Continues, Reached
  <2>5. QED
    BY <1>1, <1>3, <2>3, <2>4 DEF Continues
<1>7. QED
  BY <1>1, <1>4, <1>5, <1>6

LEMMA ArriveInOrder ==
    ASSUME ~Reordering, NetTypes, InOrder, NEW s \in net, Arrive(s)
    PROVE  InOrder'
<1>1. PICK c : c = s.conn
  OBVIOUS
<1>2. MayArrive(s) /\ tcp' = Received(s) /\ net' = net \ {s}
  BY DEF Arrive
<1>3. c \in Conns
  BY <1>1 DEF NetTypes, Segments
<1>4. PICK n \in 0 .. ResponseLen : Streams(c, n)
  BY <1>3 DEF InOrder
<1>5. /\ s \in SegmentsOf(c) /\ s.from = n /\ s.exchange = tcp[c].exchange
      /\ s.from < s.to => \A t \in SegmentsOf(c) : t.from < t.to
  BY <1>1, <1>2, <1>4, ArrivesNext
<1>6. Continues(c, n, s)
  BY <1>4, <1>5 DEF Streams
<1>7. /\ s.from \in Nat /\ s.to \in Nat /\ s.from <= s.to /\ n \in Nat
      /\ s.to \in 0 .. ResponseLen
  BY <1>5, SegmentsTyped
<1>8. SegmentsOf(c)' = SegmentsOf(c) \ {s}
  BY <1>2 DEF SegmentsOf
<1>9. tcp' = [tcp EXCEPT ![c].arrived = @ \cup s.from + 1 .. s.to,
                         ![c].answered = TRUE]
  BY <1>1, <1>2, <1>5 DEF Received
<1>10. \A d \in Conns \ {c} : tcp'[d] = tcp[d] /\ SegmentsOf(d)' = SegmentsOf(d)
  <2>1. \A d \in Conns \ {c} : tcp'[d] = tcp[d]
    BY <1>9 DEF NetTypes
  <2>2. \A d \in Conns \ {c} : SegmentsOf(d)' = SegmentsOf(d)
    BY <1>1, <1>2 DEF SegmentsOf
  <2>3. QED
    BY <2>1, <2>2
<1>11. /\ tcp'[c].arrived = tcp[c].arrived \cup s.from + 1 .. s.to
       /\ tcp'[c].answered = TRUE /\ tcp'[c].exchange = tcp[c].exchange
       /\ tcp'[c].sent = tcp[c].sent /\ tcp'[c].requested = tcp[c].requested
  BY <1>3, <1>9, ConnectionTyped DEF NetTypes, Connections
<1>12. tcp'[c].arrived = 1 .. s.to
  BY <1>4, <1>5, <1>7, <1>11 DEF Streams
<1>13. tcp[c].sent \in Nat /\ s.to <= tcp[c].sent /\ n <= tcp[c].sent
  BY <1>3, <1>4, <1>6, ConnectionTyped DEF Streams, Continues
\* The others on their way begin where this one ends, or later.
<1>14. ASSUME NEW t \in SegmentsOf(c) \ {s}
       PROVE  /\ t.from \in Nat /\ t.to \in Nat /\ s.to <= t.from
              /\ Continues(c, n, t)
  <2>1. Continues(c, n, t) /\ t.from \in Nat /\ t.to \in Nat
    BY <1>4, SegmentsTyped DEF Streams
  <2>2. CASE s.from = s.to
    BY <1>5, <1>7, <2>1, <2>2 DEF Continues
  <2>3. CASE s.from < s.to
    <3>1. t.from < t.to
      BY <1>5, <2>3
    <3>2. s.to <= t.from \/ t.to <= s.from
      BY <1>5, <1>6, <2>3, <3>1 DEF Continues, Apart
    <3>3. QED
      BY <1>5, <1>7, <2>1, <3>1, <3>2 DEF Continues
  <2>4. QED
    BY <1>7, <2>2, <2>3
<1>15. ASSUME NEW k \in Nat, Reached(c, n, k), s.to <= k
       PROVE  Reached(c, s.to, k)'
  <2>1. CASE k = n
    <3>1. k = s.to
      BY <1>5, <1>7, <1>15, <2>1
    <3>2. QED
      BY <3>1 DEF Reached
  <2>2. CASE k # n
    <3>1. PICK t \in SegmentsOf(c) : t.from < t.to /\ t.to = k
      BY <1>15, <2>2 DEF Reached
    <3>2. CASE t = s
      BY <3>1, <3>2 DEF Reached
    <3>3. CASE t # s
      BY <1>8, <3>1, <3>3 DEF Reached
    <3>4. QED
      BY <3>2, <3>3
  <2>3. QED
    BY <2>1, <2>2
<1>16. ASSUME NEW t \in SegmentsOf(c) \ {s} PROVE Continues(c, s.to, t)'
  <2>1. Continues(c, n, t) /\ s.to <= t.from /\ t.from \in Nat
    BY <1>14
  <2>2. Reached(c, s.to, t.from)'
    BY <1>15, <2>1 DEF Continues
  <2>3. \A u \in SegmentsOf(c)' : Apart(t, u)
    BY <1>8, <2>1 DEF Continues
  <2>4. QED
    BY <1>11, <2>1, <2>2, <2>3 DEF Continues, Apart
<1>17. Streams(c, s.to)'
  <2>1. Reached(c, s.to, tcp[c].sent)'
    <3>1. PICK k \in Nat : k = tcp[c].sent
      BY <1>13
    <3>2. Reached(c, s.to, k)'
      BY <1>4, <1>13, <1>15, <3>1 DEF Streams
    <3>3. QED
      BY <1>11, <3>1, <3>2 DEF Reached
  <2>2. tcp'[c].requested > 0
    BY <1>6, <1>11 DEF Continues
  <2>3. QED
    BY <1>4, <1>8, <1>11, <1>12, <1>13, <1>16, <2>1, <2>2 DEF Streams
<1>18. QED
  BY <1>7, <1>10, <1>17, StreamsKept DEF InOrder

LEMMA NextInOrder ==
    ASSUME OrderlyNetwork, NetTypes, InOrder, [CaptureNext]_captureVars
    PROVE  InOrder'
<1>1. budget.repeats = 0 /\ budget.drops = 0
  BY DEF OrderlyNetwork, NetTypes, Budgets
<1>2. CASE UNCHANGED captureVars
  BY <1>2, StreamsKept DEF captureVars, InOrder, SegmentsOf
<1>3. ASSUME NEW c \in Conns, ResendRequest(c) PROVE InOrder'
  BY <1>3, StreamsKept DEF ResendRequest, InOrder, SegmentsOf
<1>4. ASSUME NEW s \in net, ArriveAndRepeat(s) \/ ArriveUncaptured(s) PROVE FALSE
  BY <1>1, <1>4 DEF ArriveAndRepeat, ArriveUncaptured
<1>5. QED
  BY <1>2, <1>3, <1>4, SendRequestInOrder, NextExchangeInOrder, AcknowledgeInOrder,
     SendSegmentInOrder, ArriveInOrder DEF CaptureNext, OrderlyNetwork

-----------------------------------------------------------------------------
(***************************************************************************)
(* What requestMap holds on an orderly network: exactly one pair for each  *)
(* connection that waits for the end of a header, under the number its     *)
(* next segment is looked up by, with what has arrived.                    *)
(***************************************************************************)
Got(t) == CHOOSE n \in 0 .. ResponseLen : t.arrived = 1 .. n

Waiting(t) == t.requested > 0 /\ Got(t) < HeaderLen

\* A padded acknowledgement moves a pair like the first data does.
Moved(t) == Got(t) > 0 \/ (t.answered /\ Padding # <<>>)

KeyOf(c, t) == IF Moved(t) THEN EndKey(c, t.exchange) ELSE StartKey(c, t.exchange)

\* The data of a pair: n units of the answer, and what is left of padding.
Holds(data, c, x, n) ==
    /\ n <= Len(data)
    /\ \A j \in 1 .. n : data[j] = Unit(c, x, j)
    /\ \A j \in n + 1 .. Len(data) : data[j] \notin CRLF

Pending(o, c, t) ==
    /\ pair[o].request = RequestOf(c, t.exchange)
    /\ Holds(pair[o].responseData, c, t.exchange, Got(t))
    /\ Moved(t) => pair[o].firstResponseDataSeq = StartKey(c, t.exchange)
    /\ ~Moved(t) => pair[o].responseData = <<>>

PendingAt(k, c, t) == requestMap[k] # NoPair /\ Pending(requestMap[k], c, t)

FiledExactly ==
    /\ \A c \in Conns : Waiting(tcp[c]) => PendingAt(KeyOf(c, tcp[c]), c, tcp[c])
    /\ \A k \in SeqNr : requestMap[k] # NoPair =>
          \E c \in Conns : Waiting(tcp[c]) /\ k = KeyOf(c, tcp[c])

LEMMA GotIs ==
    ASSUME NEW t, NEW n \in 0 .. ResponseLen, t.arrived = 1 .. n
    PROVE  Got(t) = n
<1>1. \A m \in 0 .. ResponseLen : 1 .. m = 1 .. n => m = n
  <2> SUFFICES ASSUME NEW m \in 0 .. ResponseLen, 1 .. m = 1 .. n, m # n PROVE FALSE
    OBVIOUS
  <2>1. m \in Nat /\ n \in Nat
    BY Lengths
  <2>2. CASE m < n
    <3>1. n \in 1 .. n /\ n \notin 1 .. m
      BY <2>1, <2>2
    <3>2. QED
      BY <3>1
  <2>3. CASE n < m
    <3>1. m \in 1 .. m /\ m \notin 1 .. n
      BY <2>1, <2>3
    <3>2. QED
      BY <3>1
  <2>4. QED
    BY <2>1, <2>2, <2>3
<1>2. QED
  BY <1>1 DEF Got

LEMMA NotMoved ==
    ASSUME NEW t, NEW n \in Nat, n = Got(t), ~Moved(t)
    PROVE  n = 0
<1>1. n > 0 => Moved(t)
  BY DEF Moved
<1>2. QED
  BY <1>1

\* What these tell of a connection does not depend on the rest.
Alike(t, u) ==
    /\ t.exchange = u.exchange /\ t.arrived = u.arrived
    /\ t.requested > 0 <=> u.requested > 0
    /\ Padding # <<>> => t.answered = u.answered

LEMMA AlikeSame ==
    ASSUME NEW t, NEW u, Alike(t, u), NEW c
    PROVE  /\ Got(t) = Got(u) /\ Waiting(t) = Waiting(u) /\ Moved(t) = Moved(u)
           /\ KeyOf(c, t) = KeyOf(c, u)
           /\ \A o : Pending(o, c, t) = Pending(o, c, u)
<1>1. Got(t) = Got(u)
  BY DEF Alike, Got
<1>2. Waiting(t) = Waiting(u)
  BY <1>1 DEF Alike, Waiting
<1>3. Moved(t) = Moved(u)
  BY <1>1 DEF Alike, Moved
<1>4. t.exchange = u.exchange
  BY DEF Alike
<1>5. KeyOf(c, t) = KeyOf(c, u)
  BY <1>3, <1>4 DEF KeyOf
<1>6. QED
  BY <1>1, <1>2, <1>3, <1>4, <1>5 DEF Pending

\* A step that concerns one connection, and leaves the pairs of the others alone.
LEMMA FiledStep ==
    ASSUME FiledExactly, NEW c \in Conns, NEW t, t = tcp'[c],
           \A d \in Conns \ {c} : Alike(tcp'[d], tcp[d]),
           \A d \in Conns \ {c} : \A k : Waiting(tcp[d]) /\ k = KeyOf(d, tcp[d]) =>
              requestMap'[k] = requestMap[k] /\ pair'[requestMap[k]] = pair[requestMap[k]],
           \A k \in SeqNr : requestMap'[k] # NoPair =>
              \/ Waiting(t) /\ k = KeyOf(c, t)
              \/ \E d \in Conns \ {c} : Waiting(tcp[d]) /\ k = KeyOf(d, tcp[d]),
           \A k : Waiting(t) /\ k = KeyOf(c, t) => PendingAt(k, c, t)'
    PROVE  FiledExactly'
<1>1. ASSUME NEW d \in Conns, NEW u, u = tcp'[d], Waiting(u), NEW k, k = KeyOf(d, u)
      PROVE  PendingAt(k, d, u)'
  <2>1. CASE d = c
    BY <1>1, <2>1
  <2>2. CASE d # c
    <3>1. Waiting(tcp[d]) /\ k = KeyOf(d, tcp[d])
      BY <1>1, <2>2, AlikeSame
    <3>2. PendingAt(k, d, tcp[d])
      BY <3>1 DEF FiledExactly
    <3>3. PendingAt(k, d, u)
      BY <1>1, <2>2, <3>2, AlikeSame DEF PendingAt
    <3>4. requestMap'[k] = requestMap[k] /\ pair'[requestMap[k]] = pair[requestMap[k]]
      BY <2>2, <3>1
    <3>5. QED
      BY <3>3, <3>4 DEF PendingAt, Pending
  <2>3. QED
    BY <2>1, <2>2
<1>2. ASSUME NEW k \in SeqNr, requestMap'[k] # NoPair
      PROVE  \E d \in Conns : Waiting(tcp'[d]) /\ k = KeyOf(d, tcp'[d])
  <2>1. CASE Waiting(t) /\ k = KeyOf(c, t)
    BY <2>1
  <2>2. ASSUME NEW d \in Conns \ {c}, Waiting(tcp[d]), k = KeyOf(d, tcp[d])
        PROVE  Waiting(tcp'[d]) /\ k = KeyOf(d, tcp'[d])
    BY <2>2, AlikeSame
  <2>3. QED
    BY <1>2, <2>1, <2>2
<1>3. QED
  BY <1>1, <1>2 DEF FiledExactly

LEMMA KeysDiffer ==
    ASSUME NumbersApart, NEW c \in Conns, NEW d \in Conns, c # d,
           NEW x \in 0 .. Exchanges - 1, NEW y \in 0 .. Exchanges - 1
    PROVE  {StartKey(c, x), EndKey(c, x)} \cap {StartKey(d, y), EndKey(d, y)} = {}
<1>1. 0 \in 0 .. ResponseLen - 1
  BY Lengths
<1>2. /\ EndKey(c, x) # EndKey(d, y)
      /\ StartKey(c, x) # StartKey(d, y)
      /\ StartKey(c, x) # EndKey(d, y) /\ StartKey(d, y) # EndKey(c, x)
  BY <1>1 DEF NumbersApart, StartKey
<1>3. QED
  BY <1>2

LEMMA KeyOfIs ==
    ASSUME NEW c \in Conns, NEW t, t.exchange \in 0 .. Exchanges - 1
    PROVE  /\ KeyOf(c, t) \in {StartKey(c, t.exchange), EndKey(c, t.exchange)}
           /\ KeyOf(c, t) \in SeqNr
<1>1. KeyOf(c, t) \in {StartKey(c, t.exchange), EndKey(c, t.exchange)}
  BY DEF KeyOf
<1>2. QED
  BY <1>1, KeyTypes, Lengths

\* The first segment of a request parses.
LEMMA FirstParses ==
    ASSUME Requests = RequestLines, HeadersEndOnce,
           NEW c \in Conns, NEW x \in 0 .. Exchanges - 1
    PROVE  /\ ParseHTTPRequest(<<RequestOf(c, x)>>) = RequestOf(c, x)
           /\ RequestOf(c, x) # NoRequest
<1> DEFINE q == <<RequestOf(c, x)>>
<1>1. RequestOf(c, x) \in Requests /\ RequestOf(c, x) \notin CRLF
  BY DEF RequestLines, HeadersEndOnce
<1>2. FirstLine(q) = {1}
  BY <1>1 DEF FirstLine
<1>3. QED
  BY <1>1, <1>2, SniffAssumption DEF ParseHTTPRequest

LEMMA MinusZero == \A i \in Nat : i < 1 => -i = 0
<1>1. \A a, b \in Int : a + b = 0 /\ a >= 0 /\ a < 1 => b = 0
  OBVIOUS
<1>2. \A i \in Nat : i + (-i) = 0 /\ -i \in Int /\ i \in Int /\ i >= 0
  OBVIOUS
<1>3. QED
  BY <1>1, <1>2

\* A request files its pair, and replaces the one of the request it repeats.
LEMMA RequestFiled ==
    ASSUME NumbersApart, Requests = RequestLines, HeadersEndOnce,
           IInv, NetTypes, FiledExactly,
           NEW c \in Conns, NEW x \in 0 .. Exchanges - 1, x = tcp[c].exchange,
           NEW i \in 0 .. RequestLen - 1, i < 1, HandlePDU(RequestPacket(c, x, i)),
           NEW t, t = tcp'[c], t.exchange = x, Waiting(t), ~Moved(t), Got(t) = 0,
           Waiting(tcp[c]) => ~Moved(tcp[c]),
           \A d \in Conns \ {c} : tcp'[d] = tcp[d]
    PROVE  FiledExactly' /\ UNCHANGED <<reported, crashed>>
<1>1. PICK p : p = RequestPacket(c, x, i)
  OBVIOUS
<1>2. /\ p.payload = <<RequestOf(c, x)>> /\ p \in Packets /\ p.ack \in SeqNr
      /\ p.ack = StartKey(c, x)
      /\ IsRequestSegment(p)
  <2>1. -i = 0
    <3>1. i \in Nat
      BY Lengths
    <3>2. QED
      BY <3>1, MinusZero
  <2>2. ServerISN[c] \in Nat /\ x * ResponseLen \in Nat
    BY Numbers, Lengths
  <2>3. p.payload = <<RequestOf(c, x)>>
    BY <1>1, <2>1 DEF RequestPacket, RequestOf
  <2>4. p \in Packets /\ p.ack = StartKey(c, x)
    BY <1>1, <2>2, RequestIsPacket DEF RequestPacket, StartKey, SegmentNr
  <2>5. IsRequestSegment(p)
    BY <1>1, <2>3, CaptureAssumption
       DEF RequestPacket, IsRequestSegment, IpAddressIsSourceAddress
  <2>6. QED
    BY <2>3, <2>4, <2>5 DEF Packets
<1>3. /\ ParseHTTPRequest(p.payload) = RequestOf(c, x)
      /\ ParseHTTPRequest(p.payload) # NoRequest
  BY <1>2, FirstParses
<1>4. RecordRequest(p)
  BY <1>1, <1>2, <1>3, RequestIsNoResponse
     DEF HandlePDU, ExtendResponse, CompleteResponse, RaiseRangeException,
         IgnorePDU, IsKnownResponse
<1>5. PICK o \in Pairs \ Allocated :
          /\ pair' = [pair EXCEPT ![o] = NewPair(ParseHTTPRequest(p.payload))]
          /\ requestMap' = [requestMap EXCEPT ![p.ack] = o]
  BY <1>4 DEF RecordRequest
<1>6. UNCHANGED <<reported, crashed>>
  BY <1>4 DEF RecordRequest
<1>7. /\ pair'[o].request = RequestOf(c, x) /\ pair'[o].responseData = <<>>
      /\ \A q \in Pairs \ {o} : pair'[q] = pair[q]
  BY <1>3, <1>5 DEF IInv, TypeOK, NewPair
<1>8. /\ requestMap'[p.ack] = o /\ o # NoPair
      /\ \A k \in SeqNr \ {p.ack} : requestMap'[k] = requestMap[k]
  BY <1>2, <1>5, SniffAssumption DEF IInv, TypeOK
<1>9. \A k \in SeqNr : requestMap[k] # NoPair => requestMap[k] \in Pairs \ {o}
  <2>1. \A k \in SeqNr : requestMap[k] # NoPair =>
           requestMap[k] \in Pairs /\ requestMap[k] \in Filed
    BY DEF Filed, IInv, TypeOK
  <2>2. QED
    BY <1>5, <2>1 DEF IInv, FiledAllocated
<1>10. ASSUME NEW d \in Conns \ {c}, NEW k, Waiting(tcp[d]), k = KeyOf(d, tcp[d])
       PROVE  /\ k # p.ack /\ requestMap'[k] = requestMap[k]
              /\ pair'[requestMap[k]] = pair[requestMap[k]]
  <2>1. k \in SeqNr /\ k \in {StartKey(d, tcp[d].exchange), EndKey(d, tcp[d].exchange)}
        /\ tcp[d].exchange \in 0 .. Exchanges - 1
    BY <1>10, KeyOfIs, ConnectionTyped
  <2>2. k # p.ack
    <3>1. {StartKey(c, x), EndKey(c, x)}
            \cap {StartKey(d, tcp[d].exchange), EndKey(d, tcp[d].exchange)} = {}
      BY <2>1, KeysDiffer
    <3>2. QED
      BY <1>2, <2>1, <3>1
  <2>3. requestMap[k] # NoPair
    BY <1>10 DEF FiledExactly, PendingAt
  <2>4. QED
    BY <1>7, <1>8, <1>9, <2>1, <2>2, <2>3
<1>11. \A d \in Conns \ {c} : Alike(tcp'[d], tcp[d])
  BY DEF Alike
<1>12. KeyOf(c, t) = p.ack
  BY <1>2 DEF KeyOf
<1>13. ASSUME NEW k \in SeqNr, requestMap'[k] # NoPair
       PROVE  \/ Waiting(t) /\ k = KeyOf(c, t)
              \/ \E d \in Conns \ {c} : Waiting(tcp[d]) /\ k = KeyOf(d, tcp[d])
  <2>1. CASE k = p.ack
    BY <1>12, <2>1
  <2>2. CASE k # p.ack
    <3>1. PICK d \in Conns : Waiting(tcp[d]) /\ k = KeyOf(d, tcp[d])
      BY <1>8, <1>13, <2>2 DEF FiledExactly
    <3>2. d # c
      BY <1>2, <2>2, <3>1 DEF KeyOf
    <3>3. QED
      BY <3>1, <3>2
  <2>3. QED
    BY <2>1, <2>2
<1>14. ASSUME NEW k, k = KeyOf(c, t) PROVE PendingAt(k, c, t)'
  <2>1. Holds(<<>>, c, x, 0)
    BY DEF Holds
  <2>2. Pending(o, c, t)'
    BY <1>7, <2>1 DEF Pending
  <2>3. QED
    BY <1>8, <1>12, <1>14, <2>2 DEF PendingAt
<1>15. FiledExactly'
  BY <1>10, <1>11, <1>13, <1>14, FiledStep
<1>16. QED
  BY <1>6, <1>15

\* What follows the first segment of a request is passed by.
LEMMA RestOfRequestIgnored ==
    ASSUME Requests = RequestLines, NEW c \in Conns,
           NEW x \in 0 .. Exchanges - 1, NEW i \in 1 .. RequestLen - 1,
           HandlePDU(RequestPacket(c, x, i))
    PROVE  UNCHANGED vars
<1>1. PICK p : p = RequestPacket(c, x, i)
  OBVIOUS
<1>2. p.payload = <<Unit(c, x, -i)>>
  BY <1>1 DEF RequestPacket
<1>3. i \in 0 .. RequestLen - 1 /\ i # 0
  BY Lengths
<1>4. ParseHTTPRequest(p.payload) = NoRequest
  BY <1>2, <1>3, OnlyFirstParses
<1>5. QED
  BY <1>1, <1>4, RequestIsNoResponse
     DEF HandlePDU, RecordRequest, ExtendResponse, CompleteResponse,
         RaiseRangeException, IgnorePDU, IsKnownResponse

\* A captured segment is looked up for the pair of its connection, as long as that
\* waits; afterwards it is passed by.
LEMMA SegmentLookedUp ==
    ASSUME OrderlyNetwork, NumbersApart, TypeOK, NetTypes, InOrder, FiledExactly,
           NEW s \in net, MayArrive(s),
           NEW c, c = s.conn, NEW x, x = tcp[c].exchange,
           NEW p, p = SegmentPacket(s), p.payload # <<>>
    PROVE  /\ p \in Packets /\ c \in Conns /\ x \in 0 .. Exchanges - 1
           /\ p.ack = EndKey(c, x) /\ p.seq = SegmentNr(c, x, s.from)
           /\ s.from \in 0 .. ResponseLen - 1 /\ s.exchange = x
           /\ Got(tcp[c]) = s.from /\ tcp[c].requested > 0
           /\ s.from < HeaderLen =>
                /\ IsKnownResponse(p)
                /\ PairOf(p) = requestMap[KeyOf(c, tcp[c])]
                /\ KnownByAck(p) <=> Moved(tcp[c])
                /\ ~Moved(tcp[c]) => s.from = 0
           /\ HeaderLen <= s.from => ~IsKnownResponse(p)
<1>1. c \in Conns /\ s \in Segments
  BY DEF NetTypes, Segments
<1>2. PICK n \in 0 .. ResponseLen : Streams(c, n)
  BY <1>1 DEF InOrder
<1>3. /\ s \in SegmentsOf(c) /\ s.from = n /\ s.exchange = x
  BY <1>2, ArrivesNext DEF OrderlyNetwork
<1>4. /\ s.from \in Nat /\ s.to \in Nat /\ s.from <= s.to /\ s.to <= ResponseLen
  BY <1>3, SegmentsTyped
<1>5. /\ s.from = s.to => s.from = 0
      /\ s.from < s.to \/ ~PartialAcks => s.acked = RequestLen
      /\ tcp[c].requested > 0
  BY <1>2, <1>3 DEF Streams, Continues
<1>6. Got(tcp[c]) = s.from
  BY <1>2, <1>3, GotIs DEF Streams
<1>7. x \in 0 .. Exchanges - 1
  BY <1>1, ConnectionTyped
<1>8. s.from \in 0 .. ResponseLen - 1
  BY <1>4, <1>5, Lengths
<1>9. s.acked = RequestLen
  <2>1. CASE s.from = s.to
    <3>1. p.payload = Padding
      BY <1>1, <2>1, PaddedPayload
    <3>2. QED
      BY <1>5, <3>1 DEF OrderlyNetwork
  <2>2. CASE s.from # s.to
    BY <1>4, <1>5, <2>2
  <2>3. QED
    BY <2>1, <2>2
<1>10. /\ p.ack = EndKey(c, x) /\ p.seq = SegmentNr(c, x, s.from) /\ p \in Packets
  <2>1. ClientISN[c] \in Nat /\ x \in Nat /\ RequestLen \in Nat
    BY <1>1, <1>7, Numbers, Lengths
  <2>2. ClientISN[c] + x * RequestLen + RequestLen = ClientISN[c] + (x + 1) * RequestLen
    BY <2>1
  <2>3. p.ack = (ClientISN[c] + x * RequestLen + s.acked) % SeqMod
    BY <1>3 DEF SegmentPacket
  <2>4. QED
    BY <1>1, <1>3, <1>9, <2>2, <2>3, SegmentIsPacket
       DEF SegmentPacket, EndKey, SegmentNr
<1>11. IsResponseSegment(p) /\ p.ack \in SeqNr /\ p.seq \in SeqNr
  BY <1>10, CaptureAssumption
     DEF SegmentPacket, IsResponseSegment, IpAddressIsSourceAddress, Packets
\* Which keys its two numbers can be.
<1>12. ASSUME NEW d \in Conns, Waiting(tcp[d])
       PROVE  /\ KeyOf(d, tcp[d]) = p.ack => d = c /\ Moved(tcp[c])
              /\ KeyOf(d, tcp[d]) = p.seq => d = c /\ ~Moved(tcp[c]) /\ s.from = 0
  <2>1. PICK y \in 0 .. Exchanges - 1 : y = tcp[d].exchange
    BY ConnectionTyped
  <2>2. 0 \in 0 .. ResponseLen - 1
    BY Lengths
  <2>3. /\ EndKey(c, x) # StartKey(d, y)
        /\ EndKey(c, x) = EndKey(d, y) => d = c
        /\ SegmentNr(c, x, s.from) # EndKey(d, y)
        /\ SegmentNr(c, x, s.from) = StartKey(d, y) => d = c /\ s.from = 0
    BY <1>1, <1>7, <1>8, <2>2 DEF NumbersApart, StartKey
  <2>4. KeyOf(d, tcp[d]) = IF Moved(tcp[d]) THEN EndKey(d, y) ELSE StartKey(d, y)
    BY <2>1 DEF KeyOf
  <2>5. QED
    BY <1>10, <2>3, <2>4
<1>13. CASE s.from < HeaderLen
  <2>1. Waiting(tcp[c])
    BY <1>5, <1>6, <1>13 DEF Waiting
  <2>2. requestMap[KeyOf(c, tcp[c])] # NoPair
    BY <1>1, <2>1 DEF FiledExactly, PendingAt
  <2>3. KnownByAck(p) <=> Moved(tcp[c])
    <3>1. KnownByAck(p) => Moved(tcp[c])
      BY <1>11, <1>12 DEF KnownByAck, FiledExactly
    <3>2. Moved(tcp[c]) => KnownByAck(p)
      BY <1>10, <2>2 DEF KnownByAck, KeyOf
    <3>3. QED
      BY <3>1, <3>2
  <2>4. ~Moved(tcp[c]) => s.from = 0 /\ KeyOf(c, tcp[c]) = p.seq
    <3>1. ~Moved(tcp[c]) => s.from = 0
      BY <1>4, <1>6, NotMoved
    <3>2. QED
      BY <1>10, <3>1 DEF KeyOf, StartKey
  <2>5. PairOf(p) = requestMap[KeyOf(c, tcp[c])]
    BY <1>10, <2>3, <2>4 DEF PairOf, KeyOf
  <2>6. IsKnownResponse(p)
    BY <1>11, <2>2, <2>5 DEF IsKnownResponse
  <2>7. ~(HeaderLen <= s.from)
    BY <1>4, <1>13, CaptureAssumption
  <2>8. QED
    BY <1>1, <1>3, <1>5, <1>6, <1>7, <1>8, <1>10, <2>3, <2>4, <2>5, <2>6, <2>7
<1>14. CASE ~(s.from < HeaderLen)
  <2>1. ~Waiting(tcp[c])
    BY <1>6, <1>14 DEF Waiting
  <2>2. requestMap[p.ack] = NoPair /\ requestMap[p.seq] = NoPair
    BY <1>11, <1>12, <2>1 DEF FiledExactly
  <2>3. ~IsKnownResponse(p)
    BY <2>2 DEF IsKnownResponse, PairOf
  <2>4. QED
    BY <1>1, <1>3, <1>5, <1>6, <1>7, <1>8, <1>10, <1>14, <2>3
<1>15. QED
  BY <1>13, <1>14

\* What a captured segment carries, if it carries anything: the units after those
\* that have arrived, and perhaps padding behind them.
Carries(q, c, x, n, m) ==
    /\ n <= m /\ q \in Seq(Bytes) /\ m - n <= Len(q)
    /\ \A j \in 1 .. m - n : q[j] = Unit(c, x, n + j)
    /\ \A j \in m - n + 1 .. Len(q) : q[j] \notin CRLF

LEMMA SegmentCarries ==
    ASSUME HeadersEndOnce, NEW s \in Segments
    PROVE  Carries(SegmentPacket(s).payload, s.conn, s.exchange, s.from, s.to)
<1>a. PICK c, x, q : c = s.conn /\ x = s.exchange /\ q = SegmentPacket(s).payload
  OBVIOUS
<1>b. PICK n \in Nat, m \in Nat : n = s.from /\ m = s.to
  BY Lengths DEF Segments
<1>1. /\ c \in Conns /\ x \in 0 .. Exchanges - 1
      /\ n \in 0 .. ResponseLen /\ m \in 0 .. ResponseLen /\ n <= m
  BY <1>a, <1>b DEF Segments
<1>2. q \in Seq(Bytes)
  BY <1>a, SegmentIsPacket, SniffAssumption DEF Packets
<1>3. PICK d : d = SubSeq(ResponseOf(s.conn, s.exchange), s.from + 1, s.to)
  OBVIOUS
<1>4. /\ s.from = s.to => q = Padding
      /\ q = d \/ q = d \o Padding
      /\ Concatenable(d, Padding)
  BY <1>a, <1>3, PaddedPayload
<1>5. /\ Padding \in Seq(Bytes) /\ Len(Padding) \in Nat
      /\ \A j \in 1 .. Len(Padding) : Padding[j] \notin CRLF
  <2>1. Padding \in Seq(Bytes)
    BY CaptureAssumption
  <2>2. Len(Padding) \in Nat /\ DOMAIN Padding = 1 .. Len(Padding)
    BY <2>1, LenProperties
  <2>3. QED
    BY <2>1, <2>2 DEF HeadersEndOnce
<1>c. SUFFICES Carries(q, c, x, n, m)
  BY <1>a, <1>b
<1>6. CASE n < m
  <2>1. PICK from \in 0 .. ResponseLen, to \in 0 .. ResponseLen : from = n /\ to = m
    BY <1>1
  <2>2. c \in Conns /\ x \in 0 .. Exchanges - 1 /\ from < to
        /\ d = SubSeq(ResponseOf(c, x), from + 1, to)
    <3>1. c \in Conns /\ x \in 0 .. Exchanges - 1 /\ from < to
      BY <1>1, <1>6, <2>1
    <3>2. s.conn = c /\ s.exchange = x /\ s.from = from /\ s.to = to
      BY <1>a, <1>b, <2>1
    <3>3. d = SubSeq(ResponseOf(c, x), from + 1, to)
      BY <1>3, <3>2
    <3>4. QED
      BY <3>1, <3>3
  <2>3. /\ Len(d) = to - from
        /\ \A j \in 1 .. to - from : d[j] = Unit(c, x, from + j)
    BY <2>2, SegmentPayload
  <2>4. PICK k \in Nat : k = m - n
    BY <1>6
  <2>5. Len(d) = k /\ \A j \in 1 .. k : d[j] = Unit(c, x, n + j)
    BY <2>1, <2>3, <2>4
  <2>6. CASE q = d
    BY <1>1, <1>2, <2>4, <2>5, <2>6 DEF Carries
  <2>7. CASE q = d \o Padding
    <3>1. /\ Len(q) = k + Len(Padding)
          /\ \A j \in 1 .. k + Len(Padding) :
                q[j] = IF j <= k THEN d[j] ELSE Padding[j - k]
      <4>1. PICK S : d \in Seq(S) /\ Padding \in Seq(S)
        BY <1>4 DEF Concatenable
      <4>2. /\ Len(d \o Padding) = Len(d) + Len(Padding)
            /\ \A j \in 1 .. Len(d) + Len(Padding) :
                  (d \o Padding)[j] = IF j <= Len(d) THEN d[j] ELSE Padding[j - Len(d)]
        BY <4>1, ConcatProperties
      <4>3. QED
        BY <2>5, <2>7, <4>2
    <3>2. ASSUME NEW j \in 1 .. k PROVE q[j] = Unit(c, x, n + j)
      <4>1. j \in 1 .. k + Len(Padding) /\ j <= k
        BY <1>5
      <4>2. QED
        BY <2>5, <3>1, <4>1
    <3>3. ASSUME NEW j \in k + 1 .. Len(q) PROVE q[j] \notin CRLF
      <4>1. j - k \in 1 .. Len(Padding) /\ j \in 1 .. k + Len(Padding) /\ ~(j <= k)
        BY <1>5, <3>1
      <4>2. q[j] = Padding[j - k]
        BY <3>1, <4>1
      <4>3. QED
        BY <1>5, <4>1, <4>2
    <3>4. k <= Len(q)
      BY <1>5, <3>1
    <3>5. QED
      BY <1>1, <1>2, <2>4, <3>2, <3>3, <3>4 DEF Carries
  <2>8. QED
    BY <1>4, <2>6, <2>7
<1>7. CASE ~(n < m)
  <2>1. s.from = s.to /\ m - n = 0
    BY <1>b, <1>1, <1>7
  <2>2. q = Padding
    BY <1>4, <2>1
  <2>3. QED
    BY <1>1, <1>2, <1>5, <2>1, <2>2 DEF Carries
<1>8. QED
  BY <1>6, <1>7

\* New units put after the units that are there.
LEMMA ReplacedHolds ==
    ASSUME NEW c, NEW x, NEW n \in Nat, NEW m \in Nat, n <= m,
           NEW data, Holds(data, c, x, n), Len(data) \in Nat,
           NEW q, Len(q) \in Nat, m - n <= Len(q),
           \A j \in 1 .. m - n : q[j] = Unit(c, x, n + j),
           \A j \in m - n + 1 .. Len(q) : q[j] \notin CRLF,
           NEW r, Replaced(r, data, n, q)
    PROVE  Holds(r, c, x, m)
<1>1. /\ DOMAIN r = 1 .. Len(r) /\ Len(r) \in Nat /\ n + Len(q) <= Len(r)
      /\ \A j \in 1 .. n : r[j] = Unit(c, x, j)
      /\ \A j \in 1 .. Len(q) : r[n + j] = q[j]
      /\ \A j \in n + Len(q) + 1 .. Len(r) : r[j] \notin CRLF
  BY DEF Replaced, Holds
<1>2. m <= Len(r)
  BY <1>1
<1>3. ASSUME NEW j \in 1 .. m PROVE r[j] = Unit(c, x, j)
  <2>1. CASE j <= n
    BY <1>1, <2>1
  <2>2. CASE n < j
    <3>1. PICK i \in 1 .. m - n : j = n + i
      <4>1. j - n \in 1 .. m - n /\ j = n + (j - n)
        BY <2>2
      <4>2. QED
        BY <4>1
    <3>2. i \in 1 .. Len(q)
      BY <3>1
    <3>3. QED
      BY <1>1, <3>1, <3>2
  <2>3. QED
    BY <2>1, <2>2
<1>4. ASSUME NEW j \in m + 1 .. Len(r) PROVE r[j] \notin CRLF
  <2>1. CASE j <= n + Len(q)
    <3>1. PICK i \in m - n + 1 .. Len(q) : j = n + i
      <4>1. j - n \in m - n + 1 .. Len(q) /\ j = n + (j - n)
        BY <2>1
      <4>2. QED
        BY <4>1
    <3>2. i \in 1 .. Len(q)
      BY <3>1
    <3>3. QED
      BY <1>1, <3>1, <3>2
  <2>2. CASE n + Len(q) < j
    BY <1>1, <2>2
  <2>3. QED
    BY <1>1, <2>1, <2>2
<1>5. QED
  BY <1>2, <1>3, <1>4 DEF Holds

\* The header ends where it ends, and nowhere else.
LEMMA HoldsHeader ==
    ASSUME HeadersEndOnce, NEW c \in Conns, NEW x \in 0 .. Exchanges - 1,
           NEW n \in 0 .. ResponseLen, NEW data \in Seq(Bytes), Holds(data, c, x, n)
    PROVE  HeaderFinished(data) <=> HeaderLen <= n
<1>1. /\ n \in Nat /\ HeaderLen \in Nat /\ HeaderLen > 1 /\ Len(data) \in Nat
      /\ n <= Len(data)
      /\ \A j \in 1 .. n : data[j] = Unit(c, x, j)
      /\ \A j \in n + 1 .. Len(data) : data[j] \notin CRLF
      /\ \A i \in 1 .. HeaderLen - 1 :
            Unit(c, x, i) \in CRLF /\ Unit(c, x, i + 1) \in CRLF <=> i = HeaderLen - 1
  BY CaptureAssumption, Lengths, LenProperties DEF Holds, HeadersEndOnce
<1>2. ASSUME HeaderLen <= n PROVE HeaderFinished(data)
  <2>1. PICK i \in 1 .. Len(data) - 1 : i = HeaderLen - 1
    BY <1>1, <1>2
  <2>2. i \in 1 .. n /\ i + 1 \in 1 .. n /\ i \in 1 .. HeaderLen - 1
    BY <1>1, <1>2, <2>1
  <2>3. data[i] \in CRLF /\ data[i + 1] \in CRLF
    BY <1>1, <2>1, <2>2
  <2>4. QED
    BY <2>3 DEF HeaderFinished, BlankLineAt
<1>3. ASSUME NEW i \in 1 .. Len(data) - 1, BlankLineAt(data, i) PROVE HeaderLen <= n
  <2>1. SUFFICES ASSUME n < HeaderLen PROVE FALSE
    BY <1>1
  <2>2. data[i] \in CRLF /\ data[i + 1] \in CRLF
    BY <1>3 DEF BlankLineAt
  <2>3. i \in 1 .. n /\ i + 1 \in 1 .. n
    <3>1. i + 1 \in n + 1 .. Len(data) \/ i + 1 \in 1 .. n
      BY <1>1
    <3>2. i + 1 \in 1 .. n
      BY <1>1, <2>2, <3>1
    <3>3. QED
      BY <1>1, <3>2
  <2>4. i \in 1 .. HeaderLen - 1
    BY <1>1, <2>1, <2>3
  <2>5. i = HeaderLen - 1
    BY <1>1, <2>2, <2>3, <2>4
  <2>6. QED
    BY <1>1, <2>1, <2>3, <2>5
<1>4. QED
  BY <1>2, <1>3 DEF HeaderFinished

\* The parser takes exactly the header out of data that holds it.
LEMMA HeaderParsed ==
    ASSUME HeadersEndOnce, NEW c \in Conns, NEW x \in 0 .. Exchanges - 1,
           NEW n \in 0 .. ResponseLen, HeaderLen <= n,
           NEW data \in Seq(Bytes), Holds(data, c, x, n)
    PROVE  ParseHTTPResponse(data) = SubSeq(ResponseOf(c, x), 1, HeaderLen)
<1> DEFINE header == {k \in 1 .. Len(data) :
                         \A j \in 1 .. k - 1 : ~EmptyLineAt(data, j)}
<1>1. /\ n \in Nat /\ HeaderLen \in Nat /\ HeaderLen > 1 /\ Len(data) \in Nat
      /\ HeaderLen <= Len(data) /\ HeaderLen <= ResponseLen /\ ResponseLen \in Nat
      /\ \A j \in 1 .. HeaderLen : data[j] = Unit(c, x, j)
      /\ Unit(c, x, 1) \notin CRLF
      /\ \A i \in 1 .. HeaderLen - 1 :
            Unit(c, x, i) \in CRLF /\ Unit(c, x, i + 1) \in CRLF <=> i = HeaderLen - 1
  <2>1. /\ n \in Nat /\ HeaderLen \in Nat /\ HeaderLen > 1 /\ Len(data) \in Nat
        /\ HeaderLen <= ResponseLen /\ ResponseLen \in Nat
    BY CaptureAssumption, Lengths, LenProperties DEF HeadersEndOnce
  <2>2. n <= Len(data) /\ \A j \in 1 .. n : data[j] = Unit(c, x, j)
    BY DEF Holds
  <2>3. HeaderLen <= Len(data) /\ \A j \in 1 .. HeaderLen : data[j] = Unit(c, x, j)
    BY <2>1, <2>2
  <2>4. QED
    BY <2>1, <2>3 DEF HeadersEndOnce
<1>2. EmptyLineAt(data, HeaderLen)
  <2>1. PICK i \in 1 .. HeaderLen - 1 : i = HeaderLen - 1
    BY <1>1
  <2>2. i + 1 = HeaderLen /\ i \in 1 .. HeaderLen /\ HeaderLen \in 1 .. HeaderLen
    BY <1>1, <2>1
  <2>3. data[HeaderLen] \in CRLF /\ data[i] \in CRLF
    BY <1>1, <2>1, <2>2
  <2>4. QED
    BY <2>1, <2>3 DEF EmptyLineAt
<1>3. ASSUME NEW j \in 1 .. HeaderLen - 1 PROVE ~EmptyLineAt(data, j)
  <2>1. CASE j = 1
    <3>1. data[1] \notin CRLF
      BY <1>1
    <3>2. QED
      BY <2>1, <3>1 DEF EmptyLineAt
  <2>2. CASE j # 1
    <3>1. PICK i \in 1 .. HeaderLen - 1 : i = j - 1
      BY <1>1, <2>2
    <3>2. i + 1 = j /\ i # HeaderLen - 1 /\ i \in 1 .. HeaderLen /\ j \in 1 .. HeaderLen
      BY <1>1, <3>1
    <3>3. ~(data[i] \in CRLF /\ data[j] \in CRLF)
      BY <1>1, <3>2
    <3>4. QED
      BY <2>2, <3>1, <3>3 DEF EmptyLineAt
  <2>3. QED
    BY <2>1, <2>2
<1>4. header = 1 .. HeaderLen
  <2>1. ASSUME NEW k \in header PROVE k \in 1 .. HeaderLen
    <3>1. SUFFICES ASSUME HeaderLen < k PROVE FALSE
      BY <1>1
    <3>2. HeaderLen \in 1 .. k - 1
      BY <1>1, <3>1
    <3>3. QED
      BY <1>2, <3>2
  <2>2. ASSUME NEW k \in 1 .. HeaderLen PROVE k \in header
    <3>1. k \in 1 .. Len(data) /\ 1 .. k - 1 \subseteq 1 .. HeaderLen - 1
      BY <1>1
    <3>2. QED
      BY <1>3, <3>1
  <2>3. QED
    BY <2>1, <2>2
<1>5. ParseHTTPResponse(data) = SubSeq(data, 1, HeaderLen)
  <2>1. Cardinality(header) = HeaderLen
    <3>1. Cardinality(1 .. HeaderLen) = HeaderLen
      BY <1>1, FS_Interval
    <3>2. QED
      BY <1>4, <3>1
  <2>2. ParseHTTPResponse(data) = SubSeq(data, 1, Cardinality(header))
    BY DEF ParseHTTPResponse
  <2>3. QED
    BY <2>1, <2>2
<1>6. PICK S : S = {Unit(c, x, j) : j \in 1 .. HeaderLen}
  OBVIOUS
<1>7. PICK a, b : a = SubSeq(data, 1, HeaderLen)
                  /\ b = SubSeq(ResponseOf(c, x), 1, HeaderLen)
  OBVIOUS
<1>8. \A j \in 1 .. HeaderLen : ResponseOf(c, x)[j] = Unit(c, x, j)
  BY <1>1 DEF ResponseOf
<1>9. a \in Seq(S) /\ Len(a) = HeaderLen /\ \A j \in 1 .. HeaderLen : a[j] = Unit(c, x, j)
  <2>1. \A j \in 1 .. HeaderLen : data[j] \in S
    BY <1>1, <1>6
  <2>2. a \in Seq(S) /\ Len(a) = (IF 1 <= HeaderLen THEN HeaderLen - 1 + 1 ELSE 0)
        /\ \A j \in 1 .. HeaderLen - 1 + 1 : a[j] = data[1 + j - 1]
    BY <1>1, <1>7, <2>1, SubSeqProperties
  <2>3. QED
    BY <1>1, <2>2
<1>10. b \in Seq(S) /\ Len(b) = HeaderLen /\ \A j \in 1 .. HeaderLen : b[j] = Unit(c, x, j)
  <2>1. \A j \in 1 .. HeaderLen : ResponseOf(c, x)[j] \in S
    BY <1>6, <1>8
  <2>2. b \in Seq(S) /\ Len(b) = (IF 1 <= HeaderLen THEN HeaderLen - 1 + 1 ELSE 0)
        /\ \A j \in 1 .. HeaderLen - 1 + 1 : b[j] = ResponseOf(c, x)[1 + j - 1]
    BY <1>1, <1>7, <2>1, SubSeqProperties
  <2>3. QED
    BY <1>1, <1>8, <2>2
<1>11. a = b
  BY <1>9, <1>10, SeqEqual
<1>12. QED
  BY <1>5, <1>7, <1>11

\* What the handler makes of a segment that is looked up for its pair: it extends
\* the answer by the units the segment carries, and sees the end of the header.
LEMMA SegmentExtends ==
    ASSUME OrderlyNetwork, NumbersApart, NumbersRise, HeadersEndOnce,
           TypeOK, NetTypes, InOrder, FiledExactly,
           NEW s \in net, MayArrive(s),
           NEW c, c = s.conn, NEW x, x = tcp[c].exchange,
           NEW p, p = SegmentPacket(s), p.payload # <<>>, s.from < HeaderLen
    PROVE  /\ FirstSeq(p) = StartKey(c, x) /\ ~OffsetOutOfRange(p)
           /\ pair[PairOf(p)].request = RequestOf(c, x)
           /\ Holds(ExtendedData(p), c, x, s.to)
           /\ FinishesHeader(p) <=> HeaderLen <= s.to
<1>1. /\ p \in Packets /\ c \in Conns /\ x \in 0 .. Exchanges - 1
      /\ p.ack = EndKey(c, x) /\ p.seq = SegmentNr(c, x, s.from)
      /\ s.from \in 0 .. ResponseLen - 1 /\ s.exchange = x
      /\ Got(tcp[c]) = s.from /\ tcp[c].requested > 0
      /\ IsKnownResponse(p)
      /\ PairOf(p) = requestMap[KeyOf(c, tcp[c])]
      /\ KnownByAck(p) <=> Moved(tcp[c])
      /\ ~Moved(tcp[c]) => s.from = 0
  BY SegmentLookedUp
<1>2. s \in Segments
  BY DEF NetTypes
<1>3. /\ s.from \in Nat /\ s.to \in Nat /\ s.to \in 0 .. ResponseLen
      /\ s.from = s.to => s.from = 0
  <2>1. PICK n \in 0 .. ResponseLen : Streams(c, n)
    BY <1>1 DEF InOrder
  <2>2. s \in SegmentsOf(c)
    BY DEF SegmentsOf
  <2>3. s.from = s.to => s.from = 0
    BY <2>1, <2>2 DEF Streams, Continues
  <2>4. QED
    BY <2>2, <2>3, SegmentsTyped
<1>4. PICK n \in Nat, m \in Nat : n = s.from /\ m = s.to
  BY <1>3
<1>5. PICK data : data = pair[PairOf(p)].responseData
  OBVIOUS
<1>6. /\ data \in Seq(Bytes) /\ Len(data) \in Nat
      /\ p.payload \in Seq(Bytes) /\ Len(p.payload) \in Nat
  BY <1>1, <1>5, KnownResponseType, LenProperties
<1>7. /\ pair[PairOf(p)].request = RequestOf(c, x)
      /\ Holds(data, c, x, n)
      /\ Moved(tcp[c]) => pair[PairOf(p)].firstResponseDataSeq = StartKey(c, x)
  <2>1. Waiting(tcp[c])
    BY <1>1 DEF Waiting
  <2>2. Pending(PairOf(p), c, tcp[c])
    BY <1>1, <2>1 DEF FiledExactly, PendingAt
  <2>3. QED
    BY <1>1, <1>4, <1>5, <2>2 DEF Pending
<1>8. FirstSeq(p) = StartKey(c, x)
  BY <1>1, <1>7 DEF FirstSeq, StartKey
<1>9. NewDataOffset(p) = n
  <2>1. n \in 0 .. HeaderLen - 1
    BY <1>4, CaptureAssumption
  <2>2. SegmentNr(c, x, n) = StartKey(c, x) + n
    BY <1>1, <2>1 DEF NumbersRise
  <2>3. StartKey(c, x) \in SeqNr /\ SegmentNr(c, x, n) \in SeqNr
    BY <1>1, <1>4, KeyTypes
  <2>4. n < WordMod /\ p.seq - FirstSeq(p) = n
    BY <1>1, <1>4, <1>8, <2>2, <2>3, SniffAssumption DEF SeqNr
  <2>5. \A w \in Nat : n < w => n % w = n
    OBVIOUS
  <2>6. QED
    BY <2>4, <2>5, SniffAssumption DEF NewDataOffset
<1>10. n <= Len(data) /\ n \in 0 .. Len(data)
  <2>1. n <= Len(data)
    BY <1>7 DEF Holds
  <2>2. QED
    BY <1>6, <2>1
<1>11. ~OffsetOutOfRange(p)
  BY <1>5, <1>6, <1>9, <1>10 DEF OffsetOutOfRange
<1>12. PICK r : r = ExtendedData(p)
  OBVIOUS
<1>13. Replaced(r, data, n, p.payload)
  <2>1. PICK l \in Nat : r = ReplaceBytes(data, n, l, p.payload)
    <3>1. RangeLength(data, n, p.payload) \in Nat
      BY DEF RangeLength
    <3>2. r = ReplaceBytes(data, n, RangeLength(data, n, p.payload), p.payload)
      BY <1>5, <1>9, <1>12 DEF ExtendedData
    <3>3. QED
      BY <3>1, <3>2
  <2>2. QED
    BY <1>6, <1>10, <2>1, ReplaceBytesAt
<1>14. Holds(r, c, x, m)
  <2>1. PICK q : q = p.payload
    OBVIOUS
  <2>2. /\ n <= m /\ q \in Seq(Bytes) /\ m - n <= Len(q)
        /\ \A j \in 1 .. m - n : q[j] = Unit(c, x, n + j)
        /\ \A j \in m - n + 1 .. Len(q) : q[j] \notin CRLF
    <3>1. Carries(SegmentPacket(s).payload, s.conn, s.exchange, s.from, s.to)
      BY <1>2, SegmentCarries
    <3>2. Carries(q, c, x, n, m)
      BY <1>1, <1>4, <2>1, <3>1
    <3>3. QED
      BY <3>2 DEF Carries
  <2>3. Len(q) \in Nat /\ Replaced(r, data, n, q)
    BY <1>6, <1>13, <2>1
  <2>4. QED
    BY <1>6, <1>7, <2>2, <2>3, ReplacedHolds
<1>15. FinishesHeader(p) <=> HeaderLen <= s.to
  <2>1. r \in Seq(Bytes)
    BY <1>1, <1>11, <1>12, ExtendedDataType
  <2>2. PICK k \in 0 .. ResponseLen : k = s.to
    BY <1>3
  <2>3. HeaderFinished(r) <=> HeaderLen <= k
    BY <1>1, <1>4, <1>14, <2>1, <2>2, HoldsHeader
  <2>4. QED
    BY <1>12, <2>2, <2>3 DEF FinishesHeader
<1>16. QED
  BY <1>4, <1>7, <1>8, <1>11, <1>12, <1>14, <1>15

\* A pair that is extended and still waits is filed as it must be; one that is
\* complete leaves no key behind.
LEMMA ResponseFiled ==
    ASSUME NumbersApart, IInv, NetTypes, FiledExactly,
           NEW c \in Conns, NEW x, x = tcp[c].exchange, Waiting(tcp[c]),
           NEW p \in Packets, IsKnownResponse(p),
           PairOf(p) = requestMap[KeyOf(c, tcp[c])], p.ack = EndKey(c, x),
           FirstSeq(p) = StartKey(c, x), pair[PairOf(p)].request = RequestOf(c, x),
           NEW t, t = tcp'[c], t.exchange = x,
           \A d \in Conns \ {c} : tcp'[d] = tcp[d],
           NEW data, Waiting(t) => Moved(t) /\ Holds(data, c, x, Got(t)),
           pair' = ExtendedPair(p, data),
           requestMap' = IF Waiting(t) THEN Rewritten(p) ELSE Retired(p)
    PROVE  FiledExactly'
<1>1. /\ PairOf(p) \in Pairs /\ p.ack \in SeqNr /\ p.seq \in SeqNr
      /\ PairOf(p) # NoPair
  BY KnownResponseType DEF IInv, IsKnownResponse
<1>2. /\ x \in 0 .. Exchanges - 1 /\ KeyOf(c, tcp[c]) \in SeqNr
      /\ KeyOf(c, tcp[c]) \in {StartKey(c, x), EndKey(c, x)}
  BY ConnectionTyped, KeyOfIs
<1>3. /\ Rewritten(p) \in [SeqNr -> Pairs \cup {NoPair}]
      /\ requestMap \in [SeqNr -> Pairs \cup {NoPair}]
      /\ OneKeyPerPair
  BY RewrittenType DEF IInv, TypeOK
<1>4. \A k \in SeqNr : Rewritten(p)[k] = PairOf(p) <=> k = p.ack
  BY RewrittenKeys
<1>5. /\ \A k \in SeqNr \ {p.ack} : requestMap'[k] = Rewritten(p)[k]
      /\ requestMap'[p.ack] = IF Waiting(t) THEN PairOf(p) ELSE NoPair
  <2>1. Retired(p) = [Rewritten(p) EXCEPT ![p.ack] = NoPair]
    BY DEF Retired
  <2>2. Rewritten(p)[p.ack] = PairOf(p)
    BY <1>1, <1>4
  <2>3. QED
    BY <1>1, <1>3, <2>1, <2>2
<1>6. \A k \in SeqNr \ {p.ack} :
         Rewritten(p)[k] = IF ~KnownByAck(p) /\ k = p.seq THEN NoPair
                           ELSE requestMap[k]
  BY <1>1, <1>3 DEF Rewritten
<1>7. /\ pair'[PairOf(p)].request = RequestOf(c, x)
      /\ pair'[PairOf(p)].responseData = data
      /\ pair'[PairOf(p)].firstResponseDataSeq = StartKey(c, x)
      /\ \A o \in Pairs \ {PairOf(p)} : pair'[o] = pair[o]
  BY <1>1 DEF ExtendedPair, IInv, TypeOK, PairType
\* The pairs of other connections are other pairs under other keys.
<1>8. ASSUME NEW d \in Conns \ {c}, NEW k, Waiting(tcp[d]), k = KeyOf(d, tcp[d])
      PROVE  requestMap'[k] = requestMap[k] /\ pair'[requestMap[k]] = pair[requestMap[k]]
  <2>1. PICK y \in 0 .. Exchanges - 1 : y = tcp[d].exchange
    BY ConnectionTyped
  <2>2. k \in SeqNr /\ k \in {StartKey(d, y), EndKey(d, y)}
    BY <1>8, <2>1, KeyOfIs
  <2>3. {StartKey(c, x), EndKey(c, x)} \cap {StartKey(d, y), EndKey(d, y)} = {}
    BY <1>2, KeysDiffer
  <2>4. k # KeyOf(c, tcp[c]) /\ k # p.ack
    BY <1>2, <2>2, <2>3
  <2>5. requestMap[k] # NoPair
    BY <1>8 DEF FiledExactly, PendingAt
  <2>6. requestMap[k] # PairOf(p)
    BY <1>1, <1>2, <1>3, <2>2, <2>4 DEF OneKeyPerPair
  <2>7. ~KnownByAck(p) => k # p.seq
    BY <2>6 DEF PairOf
  <2>8. requestMap'[k] = requestMap[k]
    BY <1>5, <1>6, <2>2, <2>4, <2>7
  <2>9. requestMap[k] \in Pairs \ {PairOf(p)}
    BY <1>3, <2>2, <2>5, <2>6
  <2>10. QED
    BY <1>7, <2>8, <2>9
<1>9. ASSUME NEW k \in SeqNr, requestMap'[k] # NoPair
      PROVE  \/ Waiting(t) /\ k = KeyOf(c, t)
             \/ \E d \in Conns \ {c} : Waiting(tcp[d]) /\ k = KeyOf(d, tcp[d])
  <2>1. CASE k = p.ack
    <3>1. Waiting(t)
      BY <1>5, <1>9, <2>1
    <3>2. QED
      BY <2>1, <3>1 DEF KeyOf
  <2>2. CASE k # p.ack
    <3>1. requestMap[k] = Rewritten(p)[k] /\ requestMap[k] # NoPair
      BY <1>5, <1>6, <1>9, <2>2
    <3>2. PICK d \in Conns : Waiting(tcp[d]) /\ k = KeyOf(d, tcp[d])
      BY <3>1 DEF FiledExactly
    <3>3. d # c
      BY <1>4, <2>2, <3>1, <3>2
    <3>4. QED
      BY <3>2, <3>3
  <2>3. QED
    BY <2>1, <2>2
<1>10. ASSUME NEW k, Waiting(t), k = KeyOf(c, t) PROVE PendingAt(k, c, t)'
  <2>1. k = p.ack
    BY <1>10 DEF KeyOf
  <2>2. PICK o : o = PairOf(p)
    OBVIOUS
  <2>3. Pending(o, c, t)'
    BY <1>7, <1>10, <2>2 DEF Pending
  <2>4. requestMap'[k] = o /\ o # NoPair
    BY <1>1, <1>5, <1>10, <2>1, <2>2
  <2>5. QED
    BY <2>3, <2>4 DEF PendingAt
<1>11. \A d \in Conns \ {c} : Alike(tcp'[d], tcp[d])
  BY DEF Alike
<1>12. QED
  BY <1>8, <1>9, <1>10, <1>11, FiledStep

\* What the arrival of a segment tells its connection.
Advances(s, c, x, t) ==
    /\ c \in Conns /\ x \in 0 .. Exchanges - 1 /\ s.exchange = x
    /\ s.from \in 0 .. ResponseLen /\ s.to \in 0 .. ResponseLen
    /\ s.from <= s.to /\ s.from \in Nat /\ s.to \in Nat
    /\ s.from = s.to => s.from = 0
    /\ tcp[c].arrived = 1 .. s.from /\ t.arrived = 1 .. s.to
    /\ Got(tcp[c]) = s.from /\ Got(t) = s.to
    /\ t.exchange = x /\ t.answered = TRUE
    /\ t.requested > 0 /\ tcp[c].requested > 0
    /\ \A d \in Conns \ {c} : tcp'[d] = tcp[d]

LEMMA ArrivalOf ==
    ASSUME OrderlyNetwork, NetTypes, InOrder, NEW s \in net, Arrive(s),
           NEW c, c = s.conn, NEW x, x = tcp[c].exchange, NEW t, t = tcp'[c]
    PROVE  Advances(s, c, x, t)
<1>1. MayArrive(s) /\ tcp' = Received(s)
  BY DEF Arrive
<1>2. c \in Conns
  BY DEF NetTypes, Segments
<1>3. PICK n \in 0 .. ResponseLen : Streams(c, n)
  BY <1>2 DEF InOrder
<1>4. s \in SegmentsOf(c) /\ s.from = n /\ s.exchange = x
  BY <1>1, <1>3, ArrivesNext DEF OrderlyNetwork
<1>5. /\ tcp[c].requested > 0
      /\ s.from = s.to => s.from = 0
  BY <1>3, <1>4 DEF Streams, Continues
<1>6. /\ s.from \in Nat /\ s.to \in Nat /\ s.from <= s.to /\ n \in Nat
      /\ s.to \in 0 .. ResponseLen
  BY <1>4, SegmentsTyped
<1>7. tcp' = [tcp EXCEPT ![c].arrived = @ \cup s.from + 1 .. s.to,
                         ![c].answered = TRUE]
  BY <1>1, <1>4 DEF Received
<1>8. /\ t.arrived = tcp[c].arrived \cup s.from + 1 .. s.to
      /\ t.answered = TRUE /\ t.exchange = x /\ t.requested = tcp[c].requested
  BY <1>2, <1>7, ConnectionTyped DEF NetTypes, Connections
<1>9. tcp[c].arrived = 1 .. s.from /\ t.arrived = 1 .. s.to
  BY <1>3, <1>4, <1>6, <1>8 DEF Streams
<1>10. \A d \in Conns \ {c} : tcp'[d] = tcp[d]
  BY <1>7 DEF NetTypes
<1>11. Got(tcp[c]) = s.from /\ Got(t) = s.to
  <2>1. s.from \in 0 .. ResponseLen
    BY <1>4
  <2>2. QED
    BY <1>6, <1>9, <2>1, GotIs
<1>12. x \in 0 .. Exchanges - 1
  BY <1>2, ConnectionTyped
<1>13. QED
  BY <1>2, <1>4, <1>5, <1>6, <1>8, <1>9, <1>10, <1>11, <1>12 DEF Advances

Reports(c, x) ==
    \E e : /\ e.request = RequestOf(c, x)
           /\ e.response = SubSeq(ResponseOf(c, x), 1, HeaderLen)
           /\ reported' = IF HasReceiver THEN Append(reported, e) ELSE reported

\* A segment that is passed by.
LEMMA IgnoredFiled ==
    ASSUME FiledExactly, UNCHANGED vars, \A d \in Conns : Alike(tcp'[d], tcp[d])
    PROVE  FiledExactly'
<1>1. requestMap' = requestMap /\ pair' = pair
  BY DEF vars
<1>2. ASSUME NEW d \in Conns, NEW u, u = tcp'[d], Waiting(u), NEW k, k = KeyOf(d, u)
      PROVE  PendingAt(k, d, u)'
  <2>1. Waiting(tcp[d]) /\ k = KeyOf(d, tcp[d])
    BY <1>2, AlikeSame
  <2>2. PendingAt(k, d, tcp[d])
    BY <2>1 DEF FiledExactly
  <2>3. PendingAt(k, d, u)
    BY <1>2, <2>2, AlikeSame DEF PendingAt
  <2>4. QED
    BY <1>1, <2>3 DEF PendingAt, Pending
<1>3. ASSUME NEW k \in SeqNr, requestMap'[k] # NoPair
      PROVE  \E d \in Conns : Waiting(tcp'[d]) /\ k = KeyOf(d, tcp'[d])
  <2>1. PICK d \in Conns : Waiting(tcp[d]) /\ k = KeyOf(d, tcp[d])
    BY <1>1, <1>3 DEF FiledExactly
  <2>2. QED
    BY <2>1, AlikeSame
<1>4. QED
  BY <1>2, <1>3 DEF FiledExactly

LEMMA ArriveFiled ==
    ASSUME OrderlyNetwork, NumbersApart, NumbersRise, HeadersEndOnce,
           IInv, NetTypes, InOrder, FiledExactly,
           NEW s \in net, Arrive(s), NEW c, c = s.conn, NEW x, x = tcp[c].exchange
    PROVE  /\ FiledExactly' /\ UNCHANGED crashed
           /\ \/ /\ UNCHANGED reported
                 /\ HeaderLen <= s.from <=> HeaderLen <= s.to
              \/ Reports(c, x) /\ s.from < HeaderLen /\ HeaderLen <= s.to
<1>1. PICK p, t : p = SegmentPacket(s) /\ t = tcp'[c]
  OBVIOUS
<1>2. /\ c \in Conns /\ x \in 0 .. Exchanges - 1 /\ s.exchange = x
      /\ s.from \in 0 .. ResponseLen /\ s.to \in 0 .. ResponseLen
      /\ s.from <= s.to /\ s.from \in Nat /\ s.to \in Nat
      /\ s.from = s.to => s.from = 0
      /\ tcp[c].arrived = 1 .. s.from /\ t.arrived = 1 .. s.to
      /\ Got(tcp[c]) = s.from /\ Got(t) = s.to
      /\ t.exchange = x /\ t.answered = TRUE
      /\ t.requested > 0 /\ tcp[c].requested > 0
      /\ \A d \in Conns \ {c} : tcp'[d] = tcp[d]
  <2>1. Advances(s, c, x, t)
    BY <1>1, ArrivalOf
  <2>2. QED
    BY <2>1 DEF Advances
<1>3. HandlePDU(p) /\ MayArrive(s) /\ s \in Segments /\ HeaderLen \in Nat \ {0}
  BY <1>1, CaptureAssumption DEF Arrive, NetTypes
<1>4. ~IsRequestSegment(p)
  BY <1>1, <1>3, SegmentIsNoRequest
<1>5. \A d \in Conns \ {c} : Alike(tcp'[d], tcp[d])
  BY <1>2 DEF Alike
<1>6. CASE p.payload = <<>>
  <2>1. UNCHANGED vars
    BY <1>3, <1>4, <1>6
       DEF HandlePDU, RecordRequest, ExtendResponse, CompleteResponse,
           RaiseRangeException, IgnorePDU, IsKnownResponse, IsResponseSegment
  <2>2. s.from = s.to /\ Padding = <<>>
    <3>1. PICK n \in Nat, m \in Nat : n = s.from /\ m = s.to
      BY <1>2
    <3>2. PICK q : q = p.payload
      OBVIOUS
    <3>3. n <= m /\ q \in Seq(Bytes) /\ m - n <= Len(q)
      <4>1. Carries(SegmentPacket(s).payload, s.conn, s.exchange, s.from, s.to)
        BY <1>3, SegmentCarries
      <4>2. QED
        <5>1. SegmentPacket(s).payload = q
          BY <1>1, <3>2
        <5>2. Carries(q, s.conn, s.exchange, n, m)
          BY <3>1, <4>1, <5>1
        <5>3. QED
          BY <5>2 DEF Carries
    <3>4. Len(q) = 0
      BY <1>6, <3>2
    <3>5. n = m
      BY <3>1, <3>3, <3>4
    <3>6. q = Padding
      BY <1>1, <1>3, <3>1, <3>2, <3>5, PaddedPayload
    <3>7. QED
      BY <1>6, <3>1, <3>2, <3>5, <3>6
  <2>3. Alike(t, tcp[c])
    BY <1>2, <2>2 DEF Alike
  <2>4. FiledExactly'
    BY <1>1, <1>5, <2>1, <2>3, IgnoredFiled
  <2>5. QED
    BY <2>1, <2>2, <2>4 DEF vars
<1>7. CASE p.payload # <<>> /\ HeaderLen <= s.from
  <2>1. ~IsKnownResponse(p)
    BY <1>1, <1>3, <1>7, SegmentLookedUp DEF IInv
  <2>2. UNCHANGED vars
    BY <1>3, <1>4, <2>1
       DEF HandlePDU, RecordRequest, ExtendResponse, CompleteResponse,
           RaiseRangeException, IgnorePDU
  <2>3. ~Waiting(tcp[c]) /\ ~Waiting(t)
    BY <1>2, <1>3, <1>7 DEF Waiting
  <2>4. /\ \A d \in Conns \ {c}, k \in SeqNr : requestMap'[k] = requestMap[k]
        /\ requestMap' = requestMap /\ pair' = pair
    BY <2>2 DEF vars
  <2>5. \A k \in SeqNr : requestMap'[k] # NoPair =>
           \/ Waiting(t) /\ k = KeyOf(c, t)
           \/ \E d \in Conns \ {c} : Waiting(tcp[d]) /\ k = KeyOf(d, tcp[d])
    BY <2>3, <2>4 DEF FiledExactly
  <2>6. FiledExactly'
    BY <1>1, <1>2, <1>5, <2>3, <2>4, <2>5, FiledStep
  <2>7. HeaderLen <= s.to
    BY <1>2, <1>3, <1>7
  <2>8. QED
    BY <1>7, <2>2, <2>6, <2>7 DEF vars
<1>8. CASE p.payload # <<>> /\ s.from < HeaderLen
  <2>1. /\ p \in Packets /\ p.ack = EndKey(c, x) /\ IsKnownResponse(p)
        /\ PairOf(p) = requestMap[KeyOf(c, tcp[c])]
    BY <1>1, <1>3, <1>8, SegmentLookedUp DEF IInv
  <2>2. /\ FirstSeq(p) = StartKey(c, x) /\ ~OffsetOutOfRange(p)
        /\ pair[PairOf(p)].request = RequestOf(c, x)
        /\ Holds(ExtendedData(p), c, x, s.to)
        /\ FinishesHeader(p) <=> HeaderLen <= s.to
    BY <1>1, <1>3, <1>8, SegmentExtends DEF IInv
  <2>3. Waiting(tcp[c]) /\ (Waiting(t) <=> ~(HeaderLen <= s.to))
    BY <1>2, <1>3, <1>8 DEF Waiting
  <2>4. Moved(t)
    <3>1. CASE s.to > 0
      BY <1>2, <3>1 DEF Moved
    <3>2. CASE ~(s.to > 0)
      <4>1. s.from = s.to
        BY <1>2, <3>2
      <4>2. p.payload = Padding
        BY <1>1, <1>3, <4>1, PaddedPayload
      <4>3. QED
        BY <1>2, <1>8, <4>2 DEF Moved
    <3>3. QED
      BY <3>1, <3>2
  <2>5. ExtendResponse(p) \/ CompleteResponse(p)
    BY <1>3, <1>4, <2>1, <2>2
       DEF HandlePDU, RecordRequest, RaiseRangeException, IgnorePDU
  <2>6. PICK data : data = ExtendedData(p)
    OBVIOUS
  <2>7. /\ pair' = ExtendedPair(p, data) /\ UNCHANGED crashed
        /\ requestMap' = IF Waiting(t) THEN Rewritten(p) ELSE Retired(p)
    <3>1. CASE ExtendResponse(p)
      BY <2>2, <2>3, <2>6, <3>1 DEF ExtendResponse
    <3>2. CASE CompleteResponse(p)
      BY <2>2, <2>3, <2>6, <3>2 DEF CompleteResponse
    <3>3. QED
      BY <2>5, <3>1, <3>2
  <2>8. FiledExactly'
    <3>1. Waiting(t) => Moved(t) /\ Holds(data, c, x, Got(t))
      BY <1>2, <2>2, <2>4, <2>6
    <3>2. QED
      BY <1>1, <1>2, <2>1, <2>2, <2>3, <2>7, <3>1, ResponseFiled
  <2>9. CASE ExtendResponse(p)
    <3>1. reported' = reported /\ ~(HeaderLen <= s.to)
      BY <2>2, <2>9 DEF ExtendResponse
    <3>2. ~(HeaderLen <= s.from)
      BY <1>2, <1>3, <1>8
    <3>3. QED
      BY <2>7, <2>8, <3>1, <3>2
  <2>10. CASE CompleteResponse(p)
    <3>1. HeaderLen <= s.to
      BY <2>2, <2>10 DEF CompleteResponse
    <3>2. PICK n \in 0 .. ResponseLen : n = s.to
      BY <1>2
    <3>3. data \in Seq(Bytes)
      BY <2>1, <2>2, <2>6, ExtendedDataType DEF IInv
    <3>4. ParseHTTPResponse(data) = SubSeq(ResponseOf(c, x), 1, HeaderLen)
      BY <1>2, <2>2, <2>6, <3>1, <3>2, <3>3, HeaderParsed
    <3>5. PICK e : e = [pair |-> PairOf(p), request |-> pair[PairOf(p)].request,
                        response |-> ParseHTTPResponse(ExtendedData(p))]
      OBVIOUS
    <3>6. /\ e.request = RequestOf(c, x)
          /\ e.response = SubSeq(ResponseOf(c, x), 1, HeaderLen)
          /\ reported' = IF HasReceiver THEN Append(reported, e) ELSE reported
      BY <2>2, <2>6, <2>10, <3>4, <3>5 DEF CompleteResponse
    <3>7. Reports(c, x)
      BY <3>6 DEF Reports
    <3>8. QED
      BY <1>8, <2>7, <2>8, <3>1, <3>7
  <2>11. QED
    BY <2>5, <2>9, <2>10
<1>9. QED
  <2>1. s.from < HeaderLen \/ HeaderLen <= s.from
    BY <1>2, <1>3
  <2>2. QED
    BY <1>6, <1>7, <1>8, <2>1

-----------------------------------------------------------------------------
(***************************************************************************)
(* Which headers have arrived, and what has been reported of them.         *)
(***************************************************************************)
SameHeaders ==
    \A d \in Conns, y \in 0 .. Exchanges - 1 : HeaderArrived(d, y)' = HeaderArrived(d, y)

LEMMA HeadersKept ==
    ASSUME \A d \in Conns : /\ tcp'[d].exchange = tcp[d].exchange
                            /\ tcp'[d].arrived = tcp[d].arrived
    PROVE  SameHeaders
  BY DEF SameHeaders, HeaderArrived

LEMMA HeaderFits == HeaderLen \in Nat /\ HeaderLen > 0 /\ HeaderLen <= ResponseLen
<1>1. HeaderLen \in 1 .. ResponseLen /\ ResponseLen \in Nat
  BY CaptureAssumption
<1>2. QED
  BY <1>1

LEMMA HeaderWithin ==
    ASSUME NEW n \in Nat
    PROVE  1 .. HeaderLen \subseteq 1 .. n <=> HeaderLen <= n
<1>1. HeaderLen \in 1 .. HeaderLen
  BY HeaderFits
<1>2. QED
  BY <1>1, HeaderFits

Quiet == FiledExactly' /\ UNCHANGED <<reported, crashed>> /\ SameHeaders

LEMMA SendRequestQuiet ==
    ASSUME OrderlyCapture, IInv, NetTypes, InOrder, FiledExactly,
           NEW c \in Conns, SendRequest(c)
    PROVE  Quiet
<1>1. PICK x, i, t : x = tcp[c].exchange /\ i = tcp[c].requested /\ t = tcp'[c]
  OBVIOUS
<1>2. /\ i < RequestLen /\ HandlePDU(RequestPacket(c, x, i))
      /\ tcp' = [tcp EXCEPT ![c].requested = @ + 1]
  BY <1>1 DEF SendRequest
<1>3. /\ x \in 0 .. Exchanges - 1 /\ i \in Nat /\ i \in 0 .. RequestLen - 1
  BY <1>1, <1>2, ConnectionTyped, Lengths
<1>4. /\ \A d \in Conns \ {c} : tcp'[d] = tcp[d]
      /\ t.exchange = x /\ t.arrived = tcp[c].arrived /\ t.answered = tcp[c].answered
      /\ t.requested = i + 1
  BY <1>1, <1>2, ConnectionTyped DEF NetTypes, Connections
<1>5. SameHeaders
  <2>1. \A d \in Conns : /\ tcp'[d].exchange = tcp[d].exchange
                         /\ tcp'[d].arrived = tcp[d].arrived
    BY <1>1, <1>4
  <2>2. QED
    BY <2>1, HeadersKept
<1>6. CASE i = 0
  <2>1. PICK n \in 0 .. ResponseLen : Streams(c, n)
    BY DEF InOrder
  <2>2. n \in Nat /\ tcp[c].sent \in Nat /\ n <= tcp[c].sent
    BY <2>1, ConnectionTyped, Lengths DEF Streams
  <2>3. tcp[c].sent = 0 /\ ~tcp[c].answered
    BY <1>1, <1>6, <2>1, <2>2, Lengths DEF Streams
  <2>4. n = 0 /\ t.arrived = 1 .. n
    BY <1>4, <2>1, <2>2, <2>3 DEF Streams
  <2>5. Got(t) = 0
    BY <2>4, GotIs
  <2>6. Waiting(t) /\ ~Moved(t)
    <3>1. ~t.answered /\ ~(0 > 0)
      BY <1>4, <2>3
    <3>2. 0 + 1 > 0
      OBVIOUS
    <3>3. QED
      BY <1>3, <1>4, <1>6, <2>5, <3>1, <3>2, HeaderFits DEF Waiting, Moved
  <2>7. ~Waiting(tcp[c])
    BY <1>1, <1>6 DEF Waiting
  <2>8. i < 1
    BY <1>6
  <2>9. FiledExactly' /\ UNCHANGED <<reported, crashed>>
    BY <1>1, <1>2, <1>3, <1>4, <2>5, <2>6, <2>7, <2>8, RequestFiled DEF OrderlyCapture
  <2>10. QED
    BY <1>5, <2>9 DEF Quiet
<1>7. CASE i # 0
  <2>1. i \in 1 .. RequestLen - 1
    BY <1>3, <1>7
  <2>2. UNCHANGED vars
    BY <1>2, <1>3, <2>1, RestOfRequestIgnored DEF OrderlyCapture
  <2>3. i > 0 /\ i + 1 > 0
    BY <1>3, <1>7
  <2>4. \A d \in Conns : Alike(tcp'[d], tcp[d])
    BY <1>1, <1>4, <2>3 DEF Alike
  <2>5. QED
    BY <1>5, <2>2, <2>4, IgnoredFiled DEF Quiet, vars
<1>8. QED
  BY <1>6, <1>7

LEMMA ResendRequestQuiet ==
    ASSUME OrderlyCapture, IInv, NetTypes, InOrder, FiledExactly,
           NEW c \in Conns, ResendRequest(c)
    PROVE  Quiet
<1>1. PICK x, t : x = tcp[c].exchange /\ t = tcp'[c]
  OBVIOUS
<1>2. PICK i \in 0 .. RequestLen - 1 : i = 0 /\ i < 1
  BY Lengths
<1>3. /\ HandlePDU(RequestPacket(c, x, i)) /\ tcp' = tcp
      /\ tcp[c].requested > 0 /\ ~tcp[c].answered
  BY <1>1, <1>2 DEF ResendRequest
<1>4. x \in 0 .. Exchanges - 1 /\ t.exchange = x /\ t = tcp[c]
  BY <1>1, <1>3, ConnectionTyped
<1>5. PICK n \in 0 .. ResponseLen : Streams(c, n)
  BY DEF InOrder
<1>6. n = 0 /\ t.arrived = 1 .. n
  BY <1>3, <1>4, <1>5, Lengths DEF Streams
<1>7. Got(t) = 0
  BY <1>6, GotIs
<1>8. Waiting(t) /\ ~Moved(t)
  <2>1. ~t.answered /\ ~(0 > 0)
    BY <1>3, <1>4
  <2>2. QED
    BY <1>3, <1>4, <1>7, <2>1, HeaderFits DEF Waiting, Moved
<1>9. FiledExactly' /\ UNCHANGED <<reported, crashed>>
  BY <1>1, <1>2, <1>3, <1>4, <1>7, <1>8, RequestFiled DEF OrderlyCapture
<1>10. SameHeaders
  BY <1>3, HeadersKept
<1>11. QED
  BY <1>9, <1>10 DEF Quiet

LEMMA NextExchangeQuiet ==
    ASSUME OrderlyCapture, IInv, NetTypes, InOrder, FiledExactly,
           NEW c \in Conns, NextExchange(c)
    PROVE  Quiet
<1>1. PICK x, t : x = tcp[c].exchange /\ t = tcp'[c]
  OBVIOUS
<1>2. /\ t = [exchange |-> x + 1, requested |-> 0, acked |-> 0,
              sent |-> 0, arrived |-> {}, answered |-> FALSE]
      /\ \A d \in Conns \ {c} : tcp'[d] = tcp[d]
      /\ tcp[c].arrived = 1 .. ResponseLen /\ UNCHANGED vars
  BY <1>1 DEF NextExchange, NetTypes
<1>3. ~Waiting(t)
  BY <1>2 DEF Waiting
<1>4. ~Waiting(tcp[c])
  <2>1. ResponseLen \in 0 .. ResponseLen
    BY Lengths
  <2>2. Got(tcp[c]) = ResponseLen
    BY <1>2, <2>1, GotIs
  <2>3. QED
    BY <2>2, HeaderFits, Lengths DEF Waiting
<1>5. FiledExactly'
  <2>1. requestMap' = requestMap /\ pair' = pair
    BY <1>2 DEF vars
  <2>2. \A k \in SeqNr : requestMap'[k] # NoPair =>
           \/ Waiting(t) /\ k = KeyOf(c, t)
           \/ \E d \in Conns \ {c} : Waiting(tcp[d]) /\ k = KeyOf(d, tcp[d])
    BY <1>4, <2>1 DEF FiledExactly
  <2>3. \A d \in Conns \ {c} : Alike(tcp'[d], tcp[d])
    BY <1>2 DEF Alike
  <2>4. QED
    BY <1>1, <1>3, <2>1, <2>2, <2>3, FiledStep
<1>6. ASSUME NEW d \in Conns, NEW y \in 0 .. Exchanges - 1
      PROVE  HeaderArrived(d, y)' = HeaderArrived(d, y)
  <2>1. CASE d = c
    <3>1. x \in Nat /\ y \in Nat
      BY <1>1, ConnectionTyped, Lengths
    <3>2. 1 .. HeaderLen \subseteq 1 .. ResponseLen
      BY HeaderFits, HeaderWithin, Lengths
    <3>3. ~(1 .. HeaderLen \subseteq {})
      BY HeaderFits
    <3>4. HeaderArrived(d, y) <=> y < x \/ y = x
      <4>1. 1 .. HeaderLen \subseteq tcp[d].arrived /\ tcp[d].exchange = x
        BY <1>1, <1>2, <2>1, <3>2
      <4>2. QED
        BY <4>1 DEF HeaderArrived
    <3>5. t.exchange = x + 1 /\ t.arrived = {} /\ tcp'[d] = t
      <4>1. tcp'[d] = t
        BY <1>1, <2>1
      <4>2. t.exchange = x + 1 /\ t.arrived = {}
        BY <1>2
      <4>3. QED
        BY <4>1, <4>2
    <3>6. HeaderArrived(d, y)' <=> y < x + 1
      BY <3>3, <3>5 DEF HeaderArrived
    <3>7. y < x \/ y = x <=> y < x + 1
      BY <3>1
    <3>8. QED
      BY <3>4, <3>6, <3>7 DEF HeaderArrived
  <2>2. CASE d # c
    BY <1>2, <2>2 DEF HeaderArrived
  <2>3. QED
    BY <2>1, <2>2
<1>7. QED
  BY <1>2, <1>5, <1>6 DEF Quiet, SameHeaders, vars

LEMMA ServerQuiet ==
    ASSUME NetTypes, FiledExactly, NEW c \in Conns, Acknowledge(c) \/ SendSegment(c)
    PROVE  Quiet
<1>1. UNCHANGED vars
  BY DEF Acknowledge, SendSegment
<1>2. \A d \in Conns : /\ tcp'[d].exchange = tcp[d].exchange
                       /\ tcp'[d].arrived = tcp[d].arrived
                       /\ tcp'[d].requested = tcp[d].requested
                       /\ tcp'[d].answered = tcp[d].answered
  <2>1. CASE Acknowledge(c)
    <3>1. tcp' = [tcp EXCEPT ![c].acked = tcp[c].requested]
      BY <2>1 DEF Acknowledge
    <3>2. QED
      BY <3>1, ConnectionTyped DEF NetTypes, Connections
  <2>2. CASE SendSegment(c)
    <3>1. PICK to : tcp' = [tcp EXCEPT ![c].sent = to, ![c].acked = RequestLen]
      BY <2>2 DEF SendSegment
    <3>2. QED
      BY <3>1, ConnectionTyped DEF NetTypes, Connections
  <2>3. QED
    BY <2>1, <2>2
<1>3. FiledExactly'
  <2>1. \A d \in Conns : Alike(tcp'[d], tcp[d])
    BY <1>2 DEF Alike
  <2>2. QED
    BY <1>1, <2>1, IgnoredFiled
<1>4. SameHeaders
  BY <1>2, HeadersKept
<1>5. QED
  BY <1>1, <1>3, <1>4 DEF Quiet, vars

ReportsExact ==
    /\ \A i \in DOMAIN reported :
          \E c \in Conns, x \in 0 .. Exchanges - 1 :
             /\ reported[i].request = RequestOf(c, x)
             /\ reported[i].response = SubSeq(ResponseOf(c, x), 1, HeaderLen)
             /\ HeaderArrived(c, x)
    /\ \A i, j \in DOMAIN reported :
          reported[i].request = reported[j].request => i = j
    /\ HasReceiver => \A c \in Conns, x \in 0 .. Exchanges - 1 : HeaderArrived(c, x) =>
          \E i \in DOMAIN reported : reported[i].request = RequestOf(c, x)

LEMMA ReportsKept ==
    ASSUME ReportsExact, UNCHANGED reported, SameHeaders
    PROVE  ReportsExact'
  BY DEF ReportsExact, SameHeaders

LEMMA OneReportMore ==
    ASSUME TypeOK, ReportsExact,
           NEW c \in Conns, NEW x \in 0 .. Exchanges - 1, Reports(c, x),
           ~HeaderArrived(c, x), HeaderArrived(c, x)',
           \A d \in Conns, y \in 0 .. Exchanges - 1 :
              d # c \/ y # x => HeaderArrived(d, y)' = HeaderArrived(d, y)
    PROVE  ReportsExact'
<1>1. PICK e : /\ e.request = RequestOf(c, x)
               /\ e.response = SubSeq(ResponseOf(c, x), 1, HeaderLen)
               /\ reported' = IF HasReceiver THEN Append(reported, e) ELSE reported
  BY DEF Reports
<1>2. \A d, y : RequestOf(d, y) = RequestOf(c, x) => d = c /\ y = x
  BY DEF RequestOf, Unit
<1>3. \A d \in Conns, y \in 0 .. Exchanges - 1 :
         HeaderArrived(d, y) => HeaderArrived(d, y)'
  BY DEF HeaderArrived
<1>4. CASE ~HasReceiver
  <2>1. reported' = reported
    BY <1>1, <1>4
  <2>2. QED
    BY <1>3, <1>4, <2>1 DEF ReportsExact
<1>5. CASE HasReceiver
  <2>1. PICK l : l = Len(reported) + 1
    OBVIOUS
  <2>2. /\ DOMAIN reported' = DOMAIN reported \cup {l} /\ l \notin DOMAIN reported
        /\ reported'[l] = e
        /\ \A i \in DOMAIN reported : reported'[i] = reported[i]
    BY <1>1, <1>5, <2>1 DEF TypeOK
  <2>3. ASSUME NEW i \in DOMAIN reported PROVE reported[i].request # RequestOf(c, x)
    BY <1>2 DEF ReportsExact
  <2>4. ASSUME NEW i \in DOMAIN reported'
        PROVE  \E d \in Conns, y \in 0 .. Exchanges - 1 :
                  /\ reported'[i].request = RequestOf(d, y)
                  /\ reported'[i].response = SubSeq(ResponseOf(d, y), 1, HeaderLen)
                  /\ HeaderArrived(d, y)'
    <3>1. CASE i = l
      BY <1>1, <2>2, <3>1
    <3>2. CASE i \in DOMAIN reported
      BY <1>3, <2>2, <3>2 DEF ReportsExact
    <3>3. QED
      BY <2>2, <3>1, <3>2
  <2>5. ASSUME NEW i \in DOMAIN reported', NEW j \in DOMAIN reported',
               reported'[i].request = reported'[j].request
        PROVE  i = j
    BY <1>1, <2>2, <2>3, <2>5 DEF ReportsExact
  <2>6. ASSUME NEW d \in Conns, NEW y \in 0 .. Exchanges - 1, HeaderArrived(d, y)'
        PROVE  \E i \in DOMAIN reported' : reported'[i].request = RequestOf(d, y)
    <3>1. CASE d = c /\ y = x
      BY <1>1, <2>2, <3>1
    <3>2. CASE d # c \/ y # x
      <4>1. HeaderArrived(d, y)
        BY <2>6, <3>2
      <4>2. PICK i \in DOMAIN reported : reported[i].request = RequestOf(d, y)
        BY <1>5, <4>1 DEF ReportsExact
      <4>3. QED
        BY <2>2, <4>2
    <3>3. QED
      BY <3>1, <3>2
  <2>7. QED
    BY <2>4, <2>5, <2>6 DEF ReportsExact
<1>6. QED
  BY <1>4, <1>5

LEMMA ArriveReports ==
    ASSUME OrderlyCapture, IInv, NetTypes, InOrder, FiledExactly, ReportsExact,
           NEW s \in net, Arrive(s)
    PROVE  ReportsExact'
<1>1. PICK c, x, t : c = s.conn /\ x = tcp[c].exchange /\ t = tcp'[c]
  OBVIOUS
<1>2. /\ c \in Conns /\ x \in 0 .. Exchanges - 1
      /\ s.from \in Nat /\ s.to \in Nat /\ s.from <= s.to
      /\ tcp[c].arrived = 1 .. s.from /\ t.arrived = 1 .. s.to /\ t.exchange = x
      /\ \A d \in Conns \ {c} : tcp'[d] = tcp[d]
  <2>1. Advances(s, c, x, t)
    BY <1>1, ArrivalOf DEF OrderlyCapture
  <2>2. QED
    BY <2>1 DEF Advances
<1>3. \/ UNCHANGED reported /\ (HeaderLen <= s.from <=> HeaderLen <= s.to)
      \/ Reports(c, x) /\ s.from < HeaderLen /\ HeaderLen <= s.to
  BY <1>1, ArriveFiled DEF OrderlyCapture
<1>4. ASSUME NEW d \in Conns, NEW y \in 0 .. Exchanges - 1, d # c \/ y # x
      PROVE  HeaderArrived(d, y)' = HeaderArrived(d, y)
  BY <1>1, <1>2, <1>4 DEF HeaderArrived
<1>5. /\ HeaderArrived(c, x) <=> HeaderLen <= s.from
      /\ HeaderArrived(c, x)' <=> HeaderLen <= s.to
  <2>1. ~(x < x)
    BY <1>2, Lengths
  <2>2. HeaderArrived(c, x) <=> 1 .. HeaderLen \subseteq 1 .. s.from
    BY <1>1, <1>2, <2>1 DEF HeaderArrived
  <2>3. HeaderArrived(c, x)' <=> 1 .. HeaderLen \subseteq 1 .. s.to
    BY <1>1, <1>2, <2>1 DEF HeaderArrived
  <2>4. QED
    BY <1>2, <2>2, <2>3, HeaderWithin
<1>6. CASE UNCHANGED reported /\ (HeaderLen <= s.from <=> HeaderLen <= s.to)
  <2>1. HeaderArrived(c, x)' = HeaderArrived(c, x)
    BY <1>5, <1>6 DEF HeaderArrived
  <2>2. SameHeaders
    BY <1>4, <2>1 DEF SameHeaders
  <2>3. QED
    BY <1>6, <2>2, ReportsKept
<1>7. CASE Reports(c, x) /\ s.from < HeaderLen /\ HeaderLen <= s.to
  <2>1. ~HeaderArrived(c, x) /\ HeaderArrived(c, x)'
    BY <1>2, <1>5, <1>7, HeaderFits
  <2>2. QED
    BY <1>2, <1>4, <1>7, <2>1, OneReportMore DEF IInv
<1>8. QED
  BY <1>3, <1>6, <1>7

-----------------------------------------------------------------------------
\* The inductive invariant of an orderly capture.
OrderlyInv ==
    IInv /\ NetTypes /\ InOrder /\ FiledExactly /\ ReportsExact /\ ~crashed

LEMMA InitOrderly ==
    ASSUME CaptureInit
    PROVE  OrderlyInv
<1>1. IInv /\ NetTypes /\ ~crashed
  BY InitIInv, InitNet DEF CaptureInit, Init
<1>2. \A c \in Conns : /\ tcp[c].exchange = 0 /\ tcp[c].requested = 0
                       /\ tcp[c].sent = 0
                       /\ tcp[c].arrived = {} /\ tcp[c].answered = FALSE
  BY DEF CaptureInit
<1>3. \A c \in Conns : SegmentsOf(c) = {}
  BY DEF CaptureInit, SegmentsOf
<1>4. InOrder
  <2>1. ASSUME NEW c \in Conns PROVE Streams(c, 0)
    <3>1. {} = 1 .. 0 /\ ~(0 > 0) /\ 0 <= 0
      OBVIOUS
    <3>2. Reached(c, 0, tcp[c].sent)
      BY <1>2 DEF Reached
    <3>3. QED
      BY <1>2, <1>3, <3>1, <3>2 DEF Streams
  <2>2. 0 \in 0 .. ResponseLen
    BY Lengths
  <2>3. QED
    BY <2>1, <2>2 DEF InOrder
<1>5. FiledExactly
  <2>1. \A c \in Conns : ~Waiting(tcp[c])
    BY <1>2 DEF Waiting
  <2>2. \A k \in SeqNr : requestMap[k] = NoPair
    BY DEF CaptureInit, Init
  <2>3. QED
    BY <2>1, <2>2 DEF FiledExactly
<1>6. ReportsExact
  <2>1. DOMAIN reported = {}
    BY DEF CaptureInit, Init
  <2>2. ASSUME NEW c \in Conns, NEW x \in 0 .. Exchanges - 1 PROVE ~HeaderArrived(c, x)
    <3>1. ~(1 .. HeaderLen \subseteq {}) /\ ~(x < 0)
      BY HeaderFits, Lengths
    <3>2. QED
      BY <1>2, <3>1 DEF HeaderArrived
  <2>3. QED
    BY <2>1, <2>2 DEF ReportsExact
<1>7. QED
  BY <1>1, <1>4, <1>5, <1>6 DEF OrderlyInv

LEMMA NextOrderly ==
    ASSUME OrderlyCapture, OrderlyInv, [CaptureNext]_captureVars
    PROVE  OrderlyInv'
<1>1. IInv /\ NetTypes /\ InOrder /\ FiledExactly /\ ReportsExact /\ ~crashed
  BY DEF OrderlyInv
<1>2. IInv' /\ NetTypes' /\ InOrder'
  BY <1>1, CaptureSniffs, NextIInv, NextNet, NextInOrder DEF OrderlyCapture
<1>3. ASSUME Quiet PROVE FiledExactly' /\ ReportsExact' /\ ~crashed'
  BY <1>1, <1>3, ReportsKept DEF Quiet
<1>4. ASSUME NEW c \in Conns,
             \/ SendRequest(c) \/ ResendRequest(c) \/ NextExchange(c)
             \/ Acknowledge(c) \/ SendSegment(c)
      PROVE  Quiet
  BY <1>1, <1>4, SendRequestQuiet, ResendRequestQuiet, NextExchangeQuiet, ServerQuiet
<1>5. ASSUME UNCHANGED captureVars PROVE Quiet
  <2>1. UNCHANGED vars /\ tcp' = tcp
    BY <1>5 DEF captureVars
  <2>2. FiledExactly'
    BY <1>1, <2>1, IgnoredFiled DEF Alike
  <2>3. SameHeaders
    BY <2>1, HeadersKept
  <2>4. QED
    BY <2>1, <2>2, <2>3 DEF Quiet, vars
<1>6. ASSUME NEW s \in net, Arrive(s)
      PROVE  FiledExactly' /\ ReportsExact' /\ ~crashed'
  <2>1. FiledExactly' /\ UNCHANGED crashed
    BY <1>1, <1>6, ArriveFiled DEF OrderlyCapture
  <2>2. QED
    BY <1>1, <1>6, <2>1, ArriveReports
<1>7. ASSUME NEW s \in net, ArriveAndRepeat(s) \/ ArriveUncaptured(s) PROVE FALSE
  <2>1. budget.repeats = 0 /\ budget.drops = 0
    BY <1>1 DEF OrderlyCapture, OrderlyNetwork, NetTypes, Budgets
  <2>2. QED
    BY <1>7, <2>1 DEF ArriveAndRepeat, ArriveUncaptured
<1>8. FiledExactly' /\ ReportsExact' /\ ~crashed'
  <2>1. CASE \E c \in Conns : \/ SendRequest(c) \/ ResendRequest(c) \/ NextExchange(c)
                              \/ Acknowledge(c) \/ SendSegment(c)
    BY <1>3, <1>4, <2>1
  <2>2. CASE \E s \in net : Arrive(s) \/ ArriveAndRepeat(s) \/ ArriveUncaptured(s)
    BY <1>6, <1>7, <2>2
  <2>3. QED
    BY <1>3, <1>5, <2>1, <2>2 DEF CaptureNext
<1>9. QED
  BY <1>2, <1>8 DEF OrderlyInv

\* An orderly capture keeps its invariant.
THEOREM OrderlyInvariantHolds ==
    ASSUME OrderlyCapture
    PROVE  CaptureSpec => []OrderlyInv
<1>1. CaptureInit => OrderlyInv
  BY InitOrderly
<1>2. OrderlyInv /\ [CaptureNext]_captureVars => OrderlyInv'
  BY NextOrderly
<1>3. QED
  BY <1>1, <1>2, PTL DEF CaptureSpec

\* In an orderly capture every report carries exactly the header that answers its
\* request, however the response is cut into segments.
THEOREM ExactResponseAlways ==
    ASSUME OrderlyCapture
    PROVE  CaptureSpec => []ExactResponse
<1>1. OrderlyInv => ExactResponse
  BY DEF OrderlyInv, ReportsExact, ExactResponse
<1>2. QED
  BY <1>1, OrderlyInvariantHolds, PTL

\* In an orderly capture, and when something receives the reports, an exchange is
\* reported once its header has arrived: not earlier and not twice.
THEOREM EveryHeaderReportedAlways ==
    ASSUME OrderlyCapture, HasReceiver
    PROVE  CaptureSpec => []EveryHeaderReported
<1>1. OrderlyInv => EveryHeaderReported
  <2> SUFFICES ASSUME ReportsExact, NEW c \in Conns, NEW x \in 0 .. Exchanges - 1
               PROVE  Cardinality(ReportsOf(c, x)) = IF HeaderArrived(c, x) THEN 1 ELSE 0
    BY DEF OrderlyInv, EveryHeaderReported
  <2>1. CASE HeaderArrived(c, x)
    <3>1. PICK i \in DOMAIN reported : reported[i].request = RequestOf(c, x)
      BY <2>1 DEF ReportsExact
    <3>2. ReportsOf(c, x) = {i}
      BY <3>1 DEF ReportsExact, ReportsOf
    <3>3. Cardinality({i}) = 1
      BY FS_Singleton
    <3>4. QED
      BY <2>1, <3>2, <3>3
  <2>2. CASE ~HeaderArrived(c, x)
    <3>1. \A d, y : RequestOf(d, y) = RequestOf(c, x) => d = c /\ y = x
      BY DEF RequestOf, Unit
    <3>2. ReportsOf(c, x) = {}
      BY <2>2, <3>1 DEF ReportsExact, ReportsOf
    <3>3. Cardinality({}) = 0
      BY FS_EmptySet
    <3>4. QED
      BY <2>2, <3>2, <3>3
  <2>3. QED
    BY <2>1, <2>2
<1>2. QED
  BY <1>1, OrderlyInvariantHolds, PTL

\* In an orderly capture no response segment lies outside the data of its pair: the
\* range the handler replaces is always in bounds.
THEOREM NoRangeExceptionAlways ==
    ASSUME OrderlyCapture
    PROVE  CaptureSpec => []NoRangeException
<1>1. OrderlyInv => NoRangeException
  BY DEF OrderlyInv, NoRangeException
<1>2. QED
  BY <1>1, OrderlyInvariantHolds, PTL

LEMMA WaitsForHeader ==
    ASSUME NetTypes, InOrder, NEW c \in Conns, NEW x, x = tcp[c].exchange
    PROVE  /\ Got(tcp[c]) \in Nat /\ tcp[c].arrived = 1 .. Got(tcp[c])
           /\ HeaderArrived(c, x) <=> HeaderLen <= Got(tcp[c])
<1>1. PICK n \in 0 .. ResponseLen : Streams(c, n)
  BY DEF InOrder
<1>2. n \in Nat /\ tcp[c].arrived = 1 .. n
  BY <1>1, Lengths DEF Streams
<1>3. Got(tcp[c]) = n
  BY <1>2, GotIs
<1>4. ~(x < x)
  BY ConnectionTyped
<1>5. HeaderArrived(c, x) <=> 1 .. HeaderLen \subseteq 1 .. n
  BY <1>2, <1>4 DEF HeaderArrived
<1>6. QED
  BY <1>2, <1>3, <1>5, HeaderWithin

\* In an orderly capture the map holds at most the exchange each connection is in
\* the middle of: retired keys and abandoned pairs never pile up in it.
THEOREM NothingLeftOverAlways ==
    ASSUME OrderlyCapture
    PROVE  CaptureSpec => []NothingLeftOver
<1>1. OrderlyInv => NothingLeftOver
  <2> SUFFICES ASSUME OrderlyInv, NEW o \in Filed
               PROVE  \E c \in Conns : /\ pair[o].request = RequestOf(c, tcp[c].exchange)
                                       /\ ~HeaderArrived(c, tcp[c].exchange)
    BY DEF NothingLeftOver
  <2>1. PICK k \in SeqNr : requestMap[k] = o /\ o # NoPair
    BY DEF Filed
  <2>2. PICK c \in Conns : Waiting(tcp[c]) /\ k = KeyOf(c, tcp[c])
    BY <2>1 DEF OrderlyInv, FiledExactly
  <2>3. Pending(o, c, tcp[c])
    BY <2>1, <2>2 DEF OrderlyInv, FiledExactly, PendingAt
  <2>4. Got(tcp[c]) \in Nat
        /\ (HeaderArrived(c, tcp[c].exchange) <=> HeaderLen <= Got(tcp[c]))
    BY WaitsForHeader DEF OrderlyInv
  <2>5. ~HeaderArrived(c, tcp[c].exchange)
    <3>1. \A m, n \in Nat : m < n => ~(n <= m)
      OBVIOUS
    <3>2. QED
      BY <2>2, <2>4, <3>1, HeaderFits DEF Waiting
  <2>6. QED
    BY <2>3, <2>5 DEF Pending
<1>2. QED
  BY <1>1, OrderlyInvariantHolds, PTL

\* In an orderly capture a pair whose response has begun is found by the number that
\* acknowledges the whole request until its header is complete.
THEOREM FollowingFoundByAckAlways ==
    ASSUME OrderlyCapture
    PROVE  CaptureSpec => []FollowingFoundByAck
<1>1. OrderlyInv => FollowingFoundByAck
  <2> SUFFICES ASSUME OrderlyInv, NEW c \in Conns, tcp[c].arrived # {},
                      ~HeaderArrived(c, tcp[c].exchange)
               PROVE  requestMap[EndKey(c, tcp[c].exchange)] # NoPair
    BY DEF FollowingFoundByAck
  <2>1. NetTypes /\ InOrder /\ FiledExactly
    BY DEF OrderlyInv
  <2>2. PICK n \in Nat : n = Got(tcp[c])
    BY <2>1, WaitsForHeader
  <2>3. tcp[c].arrived = 1 .. n /\ ~(HeaderLen <= n)
    BY <2>1, <2>2, WaitsForHeader
  <2>4. n > 0 /\ n < HeaderLen
    BY <2>3, HeaderFits
  <2>5. tcp[c].requested > 0
    <3>1. PICK m \in 0 .. ResponseLen : Streams(c, m)
      BY <2>1 DEF InOrder
    <3>2. tcp[c].arrived = 1 .. m
      BY <3>1 DEF Streams
    <3>3. Got(tcp[c]) = m
      BY <3>2, GotIs
    <3>4. QED
      BY <2>2, <2>4, <3>1, <3>3 DEF Streams
  <2>6. Waiting(tcp[c])
    BY <2>2, <2>4, <2>5 DEF Waiting
  <2>7. Moved(tcp[c])
    BY <2>2, <2>4 DEF Moved
  <2>8. QED
    BY <2>1, <2>6, <2>7 DEF FiledExactly, PendingAt, KeyOf
<1>2. QED
  BY <1>1, OrderlyInvariantHolds, PTL

\* A request files a new pair: it moves none.
LEMMA RequestMovesNone ==
    ASSUME IInv, NEW c \in Conns, NEW x \in 0 .. Exchanges - 1,
           NEW i \in 0 .. RequestLen - 1, HandlePDU(RequestPacket(c, x, i)),
           NEW k \in SeqNr, requestMap'[k] # requestMap[k]
    PROVE  requestMap'[k] \notin Filed
<1>1. PICK p : p = RequestPacket(c, x, i)
  OBVIOUS
<1>2. p \in Packets /\ p.ack \in SeqNr
  BY <1>1, RequestIsPacket DEF Packets
<1>3. RecordRequest(p)
  BY <1>1, RequestIsNoResponse
     DEF HandlePDU, ExtendResponse, CompleteResponse, RaiseRangeException,
         IgnorePDU, IsKnownResponse, vars
<1>4. PICK o \in Pairs \ Allocated : requestMap' = [requestMap EXCEPT ![p.ack] = o]
  BY <1>3 DEF RecordRequest
<1>5. requestMap'[k] = o
  BY <1>2, <1>4 DEF IInv, TypeOK
<1>6. QED
  BY <1>4, <1>5 DEF IInv, FiledAllocated

\* A segment moves only the pair it was looked up for, and only by its first number.
LEMMA SegmentMovesItsPair ==
    ASSUME OrderlyCapture, OrderlyInv, NEW s \in net, Arrive(s),
           NEW k \in SeqNr, requestMap'[k] # requestMap[k], requestMap'[k] \in Filed
    PROVE  /\ s.from = 0
           /\ pair[requestMap'[k]].request = RequestOf(s.conn, s.exchange)
<1>1. PICK p, c, x : p = SegmentPacket(s) /\ c = s.conn /\ x = tcp[c].exchange
  OBVIOUS
<1>2. /\ HandlePDU(p) /\ MayArrive(s) /\ s \in Segments
      /\ IInv /\ TypeOK /\ NetTypes /\ InOrder /\ FiledExactly
  BY <1>1 DEF Arrive, OrderlyInv, IInv, NetTypes
<1>3. IsKnownResponse(p) /\ p.payload # <<>>
  <2>1. ~IsRequestSegment(p)
    BY <1>1, <1>2, SegmentIsNoRequest
  <2>2. IsKnownResponse(p)
    BY <1>2, <2>1
       DEF HandlePDU, RecordRequest, ExtendResponse, CompleteResponse,
           RaiseRangeException, IgnorePDU, vars
  <2>3. QED
    BY <2>2 DEF IsKnownResponse, IsResponseSegment
<1>4. /\ p \in Packets /\ s.exchange = x
      /\ s.from \in 0 .. ResponseLen - 1
      /\ s.from < HeaderLen =>
            /\ KnownByAck(p) <=> Moved(tcp[c])
            /\ ~Moved(tcp[c]) => s.from = 0
      /\ HeaderLen <= s.from => ~IsKnownResponse(p)
  BY <1>1, <1>2, <1>3, SegmentLookedUp DEF OrderlyCapture
<1>5. s.from < HeaderLen
  <2>1. s.from \in Nat
    BY <1>4, Lengths
  <2>2. QED
    BY <1>3, <1>4, <2>1, HeaderFits
<1>6. pair[PairOf(p)].request = RequestOf(c, x)
  BY <1>1, <1>2, <1>3, <1>5, SegmentExtends DEF OrderlyCapture
<1>7. PairOf(p) \in Pairs /\ p.ack \in SeqNr /\ p.seq \in SeqNr
  BY <1>2, <1>3, <1>4, KnownResponseType
<1>8. requestMap'[k] \in {NoPair, Rewritten(p)[k]}
  <2>1. requestMap' \in {Rewritten(p), Retired(p)}
    BY <1>1, <1>2, <1>3, SegmentIsNoRequest
       DEF HandlePDU, RecordRequest, ExtendResponse, CompleteResponse,
           RaiseRangeException, IgnorePDU
  <2>2. Rewritten(p) \in [SeqNr -> Pairs \cup {NoPair}]
    BY <1>2, <1>3, <1>4, RewrittenType
  <2>3. QED
    BY <1>7, <2>1, <2>2 DEF Retired
<1>9. requestMap'[k] # NoPair
  BY DEF Filed
<1>10. Rewritten(p)[k] # requestMap[k] /\ Rewritten(p)[k] # NoPair
  BY <1>8, <1>9
<1>11. ~KnownByAck(p) /\ Rewritten(p)[k] = PairOf(p)
  BY <1>2, <1>7, <1>10 DEF Rewritten, TypeOK
<1>12. QED
  BY <1>1, <1>4, <1>5, <1>6, <1>8, <1>9, <1>11

\* In an orderly capture a pair moves to a new key only when the first segment of the
\* answer to its own request arrives.
THEOREM KeyMovesOnFirstSegmentAlways ==
    ASSUME OrderlyCapture
    PROVE  CaptureSpec => KeyMovesOnFirstSegment
<1> DEFINE Moves ==
              requestMap' # requestMap =>
                \A k \in SeqNr :
                   requestMap'[k] # requestMap[k] /\ requestMap'[k] \in Filed =>
                      \E s \in net \ net' :
                         /\ s.from = 0
                         /\ pair[requestMap'[k]].request = RequestOf(s.conn, s.exchange)
<1>1. OrderlyInv /\ [CaptureNext]_captureVars => [Moves]_captureVars
  <2> SUFFICES ASSUME OrderlyInv, CaptureNext,
                      NEW k \in SeqNr, requestMap'[k] # requestMap[k],
                      requestMap'[k] \in Filed
               PROVE  \E s \in net \ net' :
                         /\ s.from = 0
                         /\ pair[requestMap'[k]].request = RequestOf(s.conn, s.exchange)
    OBVIOUS
  <2>1. IInv /\ NetTypes
    BY DEF OrderlyInv
  <2>2. ASSUME NEW c \in Conns, SendRequest(c) \/ ResendRequest(c) PROVE FALSE
    <3>1. PICK x, i : /\ x = tcp[c].exchange /\ i \in {0, tcp[c].requested}
                      /\ HandlePDU(RequestPacket(c, x, i))
                      /\ i < RequestLen
      BY <2>2, Lengths DEF SendRequest, ResendRequest
    <3>2. x \in 0 .. Exchanges - 1 /\ i \in 0 .. RequestLen - 1
      BY <2>1, <3>1, ConnectionTyped, Lengths
    <3>3. QED
      BY <2>1, <3>1, <3>2, RequestMovesNone
  <2>3. ASSUME NEW c \in Conns, NextExchange(c) \/ Acknowledge(c) \/ SendSegment(c)
        PROVE  FALSE
    BY <2>3 DEF NextExchange, Acknowledge, SendSegment, vars
  <2>4. ASSUME NEW s \in net, Arrive(s)
        PROVE  /\ s \in net \ net'
               /\ s.from = 0
               /\ pair[requestMap'[k]].request = RequestOf(s.conn, s.exchange)
    <3>1. net' = net \ {s}
      BY <2>4 DEF Arrive
    <3>2. QED
      BY <2>4, <3>1, SegmentMovesItsPair
  <2>5. ASSUME NEW s \in net, ArriveAndRepeat(s) \/ ArriveUncaptured(s) PROVE FALSE
    <3>1. budget.repeats = 0 /\ budget.drops = 0
      BY <2>1 DEF OrderlyCapture, OrderlyNetwork, NetTypes, Budgets
    <3>2. QED
      BY <2>5, <3>1 DEF ArriveAndRepeat, ArriveUncaptured
  <2>6. QED
    BY <2>2, <2>3, <2>4, <2>5 DEF CaptureNext
<1>2. QED
  BY <1>1, OrderlyInvariantHolds, PTL DEF CaptureSpec, KeyMovesOnFirstSegment

=============================================================================
