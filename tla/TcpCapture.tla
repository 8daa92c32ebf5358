----------------------------- MODULE TcpCapture -----------------------------
(***************************************************************************)
(* A sniff operation fed by TCP connections of the local host.  Each       *)
(* connection carries HTTP exchanges one after the other; the interface    *)
(* shows the operation what the client sends when it sends it, and what    *)
(* the server sends when it arrives.  The network may reorder and repeat   *)
(* segments, the client may send a request again, and the capture may miss *)
(* a segment the client receives: each within the budget of a constant.    *)
(*                                                                         *)
(* A unit of payload is a triple <<connection, exchange, index>>, so that  *)
(* a property can tell where each unit of a reported response came from.   *)
(***************************************************************************)
EXTENDS SniffOperation

CONSTANTS
    Conns,       \* TCP connections
    Client,      \* the local address
    Server,      \* the address of every HTTP server
    ClientISN,   \* connection -> sequence number of the first request byte
    ServerISN,   \* connection -> sequence number of the first response byte
    KeepAlive,   \* the connections that carry more than one exchange
    Exchanges,   \* bound: exchanges of such a connection
    RequestLen,  \* units of a request, each sent in a segment of its own
    HeaderLen,   \* units of a response header, blank line included
    ResponseLen, \* units of a response
    MaxSegment,  \* bound: units of a response segment
    Padding,     \* what libtins serialises behind the payload of a short frame
    ShortFrame,  \* units of data of the longest segment that makes a short frame
    PartialAcks, \* may the server acknowledge part of a request?
    Reordering,  \* may segments of a connection overtake each other?
    Resends,     \* bound: requests sent again
    Repeats,     \* bound: segments that arrive once more
    Drops        \* bound: segments the client receives, the capture does not

ASSUME CaptureAssumption ==
    /\ Client \in LocalAddresses /\ Server \in Hosts \ LocalAddresses
    /\ ClientISN \in [Conns -> SeqNr] /\ ServerISN \in [Conns -> SeqNr]
    /\ KeepAlive \subseteq Conns
    /\ Exchanges \in Nat \ {0} /\ RequestLen \in Nat \ {0}
    /\ ResponseLen \in Nat /\ HeaderLen \in 1 .. ResponseLen
    /\ MaxSegment \in Nat \ {0}
    /\ Padding \in Seq(Bytes) /\ ShortFrame \in Nat
    /\ PartialAcks \in BOOLEAN /\ Reordering \in BOOLEAN
    /\ Resends \in Nat /\ Repeats \in Nat /\ Drops \in Nat

VARIABLES
    tcp,    \* the state of each connection
    net,    \* segments on their way to the client
    budget  \* what is left of Resends, Repeats and Drops

captureVars == <<vars, tcp, net, budget>>

Unit(c, x, i) == <<c, x, i>>

\* The first segment of a request holds the request line and the Host header;
\* the units after it (indices below zero) are the rest of a long header.
RequestOf(c, x) == Unit(c, x, 0)

ResponseOf(c, x) == [i \in 1 .. ResponseLen |-> Unit(c, x, i)]

RequestPacket(c, x, i) ==
    [flags |-> "data", src |-> Client, dst |-> Server,
     seq |-> (ClientISN[c] + x * RequestLen + i) % SeqMod,
     ack |-> (ServerISN[c] + x * ResponseLen) % SeqMod,
     payload |-> <<Unit(c, x, -i)>>]

PaddingOf(s) == IF s.to - s.from <= ShortFrame THEN Padding ELSE <<>>

\* A segment acknowledges units of the request and carries the units after
\* from up to to of the response; with none it is a pure acknowledgement.  The
\* payload is copied up to the end of the frame, so a short one brings its padding.
SegmentPacket(s) ==
    [flags |-> "data", src |-> Server, dst |-> Client,
     seq |-> (ServerISN[s.conn] + s.exchange * ResponseLen + s.from) % SeqMod,
     ack |-> (ClientISN[s.conn] + s.exchange * RequestLen + s.acked) % SeqMod,
     payload |-> SubSeq(ResponseOf(s.conn, s.exchange), s.from + 1, s.to)
                     \o PaddingOf(s)]

Segments == {s \in [conn : Conns, exchange : 0 .. Exchanges - 1,
                    acked : 0 .. RequestLen,
                    from : 0 .. ResponseLen, to : 0 .. ResponseLen] :
                s.from <= s.to}

\* What the connections carry is among the payloads that can be captured.
ASSUME PayloadAssumption ==
    \A c \in Conns, x \in 0 .. Exchanges - 1 :
        /\ \A i \in 0 .. RequestLen - 1 : <<Unit(c, x, -i)>> \in Payloads
        /\ \A from, to \in 0 .. ResponseLen :
              from <= to =>
                 SubSeq(ResponseOf(c, x), from + 1, to)
                     \o (IF to - from <= ShortFrame THEN Padding ELSE <<>>)
                     \in Payloads

SentBefore(s, t) ==
    /\ s.conn = t.conn
    /\ \/ s.exchange < t.exchange
       \/ s.exchange = t.exchange /\ s.acked < t.acked
       \/ s.exchange = t.exchange /\ s.acked = t.acked /\ s.to < t.to

MayArrive(s) == Reordering \/ ~\E t \in net : SentBefore(t, s)

-----------------------------------------------------------------------------
\* The client sends the next segment of its request.
SendRequest(c) ==
    /\ tcp[c].requested < RequestLen
    /\ HandlePDU(RequestPacket(c, tcp[c].exchange, tcp[c].requested))
    /\ tcp' = [tcp EXCEPT ![c].requested = @ + 1]
    /\ UNCHANGED <<net, budget>>

\* It sends the first segment again while nothing has acknowledged it.
ResendRequest(c) ==
    /\ budget.resends > 0
    /\ tcp[c].requested > 0 /\ ~tcp[c].answered
    /\ HandlePDU(RequestPacket(c, tcp[c].exchange, 0))
    /\ budget' = [budget EXCEPT !.resends = @ - 1]
    /\ UNCHANGED <<tcp, net>>

\* Once it has the whole response, the client may go on to the next exchange.
NextExchange(c) ==
    /\ c \in KeepAlive
    /\ tcp[c].arrived = 1 .. ResponseLen
    /\ tcp[c].exchange + 1 < Exchanges
    /\ tcp' = [tcp EXCEPT ![c] =
                  [exchange |-> tcp[c].exchange + 1, requested |-> 0, acked |-> 0,
                   sent |-> 0, arrived |-> {}, answered |-> FALSE]]
    /\ UNCHANGED <<vars, net, budget>>

\* The server acknowledges the request before it has an answer.
Acknowledge(c) ==
    /\ tcp[c].acked < tcp[c].requested
    /\ PartialAcks \/ tcp[c].requested = RequestLen
    /\ tcp[c].sent = 0
    /\ net' = net \cup {[conn |-> c, exchange |-> tcp[c].exchange,
                         acked |-> tcp[c].requested, from |-> 0, to |-> 0]}
    /\ tcp' = [tcp EXCEPT ![c].acked = tcp[c].requested]
    /\ UNCHANGED <<vars, budget>>

SendSegment(c) ==
    /\ tcp[c].requested = RequestLen
    /\ \E to \in tcp[c].sent + 1 .. tcp[c].sent + MaxSegment :
          /\ to <= ResponseLen
          /\ net' = net \cup {[conn |-> c, exchange |-> tcp[c].exchange,
                               acked |-> RequestLen,
                               from |-> tcp[c].sent, to |-> to]}
          /\ tcp' = [tcp EXCEPT ![c].sent = to, ![c].acked = RequestLen]
    /\ UNCHANGED <<vars, budget>>

-----------------------------------------------------------------------------
Received(s) ==
    IF s.exchange = tcp[s.conn].exchange
    THEN [tcp EXCEPT ![s.conn].arrived = @ \cup s.from + 1 .. s.to,
                     ![s.conn].answered = TRUE]
    ELSE tcp

Arrive(s) ==
    /\ MayArrive(s)
    /\ HandlePDU(SegmentPacket(s))
    /\ tcp' = Received(s)
    /\ net' = net \ {s}
    /\ UNCHANGED budget

\* The segment arrives and will arrive again.
ArriveAndRepeat(s) ==
    /\ budget.repeats > 0
    /\ MayArrive(s)
    /\ HandlePDU(SegmentPacket(s))
    /\ tcp' = Received(s)
    /\ budget' = [budget EXCEPT !.repeats = @ - 1]
    /\ UNCHANGED net

\* The capture drops what the client receives.
ArriveUncaptured(s) ==
    /\ budget.drops > 0
    /\ ~crashed
    /\ MayArrive(s)
    /\ tcp' = Received(s)
    /\ net' = net \ {s}
    /\ budget' = [budget EXCEPT !.drops = @ - 1]
    /\ UNCHANGED vars

CaptureInit ==
    /\ Init
    /\ tcp = [c \in Conns |->
                 [exchange |-> 0, requested |-> 0, acked |-> 0, sent |-> 0,
                  arrived |-> {}, answered |-> FALSE]]
    /\ net = {}
    /\ budget = [resends |-> Resends, repeats |-> Repeats, drops |-> Drops]

CaptureNext ==
    \/ \E c \in Conns :
          \/ SendRequest(c)
          \/ ResendRequest(c)
          \/ NextExchange(c)
          \/ Acknowledge(c)
          \/ SendSegment(c)
    \/ \E s \in net :
          \/ Arrive(s)
          \/ ArriveAndRepeat(s)
          \/ ArriveUncaptured(s)

CaptureSpec == CaptureInit /\ [][CaptureNext]_captureVars

-----------------------------------------------------------------------------
(***************************************************************************)
(* The keys an exchange is filed under, and what a capture must look like  *)
(* for the properties below.  The operation takes numbers alone for the    *)
(* identity of an exchange, so that they speak of captures in which the    *)
(* numbers of the exchanges do not meet.                                   *)
(***************************************************************************)
RequestLines == {RequestOf(c, x) : c \in Conns, x \in 0 .. Exchanges - 1}

\* The number of unit i of a response; the client's requests acknowledge that of
\* unit 0, the server's segments EndKey.
SegmentNr(c, x, i) == (ServerISN[c] + x * ResponseLen + i) % SeqMod

StartKey(c, x) == SegmentNr(c, x, 0)

EndKey(c, x) == (ClientISN[c] + (x + 1) * RequestLen) % SeqMod

NumbersApart ==
    \A c, d \in Conns, x, y \in 0 .. Exchanges - 1 :
        /\ EndKey(c, x) = EndKey(d, y) => c = d /\ x = y
        /\ \A i \in 0 .. ResponseLen - 1 :
              /\ SegmentNr(c, x, i) # EndKey(d, y)
              /\ SegmentNr(c, x, i) = StartKey(d, y) => c = d /\ x = y /\ i = 0

\* No response starts over at zero before its header is complete.
NumbersRise ==
    \A c \in Conns, x \in 0 .. Exchanges - 1, i \in 0 .. HeaderLen - 1 :
        SegmentNr(c, x, i) = StartKey(c, x) + i

\* A header has one blank line, at its end, and padding is no line end.
HeadersEndOnce ==
    /\ HeaderLen > 1
    /\ \A c \in Conns, x \in 0 .. Exchanges - 1 :
          /\ RequestOf(c, x) \notin CRLF /\ Unit(c, x, 1) \notin CRLF
          /\ \A i \in 1 .. HeaderLen - 1 :
                Unit(c, x, i) \in CRLF /\ Unit(c, x, i + 1) \in CRLF
                    <=> i = HeaderLen - 1
    /\ \A i \in DOMAIN Padding : Padding[i] \notin CRLF

\* The network keeps the order, loses and repeats nothing, and shows no padded
\* acknowledgement of part of a request.
OrderlyNetwork ==
    /\ ~Reordering /\ Repeats = 0 /\ Drops = 0
    /\ ~PartialAcks \/ Padding = <<>>

OrderlyCapture ==
    NumbersApart /\ NumbersRise /\ HeadersEndOnce /\ OrderlyNetwork
        /\ Requests = RequestLines

-----------------------------------------------------------------------------
Connections == [exchange : 0 .. Exchanges - 1, requested : 0 .. RequestLen,
                acked : 0 .. RequestLen, sent : 0 .. ResponseLen,
                arrived : SUBSET (1 .. ResponseLen), answered : BOOLEAN]

Budgets == [resends : 0 .. Resends, repeats : 0 .. Repeats, drops : 0 .. Drops]

NetTypes ==
    /\ net \subseteq Segments /\ tcp \in [Conns -> Connections]
    /\ budget \in Budgets

ReportsOf(c, x) == {i \in DOMAIN reported : reported[i].request = RequestOf(c, x)}

HeaderArrived(c, x) ==
    \/ x < tcp[c].exchange
    \/ x = tcp[c].exchange /\ 1 .. HeaderLen \subseteq tcp[c].arrived

\* On an orderly network every report carries exactly the header that answers
\* its request: however the response is cut into segments, however many
\* connections share the map, and whether or not the numbers restart at zero
\* in between two responses.
ExactResponse ==
    \A i \in DOMAIN reported :
        \E c \in Conns, x \in 0 .. Exchanges - 1 :
            /\ reported[i].request = RequestOf(c, x)
            /\ reported[i].response = SubSeq(ResponseOf(c, x), 1, HeaderLen)

\* On an orderly network an exchange is reported once its header has arrived,
\* not earlier and not twice, even if the request was sent more than once.
EveryHeaderReported ==
    \A c \in Conns, x \in 0 .. Exchanges - 1 :
        Cardinality(ReportsOf(c, x)) = IF HeaderArrived(c, x) THEN 1 ELSE 0

\* On an orderly network no response segment lies outside the data of its pair.
NoRangeException == ~crashed

\* On an orderly network the map holds at most the exchange each connection is
\* in the middle of: nothing is left over from an exchange that was answered.
NothingLeftOver ==
    \A o \in Filed :
        \E c \in Conns :
            /\ pair[o].request = RequestOf(c, tcp[c].exchange)
            /\ ~HeaderArrived(c, tcp[c].exchange)

\* Once a response has begun to arrive and until its header is complete, its
\* pair is found by the number that acknowledges the whole request: comment
\* "first packet is seq and following packets is ackSeq".
FollowingFoundByAck ==
    \A c \in Conns :
        /\ tcp[c].arrived # {}
        /\ ~HeaderArrived(c, tcp[c].exchange)
        => requestMap[EndKey(c, tcp[c].exchange)] # NoPair

\* On an orderly network, and while the numbers of two connections do not meet,
\* a pair moves to a new key only when the first segment of the answer to its
\* own request arrives: comment "only of first, rewrite for following packets".
KeyMovesOnFirstSegment ==
    [][requestMap' # requestMap =>
         \A k \in SeqNr :
            requestMap'[k] # requestMap[k] /\ requestMap'[k] \in Filed =>
               \E s \in net \ net' :
                  /\ s.from = 0
                  /\ pair[requestMap'[k]].request = RequestOf(s.conn, s.exchange)
      ]_captureVars

\* On any network a reported response begins with the first unit of the answer
\* to that very request, and holds nothing but units of that answer: status
\* line and headers are never those of another exchange.
AnswersItsRequest ==
    \A i \in DOMAIN reported :
        \E c \in Conns, x \in 0 .. Exchanges - 1 :
            /\ reported[i].request = RequestOf(c, x)
            /\ reported[i].response[1] = Unit(c, x, 1)
            /\ \A j \in DOMAIN reported[i].response :
                  \E k \in 1 .. ResponseLen :
                     reported[i].response[j] = Unit(c, x, k)

=============================================================================
