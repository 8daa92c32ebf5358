---------------------------- MODULE MCTcpCapture ----------------------------
(* TcpCapture on small connections.                                         *)
EXTENDS TcpCapture, TLC

CONSTANTS A, B, pad

MCRequests == RequestLines

MCUnits == {Unit(c, x, i) : c \in Conns, x \in 0 .. Exchanges - 1,
                            i \in 1 - RequestLen .. ResponseLen}

MCBytes == MCUnits \cup {Unit(pad, 0, 0)}

MCPadding == <<Unit(pad, 0, 0)>>

NoPadding == <<>>

\* The last two units of a header are line ends: they make the blank line.
MCCRLF == {Unit(c, x, i) : c \in Conns, x \in 0 .. Exchanges - 1,
                           i \in {HeaderLen - 1, HeaderLen}}

MCPayloads ==
    {<<Unit(c, x, -i)>> : c \in Conns, x \in 0 .. Exchanges - 1,
                          i \in 0 .. RequestLen - 1}
    \cup {SubSeq(ResponseOf(c, x), from, to) \o tail :
              c \in Conns, x \in 0 .. Exchanges - 1,
              from \in 1 .. ResponseLen + 1, to \in 0 .. ResponseLen,
              tail \in {Padding, <<>>}}

Symmetry == Permutations(Pairs)

\* Numbers of two connections that never meet; those of the server of A start
\* over at zero between two responses.
DisjointClient == [c \in Conns |-> IF c = A THEN 20 ELSE 52]
DisjointServer == [c \in Conns |-> IF c = A THEN SeqMod - ResponseLen ELSE 30]

\* What the proofs suppose of every capture, and of one on an orderly network.
ASSUME /\ NumbersApart /\ NumbersRise /\ HeadersEndOnce /\ Requests = RequestLines
       /\ Reordering \/ PartialAcks \/ OrderlyCapture

=============================================================================
