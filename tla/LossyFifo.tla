----------------------------- MODULE LossyFifo ------------------------------
(***************************************************************************)
(* A channel for numbered items.  It delivers each item at most once and   *)
(* in the order of the numbers; it may lose items at any time.             *)
(***************************************************************************)
EXTENDS Naturals, Sequences

VARIABLES
    sent,     \* the number of items sent so far; the last one is sent itself
    pending,  \* the items on their way, oldest first
    delivered \* the items delivered, in the order of delivery

vars == <<sent, pending, delivered>>

Init == sent = 0 /\ pending = <<>> /\ delivered = <<>>

\* The increasing sequences of positions in a sequence of m items.
Positions(m) ==
    {p \in UNION {[1 .. n -> 1 .. m] : n \in 0 .. m} :
        \A i, j \in DOMAIN p : i < j => p[i] < p[j]}

\* What can be left of s, in the same order.
Remains(s) == {[j \in DOMAIN p |-> s[p[j]]] : p \in Positions(Len(s))}

Send ==
    /\ sent' = sent + 1
    /\ pending' = Append(pending, sent')
    /\ UNCHANGED delivered

Deliver ==
    /\ pending # <<>>
    /\ delivered' = Append(delivered, Head(pending))
    /\ pending' = Tail(pending)
    /\ UNCHANGED sent

Lose ==
    /\ pending' \in Remains(pending)
    /\ UNCHANGED <<sent, delivered>>

Next == Send \/ Deliver \/ Lose

Spec == Init /\ [][Next]_vars

=============================================================================
