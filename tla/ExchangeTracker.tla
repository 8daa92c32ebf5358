-------------------------- MODULE ExchangeTracker ---------------------------
(***************************************************************************)
(* What a sniff operation promises about the HTTP exchanges it watches:    *)
(* each request opens one exchange, an exchange is reported at most once   *)
(* and only while it is pending, and one that has been given up is never   *)
(* reported later.  It is given up in one way only: a newer request is     *)
(* filed under the same number (or nobody listens for reports).            *)
(***************************************************************************)
CONSTANTS Pairs, HasReceiver

VARIABLE stage

Stages == {"new", "pending", "reported", "lost"}

Init == stage = [o \in Pairs |-> "new"]

\* A request opens exchange o; nothing else changes.
Open(o) ==
    /\ stage[o] = "new"
    /\ stage' = [stage EXCEPT ![o] = "pending"]

\* A request opens exchange o in the place of the pending exchange d.
Supersede(o, d) ==
    /\ stage[o] = "new"
    /\ stage[d] = "pending"
    /\ stage' = [stage EXCEPT ![o] = "pending", ![d] = "lost"]

\* The header of a pending exchange is complete.
Finish(o) ==
    /\ stage[o] = "pending"
    /\ stage' = [stage EXCEPT ![o] = IF HasReceiver THEN "reported" ELSE "lost"]

Next ==
    \E o \in Pairs :
        \/ Open(o)
        \/ Finish(o)
        \/ \E d \in Pairs : Supersede(o, d)

Spec == Init /\ [][Next]_stage

=============================================================================
