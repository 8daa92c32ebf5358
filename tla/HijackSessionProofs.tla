------------------------ MODULE HijackSessionProofs -------------------------
(***************************************************************************)
(* Proofs about HijackSession, for any number of captures, clicks, refused *)
(* calls, crashes of the helper and closings of the application.           *)
(***************************************************************************)
EXTENDS HijackSession, SequenceLemmas, SequenceTheorems, TLAPS

ReplyType == [call : Calls \cup {"error"}, data : Exchanges]

\* Every notification under way is for an exchange captured before, and so are
\* the exchanges the helper has still to receive.
NotesBounded == notes + Len(reports) <= captured

LEMMA TailTyped ==
    ASSUME NEW S, NEW q \in Seq(S), q # <<>>
    PROVE  Tail(q) \in Seq(S) /\ Head(q) \in S /\ Len(Tail(q)) = Len(q) - 1
  OBVIOUS

LEMMA AppendTyped ==
    ASSUME NEW S, NEW q \in Seq(S), NEW e \in S
    PROVE  Append(q, e) \in Seq(S) /\ Len(Append(q, e)) = Len(q) + 1
  OBVIOUS

LEMMA EmptyTyped == \A S : <<>> \in Seq(S) /\ Len(<<>>) = 0
  BY EmptySeq

LEMMA Spent ==
    ASSUME NEW b \in Budgets
    PROVE  /\ b.clicks > 0 => [b EXCEPT !.clicks = @ - 1] \in Budgets
           /\ b.refusals > 0 => [b EXCEPT !.refusals = @ - 1] \in Budgets
           /\ b.deaths > 0 => [b EXCEPT !.deaths = @ - 1] \in Budgets
           /\ b.closes > 0 => [b EXCEPT !.closes = @ - 1] \in Budgets
  BY SessionAssumption DEF Budgets

LEMMA InitTypeOK == Init => TypeOK /\ NotesBounded
<1> SUFFICES ASSUME Init PROVE TypeOK /\ NotesBounded
  OBVIOUS
<1>1. /\ mainQueue \in Seq(Exchanges) /\ block \in Exchanges
      /\ requests \in Seq(Calls) /\ replies \in Seq(ReplyType)
      /\ reports \in Exchanges /\ dataQueue \in Exchanges /\ delivered \in Exchanges
      /\ Len(reports) = 0
  BY EmptyTyped DEF Init, Exchanges
<1>2. budget \in Budgets
  BY SessionAssumption DEF Init, Budgets
<1>3. AppTypes
  BY <1>1 DEF Init, AppTypes
<1>4. WireTypes
  BY <1>1, SessionAssumption DEF Init, WireTypes, ReplyType
<1>5. HelperTypes /\ GhostTypes
  <2>1. helper \in BOOLEAN /\ fetching \in BOOLEAN /\ sniffing = "no"
    BY DEF Init
  <2>2. captured = 0 /\ excused = FALSE /\ early = FALSE
    BY DEF Init
  <2>3. HelperTypes
    BY <1>1, <2>1 DEF HelperTypes
  <2>4. 0 \in 0 .. MaxCaptures
    BY SessionAssumption
  <2>5. GhostTypes
    BY <1>1, <1>2, <2>2, <2>4 DEF GhostTypes
  <2>6. QED
    BY <2>3, <2>5
<1>6. DownIsEmpty
  BY DEF Init, DownIsEmpty
<1>7. NotesBounded
  BY <1>1 DEF Init, NotesBounded
<1>8. QED
  BY <1>3, <1>4, <1>5, <1>6, <1>7 DEF TypeOK

\* What the application's own steps change.
LEMMA MainThreadTypes ==
    ASSUME TypeOK, NotesBounded,
           \/ ClickStart \/ ClickStop \/ ReceiveNotification \/ RunBlock \/ AddRequest
    PROVE  TypeOK' /\ NotesBounded'
<1> USE DEF TypeOK
<1>0. Len(reports) \in Nat /\ captured \in Nat /\ notes \in Nat
  BY SessionAssumption DEF HelperTypes, GhostTypes, WireTypes, Exchanges
<1>1. CASE ClickStart
  <2>1. requests' \in Seq(Calls)
    BY <1>1, AppendTyped DEF ClickStart, WireTypes, Calls
  <2>2. budget' \in Budgets /\ early' \in BOOLEAN
    BY <1>1, Spent DEF ClickStart, GhostTypes, StopUnderWay
  <2>3. AppTypes' /\ WireTypes' /\ HelperTypes' /\ GhostTypes'
    BY <1>1, <2>1, <2>2
       DEF ClickStart, AppTypes, WireTypes, HelperTypes, GhostTypes, helperVars
  <2>4. DownIsEmpty' /\ NotesBounded'
    BY <1>1 DEF ClickStart, MainThreadIdle, DownIsEmpty, NotesBounded, helperVars
  <2>5. QED
    BY <2>3, <2>4
<1>2. CASE ClickStop
  <2>1. requests' \in Seq(Calls)
    BY <1>2, AppendTyped DEF ClickStop, WireTypes, Calls
  <2>2. budget' \in Budgets
    BY <1>2, Spent DEF ClickStop, GhostTypes
  <2>3. AppTypes' /\ WireTypes' /\ HelperTypes' /\ GhostTypes'
    BY <1>2, <2>1, <2>2
       DEF ClickStop, AppTypes, WireTypes, HelperTypes, GhostTypes, appVars,
           helperVars, history
  <2>4. DownIsEmpty' /\ NotesBounded'
    BY <1>2 DEF ClickStop, MainThreadIdle, DownIsEmpty, NotesBounded, appVars, helperVars
  <2>5. QED
    BY <2>3, <2>4
<1>3. CASE ReceiveNotification
  <2>1. requests' \in Seq(Calls)
    BY <1>3, AppendTyped DEF ReceiveNotification, WireTypes, Calls
  <2>2. AppTypes' /\ WireTypes' /\ HelperTypes' /\ GhostTypes'
    BY <1>3, <2>1, SessionAssumption
       DEF ReceiveNotification, AppTypes, WireTypes, HelperTypes, GhostTypes,
           appVars, helperVars, ghostVars, history
  <2>3. DownIsEmpty' /\ NotesBounded'
    BY <1>0, <1>3
       DEF ReceiveNotification, MainThreadIdle, DownIsEmpty, NotesBounded, appVars,
           helperVars, ghostVars
  <2>4. QED
    BY <2>2, <2>3
<1>4. CASE RunBlock
  <2>1. block' \in Exchanges /\ mainQueue' \in Seq(Exchanges)
    BY <1>4, TailTyped DEF RunBlock, AppTypes
  <2>2. AppTypes' /\ WireTypes' /\ HelperTypes' /\ GhostTypes'
    BY <1>4, <2>1
       DEF RunBlock, AppTypes, WireTypes, HelperTypes, GhostTypes, wireVars,
           helperVars, ghostVars, history
  <2>3. DownIsEmpty' /\ NotesBounded'
    BY <1>4 DEF RunBlock, MainThreadIdle, DownIsEmpty, NotesBounded, wireVars,
                helperVars, ghostVars
  <2>4. QED
    BY <2>2, <2>3
<1>5. CASE AddRequest
  <2>1. block' \in Exchanges /\ delivered' \in Exchanges
    BY <1>5, TailTyped, AppendTyped DEF AddRequest, AppTypes, GhostTypes, Exchanges
  <2>2. AppTypes' /\ WireTypes' /\ HelperTypes' /\ GhostTypes'
    BY <1>5, <2>1
       DEF AddRequest, AppTypes, WireTypes, HelperTypes, GhostTypes, wireVars,
           helperVars, history
  <2>3. DownIsEmpty' /\ NotesBounded'
    BY <1>5 DEF AddRequest, DownIsEmpty, NotesBounded, wireVars, helperVars
  <2>4. QED
    BY <2>2, <2>3
<1>6. QED
  BY <1>1, <1>2, <1>3, <1>4, <1>5

LEMMA ReplyQueueTypes ==
    ASSUME TypeOK, NotesBounded,
           StartReply \/ StopReply \/ ClearFinder \/ QueuedReply \/ ErrorReply
    PROVE  TypeOK' /\ NotesBounded'
<1> USE DEF TypeOK
<1>1. replies # <<>> => /\ Tail(replies) \in Seq(ReplyType)
                        /\ Head(replies) \in ReplyType
  BY TailTyped DEF WireTypes, ReplyType
<1>2. CASE StartReply \/ StopReply \/ ErrorReply
  <2>1. /\ replies # <<>> /\ replies' = Tail(replies) /\ hijacking' \in BOOLEAN
        /\ clearing' \in BOOLEAN
        /\ UNCHANGED <<app, finder, mainQueue, block, requests, notes>>
        /\ UNCHANGED <<helper, sniffing, reports, dataQueue, fetching>>
        /\ UNCHANGED <<captured, delivered, budget, excused, early>>
    BY <1>2
       DEF StartReply, StopReply, ErrorReply, AppTypes, appVars, helperVars, ghostVars,
           history
  <2>2. app
    BY <2>1 DEF DownIsEmpty, AppTypes
  <2>3. AppTypes' /\ WireTypes' /\ HelperTypes' /\ GhostTypes'
    BY <1>1, <2>1 DEF AppTypes, WireTypes, HelperTypes, GhostTypes, ReplyType
  <2>4. DownIsEmpty' /\ NotesBounded'
    BY <2>1, <2>2 DEF DownIsEmpty, NotesBounded
  <2>5. QED
    BY <2>3, <2>4
<1>3. CASE QueuedReply
  <2>1. Head(replies).data \in Exchanges /\ replies' \in Seq(ReplyType)
    BY <1>1, <1>3 DEF QueuedReply, ReplyType
  <2>2. mainQueue' \in Seq(Exchanges)
    BY <1>3, <2>1, AppendTyped DEF QueuedReply, AppTypes
  <2>3. AppTypes' /\ WireTypes' /\ HelperTypes' /\ GhostTypes'
    BY <1>3, <2>1, <2>2
       DEF QueuedReply, AppTypes, WireTypes, HelperTypes, GhostTypes, helperVars,
           ghostVars, history, ReplyType
  <2>4. DownIsEmpty' /\ NotesBounded'
    BY <1>3 DEF QueuedReply, DownIsEmpty, NotesBounded, helperVars, ghostVars
  <2>5. QED
    BY <2>3, <2>4
<1>4. CASE ClearFinder
  <2>1. AppTypes' /\ WireTypes' /\ HelperTypes' /\ GhostTypes'
    BY <1>4
       DEF ClearFinder, AppTypes, WireTypes, HelperTypes, GhostTypes, wireVars,
           helperVars, ghostVars, history
  <2>2. DownIsEmpty' /\ NotesBounded'
    BY <1>4 DEF ClearFinder, DownIsEmpty, NotesBounded, wireVars, helperVars, ghostVars
  <2>3. QED
    BY <2>1, <2>2
<1>5. QED
  BY <1>2, <1>3, <1>4

LEMMA RequestQueueTypes ==
    ASSUME TypeOK, NotesBounded,
           StartSniffing \/ StopSniffing \/ GetQueued \/ EmptyQueue \/ Refuse
    PROVE  TypeOK' /\ NotesBounded'
<1> USE DEF TypeOK
<1>1. ASSUME NEW call \in Calls \cup {"error"}, NEW data \in Exchanges,
             requests # <<>>, ReplyTo(call, data), UNCHANGED notes
      PROVE  WireTypes'
  <2>1. [call |-> call, data |-> data] \in ReplyType
    BY DEF ReplyType
  <2>2. replies' \in Seq(ReplyType) /\ requests' \in Seq(Calls)
    BY <1>1, <2>1, AppendTyped, TailTyped DEF ReplyTo, WireTypes, ReplyType
  <2>3. QED
    BY <1>1, <2>2 DEF WireTypes, ReplyType
<1>2. <<>> \in Exchanges /\ dataQueue \in Exchanges
  BY EmptyTyped DEF Exchanges, HelperTypes
<1>3. \A call : Serving(call) => requests # <<>> /\ helper /\ app
  BY DEF Serving, DownIsEmpty
<1>4. CASE StartSniffing \/ StopSniffing
  <2>1. /\ WireTypes' /\ helper /\ app
        /\ sniffing' \in {"yes", "no", "ending"}
        /\ UNCHANGED <<app, hijacking, finder, clearing, mainQueue, block, notes>>
        /\ UNCHANGED <<helper, reports, dataQueue, fetching>>
        /\ UNCHANGED <<captured, delivered, budget, excused, early>>
    BY <1>1, <1>2, <1>3, <1>4
       DEF StartSniffing, StopSniffing, appVars, ghostVars, history, Calls, HelperTypes
  <2>2. AppTypes' /\ HelperTypes' /\ GhostTypes'
    BY <2>1 DEF AppTypes, HelperTypes, GhostTypes
  <2>3. DownIsEmpty' /\ NotesBounded'
    BY <2>1 DEF DownIsEmpty, NotesBounded
  <2>4. QED
    BY <2>1, <2>2, <2>3
<1>5. CASE GetQueued
  <2>1. WireTypes' /\ helper /\ app
    BY <1>1, <1>2, <1>3, <1>5 DEF GetQueued, Calls
  <2>2. AppTypes' /\ HelperTypes' /\ GhostTypes'
    BY <1>5 DEF GetQueued, AppTypes, HelperTypes, GhostTypes, appVars, ghostVars, history
  <2>3. DownIsEmpty' /\ NotesBounded'
    BY <1>5, <2>1 DEF GetQueued, DownIsEmpty, NotesBounded, appVars, ghostVars
  <2>4. QED
    BY <2>1, <2>2, <2>3
<1>6. CASE EmptyQueue
  <2>1. AppTypes' /\ WireTypes' /\ HelperTypes' /\ GhostTypes'
    BY <1>2, <1>6
       DEF EmptyQueue, Emptied, AppTypes, WireTypes, HelperTypes, GhostTypes, appVars,
           wireVars, ghostVars, history
  <2>2. DownIsEmpty' /\ NotesBounded'
    BY <1>6 DEF EmptyQueue, Emptied, DownIsEmpty, NotesBounded, appVars, wireVars,
                ghostVars
  <2>3. QED
    BY <2>1, <2>2
<1>7. CASE Refuse
  <2>1. WireTypes' /\ helper /\ app
    BY <1>1, <1>2, <1>3, <1>7 DEF Refuse, Calls
  <2>2. budget' \in Budgets
    BY <1>7, Spent DEF Refuse, GhostTypes
  <2>3. AppTypes' /\ HelperTypes' /\ GhostTypes'
    BY <1>7, <2>2
       DEF Refuse, AppTypes, HelperTypes, GhostTypes, appVars, helperVars, history
  <2>4. DownIsEmpty' /\ NotesBounded'
    BY <1>7, <2>1 DEF Refuse, DownIsEmpty, NotesBounded, appVars, helperVars
  <2>5. QED
    BY <2>1, <2>3, <2>4
<1>8. QED
  BY <1>4, <1>5, <1>6, <1>7

LEMMA HelperTypesKept ==
    ASSUME TypeOK, NotesBounded,
           \/ Capture \/ OperationsEnd \/ ReceiveExchange
           \/ HostApplicationCheck \/ Launch \/ Die
    PROVE  TypeOK' /\ NotesBounded'
<1> USE DEF TypeOK
<1>0. /\ Len(reports) \in Nat /\ captured \in Nat /\ notes \in Nat
      /\ <<>> \in Exchanges /\ Len(<<>>) = 0 /\ <<>> \in Seq(Calls)
  BY SessionAssumption, EmptyTyped DEF HelperTypes, GhostTypes, WireTypes, Exchanges
<1>1. CASE Capture
  <2>1. /\ captured + 1 \in 1 .. MaxCaptures
        /\ reports' \in Exchanges /\ Len(reports') = Len(reports) + 1
    BY <1>0, <1>1, SessionAssumption, AppendTyped DEF Capture, HelperTypes, GhostTypes, Exchanges
  <2>2. AppTypes' /\ WireTypes' /\ HelperTypes' /\ GhostTypes'
    BY <1>1, <2>1, SessionAssumption
       DEF Capture, AppTypes, WireTypes, HelperTypes, GhostTypes, appVars, wireVars,
           history
  <2>3. DownIsEmpty' /\ NotesBounded'
    BY <1>0, <1>1, <2>1 DEF Capture, DownIsEmpty, NotesBounded, appVars, wireVars
  <2>4. QED
    BY <2>2, <2>3
<1>2. CASE OperationsEnd
  <2>1. AppTypes' /\ WireTypes' /\ HelperTypes' /\ GhostTypes'
    BY <1>2
       DEF OperationsEnd, AppTypes, WireTypes, HelperTypes, GhostTypes, appVars,
           wireVars, ghostVars, history
  <2>2. DownIsEmpty' /\ NotesBounded'
    BY <1>2 DEF OperationsEnd, DownIsEmpty, NotesBounded, appVars, wireVars, ghostVars
  <2>3. QED
    BY <2>1, <2>2
<1>3. CASE ReceiveExchange
  <2>1. /\ dataQueue' \in Exchanges /\ reports' \in Exchanges
        /\ Len(reports') = Len(reports) - 1
    BY <1>3, TailTyped, AppendTyped DEF ReceiveExchange, HelperTypes, Exchanges
  <2>2. notes' \in {notes, notes + 1} /\ (~app => notes' = notes)
    BY <1>0, <1>3 DEF ReceiveExchange, Posted
  <2>3. notes' \in 0 .. MaxCaptures /\ NotesBounded'
    <3>1. /\ Len(reports') \in Nat /\ captured' = captured
          /\ captured \in 0 .. MaxCaptures
      BY <1>3, <2>1 DEF ReceiveExchange, ghostVars, Exchanges, GhostTypes
    <3>2. QED
      BY <1>0, <2>1, <2>2, <3>1, SessionAssumption DEF NotesBounded
  <2>4. AppTypes' /\ WireTypes' /\ HelperTypes' /\ GhostTypes'
    BY <1>3, <2>1, <2>3
       DEF ReceiveExchange, AppTypes, WireTypes, HelperTypes, GhostTypes, appVars,
           ghostVars, history
  <2>5. DownIsEmpty'
    BY <1>3, <2>2 DEF ReceiveExchange, DownIsEmpty, appVars
  <2>6. QED
    BY <2>3, <2>4, <2>5
<1>4. CASE HostApplicationCheck \/ Die
  <2>1. /\ HelperGone /\ requests' \in Seq(Calls) /\ budget' \in Budgets
        /\ excused' \in BOOLEAN
        /\ requests = <<>> => requests' = <<>>
        /\ UNCHANGED <<app, hijacking, finder, clearing, mainQueue, block>>
        /\ UNCHANGED <<replies, notes, captured, delivered, early>>
    BY <1>0, <1>4, Spent
       DEF HostApplicationCheck, Die, appVars, wireVars, ghostVars, history, WireTypes,
           GhostTypes
  <2>2. AppTypes' /\ WireTypes' /\ HelperTypes' /\ GhostTypes'
    BY <1>0, <2>1 DEF HelperGone, AppTypes, WireTypes, HelperTypes, GhostTypes
  <2>3. DownIsEmpty' /\ NotesBounded'
    BY <1>0, <2>1 DEF HelperGone, DownIsEmpty, NotesBounded
  <2>4. QED
    BY <2>2, <2>3
<1>5. CASE Launch
  <2>1. AppTypes' /\ WireTypes' /\ HelperTypes' /\ GhostTypes'
    BY <1>5
       DEF Launch, AppTypes, WireTypes, HelperTypes, GhostTypes, appVars, wireVars,
           ghostVars, history
  <2>2. DownIsEmpty' /\ NotesBounded'
    BY <1>5 DEF Launch, DownIsEmpty, NotesBounded, appVars, wireVars, ghostVars
  <2>3. QED
    BY <2>1, <2>2
<1>6. QED
  BY <1>1, <1>2, <1>3, <1>4, <1>5

LEMMA LifeTypes ==
    ASSUME TypeOK, NotesBounded, CloseApp \/ OpenApp
    PROVE  TypeOK' /\ NotesBounded'
<1> USE DEF TypeOK
<1>0. /\ Len(reports) \in Nat /\ captured \in Nat /\ notes \in Nat
      /\ <<>> \in Exchanges /\ <<>> \in Seq(Exchanges)
      /\ <<>> \in Seq(Calls) /\ <<>> \in Seq(ReplyType)
  BY SessionAssumption, EmptyTyped DEF HelperTypes, GhostTypes, WireTypes, Exchanges
<1>1. CASE CloseApp
  <2>1. budget' \in Budgets
    BY <1>1, Spent DEF CloseApp, GhostTypes
  <2>2. AppTypes'
    BY <1>0, <1>1 DEF CloseApp, AppTypes
  <2>3. WireTypes'
    BY <1>0, <1>1, SessionAssumption DEF CloseApp, WireTypes, ReplyType
  <2>4. HelperTypes' /\ GhostTypes'
    BY <1>1, <2>1 DEF CloseApp, HelperTypes, GhostTypes, helperVars, history
  <2>5. DownIsEmpty' /\ NotesBounded'
    BY <1>0, <1>1 DEF CloseApp, DownIsEmpty, NotesBounded, helperVars
  <2>6. QED
    BY <2>2, <2>3, <2>4, <2>5
<1>2. CASE OpenApp
  <2>1. AppTypes' /\ WireTypes' /\ HelperTypes' /\ GhostTypes'
    BY <1>2
       DEF OpenApp, AppTypes, WireTypes, HelperTypes, GhostTypes, wireVars, helperVars
  <2>2. DownIsEmpty' /\ NotesBounded'
    BY <1>2 DEF OpenApp, DownIsEmpty, NotesBounded, wireVars, helperVars
  <2>3. QED
    BY <2>1, <2>2
<1>3. QED
  BY <1>1, <1>2

LEMMA StepTypeOK == TypeOK /\ NotesBounded /\ [Next]_vars => TypeOK' /\ NotesBounded'
<1> SUFFICES ASSUME TypeOK, NotesBounded, [Next]_vars PROVE TypeOK' /\ NotesBounded'
  OBVIOUS
<1>1. CASE UNCHANGED vars
  BY <1>1
     DEF TypeOK, NotesBounded, AppTypes, WireTypes, HelperTypes, GhostTypes, DownIsEmpty,
         vars, appVars, wireVars, helperVars, ghostVars, history
<1>2. QED
  BY <1>1, MainThreadTypes, ReplyQueueTypes, RequestQueueTypes, HelperTypesKept,
     LifeTypes DEF Next, User, System

\* The types hold, and a process that is down holds nothing and is sent nothing.
THEOREM TypeCorrect == Spec => []TypeOK
<1>1. Init => TypeOK /\ NotesBounded
  BY InitTypeOK
<1>2. TypeOK /\ NotesBounded /\ [Next]_vars => (TypeOK /\ NotesBounded)'
  BY StepTypeOK
<1>3. QED
  BY <1>1, <1>2, PTL DEF Spec

-----------------------------------------------------------------------------
(***************************************************************************)
(* The application and the helper agree.                                   *)
(***************************************************************************)
LEMMA TailAt ==
    ASSUME NEW S, NEW q \in Seq(S), q # <<>>
    PROVE  /\ 1 \in DOMAIN q /\ q[1] = Head(q) /\ DOMAIN q \subseteq Nat \ {0}
           /\ \A i \in DOMAIN Tail(q) : /\ i \in Nat \ {0} /\ i + 1 \in DOMAIN q
                                        /\ Tail(q)[i] = q[i + 1]
           /\ \A i \in DOMAIN q : i # 1 => /\ i - 1 \in DOMAIN Tail(q)
                                           /\ Tail(q)[i - 1] = q[i]
  OBVIOUS

LEMMA AppendAt ==
    ASSUME NEW S, NEW q \in Seq(S), NEW e \in S
    PROVE  /\ Len(q) + 1 \in DOMAIN Append(q, e)
           /\ Append(q, e)[Len(q) + 1] = e
           /\ \A i \in DOMAIN q : /\ i \in DOMAIN Append(q, e) /\ i < Len(q) + 1
                                  /\ i \in Nat /\ Append(q, e)[i] = q[i]
           /\ \A i \in DOMAIN Append(q, e) :
                 \/ i \in DOMAIN q /\ Append(q, e)[i] = q[i]
                 \/ i = Len(q) + 1 /\ Append(q, e)[i] = e
           /\ Len(q) \in Nat
  OBVIOUS

\* The replies that will change the property hijacking; the last decides.
Verdicts(q) == {i \in DOMAIN q : q[i].call \in {"start", "stop"}}

LastSays(q, call) ==
    \A i \in Verdicts(q) : (\A j \in Verdicts(q) : j <= i) => q[i].call = call

\* What hijacking will be once the replies on their way are handled.
Foreseen(yes) ==
    /\ Verdicts(replies) = {} => (hijacking <=> yes)
    /\ LastSays(replies, IF yes THEN "start" ELSE "stop")

\* Stronger than HijackingAgrees, because it does not wait for the replies; calls
\* the helper has not seen yet matter to neither side.
Agreement == app /\ ~excused => Foreseen(sniffing = "yes")

LEMMA VerdictTaken ==
    ASSUME NEW q \in Seq(ReplyType), q # <<>>, NEW call \in {"start", "stop"},
           LastSays(q, call)
    PROVE  /\ LastSays(Tail(q), call)
           /\ Verdicts(q) # {} /\ Verdicts(Tail(q)) = {}
                 => 1 \in Verdicts(q) /\ Head(q).call = call
           /\ Verdicts(q) = {} => Verdicts(Tail(q)) = {}
<1>1. ASSUME NEW i \in Verdicts(Tail(q)), \A j \in Verdicts(Tail(q)) : j <= i
      PROVE  Tail(q)[i].call = call
  <2>1. i \in Nat /\ i + 1 \in Verdicts(q) /\ Tail(q)[i] = q[i + 1]
    BY TailAt DEF Verdicts
  <2>2. ASSUME NEW j \in Verdicts(q) PROVE j <= i + 1
    <3>1. CASE j = 1
      BY <2>1, <3>1
    <3>2. CASE j # 1
      <4>1. j \in Nat /\ j - 1 \in Verdicts(Tail(q))
        BY <3>2, TailAt DEF Verdicts
      <4>2. QED
        BY <1>1, <2>1, <4>1
    <3>3. QED
      BY <3>1, <3>2
  <2>3. QED
    BY <2>1, <2>2 DEF LastSays
<1>2. ASSUME Verdicts(q) # {}, Verdicts(Tail(q)) = {}
      PROVE  1 \in Verdicts(q) /\ Head(q).call = call
  <2>1. ASSUME NEW i \in Verdicts(q), i # 1 PROVE FALSE
    <3>1. i - 1 \in DOMAIN Tail(q) /\ Tail(q)[i - 1] = q[i]
      BY <2>1, TailAt DEF Verdicts
    <3>2. i - 1 \in Verdicts(Tail(q))
      BY <3>1 DEF Verdicts
    <3>3. QED
      BY <1>2, <3>2
  <2>2. 1 \in Verdicts(q) /\ \A j \in Verdicts(q) : j <= 1
    BY <1>2, <2>1
  <2>3. QED
    BY <2>2, TailAt DEF LastSays
<1>3. ASSUME Verdicts(q) = {} PROVE Verdicts(Tail(q)) = {}
  BY <1>3, TailAt DEF Verdicts
<1>4. QED
  BY <1>1, <1>2, <1>3 DEF LastSays

LEMMA ReplyAdded ==
    ASSUME NEW q \in Seq(ReplyType), NEW r \in ReplyType
    PROVE  /\ r.call \in {"start", "stop"} =>
                 /\ Verdicts(Append(q, r)) # {}
                 /\ LastSays(Append(q, r), r.call)
           /\ r.call \notin {"start", "stop"} =>
                 /\ Verdicts(Append(q, r)) = Verdicts(q)
                 /\ \A call : LastSays(q, call) => LastSays(Append(q, r), call)
<1>1. ASSUME r.call \in {"start", "stop"}
      PROVE  Verdicts(Append(q, r)) # {} /\ LastSays(Append(q, r), r.call)
  <2>1. Len(q) + 1 \in Verdicts(Append(q, r))
    BY <1>1, AppendAt DEF Verdicts
  <2>2. ASSUME NEW i \in Verdicts(Append(q, r)),
               \A j \in Verdicts(Append(q, r)) : j <= i
        PROVE  Append(q, r)[i].call = r.call
    <3>1. Len(q) + 1 <= i
      BY <2>1, <2>2
    <3>2. i = Len(q) + 1
      BY <3>1, AppendAt DEF Verdicts
    <3>3. QED
      BY <3>2, AppendAt
  <2>3. QED
    BY <2>1, <2>2 DEF LastSays
<1>2. ASSUME r.call \notin {"start", "stop"}
      PROVE  Verdicts(Append(q, r)) = Verdicts(q)
  BY <1>2, AppendAt DEF Verdicts
<1>3. ASSUME r.call \notin {"start", "stop"}, NEW call, LastSays(q, call)
      PROVE  LastSays(Append(q, r), call)
  <2>1. \A i \in Verdicts(q) : Append(q, r)[i] = q[i]
    BY AppendAt DEF Verdicts
  <2>2. QED
    BY <1>2, <1>3, <2>1 DEF LastSays
<1>4. QED
  BY <1>1, <1>2, <1>3

LEMMA InitAgreement == Init => Agreement
<1> SUFFICES ASSUME Init PROVE Agreement
  OBVIOUS
<1>1. replies \in Seq(ReplyType) /\ Len(replies) = 0
  BY EmptyTyped DEF Init
<1>2. Verdicts(replies) = {}
  BY <1>1 DEF Verdicts
<1>3. QED
  BY <1>2 DEF Init, Agreement, Foreseen, LastSays

LEMMA StepAgreement == TypeOK /\ Agreement /\ [Next]_vars => Agreement'
<1> SUFFICES ASSUME TypeOK, Agreement, [Next]_vars, app', ~excused'
             PROVE  Foreseen(sniffing = "yes")'
  BY DEF Agreement
<1> DEFINE yes == sniffing = "yes"
<1>0. replies \in Seq(ReplyType)
  BY DEF TypeOK, WireTypes, ReplyType
<1>1. ASSUME UNCHANGED <<app, excused, replies, hijacking>>, sniffing' = "yes" <=> yes
      PROVE  Foreseen(sniffing = "yes")'
  BY <1>1 DEF Agreement, Foreseen
<1>2. ASSUME app, ~excused, replies # <<>>, replies' = Tail(replies),
             UNCHANGED sniffing,
             \/ Head(replies).call = "start" /\ hijacking'
             \/ Head(replies).call = "stop" /\ ~hijacking'
             \/ Head(replies).call \notin {"start", "stop"} /\ UNCHANGED hijacking
      PROVE  Foreseen(sniffing = "yes")'
  <2>1. /\ Verdicts(replies) = {} => (hijacking <=> yes)
        /\ LastSays(replies, IF yes THEN "start" ELSE "stop")
    BY <1>2 DEF Agreement, Foreseen
  <2>2. /\ LastSays(Tail(replies), IF yes THEN "start" ELSE "stop")
        /\ Verdicts(replies) # {} /\ Verdicts(Tail(replies)) = {}
              => /\ 1 \in Verdicts(replies)
                 /\ Head(replies).call = IF yes THEN "start" ELSE "stop"
    BY <1>0, <1>2, <2>1, VerdictTaken
  <2>3. 1 \in Verdicts(replies) <=> Head(replies).call \in {"start", "stop"}
    BY <1>0, <1>2, TailAt DEF Verdicts
  <2>4. Verdicts(Tail(replies)) = {} => (hijacking' <=> yes)
    BY <1>2, <2>1, <2>2, <2>3
  <2>5. QED
    BY <1>2, <2>2, <2>4 DEF Foreseen
<1>3. ASSUME NEW call \in Calls \cup {"error"}, NEW data \in Exchanges,
             replies' = Append(replies, [call |-> call, data |-> data]),
             UNCHANGED <<app, excused, hijacking>>,
             \/ call = "start" /\ sniffing' = "yes"
             \/ call = "stop" /\ sniffing' # "yes"
             \/ call \notin {"start", "stop"} /\ UNCHANGED sniffing
      PROVE  Foreseen(sniffing = "yes")'
  <2>1. /\ [call |-> call, data |-> data] \in ReplyType
        /\ [call |-> call, data |-> data].call = call
    BY DEF ReplyType
  <2>2. PICK r \in ReplyType : r.call = call /\ replies' = Append(replies, r)
    BY <1>3, <2>1
  <2>3. /\ Verdicts(replies) = {} => (hijacking <=> yes)
        /\ LastSays(replies, IF yes THEN "start" ELSE "stop")
    BY <1>3 DEF Agreement, Foreseen
  <2>4. CASE call \in {"start", "stop"}
    <3>1. Verdicts(replies') # {} /\ LastSays(replies', call)
      BY <1>0, <2>2, <2>4, ReplyAdded
    <3>2. call = IF sniffing' = "yes" THEN "start" ELSE "stop"
      BY <1>3, <2>4
    <3>3. QED
      BY <3>1, <3>2 DEF Foreseen
  <2>5. CASE call \notin {"start", "stop"}
    <3>1. /\ Verdicts(replies') = Verdicts(replies)
          /\ LastSays(replies', IF yes THEN "start" ELSE "stop")
      BY <1>0, <2>2, <2>3, <2>5, ReplyAdded
    <3>2. QED
      BY <1>3, <2>3, <2>5, <3>1 DEF Foreseen
  <2>6. QED
    BY <2>4, <2>5
<1>4. dataQueue \in Exchanges /\ <<>> \in Exchanges
  BY EmptyTyped DEF TypeOK, HelperTypes, Exchanges
<1>5. CASE StartReply \/ StopReply \/ QueuedReply \/ ErrorReply
  <2>1. UNCHANGED <<app, excused, sniffing>> /\ replies # <<>> /\ replies' = Tail(replies)
    BY <1>5 DEF StartReply, StopReply, QueuedReply, ErrorReply, helperVars, ghostVars,
                history, appVars
  <2>2. \/ Head(replies).call = "start" /\ hijacking'
        \/ Head(replies).call = "stop" /\ ~hijacking'
        \/ Head(replies).call \notin {"start", "stop"} /\ UNCHANGED hijacking
    BY <1>5 DEF StartReply, StopReply, QueuedReply, ErrorReply, appVars
  <2>3. QED
    BY <1>2, <2>1, <2>2
<1>6. CASE StartSniffing
  BY <1>3, <1>4, <1>6 DEF StartSniffing, ReplyTo, Calls, appVars, ghostVars, history
<1>7. CASE StopSniffing
  BY <1>3, <1>4, <1>7 DEF StopSniffing, ReplyTo, Calls, appVars, ghostVars, history
<1>8. CASE GetQueued
  BY <1>3, <1>4, <1>8 DEF GetQueued, ReplyTo, Calls, appVars, ghostVars, history
<1>9. CASE Refuse
  BY <1>3, <1>4, <1>9 DEF Refuse, ReplyTo, Calls, appVars, helperVars, history
<1>10. CASE OpenApp
  <2>1. /\ ~app /\ sniffing # "yes" /\ ~hijacking /\ replies = <<>>
        /\ UNCHANGED <<hijacking, replies, sniffing>>
    BY <1>10 DEF OpenApp, TypeOK, DownIsEmpty, helperVars, wireVars
  <2>2. Len(replies') = 0 /\ replies' \in Seq(ReplyType)
    BY <2>1, EmptyTyped
  <2>3. Verdicts(replies') = {}
    BY <2>2 DEF Verdicts
  <2>4. QED
    BY <2>1, <2>3 DEF Foreseen, LastSays
<1>11. CASE CloseApp \/ HostApplicationCheck \/ Die
  BY <1>11 DEF CloseApp, HostApplicationCheck, HostApplicationMissing, Die, appVars
<1>12. CASE \/ ClickStart \/ ClickStop \/ ReceiveNotification \/ RunBlock \/ AddRequest
            \/ ClearFinder \/ EmptyQueue \/ Capture \/ OperationsEnd
            \/ ReceiveExchange \/ Launch \/ UNCHANGED vars
  <2>1. /\ UNCHANGED <<app, excused, replies, hijacking>>
        /\ sniffing' = "yes" <=> yes
    BY <1>12
       DEF ClickStart, ClickStop, ReceiveNotification, RunBlock, AddRequest, ClearFinder,
           EmptyQueue, Capture, OperationsEnd, ReceiveExchange, Launch, vars, appVars,
           wireVars, helperVars, ghostVars, history
  <2>2. QED
    BY <1>1, <2>1
<1>13. QED
  BY <1>5, <1>6, <1>7, <1>8, <1>9, <1>10, <1>11, <1>12 DEF Next, User, System

\* The button and the helper agree whenever no reply is on its way, whatever was
\* clicked, refused or closed meanwhile: unless the helper crashed, or was still
\* sniffing when the application was opened again.
THEOREM HijackingAgreesAlways == Spec => []HijackingAgrees
<1>1. Init => TypeOK /\ NotesBounded /\ Agreement
  BY InitTypeOK, InitAgreement
<1>2. TypeOK /\ NotesBounded /\ Agreement /\ [Next]_vars
      => (TypeOK /\ NotesBounded /\ Agreement)'
  BY StepTypeOK, StepAgreement
<1>3. TypeOK /\ Agreement => HijackingAgrees
  <2> SUFFICES ASSUME Agreement, app, ~excused, replies = <<>>
               PROVE  hijacking <=> sniffing = "yes"
    BY DEF HijackingAgrees
  <2>1. Len(replies) = 0 /\ replies \in Seq(ReplyType)
    BY EmptyTyped
  <2>2. Verdicts(replies) = {}
    BY <2>1 DEF Verdicts
  <2>3. QED
    BY <2>2 DEF Agreement, Foreseen
<1>4. QED
  BY <1>1, <1>2, <1>3, PTL DEF Spec

-----------------------------------------------------------------------------
(***************************************************************************)
(* The finder of a session.                                                *)
(***************************************************************************)
Has(call, q) == \E i \in DOMAIN q : q[i] = call

\* The calls that the replies are to.
Replying(call) == \E i \in DOMAIN replies : replies[i].call = call

StartPending == Replying("start") \/ Has("start", requests)

\* Unless the last start was clicked early, no start is under way behind a stop:
\* not in the requests, not in the replies, and not behind the reply to a stop that
\* is being handled.
NoStartBehindStop ==
    /\ clearing => ~StartPending
    /\ Replying("stop") => ~Has("start", requests)
    /\ \A i, j \in DOMAIN requests :
          i < j /\ requests[i] = "stop" => requests[j] # "start"
    /\ \A i, j \in DOMAIN replies :
          i < j /\ replies[i].call = "stop" => replies[j].call # "start"

FinderKept ==
    /\ clearing => ~hijacking
    /\ ~early => NoStartBehindStop
    /\ ~early /\ ~finder => ~hijacking /\ ~StartPending

LEMMA InitFinderKept == Init => FinderKept
<1> SUFFICES ASSUME Init PROVE FinderKept
  OBVIOUS
<1>1. /\ replies \in Seq(ReplyType) /\ Len(replies) = 0
      /\ requests \in Seq(Calls) /\ Len(requests) = 0
  BY EmptyTyped DEF Init
<1>2. DOMAIN replies = {} /\ DOMAIN requests = {}
  BY <1>1
<1>3. ~hijacking /\ ~clearing
  BY DEF Init
<1>4. QED
  BY <1>2, <1>3 DEF FinderKept, NoStartBehindStop, StartPending, Replying, Has

\* Taking the head of the requests or of the replies, or appending anything but a
\* start, brings no start behind a stop.
LEMMA ReplyTaken ==
    ASSUME TypeOK, replies # <<>>, replies' = Tail(replies), requests' = requests
    PROVE  /\ \A call : Replying(call)' => Replying(call)
           /\ Replying(Head(replies).call)
           /\ NoStartBehindStop =>
                 /\ \A i, j \in DOMAIN replies' :
                       i < j /\ replies'[i].call = "stop" => replies'[j].call # "start"
                 /\ Head(replies).call = "stop" => ~StartPending'
<1>1. replies \in Seq(ReplyType)
  BY DEF TypeOK, WireTypes, ReplyType
<1>2. /\ 1 \in DOMAIN replies /\ replies[1] = Head(replies)
      /\ \A i \in DOMAIN replies' : /\ i \in Nat \ {0} /\ i + 1 \in DOMAIN replies
                                    /\ replies'[i] = replies[i + 1]
  BY <1>1, TailAt
<1>3. ASSUME NEW call, Replying(call)' PROVE Replying(call)
  BY <1>2, <1>3 DEF Replying
<1>4. Replying(Head(replies).call)
  BY <1>2 DEF Replying
<1>5. ASSUME NoStartBehindStop, NEW i \in DOMAIN replies', NEW j \in DOMAIN replies',
             i < j, replies'[i].call = "stop"
      PROVE  replies'[j].call # "start"
  <2>1. i + 1 < j + 1
    BY <1>2, <1>5
  <2>2. QED
    BY <1>2, <1>5, <2>1 DEF NoStartBehindStop
<1>6. ASSUME NoStartBehindStop, Head(replies).call = "stop" PROVE ~StartPending'
  <2>1. ~Has("start", requests)'
    BY <1>4, <1>6 DEF NoStartBehindStop, Has
  <2>2. ASSUME NEW j \in DOMAIN replies' PROVE replies'[j].call # "start"
    <3>1. 1 < j + 1
      BY <1>2
    <3>2. QED
      BY <1>2, <1>6, <3>1 DEF NoStartBehindStop
  <2>3. QED
    BY <2>1, <2>2 DEF StartPending, Replying
<1>7. QED
  BY <1>3, <1>4, <1>5, <1>6

LEMMA RequestServed ==
    ASSUME TypeOK, requests # <<>>, FinderKept,
           UNCHANGED <<hijacking, finder, clearing, early>>,
           NEW call \in Calls \cup {"error"}, NEW data \in Exchanges,
           ReplyTo(call, data), call \in {Head(requests), "error"}
    PROVE  FinderKept'
<1>1. /\ replies \in Seq(ReplyType) /\ requests \in Seq(Calls)
      /\ [call |-> call, data |-> data] \in ReplyType
      /\ [call |-> call, data |-> data].call = call
  BY DEF TypeOK, WireTypes, ReplyType
<1>2. PICK r \in ReplyType : r.call = call /\ replies' = Append(replies, r)
  BY <1>1 DEF ReplyTo
<1>3. /\ 1 \in DOMAIN requests /\ requests[1] = Head(requests)
      /\ \A i \in DOMAIN requests' : /\ i \in Nat \ {0} /\ i + 1 \in DOMAIN requests
                                     /\ requests'[i] = requests[i + 1]
  BY <1>1, TailAt DEF ReplyTo
<1>4. /\ \A i \in DOMAIN replies : /\ i \in DOMAIN replies' /\ i \in Nat
                                   /\ i < Len(replies) + 1 /\ replies'[i] = replies[i]
      /\ \A i \in DOMAIN replies' :
            \/ i \in DOMAIN replies /\ replies'[i] = replies[i]
            \/ i = Len(replies) + 1 /\ replies'[i] = r
      /\ Len(replies) \in Nat
  BY <1>1, <1>2, AppendAt
<1>5. Has("start", requests)' => Has("start", requests)
  BY <1>3 DEF Has
<1>6. call # "error" => Has(call, requests)
  BY <1>3 DEF Has
<1>7. \A c : Replying(c)' => Replying(c) \/ c = call
  BY <1>2, <1>4 DEF Replying
<1>8. StartPending' => StartPending
  BY <1>5, <1>6, <1>7 DEF StartPending
<1>9. ASSUME NoStartBehindStop PROVE NoStartBehindStop'
  <2>1. clearing' => ~StartPending'
    BY <1>8, <1>9 DEF NoStartBehindStop
  <2>2. ASSUME NEW i \in DOMAIN requests', NEW j \in DOMAIN requests', i < j,
               requests'[i] = "stop"
        PROVE  requests'[j] # "start"
    <3>1. i + 1 < j + 1
      BY <1>3, <2>2
    <3>2. QED
      BY <1>3, <1>9, <2>2, <3>1 DEF NoStartBehindStop
  <2>3. ASSUME NEW i \in DOMAIN replies', NEW j \in DOMAIN replies', i < j,
               replies'[i].call = "stop"
        PROVE  replies'[j].call # "start"
    <3>1. i \in DOMAIN replies /\ replies'[i] = replies[i]
      <4>1. CASE i = Len(replies) + 1
        BY <1>4, <2>3, <4>1
      <4>2. QED
        BY <1>4, <4>1
    <3>2. CASE j \in DOMAIN replies /\ replies'[j] = replies[j]
      BY <1>9, <2>3, <3>1, <3>2 DEF NoStartBehindStop
    <3>3. CASE j = Len(replies) + 1 /\ replies'[j] = r
      <4>1. Replying("stop")
        BY <2>3, <3>1 DEF Replying
      <4>2. call # "start"
        BY <1>6, <1>9, <4>1 DEF NoStartBehindStop
      <4>3. QED
        BY <1>2, <3>3, <4>2
    <3>4. QED
      BY <1>4, <3>2, <3>3
  <2>4. ASSUME Replying("stop")' PROVE ~Has("start", requests)'
    <3>1. CASE Replying("stop")
      BY <1>5, <1>9, <3>1 DEF NoStartBehindStop
    <3>2. CASE call = "stop"
      <4>1. requests[1] = "stop"
        BY <1>3, <3>2
      <4>2. ASSUME NEW j \in DOMAIN requests' PROVE requests'[j] # "start"
        <5>1. 1 < j + 1
          BY <1>3
        <5>2. QED
          BY <1>3, <1>9, <4>1, <5>1 DEF NoStartBehindStop
      <4>3. QED
        BY <4>2 DEF Has
    <3>3. QED
      BY <1>7, <2>4, <3>1, <3>2
  <2>5. QED
    BY <2>1, <2>2, <2>3, <2>4 DEF NoStartBehindStop
<1>10. QED
  BY <1>8, <1>9 DEF FinderKept

LEMMA StepFinderKept == TypeOK /\ FinderKept /\ [Next]_vars => FinderKept'
<1> SUFFICES ASSUME TypeOK, FinderKept, [Next]_vars PROVE FinderKept'
  OBVIOUS
<1>0. /\ requests \in Seq(Calls) /\ {"start", "stop", "getQueued"} = Calls
      /\ dataQueue \in Exchanges /\ <<>> \in Exchanges
  BY EmptyTyped DEF TypeOK, WireTypes, HelperTypes, Calls, Exchanges
<1>1. CASE ClickStart
  <2>1. requests' = Append(requests, "start") /\ finder' /\ replies' = replies
        /\ ~hijacking' /\ clearing' = clearing /\ (early' <=> StopUnderWay)
    BY <1>1 DEF ClickStart
  <2>2. ASSUME ~StopUnderWay PROVE NoStartBehindStop'
    <3>1. /\ ~clearing /\ \A i \in DOMAIN requests : requests[i] # "stop"
          /\ \A i \in DOMAIN replies : replies[i].call # "stop"
      BY <2>2 DEF StopUnderWay, Range
    <3>2. \A i \in DOMAIN requests' : requests'[i] # "stop"
      BY <1>0, <2>1, <3>1, AppendAt
    <3>3. QED
      BY <2>1, <3>1, <3>2 DEF NoStartBehindStop, Replying
  <2>3. QED
    BY <2>1, <2>2 DEF FinderKept
<1>2. ASSUME NEW call \in {"stop", "getQueued"}, requests' = Append(requests, call),
             UNCHANGED <<hijacking, finder, clearing, early, replies>>,
             call = "stop" => hijacking
      PROVE  FinderKept'
  <2>1. /\ \A i \in DOMAIN requests' :
              \/ i \in DOMAIN requests /\ requests'[i] = requests[i]
              \/ i = Len(requests) + 1 /\ requests'[i] = call
        /\ \A i \in DOMAIN requests : i \in Nat /\ i < Len(requests) + 1
        /\ Len(requests) \in Nat
    BY <1>0, <1>2, AppendAt
  <2>2. Has("start", requests)' => Has("start", requests)
    BY <1>2, <2>1 DEF Has
  <2>3. StartPending' => StartPending
    BY <1>2, <2>2 DEF StartPending, Replying
  <2>4. ASSUME NoStartBehindStop, NEW i \in DOMAIN requests', NEW j \in DOMAIN requests',
               i < j, requests'[i] = "stop"
        PROVE  requests'[j] # "start"
    <3>1. CASE j = Len(requests) + 1 /\ requests'[j] = call
      BY <1>2, <3>1
    <3>2. CASE j \in DOMAIN requests /\ requests'[j] = requests[j]
      <4>1. i \in DOMAIN requests /\ requests'[i] = requests[i]
        BY <2>1, <2>4, <3>2
      <4>2. QED
        BY <2>4, <3>2, <4>1 DEF NoStartBehindStop
    <3>3. QED
      BY <2>1, <3>1, <3>2
  <2>5. NoStartBehindStop => NoStartBehindStop'
    BY <1>2, <2>2, <2>3, <2>4 DEF NoStartBehindStop, Replying
  <2>6. QED
    BY <1>2, <2>3, <2>5 DEF FinderKept
<1>3. CASE ClickStop \/ ReceiveNotification
  BY <1>2, <1>3 DEF ClickStop, ReceiveNotification, appVars, history, ghostVars
<1>4. CASE StartReply \/ StopReply \/ QueuedReply \/ ErrorReply
  <2>1. /\ UNCHANGED <<finder, early, requests>> /\ ~clearing
        /\ replies # <<>> /\ replies' = Tail(replies)
    BY <1>4 DEF StartReply, StopReply, QueuedReply, ErrorReply, ghostVars, history,
                appVars
  <2>2. /\ Head(replies).call # "start" => ~hijacking' \/ hijacking' = hijacking
        /\ Head(replies).call # "stop" => ~clearing'
        /\ Head(replies).call = "stop" => ~hijacking'
    BY <1>4, <2>1 DEF StartReply, StopReply, QueuedReply, ErrorReply, appVars
  <2>3. /\ \A call : Replying(call)' => Replying(call)
        /\ Replying(Head(replies).call)
        /\ NoStartBehindStop =>
              /\ \A i, j \in DOMAIN replies' :
                    i < j /\ replies'[i].call = "stop" => replies'[j].call # "start"
              /\ Head(replies).call = "stop" => ~StartPending'
    BY <2>1, ReplyTaken
  <2>4. StartPending' => StartPending
    BY <2>1, <2>3 DEF StartPending, Has
  <2>5. NoStartBehindStop => NoStartBehindStop'
    BY <2>1, <2>2, <2>3 DEF NoStartBehindStop, Has
  <2>6. ~early /\ ~finder => ~hijacking'
    BY <2>2, <2>3 DEF FinderKept, StartPending
  <2>7. QED
    BY <2>1, <2>2, <2>4, <2>5, <2>6 DEF FinderKept
<1>5. CASE ClearFinder
  <2>1. /\ clearing /\ ~clearing' /\ hijacking' = hijacking /\ early' = early
        /\ UNCHANGED <<requests, replies>>
    BY <1>5 DEF ClearFinder, wireVars, ghostVars, history
  <2>2. StartPending' <=> StartPending
    BY <2>1 DEF StartPending, Has, Replying
  <2>3. NoStartBehindStop => NoStartBehindStop' /\ ~StartPending
    BY <2>1 DEF NoStartBehindStop, Has, Replying
  <2>4. QED
    BY <2>1, <2>2, <2>3 DEF FinderKept
<1>6. ASSUME NEW call, Serving(call) PROVE requests # <<>> /\ Head(requests) = call
  BY <1>6 DEF Serving
<1>7. CASE StartSniffing \/ StopSniffing
  <2>1. PICK call \in {"start", "stop"} : Serving(call) /\ ReplyTo(call, <<>>)
    BY <1>7 DEF StartSniffing, StopSniffing
  <2>2. UNCHANGED <<hijacking, finder, clearing, early>>
    BY <1>7 DEF StartSniffing, StopSniffing, appVars, ghostVars, history
  <2>3. QED
    BY <1>0, <1>6, <2>1, <2>2, RequestServed
<1>8. CASE GetQueued
  <2>1. /\ Serving("getQueued") /\ ReplyTo("getQueued", dataQueue)
        /\ UNCHANGED <<hijacking, finder, clearing, early>>
    BY <1>8 DEF GetQueued, appVars, ghostVars, history
  <2>2. QED
    BY <1>0, <1>6, <2>1, RequestServed
<1>9. CASE Refuse
  <2>1. /\ requests # <<>> /\ ReplyTo("error", <<>>)
        /\ UNCHANGED <<hijacking, finder, clearing, early>>
    BY <1>6, <1>9 DEF Refuse, appVars, history
  <2>2. QED
    BY <1>0, <2>1, RequestServed
<1>10. CASE Die
  <2>1. /\ UNCHANGED <<hijacking, finder, clearing, early, replies>>
        /\ requests' = <<>>
    BY <1>10 DEF Die, appVars
  <2>2. Len(requests') = 0 /\ requests' \in Seq(Calls)
    BY <2>1, EmptyTyped
  <2>3. DOMAIN requests' = {}
    BY <2>2
  <2>4. StartPending' => StartPending
    BY <2>1, <2>3 DEF StartPending, Has, Replying
  <2>5. NoStartBehindStop => NoStartBehindStop'
    BY <2>1, <2>3, <2>4 DEF NoStartBehindStop, Has, Replying
  <2>6. QED
    BY <2>1, <2>4, <2>5 DEF FinderKept
<1>11. CASE CloseApp
  <2>1. /\ requests' = <<>> /\ replies' = <<>> /\ early' = early
        /\ ~hijacking' /\ ~clearing'
    BY <1>11 DEF CloseApp, history
  <2>2. /\ Len(requests') = 0 /\ requests' \in Seq(Calls)
        /\ Len(replies') = 0 /\ replies' \in Seq(ReplyType)
    BY <2>1, EmptyTyped
  <2>3. DOMAIN requests' = {} /\ DOMAIN replies' = {}
    BY <2>2
  <2>4. ~StartPending' /\ NoStartBehindStop'
    BY <2>1, <2>3 DEF NoStartBehindStop, StartPending, Has, Replying
  <2>5. QED
    BY <2>1, <2>4 DEF FinderKept
<1>12. CASE \/ RunBlock \/ AddRequest \/ EmptyQueue \/ Capture \/ OperationsEnd
            \/ ReceiveExchange \/ HostApplicationCheck \/ Launch \/ OpenApp
            \/ UNCHANGED vars
  <2>1. UNCHANGED <<hijacking, finder, clearing, early, requests, replies>>
    BY <1>12
       DEF RunBlock, AddRequest, EmptyQueue, Capture, OperationsEnd, ReceiveExchange,
           HostApplicationCheck, Launch, OpenApp, vars, appVars, wireVars, helperVars,
           ghostVars, history
  <2>2. QED
    BY <2>1 DEF FinderKept, NoStartBehindStop, StartPending, Has, Replying
<1>13. QED
  BY <1>1, <1>3, <1>4, <1>5, <1>7, <1>8, <1>9, <1>10, <1>11, <1>12
     DEF Next, User, System

\* While the button says that it hijacks, the exchanges have a finder to go to,
\* unless the last start was clicked before the stop in front of it was over.
THEOREM FinderWhileHijackingAlways == Spec => []FinderWhileHijacking
<1>1. Init => TypeOK /\ NotesBounded /\ FinderKept
  BY InitTypeOK, InitFinderKept
<1>2. TypeOK /\ NotesBounded /\ FinderKept /\ [Next]_vars
      => (TypeOK /\ NotesBounded /\ FinderKept)'
  BY StepTypeOK, StepFinderKept
<1>3. FinderKept => FinderWhileHijacking
  BY DEF FinderKept, FinderWhileHijacking
<1>4. QED
  BY <1>1, <1>2, <1>3, PTL DEF Spec

-----------------------------------------------------------------------------
(***************************************************************************)
(* The pipeline as a channel.                                              *)
(***************************************************************************)
Left(s) == Channel!Remains(s)

\* Everything can be left, and a part in the middle can be lost.
LEMMA MiddleLost ==
    ASSUME NEW S, NEW x \in Seq(S), NEW d \in Seq(S), NEW y \in Seq(S)
    PROVE  x \o y \in Left((x \o d) \o y)
<1> DEFINE s == (x \o d) \o y
           n == Len(x) + Len(y)
           p == [j \in 1 .. n |-> IF j <= Len(x) THEN j ELSE j + Len(d)]
<1>1. /\ Len(s) = n + Len(d) /\ Len(s) \in Nat /\ n \in Nat /\ Len(d) \in Nat
      /\ Len(x) \in Nat /\ n \in 0 .. Len(s)
  OBVIOUS
<1>2. p \in [1 .. n -> 1 .. Len(s)]
  <2> HIDE DEF s
  <2>1. \A j \in 1 .. n : (IF j <= Len(x) THEN j ELSE j + Len(d)) \in 1 .. Len(s)
    BY <1>1
  <2>2. QED
    BY <2>1
<1>3. \A i, j \in 1 .. n : i < j => p[i] < p[j]
  BY <1>1
<1>4. p \in Channel!Positions(Len(s))
  <2> HIDE DEF s, n, p
  <2>1. DOMAIN p = 1 .. n
    BY <1>2
  <2>2. p \in UNION {[1 .. k -> 1 .. Len(s)] : k \in 0 .. Len(s)}
    BY <1>1, <1>2
  <2>3. QED
    BY <1>3, <2>1, <2>2 DEF Channel!Positions
<1>5. x \o y = [j \in 1 .. n |-> s[p[j]]]
  <2>1. /\ x \o y \in Seq(S) /\ Len(x \o y) = n
    OBVIOUS
  <2>2. ASSUME NEW j \in 1 .. n PROVE (x \o y)[j] = s[p[j]]
    <3>1. CASE j <= Len(x)
      OBVIOUS
    <3>2. CASE ~(j <= Len(x))
      OBVIOUS
    <3>3. QED
      BY <3>1, <3>2
  <2>3. x \o y = [j \in 1 .. n |-> (x \o y)[j]]
    <3>1. PICK z \in Seq(S) : z = x \o y /\ Len(z) = n
      BY <2>1
    <3>2. z = [j \in 1 .. Len(z) |-> z[j]]
      OBVIOUS
    <3>3. QED
      BY <3>1, <3>2
  <2>4. QED
    BY <2>2, <2>3
<1>6. DOMAIN p = 1 .. n
  OBVIOUS
<1>7. QED
  <2> HIDE DEF s, n, p
  <2>1. x \o y \in Channel!Remains(s)
    BY <1>4, <1>5, <1>6 DEF Channel!Remains
  <2>2. QED
    BY <2>1 DEF Left, s

LEMMA PrefixLeft ==
    ASSUME NEW S, NEW x \in Seq(S), NEW d \in Seq(S)
    PROVE  x \in Left(x \o d)
<1>1. <<>> \in Seq(S) /\ (x \o d) \o <<>> = x \o d /\ x \o <<>> = x
  BY ConcatProperties, ConcatEmptySeq
<1>2. QED
  BY <1>1, MiddleLost

LEMMA SuffixLeft ==
    ASSUME NEW S, NEW d \in Seq(S), NEW y \in Seq(S)
    PROVE  y \in Left(d \o y)
<1>1. <<>> \in Seq(S) /\ <<>> \o d = d /\ <<>> \o y = y
  BY ConcatProperties, ConcatEmptySeq
<1>2. QED
  BY <1>1, MiddleLost

\* The five places an exchange can be in, first those that are further on.
Places(a, b, c, d, e) == a \o b \o c \o d \o e

InQueue == IF fetching THEN <<>> ELSE dataQueue

Typed(S, a, b, c, d, e) ==
    a \in Seq(S) /\ b \in Seq(S) /\ c \in Seq(S) /\ d \in Seq(S) /\ e \in Seq(S)

LEMMA PlacesTyped ==
    \A S, a, b, c, d, e :
        Typed(S, a, b, c, d, e) => Places(a, b, c, d, e) \in Seq(S)
  BY ConcatProperties DEF Typed, Places

\* An exchange that moves on keeps its place in the order.
LEMMA BlockMoves ==
    \A S, b, c, d, e, h : Typed(S, h, b, c, d, e) =>
        Places(<<>>, h \o b, c, d, e) = Places(h, b, c, d, e)
<1> SUFFICES ASSUME NEW S, NEW b, NEW c, NEW d, NEW e, NEW h, Typed(S, h, b, c, d, e)
             PROVE  Places(<<>>, h \o b, c, d, e) = Places(h, b, c, d, e)
  OBVIOUS
<1>1. h \o b \in Seq(S)
  BY ConcatProperties DEF Typed
<1>2. <<>> \o (h \o b) = h \o b
  BY <1>1, ConcatEmptySeq
<1>3. QED
  BY <1>2 DEF Places

LEMMA ReplyMoves ==
    \A S, a, b, c, d, e, h : Typed(S, a, b, c, d, e) /\ h \in Seq(S) =>
        Places(a, b, h \o c, d, e) = Places(a, b \o h, c, d, e)
<1> SUFFICES ASSUME NEW S, NEW a, NEW b, NEW c, NEW d, NEW e, NEW h,
                    Typed(S, a, b, c, d, e), AreSequences(S, h, h, h)
             PROVE  Places(a, b, h \o c, d, e) = Places(a, b \o h, c, d, e)
  BY DEF AreSequences
<1>1. PICK x : x = a \o b
  OBVIOUS
<1>2. AreSequences(S, a, b, h)
  BY DEF Typed, AreSequences
<1>3. x \o h = a \o (b \o h)
  BY <1>1, <1>2, Associative
<1>4. x \in Seq(S)
  BY <1>1, <1>2, Associative
<1>5. AreSequences(S, x, h, c)
  BY <1>4 DEF Typed, AreSequences
<1>6. x \o (h \o c) = (x \o h) \o c
  BY <1>5, Associative
<1>7. QED
  BY <1>1, <1>3, <1>6 DEF Places

LEMMA QueueMoves ==
    \A S, a, b, c, d, e : Typed(S, a, b, c, d, e) =>
        Places(a, b, c, d, e) = Places(a, b, c \o d, <<>>, e)
<1> SUFFICES ASSUME NEW S, NEW a, NEW b, NEW c, NEW d, NEW e, Typed(S, a, b, c, d, e)
             PROVE  Places(a, b, c, d, e) = Places(a, b, c \o d, <<>>, e)
  OBVIOUS
<1>1. PICK x, w : x = a \o b /\ w = c \o d
  OBVIOUS
<1>2. x \in Seq(S) /\ w \in Seq(S)
  BY <1>1, ConcatProperties DEF Typed
<1>3. AreSequences(S, x, c, d)
  BY <1>2 DEF Typed, AreSequences
<1>4. (x \o c) \o d = x \o w
  BY <1>1, <1>3, Associative
<1>5. x \o w \in Seq(S)
  BY <1>2, ConcatProperties
<1>6. (x \o w) \o <<>> = x \o w
  BY <1>5, ConcatEmptySeq
<1>7. QED
  BY <1>1, <1>4, <1>6 DEF Places

LEMMA ReportMoves ==
    \A S, a, b, c, d, e : Typed(S, a, b, c, d, e) /\ e # <<>> =>
        Places(a, b, c, d, e) = Places(a, b, c, Append(d, Head(e)), Tail(e))
<1> SUFFICES ASSUME NEW S, NEW a, NEW b, NEW c, NEW d, NEW e,
                    Typed(S, a, b, c, d, e), e # <<>>
             PROVE  Places(a, b, c, d, e) = Places(a, b, c, Append(d, Head(e)), Tail(e))
  OBVIOUS
<1>1. PICK x : x = a \o b \o c
  OBVIOUS
<1>2. PICK u, t : u = <<Head(e)>> /\ t = Tail(e)
  OBVIOUS
<1>3. u \in Seq(S) /\ t \in Seq(S) /\ e = u \o t /\ Head(e) \in S
  BY <1>2, HeadJoined DEF Typed
<1>4. Append(d, Head(e)) = d \o u
  BY <1>2, <1>3, AppendIsConcat DEF Typed
<1>5. x \in Seq(S)
  <2>1. a \o b \in Seq(S)
    BY ConcatProperties DEF Typed
  <2>2. QED
    BY <1>1, <2>1, ConcatProperties DEF Typed
<1>6. PICK v : v = x \o d
  OBVIOUS
<1>7. AreSequences(S, x, d, u)
  BY <1>3, <1>5 DEF Typed, AreSequences
<1>8. v \in Seq(S)
  BY <1>6, <1>7, Associative
<1>9. AreSequences(S, v, u, t)
  BY <1>3, <1>8 DEF AreSequences
<1>10. x \o (d \o u) = v \o u
  BY <1>6, <1>7, Associative
<1>11. v \o (u \o t) = (v \o u) \o t
  BY <1>9, Associative
<1>12. QED
  BY <1>1, <1>2, <1>3, <1>4, <1>6, <1>10, <1>11 DEF Places

LEMMA ReportEnters ==
    \A S, a, b, c, d, e, x : Typed(S, a, b, c, d, e) /\ x \in S =>
        Places(a, b, c, d, Append(e, x)) = Append(Places(a, b, c, d, e), x)
<1> SUFFICES ASSUME NEW S, NEW a, NEW b, NEW c, NEW d, NEW e, NEW x,
                    Typed(S, a, b, c, d, e), x \in S
             PROVE  Places(a, b, c, d, Append(e, x)) = Append(Places(a, b, c, d, e), x)
  OBVIOUS
<1>1. PICK y : y = ((a \o b) \o c) \o d
  OBVIOUS
<1>2. y \o Append(e, x) = Append(y \o e, x)
  <2>1. (a \o b) \in Seq(S)
    BY ConcatProperties DEF Typed
  <2>2. (a \o b) \o c \in Seq(S)
    BY <2>1, ConcatProperties DEF Typed
  <2>3. y \in Seq(S)
    BY <1>1, <2>2, ConcatProperties DEF Typed
  <2>4. e \in Seq(S)
    BY DEF Typed
  <2>5. QED
    BY <2>3, <2>4
<1>3. QED
  BY <1>1, <1>2 DEF Places

LEMMA FirstLeaves ==
    \A S, a, b, c, d, e : Typed(S, a, b, c, d, e) /\ a # <<>> =>
        /\ Places(a, b, c, d, e) # <<>>
        /\ Head(Places(a, b, c, d, e)) = Head(a)
        /\ Places(Tail(a), b, c, d, e) = Tail(Places(a, b, c, d, e))
        /\ Places(Tail(a), b, c, d, e) \in Left(Places(a, b, c, d, e))
<1> SUFFICES ASSUME NEW S, NEW a, NEW b, NEW c, NEW d, NEW e,
                    Typed(S, a, b, c, d, e), a # <<>>
             PROVE  /\ Places(a, b, c, d, e) # <<>>
                    /\ Head(Places(a, b, c, d, e)) = Head(a)
                    /\ Places(Tail(a), b, c, d, e) = Tail(Places(a, b, c, d, e))
                    /\ Places(Tail(a), b, c, d, e) \in Left(Places(a, b, c, d, e))
  OBVIOUS
<1>0. a \in Seq(S) /\ b \in Seq(S) /\ c \in Seq(S) /\ d \in Seq(S) /\ e \in Seq(S)
  BY DEF Typed
<1>1. PICK x \in Seq(S) : x = a \o b
  BY <1>0, ConcatProperties
<1>2. PICK y \in Seq(S) : y = x \o c
  BY <1>0, ConcatProperties
<1>3. PICK z \in Seq(S) : z = y \o d
  BY <1>0, ConcatProperties
<1>4. PICK s : s = z \o e
  OBVIOUS
<1>5. x # <<>> /\ Head(x) = Head(a) /\ Tail(x) = Tail(a) \o b
  BY <1>0, <1>1, TailJoined
<1>6. y # <<>> /\ Head(y) = Head(a) /\ Tail(y) = Tail(x) \o c
  <2>1. c \in Seq(S) /\ x # <<>>
    BY <1>0, <1>5
  <2>2. /\ x \o c # <<>> /\ Head(x \o c) = Head(x)
        /\ Tail(x \o c) = Tail(x) \o c
    BY <2>1, TailJoined
  <2>3. QED
    BY <1>2, <1>5, <2>2
<1>7. z # <<>> /\ Head(z) = Head(a) /\ Tail(z) = Tail(y) \o d
  BY <1>0, <1>3, <1>6, TailJoined
<1>8. /\ s \in Seq(S) /\ s # <<>> /\ Head(s) = Head(a)
      /\ Tail(s) = Tail(z) \o e
  <2>1. e \in Seq(S)
    BY <1>0
  <2>2. z # <<>> /\ Head(z) = Head(a)
    BY <1>7
  <2>3. z \o e \in Seq(S) /\ z \o e # <<>> /\ Head(z \o e) = Head(z)
    BY <2>1, <2>2, TailJoined
  <2>4. Tail(z \o e) = Tail(z) \o e
    BY <2>1, <2>2, TailJoined
  <2>5. QED
    BY <1>4, <2>2, <2>3, <2>4
<1>9. s = Places(a, b, c, d, e)
  BY <1>1, <1>2, <1>3, <1>4 DEF Places
<1>10. Tail(s) = Places(Tail(a), b, c, d, e)
  BY <1>5, <1>6, <1>7, <1>8 DEF Places
<1>11. Tail(s) \in Left(s)
  <2>1. PICK h \in Seq(S), t \in Seq(S) : t = Tail(s) /\ s = h \o t
    BY <1>8, HeadJoined
  <2>2. t \in Left(h \o t)
    BY SuffixLeft
  <2>3. QED
    BY <2>1, <2>2
<1>12. QED
  BY <1>8, <1>9, <1>10, <1>11

\* An exchange received between the reply and the emptying of the queue is lost.
LEMMA ReportLost ==
    \A S, a, b, c, e : Typed(S, a, b, c, <<>>, e) /\ e # <<>> =>
        Places(a, b, c, <<>>, Tail(e)) \in Left(Places(a, b, c, <<>>, e))
<1> SUFFICES ASSUME NEW S, NEW a, NEW b, NEW c, NEW e,
                    Typed(S, a, b, c, <<>>, e), e # <<>>
             PROVE  Places(a, b, c, <<>>, Tail(e)) \in Left(Places(a, b, c, <<>>, e))
  OBVIOUS
<1>1. PICK x : x = ((a \o b) \o c) \o <<>>
  OBVIOUS
<1>2. PICK u, t : u = <<Head(e)>> /\ t = Tail(e)
  OBVIOUS
<1>3. u \in Seq(S) /\ t \in Seq(S) /\ e = u \o t
  BY <1>2, HeadJoined DEF Typed
<1>4. x \in Seq(S)
  <2>1. a \o b \in Seq(S)
    BY ConcatProperties DEF Typed
  <2>2. (a \o b) \o c \in Seq(S)
    BY <2>1, ConcatProperties DEF Typed
  <2>3. QED
    BY <1>1, <2>2, ConcatEmptySeq
<1>5. AreSequences(S, x, u, t)
  BY <1>3, <1>4 DEF AreSequences
<1>6. x \o (u \o t) = (x \o u) \o t
  BY <1>5, Associative
<1>7. x \o t \in Left((x \o u) \o t)
  BY <1>3, <1>4, MiddleLost
<1>8. QED
  BY <1>1, <1>2, <1>3, <1>6, <1>7 DEF Places

\* What a process that ends held is lost, and what a reply that is ignored held.
LEMMA ExchangesLost ==
    \A S, a, b, c, d, e, h : Typed(S, a, b, c, d, e) /\ h \in Seq(S) =>
        /\ Places(a, b, c, d, e) \in Left(Places(a, b, h \o c, d, e))
        /\ Places(a, b, c, <<>>, <<>>) \in Left(Places(a, b, c, d, e))
        /\ Places(<<>>, <<>>, <<>>, d, e) \in Left(Places(a, b, c, d, e))
<1> SUFFICES ASSUME NEW S, NEW a, NEW b, NEW c, NEW d, NEW e, NEW h,
                    Typed(S, a, b, c, d, e), AreSequences(S, h, h, h)
             PROVE  /\ Places(a, b, c, d, e) \in Left(Places(a, b, h \o c, d, e))
                    /\ Places(a, b, c, <<>>, <<>>) \in Left(Places(a, b, c, d, e))
                    /\ Places(<<>>, <<>>, <<>>, d, e) \in Left(Places(a, b, c, d, e))
  BY DEF AreSequences
<1>1. PICK x, z : x = a \o b /\ z = d \o e
  OBVIOUS
<1>2. x \in Seq(S) /\ z \in Seq(S)
  BY <1>1, ConcatProperties DEF Typed
<1>3. PICK y, w : y = x \o c /\ w = c \o z
  OBVIOUS
<1>4. AreSequences(S, x, c, z)
  BY <1>2 DEF Typed, AreSequences
<1>5. y \in Seq(S) /\ w \in Seq(S)
  BY <1>3, <1>4, Associative
<1>6. (y \o d) \o e = y \o z
  <2>1. AreSequences(S, y, d, e)
    BY <1>5 DEF Typed, AreSequences
  <2>2. QED
    BY <1>1, <2>1, Associative
<1>7. y \in Left(y \o z) /\ z \in Left(y \o z)
  BY <1>2, <1>5, PrefixLeft, SuffixLeft
<1>8. (y \o <<>>) \o <<>> = y
  BY <1>5, ConcatEmptySeq
<1>9. (((<<>> \o <<>>) \o <<>>) \o d) \o e = z
  <2>1. <<>> \o d = d
    BY ConcatEmptySeq DEF Typed
  <2>2. <<>> \o <<>> = <<>>
    BY EmptySeq, ConcatEmptySeq
  <2>3. QED
    BY <1>1, <2>1, <2>2
<1>10. ((x \o c) \o d) \o e = x \o w
  <2>1. (x \o c) \o z = x \o w
    BY <1>3, <1>4, Associative
  <2>2. QED
    BY <1>3, <1>6, <2>1
<1>11. ((x \o (h \o c)) \o d) \o e = (x \o h) \o w
  <2>1. PICK v : v = x \o h
    OBVIOUS
  <2>2. AreSequences(S, x, h, c)
    BY <1>2 DEF Typed, AreSequences
  <2>3. v \in Seq(S) /\ v \o c = x \o (h \o c)
    BY <2>1, <2>2, Associative
  <2>4. PICK u : u = v \o c
    OBVIOUS
  <2>5. AreSequences(S, v, c, z)
    BY <1>2, <2>3 DEF Typed, AreSequences
  <2>6. u \in Seq(S) /\ u \o z = v \o w
    BY <1>3, <2>4, <2>5, Associative
  <2>7. AreSequences(S, u, d, e)
    BY <2>6 DEF Typed, AreSequences
  <2>8. (u \o d) \o e = u \o z
    BY <1>1, <2>7, Associative
  <2>9. QED
    BY <2>1, <2>3, <2>4, <2>6, <2>8
<1>12. x \o w \in Left((x \o h) \o w)
  BY <1>2, <1>5, MiddleLost DEF AreSequences
<1>13. QED
  BY <1>1, <1>3, <1>6, <1>7, <1>8, <1>9, <1>10, <1>11, <1>12 DEF Places

Ids == 1 .. MaxCaptures

DataOf(q) == [i \in DOMAIN q |-> q[i].data]

LEMMA DataTyped ==
    ASSUME NEW q \in Seq(ReplyType)
    PROVE  /\ DataOf(q) \in Seq(Exchanges) /\ Len(DataOf(q)) = Len(q)
           /\ \A i \in 1 .. Len(q) : DataOf(q)[i] = q[i].data
<1>1. PICK n \in Nat : n = Len(q) /\ DOMAIN q = 1 .. n
  OBVIOUS
<1>2. \A i \in 1 .. n : q[i] \in ReplyType
  BY <1>1
<1>3. \A i \in 1 .. n : q[i].data \in Exchanges
  BY <1>2 DEF ReplyType
<1> HIDE DEF Exchanges
<1>4. DataOf(q) = [i \in 1 .. n |-> q[i].data]
  BY <1>1 DEF DataOf
<1>5. [i \in 1 .. n |-> q[i].data] \in Seq(Exchanges)
  BY <1>3
<1>6. QED
  BY <1>1, <1>4, <1>5

LEMMA RepliedTyped == TypeOK => RepliedData \in Seq(Exchanges)
  BY DataTyped DEF TypeOK, WireTypes, RepliedData, DataOf, ReplyType

LEMMA PipelineTyped ==
    TypeOK => /\ Typed(Ids, block, FlattenSeq(mainQueue), FlattenSeq(RepliedData),
                       InQueue, reports)
              /\ captured \in Nat
<1> SUFFICES ASSUME TypeOK
             PROVE  /\ Typed(Ids, block, FlattenSeq(mainQueue), FlattenSeq(RepliedData),
                             InQueue, reports)
                    /\ captured \in Nat
  OBVIOUS
<1>1. FlattenSeq(mainQueue) \in Seq(Ids)
  BY FlattenTyped DEF TypeOK, AppTypes, Exchanges, Ids
<1>2. FlattenSeq(RepliedData) \in Seq(Ids)
  BY RepliedTyped, FlattenTyped DEF Exchanges, Ids
<1>3. block \in Seq(Ids) /\ reports \in Seq(Ids) /\ captured \in Nat
  BY SessionAssumption DEF TypeOK, AppTypes, HelperTypes, GhostTypes, Exchanges, Ids
<1>4. InQueue \in Seq(Ids)
  BY EmptyTyped DEF TypeOK, HelperTypes, Exchanges, Ids, InQueue
<1>5. QED
  BY <1>1, <1>2, <1>3, <1>4 DEF Typed

LEMMA InTransitIs ==
    InTransit = Places(block, FlattenSeq(mainQueue), FlattenSeq(RepliedData), InQueue,
                       reports)
  BY DEF InTransit, Places, InQueue

\* Taking the first reply, or adding one, takes or adds what it carries.
LEMMA ReplyTakenData ==
    ASSUME TypeOK, replies # <<>>, replies' = Tail(replies)
    PROVE  /\ Head(replies).data \in Seq(Ids)
           /\ FlattenSeq(RepliedData) = Head(replies).data \o FlattenSeq(RepliedData')
<1>1. replies \in Seq(ReplyType)
  BY DEF TypeOK, WireTypes, ReplyType
<1>2. PICK n \in Nat : n = Len(replies) /\ n > 0
  BY <1>1
<1>3. /\ RepliedData \in Seq(Exchanges) /\ Len(RepliedData) = n
      /\ \A i \in 1 .. n : RepliedData[i] = replies[i].data
  BY <1>1, <1>2, DataTyped DEF RepliedData, DataOf
<1>4. /\ replies' \in Seq(ReplyType) /\ Len(replies') = n - 1
      /\ \A i \in 1 .. n - 1 : replies'[i] = replies[i + 1]
  BY <1>1, <1>2
<1>5. /\ RepliedData' \in Seq(Exchanges) /\ Len(RepliedData') = n - 1
      /\ \A i \in 1 .. n - 1 : RepliedData'[i] = replies'[i].data
  BY <1>2, <1>4, DataTyped DEF RepliedData, DataOf
<1>6. RepliedData # <<>> /\ Head(RepliedData) = Head(replies).data
  BY <1>1, <1>2, <1>3
<1>7. Tail(RepliedData) = RepliedData'
  <2>1. /\ Tail(RepliedData) \in Seq(Exchanges) /\ Len(Tail(RepliedData)) = n - 1
        /\ \A i \in 1 .. n - 1 : Tail(RepliedData)[i] = RepliedData[i + 1]
    BY <1>2, <1>3, <1>6, HeadTailProperties
  <2>2. \A i \in 1 .. n - 1 : Tail(RepliedData)[i] = RepliedData'[i]
    BY <1>2, <1>3, <1>4, <1>5, <2>1
  <2>3. QED
    BY <1>2, <1>5, <2>1, <2>2, SeqEqual
<1>8. RepliedData \in Seq(Seq(Ids))
  BY <1>3 DEF Exchanges, Ids
<1>9. QED
  BY <1>6, <1>7, <1>8, FlattenTail, HeadTailProperties

LEMMA ReplyAddedData ==
    ASSUME TypeOK, NEW call \in Calls \cup {"error"}, NEW data \in Exchanges,
           ReplyTo(call, data)
    PROVE  FlattenSeq(RepliedData') = FlattenSeq(RepliedData) \o data
<1>1. replies \in Seq(ReplyType) /\ [call |-> call, data |-> data] \in ReplyType
  BY DEF TypeOK, WireTypes, ReplyType
<1>2. PICK r \in ReplyType : r.data = data /\ replies' = Append(replies, r)
  BY <1>1 DEF ReplyTo
<1>3. PICK n \in Nat : n = Len(replies)
  BY <1>1
<1>4. /\ RepliedData \in Seq(Exchanges) /\ Len(RepliedData) = n
      /\ \A i \in 1 .. n : RepliedData[i] = replies[i].data
  BY <1>1, <1>3, DataTyped DEF RepliedData, DataOf
<1>5. /\ replies' \in Seq(ReplyType) /\ Len(replies') = n + 1
      /\ \A i \in 1 .. n : replies'[i] = replies[i]
      /\ replies'[n + 1] = r
  BY <1>1, <1>2, <1>3
<1>6. /\ RepliedData' \in Seq(Exchanges) /\ Len(RepliedData') = n + 1
      /\ \A i \in 1 .. n + 1 : RepliedData'[i] = replies'[i].data
  BY <1>3, <1>5, DataTyped DEF RepliedData, DataOf
<1>7. Append(RepliedData, data) = RepliedData'
  <2>1. /\ Append(RepliedData, data) \in Seq(Exchanges)
        /\ Len(Append(RepliedData, data)) = n + 1
        /\ \A i \in 1 .. n : Append(RepliedData, data)[i] = RepliedData[i]
        /\ Append(RepliedData, data)[n + 1] = data
    BY <1>4
  <2>2. \A i \in 1 .. n + 1 : Append(RepliedData, data)[i] = RepliedData'[i]
    <3>1. \A i \in 1 .. n + 1 : i \in 1 .. n \/ i = n + 1
      OBVIOUS
    <3>2. QED
      BY <1>2, <1>4, <1>5, <1>6, <2>1, <3>1
  <2>3. QED
    BY <1>6, <2>1, <2>2, SeqEqual
<1>8. RepliedData \in Seq(Seq(Ids)) /\ data \in Seq(Ids)
  BY <1>4 DEF Exchanges, Ids
<1>9. QED
  BY <1>7, <1>8, FlattenAppend

\* What a step may do to the channel.
Sends ==
    /\ captured' = captured + 1 /\ InTransit' = Append(InTransit, captured')
    /\ delivered' = delivered

Delivers ==
    /\ InTransit # <<>> /\ delivered' = Append(delivered, Head(InTransit))
    /\ InTransit' = Tail(InTransit) /\ captured' = captured

Loses == InTransit' \in Left(InTransit) /\ UNCHANGED <<captured, delivered>>

Keeps == UNCHANGED <<captured, InTransit, delivered>>

LEMMA ChannelSteps ==
    Sends \/ Delivers \/ Loses \/ Keeps => [Channel!Next]_<<captured, InTransit, delivered>>
  BY DEF Sends, Delivers, Loses, Keeps, Left, Channel!Next, Channel!Send,
         Channel!Deliver, Channel!Lose

LEMMA ApplicationSteps ==
    ASSUME TypeOK, TypeOK',
           \/ ClickStart \/ ClickStop \/ ReceiveNotification \/ RunBlock \/ AddRequest
           \/ StartReply \/ StopReply \/ ClearFinder \/ QueuedReply \/ ErrorReply
           \/ CloseApp \/ OpenApp
    PROVE  Sends \/ Delivers \/ Loses \/ Keeps
<1>1. PICK b, c, d, e : /\ b = FlattenSeq(mainQueue) /\ c = FlattenSeq(RepliedData)
                        /\ d = InQueue /\ e = reports
  OBVIOUS
<1>2. Typed(Ids, block, b, c, d, e) /\ InTransit = Places(block, b, c, d, e)
  BY <1>1, PipelineTyped, InTransitIs
<1>3. InTransit' = Places(block', FlattenSeq(mainQueue'), FlattenSeq(RepliedData'),
                          InQueue', reports')
  BY InTransitIs DEF InTransit, Places, InQueue
<1>4. CASE ClickStart \/ ClickStop \/ ReceiveNotification \/ ClearFinder \/ OpenApp
  <2>1. /\ UNCHANGED <<block, mainQueue, replies, fetching, dataQueue, reports>>
        /\ UNCHANGED <<captured, delivered>>
    BY <1>4 DEF ClickStart, ClickStop, ReceiveNotification, ClearFinder, OpenApp,
                appVars, wireVars, helperVars, ghostVars, history
  <2>2. QED
    BY <2>1 DEF Keeps, InTransit, RepliedData
<1>5. CASE RunBlock
  <2>1. /\ block = <<>> /\ mainQueue # <<>>
        /\ block' = Head(mainQueue) /\ mainQueue' = Tail(mainQueue)
        /\ UNCHANGED <<replies, fetching, dataQueue, reports>>
        /\ UNCHANGED <<captured, delivered>>
    BY <1>5 DEF RunBlock, MainThreadIdle, wireVars, helperVars, ghostVars
  <2>2. PICK h, t : h = Head(mainQueue) /\ t = FlattenSeq(Tail(mainQueue))
    OBVIOUS
  <2>3. b = h \o t /\ t \in Seq(Ids) /\ h \in Seq(Ids)
    <3>1. mainQueue \in Seq(Seq(Ids))
      BY DEF TypeOK, AppTypes, Exchanges, Ids
    <3>2. QED
      BY <1>1, <2>1, <2>2, <3>1, FlattenTail, FlattenTyped, HeadTailProperties
  <2>4. InTransit' = Places(h, t, c, d, e)
    BY <1>1, <1>3, <2>1, <2>2 DEF RepliedData, InQueue
  <2>5. Typed(Ids, h, t, c, d, e)
    BY <1>2, <2>3 DEF Typed
  <2>6. Places(<<>>, h \o t, c, d, e) = Places(h, t, c, d, e)
    BY <2>5, BlockMoves
  <2>7. QED
    BY <1>2, <2>1, <2>3, <2>4, <2>6 DEF Keeps
<1>6. CASE AddRequest
  <2>1. /\ block # <<>> /\ block' = Tail(block)
        /\ UNCHANGED <<mainQueue, replies, fetching, dataQueue, reports, captured>>
        /\ delivered' = IF finder THEN Append(delivered, Head(block)) ELSE delivered
    BY <1>6 DEF AddRequest, wireVars, helperVars
  <2>2. InTransit' = Places(Tail(block), b, c, d, e)
    BY <1>1, <1>3, <2>1 DEF RepliedData, InQueue
  <2>3. /\ InTransit # <<>> /\ Head(InTransit) = Head(block)
        /\ InTransit' = Tail(InTransit) /\ InTransit' \in Left(InTransit)
    BY <1>2, <2>1, <2>2, FirstLeaves DEF Typed
  <2>4. QED
    BY <2>1, <2>3 DEF Delivers, Loses
<1>7. CASE StartReply \/ StopReply \/ ErrorReply \/ QueuedReply
  <2>1. /\ replies # <<>> /\ replies' = Tail(replies)
        /\ mainQueue' \in {mainQueue, Append(mainQueue, Head(replies).data)}
        /\ UNCHANGED <<block, fetching, dataQueue, reports, captured, delivered>>
    BY <1>7 DEF StartReply, StopReply, ErrorReply, QueuedReply, appVars, helperVars,
                ghostVars
  <2>2. PICK h, t : h = Head(replies).data /\ t = FlattenSeq(RepliedData')
    OBVIOUS
  <2>3. c = h \o t /\ h \in Seq(Ids)
    BY <1>1, <2>1, <2>2, ReplyTakenData
  <2>4. t \in Seq(Ids)
    <3>1. RepliedData' \in Seq(Exchanges)
      BY DataTyped DEF TypeOK, WireTypes, RepliedData, DataOf, ReplyType
    <3>2. QED
      BY <2>2, <3>1, FlattenTyped DEF Exchanges, Ids
  <2>5. Typed(Ids, block, b, t, d, e)
    BY <1>2, <2>4 DEF Typed
  <2>6. InTransit' = Places(block, FlattenSeq(mainQueue'), t, d, e)
    BY <1>1, <1>3, <2>1, <2>2 DEF InQueue
  <2>7. CASE mainQueue' = mainQueue
    <3>1. Places(block, b, t, d, e) \in Left(Places(block, b, h \o t, d, e))
      BY <2>3, <2>5, ExchangesLost
    <3>2. QED
      BY <1>1, <1>2, <2>1, <2>3, <2>6, <2>7, <3>1 DEF Loses
  <2>8. CASE mainQueue' = Append(mainQueue, h)
    <3>1. FlattenSeq(mainQueue') = b \o h
      <4>1. mainQueue \in Seq(Seq(Ids))
        BY DEF TypeOK, AppTypes, Exchanges, Ids
      <4>2. QED
        BY <1>1, <2>3, <2>8, <4>1, FlattenAppend
    <3>2. Places(block, b, h \o t, d, e) = Places(block, b \o h, t, d, e)
      BY <2>3, <2>5, ReplyMoves
    <3>3. QED
      BY <1>2, <2>1, <2>3, <2>6, <3>1, <3>2 DEF Keeps
  <2>9. QED
    BY <2>1, <2>2, <2>7, <2>8
<1>8. CASE CloseApp
  <2>1. /\ mainQueue' = <<>> /\ block' = <<>> /\ replies' = <<>>
        /\ UNCHANGED <<fetching, dataQueue, reports, captured, delivered>>
    BY <1>8 DEF CloseApp, helperVars
  <2>2. RepliedData' = <<>>
    BY <2>1 DEF RepliedData
  <2>3. InTransit' = Places(<<>>, <<>>, <<>>, d, e)
    BY <1>1, <1>3, <2>1, <2>2, FlattenEmpty DEF InQueue
  <2>4. InTransit' \in Left(InTransit)
    <3>1. block \in Seq(Ids)
      BY <1>2 DEF Typed
    <3>2. QED
      BY <1>2, <2>3, <3>1, ExchangesLost
  <2>5. QED
    BY <2>1, <2>4 DEF Loses
<1>9. QED
  BY <1>4, <1>5, <1>6, <1>7, <1>8

LEMMA HelperSteps ==
    ASSUME TypeOK, TypeOK',
           \/ StartSniffing \/ StopSniffing \/ GetQueued \/ EmptyQueue \/ Refuse
           \/ Capture \/ OperationsEnd \/ ReceiveExchange
           \/ HostApplicationCheck \/ Launch \/ Die
    PROVE  Sends \/ Delivers \/ Loses \/ Keeps
<1>1. PICK b, c, d, e : /\ b = FlattenSeq(mainQueue) /\ c = FlattenSeq(RepliedData)
                        /\ d = InQueue /\ e = reports
  OBVIOUS
<1>2. Typed(Ids, block, b, c, d, e) /\ InTransit = Places(block, b, c, d, e)
  BY <1>1, PipelineTyped, InTransitIs
<1>3. InTransit' = Places(block', FlattenSeq(mainQueue'), FlattenSeq(RepliedData'),
                          InQueue', reports')
  BY InTransitIs DEF InTransit, Places, InQueue
<1>4. CASE StartSniffing \/ StopSniffing \/ Refuse
  <2>1. PICK call \in Calls \cup {"error"} : ReplyTo(call, <<>>)
    BY <1>4 DEF StartSniffing, StopSniffing, Refuse, Calls
  <2>2. /\ UNCHANGED <<block, mainQueue, fetching, dataQueue, reports>>
        /\ UNCHANGED <<captured, delivered>>
    BY <1>4 DEF StartSniffing, StopSniffing, Refuse, appVars, helperVars, ghostVars
  <2>3. FlattenSeq(RepliedData') = c \o <<>>
    BY <1>1, <2>1, EmptyTyped, ReplyAddedData DEF Exchanges
  <2>4. c \o <<>> = c
    BY <1>2, ConcatEmptySeq DEF Typed
  <2>5. InTransit' = InTransit
    BY <1>1, <1>2, <1>3, <2>2, <2>3, <2>4 DEF InQueue
  <2>6. QED
    BY <2>2, <2>5 DEF Keeps
<1>5. CASE GetQueued
  <2>1. /\ ReplyTo("getQueued", dataQueue) /\ fetching' /\ ~fetching
        /\ UNCHANGED <<block, mainQueue, reports, captured, delivered>>
    BY <1>5 DEF GetQueued, Serving, appVars, ghostVars
  <2>2. d = dataQueue /\ InQueue' = <<>>
    BY <1>1, <2>1 DEF InQueue
  <2>3. FlattenSeq(RepliedData') = c \o d
    BY <1>1, <2>1, <2>2, ReplyAddedData DEF TypeOK, HelperTypes, Calls
  <2>4. InTransit' = Places(block, b, c \o d, <<>>, e)
    BY <1>1, <1>3, <2>1, <2>2, <2>3
  <2>5. InTransit' = InTransit
    BY <1>2, <2>4, QueueMoves
  <2>6. QED
    BY <2>1, <2>5 DEF Keeps
<1>6. CASE EmptyQueue
  <2>1. /\ fetching /\ fetching' = FALSE /\ dataQueue' = <<>>
        /\ UNCHANGED <<block, mainQueue, replies, reports, captured, delivered>>
    BY <1>6 DEF EmptyQueue, Emptied, appVars, wireVars, ghostVars
  <2>2. InQueue' = InQueue
    BY <2>1 DEF InQueue
  <2>3. QED
    BY <1>1, <1>2, <1>3, <2>1, <2>2 DEF Keeps, RepliedData
<1>7. CASE Capture
  <2>1. /\ reports' = Append(reports, captured') /\ captured' = captured + 1
        /\ captured < MaxCaptures
        /\ UNCHANGED <<block, mainQueue, replies, fetching, dataQueue, delivered>>
    BY <1>7 DEF Capture, appVars, wireVars
  <2>2. captured' \in Ids
    BY <2>1, PipelineTyped, SessionAssumption DEF Ids
  <2>3. InTransit' = Places(block, b, c, d, Append(e, captured'))
    BY <1>1, <1>3, <2>1 DEF InQueue, RepliedData
  <2>4. InTransit' = Append(InTransit, captured')
    BY <1>2, <2>2, <2>3, ReportEnters
  <2>5. QED
    BY <2>1, <2>4 DEF Sends
<1>8. CASE OperationsEnd \/ Launch
  <2>1. /\ UNCHANGED <<block, mainQueue, replies, fetching, dataQueue, reports>>
        /\ UNCHANGED <<captured, delivered>>
    BY <1>8 DEF OperationsEnd, Launch, appVars, wireVars, ghostVars
  <2>2. QED
    BY <2>1 DEF Keeps, InTransit, RepliedData
<1>9. CASE ReceiveExchange
  <2>1. /\ e # <<>> /\ reports' = Tail(e) /\ dataQueue' = Append(dataQueue, Head(e))
        /\ UNCHANGED <<block, mainQueue, replies, fetching, captured, delivered>>
    BY <1>1, <1>9 DEF ReceiveExchange, appVars, ghostVars
  <2>2. CASE fetching
    <3>1. d = <<>> /\ InQueue' = <<>>
      BY <1>1, <2>1, <2>2 DEF InQueue
    <3>2. InTransit' = Places(block, b, c, d, Tail(e))
      BY <1>1, <1>3, <2>1, <3>1 DEF RepliedData
    <3>3. InTransit' \in Left(InTransit)
      BY <1>2, <2>1, <3>1, <3>2, ReportLost
    <3>4. QED
      BY <2>1, <3>3 DEF Loses
  <2>3. CASE ~fetching
    <3>1. d = dataQueue /\ InQueue' = Append(d, Head(e))
      BY <1>1, <2>1, <2>3 DEF InQueue
    <3>2. InTransit' = Places(block, b, c, Append(d, Head(e)), Tail(e))
      BY <1>1, <1>3, <2>1, <3>1 DEF RepliedData
    <3>3. InTransit' = InTransit
      BY <1>2, <2>1, <3>2, ReportMoves
    <3>4. QED
      BY <2>1, <3>3 DEF Keeps
  <2>4. QED
    BY <2>2, <2>3
<1>10. CASE HostApplicationCheck \/ Die
  <2>1. /\ reports' = <<>> /\ dataQueue' = <<>>
        /\ UNCHANGED <<block, mainQueue, replies, captured, delivered>>
    BY <1>10 DEF HostApplicationCheck, Die, HelperGone, appVars, wireVars, ghostVars
  <2>2. InTransit' = Places(block, b, c, <<>>, <<>>)
    BY <1>1, <1>3, <2>1 DEF InQueue, RepliedData
  <2>3. InTransit' \in Left(InTransit)
    <3>1. block \in Seq(Ids)
      BY <1>2 DEF Typed
    <3>2. QED
      BY <1>2, <2>2, <3>1, ExchangesLost
  <2>4. QED
    BY <2>1, <2>3 DEF Loses
<1>11. QED
  BY <1>4, <1>5, <1>6, <1>7, <1>8, <1>9, <1>10

LEMMA InitChannel == Init => Channel!Init
<1> SUFFICES ASSUME Init PROVE Channel!Init
  OBVIOUS
<1>1. /\ captured = 0 /\ delivered = <<>> /\ block = <<>> /\ mainQueue = <<>>
      /\ replies = <<>> /\ dataQueue = <<>> /\ reports = <<>>
  BY DEF Init
<1>2. RepliedData = <<>> /\ InQueue = <<>>
  BY <1>1 DEF RepliedData, InQueue
<1>3. InTransit = Places(<<>>, <<>>, <<>>, <<>>, <<>>)
  BY <1>1, <1>2, FlattenEmpty, InTransitIs
<1>4. <<>> \o <<>> = <<>>
  BY EmptySeq, ConcatEmptySeq
<1>5. QED
  BY <1>1, <1>3, <1>4 DEF Places, Channel!Init

\* The whole pipeline, from a captured exchange to the finder it is handed to, is a
\* queue that may lose exchanges but never repeats or reorders them: through both
\* processes, four threads, a fetch that is not atomic, and helpers that crash.
THEOREM ImplementsLossyFifo == Spec => LossyFifoSpec
<1>1. Init => Channel!Init /\ TypeOK /\ NotesBounded
  BY InitChannel, InitTypeOK
<1>2. TypeOK /\ NotesBounded /\ [Next]_vars => (TypeOK /\ NotesBounded)'
  BY StepTypeOK
<1>3. TypeOK /\ TypeOK' /\ [Next]_vars
      => [Channel!Next]_<<captured, InTransit, delivered>>
  <2>1. TypeOK /\ TypeOK' /\ Next => Sends \/ Delivers \/ Loses \/ Keeps
    BY ApplicationSteps, HelperSteps DEF Next, User, System
  <2>2. UNCHANGED vars => Keeps
    BY DEF vars, appVars, wireVars, helperVars, ghostVars, Keeps, InTransit, RepliedData
  <2>3. QED
    BY <2>1, <2>2, ChannelSteps
<1>4. QED
  BY <1>1, <1>2, <1>3, PTL DEF Spec, LossyFifoSpec, Channel!Spec, Channel!vars

=============================================================================
