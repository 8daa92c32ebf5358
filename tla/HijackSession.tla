--------------------------- MODULE HijackSession ----------------------------
(***************************************************************************)
(* The application (App/AppDelegate.m) and the helper tool                 *)
(* (HelperTool/HelperTool.m): who is hijacking, who is sniffing, and how a *)
(* reported exchange travels from the sniff operations to the URL finder.  *)
(*                                                                         *)
(* Four queues run concurrently: the main thread and the XPC reply queue   *)
(* of the application, the XPC request queue and the main thread of the    *)
(* helper.  The XPC connection carries requests in order and replies in    *)
(* order.  Exchanges are numbered in the order they were captured.         *)
(***************************************************************************)
EXTENDS Naturals, Sequences, SequencesExt

CONSTANTS
    MaxCaptures, \* bound: exchanges the operations report
    MaxClicks,   \* bound: clicks on the start/stop button
    MaxRefusals, \* bound: requests that fail checkAuthorization:
    MaxDeaths,   \* bound: crashes of the helper
    MaxCloses    \* bound: times the application is closed

ASSUME SessionAssumption ==
    /\ MaxCaptures \in Nat /\ MaxClicks \in Nat /\ MaxRefusals \in Nat
    /\ MaxDeaths \in Nat /\ MaxCloses \in Nat

VARIABLES
    app,       \* is the application running?
    hijacking, \* the atomic property hijacking
    finder,    \* is the atomic property urlFinder set?
    clearing,  \* reply queue: hijacking is NO, urlFinder not yet nil
    mainQueue, \* blocks dispatched to the application's main thread
    block,     \* what is left of the block it is executing
    requests,  \* calls on their way to the helper, or waiting for it
    replies,   \* replies on their way to the application
    notes,     \* distributed notifications on their way to the application
    helper,    \* is the helper tool running?
    sniffing,  \* "yes", "no", or "ending": cancelled, not yet ended
    reports,   \* blocks dispatched to the helper's main thread
    dataQueue, \* exchanges waiting to be fetched
    fetching,  \* request queue: dataQueue is replied, not yet emptied
    captured,  \* number of exchanges captured so far
    delivered, \* exchanges handed to the URL finder, in order
    excused,   \* history: did the helper crash, or still sniff for a new application?
    early,     \* history: was the last start clicked while a stop was under way?
    budget     \* what is left of the bounds

appVars == <<app, hijacking, finder, clearing, mainQueue, block>>
wireVars == <<requests, replies, notes>>
helperVars == <<helper, sniffing, reports, dataQueue, fetching>>
history == <<excused, early>>
ghostVars == <<captured, delivered, budget, history>>
vars == <<appVars, wireVars, helperVars, ghostVars>>

Init ==
    /\ app = TRUE /\ hijacking = FALSE /\ finder = FALSE /\ clearing = FALSE
    /\ mainQueue = <<>> /\ block = <<>>
    /\ requests = <<>> /\ replies = <<>> /\ notes = 0
    /\ helper = FALSE /\ sniffing = "no"
    /\ reports = <<>> /\ dataQueue = <<>> /\ fetching = FALSE
    /\ captured = 0 /\ delivered = <<>>
    /\ excused = FALSE /\ early = FALSE
    /\ budget = [clicks |-> MaxClicks, refusals |-> MaxRefusals,
                 deaths |-> MaxDeaths, closes |-> MaxCloses]

-----------------------------------------------------------------------------
(***************************************************************************)
(* The application's main thread.                                          *)
(***************************************************************************)
MainThreadIdle == app /\ block = <<>>

\* A stop that has not been handled to its end.
StopUnderWay ==
    \/ clearing \/ "stop" \in Range(requests)
    \/ \E i \in DOMAIN replies : replies[i].call = "stop"

\* Mutant: the button changes hijacking at once, without waiting for a reply.
Mut_ClickStart ==
    /\ MainThreadIdle /\ ~hijacking /\ budget.clicks > 0
    /\ finder' = TRUE /\ early' = StopUnderWay
    /\ hijacking' = TRUE
    /\ requests' = Append(requests, "start")
    /\ budget' = [budget EXCEPT !.clicks = @ - 1]
    /\ UNCHANGED <<app, clearing, mainQueue, block, replies, notes,
                   helperVars, captured, delivered, excused>>

ClickStart ==
    /\ MainThreadIdle /\ ~hijacking /\ budget.clicks > 0
    /\ finder' = TRUE /\ early' = StopUnderWay
    /\ requests' = Append(requests, "start")
    /\ budget' = [budget EXCEPT !.clicks = @ - 1]
    /\ UNCHANGED <<app, hijacking, clearing, mainQueue, block, replies, notes,
                   helperVars, captured, delivered, excused>>

ClickStop ==
    /\ MainThreadIdle /\ hijacking /\ budget.clicks > 0
    /\ requests' = Append(requests, "stop")
    /\ budget' = [budget EXCEPT !.clicks = @ - 1]
    /\ UNCHANGED <<appVars, replies, notes, helperVars, captured, delivered,
                   history>>

ReceiveNotification ==
    /\ MainThreadIdle /\ notes > 0
    /\ notes' = notes - 1
    /\ requests' = Append(requests, "getQueued")
    /\ UNCHANGED <<appVars, replies, helperVars, ghostVars>>

RunBlock ==
    /\ MainThreadIdle /\ mainQueue # <<>>
    /\ block' = Head(mainQueue)
    /\ mainQueue' = Tail(mainQueue)
    /\ UNCHANGED <<app, hijacking, finder, clearing, wireVars, helperVars,
                   ghostVars>>

\* One turn of the block's loop; addRequest: to nil does nothing.
AddRequest ==
    /\ app /\ block # <<>>
    /\ block' = Tail(block)
    /\ delivered' = IF finder THEN Append(delivered, Head(block)) ELSE delivered
    /\ UNCHANGED <<app, hijacking, finder, clearing, mainQueue, wireVars,
                   helperVars, captured, history, budget>>

-----------------------------------------------------------------------------
(***************************************************************************)
(* The application's reply queue.                                          *)
(***************************************************************************)
StartReply ==
    /\ ~clearing /\ replies # <<>> /\ Head(replies).call = "start"
    /\ replies' = Tail(replies)
    /\ hijacking' = TRUE
    /\ UNCHANGED <<app, finder, clearing, mainQueue, block, requests, notes,
                   helperVars, ghostVars>>

\* The reply to a stop changes hijacking first and urlFinder after it.
StopReply ==
    /\ ~clearing /\ replies # <<>> /\ Head(replies).call = "stop"
    /\ replies' = Tail(replies)
    /\ hijacking' = FALSE
    /\ clearing' = TRUE
    /\ UNCHANGED <<app, finder, mainQueue, block, requests, notes, helperVars,
                   ghostVars>>

ClearFinder ==
    /\ clearing
    /\ finder' = FALSE
    /\ clearing' = FALSE
    /\ UNCHANGED <<app, hijacking, mainQueue, block, wireVars, helperVars,
                   ghostVars>>

QueuedReply ==
    /\ ~clearing /\ replies # <<>> /\ Head(replies).call = "getQueued"
    /\ replies' = Tail(replies)
    /\ mainQueue' = Append(mainQueue, Head(replies).data)
    /\ UNCHANGED <<app, hijacking, finder, clearing, block, requests, notes,
                   helperVars, ghostVars>>

\* Mutant: a call that fails takes the URL finder away.
Mut_ErrorReply ==
    /\ ~clearing /\ replies # <<>> /\ Head(replies).call = "error"
    /\ replies' = Tail(replies)
    /\ finder' = FALSE
    /\ UNCHANGED <<app, hijacking, clearing, mainQueue, block, requests, notes,
                   helperVars, ghostVars>>

\* An error is logged, whatever the call was.
ErrorReply ==
    /\ ~clearing /\ replies # <<>> /\ Head(replies).call = "error"
    /\ replies' = Tail(replies)
    /\ UNCHANGED <<appVars, requests, notes, helperVars, ghostVars>>

-----------------------------------------------------------------------------
(***************************************************************************)
(* The helper's request queue.                                             *)
(***************************************************************************)
Serving(call) ==
    /\ helper /\ ~fetching
    /\ requests # <<>> /\ Head(requests) = call

ReplyTo(call, data) ==
    /\ requests' = Tail(requests)
    /\ replies' = Append(replies, [call |-> call, data |-> data])

StartSniffing ==
    /\ Serving("start")
    /\ sniffing' = "yes"
    /\ ReplyTo("start", <<>>)
    /\ UNCHANGED <<appVars, notes, helper, reports, dataQueue, fetching,
                   ghostVars>>

StopSniffing ==
    /\ Serving("stop")
    /\ sniffing' = IF sniffing = "yes" THEN "ending" ELSE sniffing
    /\ ReplyTo("stop", <<>>)
    /\ UNCHANGED <<appVars, notes, helper, reports, dataQueue, fetching,
                   ghostVars>>

\* reply(nil, self.dataQueue) encodes what is in the queue now ...
GetQueued ==
    /\ Serving("getQueued")
    /\ ReplyTo("getQueued", dataQueue)
    /\ fetching' = TRUE
    /\ UNCHANGED <<appVars, notes, helper, sniffing, reports, dataQueue,
                   ghostVars>>

\* Mutant: the queue keeps what was replied.
Mut_Emptied == dataQueue

\* removeAllObjects
Emptied == <<>>

\* ... and removes what is in the queue a moment later.
EmptyQueue ==
    /\ fetching
    /\ dataQueue' = Emptied
    /\ fetching' = FALSE
    /\ UNCHANGED <<appVars, wireVars, helper, sniffing, reports, ghostVars>>

Refuse ==
    /\ budget.refusals > 0
    /\ \E call \in {"start", "stop", "getQueued"} : Serving(call)
    /\ ReplyTo("error", <<>>)
    /\ budget' = [budget EXCEPT !.refusals = @ - 1]
    /\ UNCHANGED <<appVars, notes, helperVars, captured, delivered, history>>

-----------------------------------------------------------------------------
(***************************************************************************)
(* The sniff operations and the helper's main thread.                      *)
(***************************************************************************)
Capture ==
    /\ helper /\ sniffing # "no" /\ captured < MaxCaptures
    /\ captured' = captured + 1
    /\ reports' = Append(reports, captured + 1)
    /\ UNCHANGED <<appVars, wireVars, helper, sniffing, dataQueue, fetching,
                   delivered, history, budget>>

OperationsEnd ==
    /\ helper /\ sniffing = "ending"
    /\ sniffing' = "no"
    /\ UNCHANGED <<appVars, wireVars, helper, reports, dataQueue, fetching,
                   ghostVars>>

\* Mutants: nothing is posted once the operations are cancelled; a notification
\* waits for an application that is not running.
Mut_PostedWhileSniffing == notes + (IF app /\ sniffing = "yes" THEN 1 ELSE 0)

Mut_PostedToNobody == notes + 1

\* Only a running application observes the notification.
Posted == notes + (IF app THEN 1 ELSE 0)

ReceiveExchange ==
    /\ helper /\ reports # <<>>
    /\ dataQueue' = Append(dataQueue, Head(reports))
    /\ reports' = Tail(reports)
    /\ notes' = Posted
    /\ UNCHANGED <<appVars, requests, replies, helper, sniffing, fetching,
                   ghostVars>>

HelperGone ==
    /\ helper' = FALSE /\ sniffing' = "no"
    /\ reports' = <<>> /\ dataQueue' = <<>> /\ fetching' = FALSE

\* Mutant: a helper that is sniffing spares itself.
Mut_HostApplicationMissing == ~app /\ sniffing = "no"

HostApplicationMissing == ~app

\* _hostApplicationCheck, every two seconds.
HostApplicationCheck ==
    /\ helper /\ HostApplicationMissing
    /\ HelperGone
    /\ UNCHANGED <<appVars, wireVars, ghostVars>>

\* launchd starts the helper for a request; init checks for the application.
Launch ==
    /\ ~helper /\ app /\ requests # <<>>
    /\ helper' = TRUE
    /\ UNCHANGED <<appVars, wireVars, sniffing, reports, dataQueue, fetching,
                   ghostVars>>

\* The helper crashes: an exception leaves _handlePDU or main, or dataQueue, which
\* no lock guards, changes while it is encoded.  The calls it has not answered
\* fail, which is logged.
Die ==
    /\ helper /\ budget.deaths > 0
    /\ HelperGone
    /\ requests' = <<>>
    /\ budget' = [budget EXCEPT !.deaths = @ - 1]
    /\ excused' = TRUE
    /\ UNCHANGED <<appVars, replies, notes, captured, delivered, early>>

-----------------------------------------------------------------------------
CloseApp ==
    /\ app /\ budget.closes > 0
    /\ app' = FALSE
    /\ hijacking' = FALSE /\ finder' = FALSE /\ clearing' = FALSE
    /\ mainQueue' = <<>> /\ block' = <<>>
    /\ requests' = <<>> /\ replies' = <<>> /\ notes' = 0
    /\ budget' = [budget EXCEPT !.closes = @ - 1]
    /\ UNCHANGED <<helperVars, captured, delivered, history>>

OpenApp ==
    /\ ~app
    /\ app' = TRUE
    /\ excused' = (sniffing = "yes")
    /\ UNCHANGED <<hijacking, finder, clearing, mainQueue, block, wireVars,
                   helperVars, captured, delivered, early, budget>>

User == ClickStart \/ ClickStop \/ CloseApp \/ OpenApp

System ==
    \/ ReceiveNotification \/ RunBlock \/ AddRequest
    \/ StartReply \/ StopReply \/ ClearFinder \/ QueuedReply \/ ErrorReply
    \/ StartSniffing \/ StopSniffing \/ GetQueued \/ EmptyQueue
    \/ OperationsEnd \/ ReceiveExchange
    \/ HostApplicationCheck \/ Launch

Next == User \/ System \/ Refuse \/ Capture \/ Die

Spec == Init /\ [][Next]_vars

\* Every queue executes what is in it, launchd launches, the timer fires and
\* cancelled operations end.  The user, the network and crashes owe nothing.
Fairness ==
    /\ WF_vars(ReceiveNotification) /\ WF_vars(RunBlock) /\ WF_vars(AddRequest)
    /\ WF_vars(StartReply \/ StopReply \/ ClearFinder \/ QueuedReply \/ ErrorReply)
    /\ WF_vars(StartSniffing \/ StopSniffing \/ GetQueued \/ EmptyQueue)
    /\ WF_vars(OperationsEnd) /\ WF_vars(ReceiveExchange)
    /\ WF_vars(HostApplicationCheck) /\ WF_vars(Launch)

FairSpec == Spec /\ Fairness

-----------------------------------------------------------------------------
Exchanges == Seq(1 .. MaxCaptures)

Calls == {"start", "stop", "getQueued"}

Budgets == [clicks : 0 .. MaxClicks, refusals : 0 .. MaxRefusals,
            deaths : 0 .. MaxDeaths, closes : 0 .. MaxCloses]

AppTypes ==
    /\ app \in BOOLEAN /\ hijacking \in BOOLEAN
    /\ finder \in BOOLEAN /\ clearing \in BOOLEAN
    /\ mainQueue \in Seq(Exchanges) /\ block \in Exchanges

WireTypes ==
    /\ requests \in Seq(Calls)
    /\ replies \in Seq([call : Calls \cup {"error"}, data : Exchanges])
    /\ notes \in 0 .. MaxCaptures

HelperTypes ==
    /\ helper \in BOOLEAN /\ fetching \in BOOLEAN
    /\ sniffing \in {"yes", "no", "ending"}
    /\ reports \in Exchanges /\ dataQueue \in Exchanges

GhostTypes ==
    /\ captured \in 0 .. MaxCaptures /\ delivered \in Exchanges
    /\ excused \in BOOLEAN /\ early \in BOOLEAN /\ budget \in Budgets

\* A process that does not run holds nothing, and nobody sends it anything.
DownIsEmpty ==
    /\ ~app => /\ ~hijacking /\ ~finder /\ ~clearing
               /\ mainQueue = <<>> /\ block = <<>>
               /\ requests = <<>> /\ replies = <<>> /\ notes = 0
    /\ ~helper => /\ sniffing = "no" /\ ~fetching
                  /\ reports = <<>> /\ dataQueue = <<>>

TypeOK == AppTypes /\ WireTypes /\ HelperTypes /\ GhostTypes /\ DownIsEmpty

\* The exchanges between the operations and the URL finder, oldest first.
RepliedData == [i \in DOMAIN replies |-> replies[i].data]

InTransit ==
    block \o FlattenSeq(mainQueue) \o FlattenSeq(RepliedData)
        \o (IF fetching THEN <<>> ELSE dataQueue) \o reports

\* The whole pipeline is a queue that may lose exchanges, but never repeats or
\* reorders them, across both processes, four threads, a fetch that is not
\* atomic, and helpers that crash and are launched again.
Channel == INSTANCE LossyFifo WITH sent <- captured, pending <- InTransit

LossyFifoSpec == Channel!Spec

\* When no reply is on its way the application and the helper agree on whether
\* packets are sniffed, however often the button was clicked in the meantime
\* and whichever calls were refused; also after the application was closed and
\* opened again.  Unless the helper crashed, or it did not notice: it looks for the
\* application every two seconds, and one that is back by then finds the helper
\* sniffing.
HijackingAgrees ==
    app /\ replies = <<>> /\ ~excused => (hijacking <=> sniffing = "yes")

\* Exchanges do not stay in the helper, helper crashes or not.  A fetch that is
\* refused and a notification that finds no application are not made up for.
QueueIsFetched ==
    (helper /\ dataQueue # <<>>)
        ~> \/ dataQueue = <<>>
           \/ budget.refusals # MaxRefusals
           \/ budget.closes # MaxCloses

\* A helper does not outlive the application for good, and stays down.
ToolEnds == <>[]~app => <>[]~helper

\* While the application shows that it is hijacking, there is a finder to hand the
\* exchanges to: unless the start was clicked before the stop was over, whose reply
\* then removes the finder of the start.
FinderWhileHijacking == hijacking => finder \/ early

=============================================================================
