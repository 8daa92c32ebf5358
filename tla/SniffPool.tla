----------------------------- MODULE SniffPool ------------------------------
(***************************************************************************)
(* The sniff operations of the helper tool: startSniffingAuthorization: and *)
(* stopSniffingAuthorization: of HelperTool/HelperTool.m, the operation    *)
(* queue that runs one thread per operation, and main and handle of        *)
(* HelperTool/RHSniffOperation.mm, which meet in the static variable me.   *)
(*                                                                         *)
(* What happens to a packet inside _handlePDU is module SniffOperation's   *)
(* subject; here a packet is the time between entering and leaving handle. *)
(***************************************************************************)
EXTENDS Naturals

CONSTANTS
    Interfaces, \* active interfaces: the cached list is never refreshed
    Busy,       \* the interfaces on which TCP packets keep arriving
    Fragile,    \* the interfaces that may fail to open, or fail while captured
    Sessions,   \* bound: calls of startSniffingAuthorization:
    NoOp        \* nil, the value of me before the first operation runs

\* A start creates one operation per active interface.
Ops == Interfaces \X (1 .. Sessions)

ASSUME PoolAssumption ==
    /\ Busy \subseteq Interfaces /\ Fragile \subseteq Interfaces
    /\ Sessions \in Nat
    /\ NoOp \notin Ops

VARIABLES
    state,     \* of each operation
    cancelled, \* isCancelled of each operation
    handler,   \* while the operation is in handle, the receiver of _handlePDU
    me,        \* static RHSniffOperation* me
    call,      \* the call the connection's queue is executing
    todo,      \* what is left of its for loop
    session,   \* calls of startSniffingAuthorization: so far
    alive,     \* is the helper process running?
    patient    \* history: did every start so far find the queue empty?

vars == <<state, cancelled, handler, me, call, todo, session, alive, patient>>

\* "finished": told to end; "lost": out of packets; "unopened": no capture.
States == {"none", "queued", "starting", "running", "handling", "finished",
           "lost", "unopened"}

\* -[NSOperationQueue operations]
Operations ==
    {o \in Ops : state[o] \notin {"none", "finished", "lost", "unopened"}}

Init ==
    /\ state = [o \in Ops |-> "none"]
    /\ cancelled = [o \in Ops |-> FALSE]
    /\ handler = [o \in Ops |-> NoOp]
    /\ me = NoOp
    /\ call = "none"
    /\ todo = {}
    /\ session = 0
    /\ alive = TRUE
    /\ patient = TRUE

-----------------------------------------------------------------------------
(***************************************************************************)
(* Calls of the application, one at a time.                                *)
(***************************************************************************)
StartSniffing ==
    /\ call = "none"
    /\ session < Sessions
    /\ call' = "start"
    /\ session' = session + 1
    /\ patient' = (patient /\ Operations = {})
    /\ todo' = Interfaces \X {session + 1}
    /\ UNCHANGED <<state, cancelled, handler, me, alive>>

AddOperation(o) ==
    /\ call = "start" /\ o \in todo
    /\ state' = [state EXCEPT ![o] = "queued"]
    /\ todo' = todo \ {o}
    /\ UNCHANGED <<cancelled, handler, me, call, session, patient, alive>>

\* The loop runs over a snapshot of the queue.
StopSniffing ==
    /\ call = "none"
    /\ session > 0
    /\ call' = "stop"
    /\ todo' = Operations
    /\ UNCHANGED <<state, cancelled, handler, me, session, patient, alive>>

Cancel(o) ==
    /\ call = "stop" /\ o \in todo
    /\ cancelled' = [cancelled EXCEPT ![o] = TRUE]
    /\ todo' = todo \ {o}
    /\ UNCHANGED <<state, handler, me, call, session, patient, alive>>

Reply ==
    /\ call # "none" /\ todo = {}
    /\ call' = "none"
    /\ UNCHANGED <<state, cancelled, handler, me, todo, session, patient, alive>>

-----------------------------------------------------------------------------
(***************************************************************************)
(* The thread of an operation.                                             *)
(***************************************************************************)

\* The queue starts the operation; one that is already cancelled just ends.
Begin(o) ==
    /\ state[o] = "queued"
    /\ state' = [state EXCEPT ![o] =
                    IF cancelled[o] THEN "finished" ELSE "starting"]
    /\ UNCHANGED <<cancelled, handler, me, call, todo, session, patient, alive>>

\* Mutants: main does not set me; the first operation keeps me.
Mut_NoMain(o) == me

Mut_FirstMain(o) == IF me = NoOp THEN o ELSE me

\* me = self
MeInMain(o) == o

Main(o) ==
    /\ state[o] = "starting"
    /\ me' = MeInMain(o)
    /\ state' = [state EXCEPT ![o] = "running"]
    /\ UNCHANGED <<cancelled, handler, call, todo, session, patient, alive>>

\* The constructor of the sniffer throws: main has set me by then, and nothing
\* catches the exception, so the process ends with all its operations.
OpenFails(o) ==
    /\ state[o] = "starting" /\ o[1] \in Fragile
    /\ me' = MeInMain(o)
    /\ state' = [state EXCEPT ![o] = "unopened"]
    /\ alive' = FALSE
    /\ UNCHANGED <<cancelled, handler, call, todo, session, patient>>

\* next_packet returns no packet: the iterator becomes the end of the loop, and
\* the operation ends without anybody having cancelled it.
LoseCapture(o) ==
    /\ state[o] = "running" /\ o[1] \in Fragile
    /\ state' = [state EXCEPT ![o] = "lost"]
    /\ UNCHANGED <<cancelled, handler, me, call, todo, session, alive, patient>>

\* sniff_loop calls handle for a TCP packet of the operation's interface.  For
\* any other packet rfind_pdu throws pdu_not_found, which sniff_loop catches:
\* it goes on to the next packet without a result of handle to look at.
EnterHandle(o) ==
    /\ state[o] = "running" /\ o[1] \in Busy
    /\ state' = [state EXCEPT ![o] = "handling"]
    /\ handler' = [handler EXCEPT ![o] = me]
    /\ UNCHANGED <<cancelled, me, call, todo, session, patient, alive>>

\* Mutants: the result of handle ignores the cancellation; its sense is that of
\* isCancelled, not the one sniff_loop expects.
Mut_ContinuesAlways == TRUE

Mut_ContinuesIfCancelled == cancelled[me]

\* The result of handle: me is read once more.
Continues == ~cancelled[me]

LeaveHandle(o) ==
    /\ state[o] = "handling"
    /\ state' = [state EXCEPT ![o] = IF Continues THEN "running" ELSE "finished"]
    /\ handler' = [handler EXCEPT ![o] = NoOp]
    /\ UNCHANGED <<cancelled, me, call, todo, session, patient, alive>>

-----------------------------------------------------------------------------
Thread(o) ==
    \/ Begin(o)
    \/ Main(o)
    \/ OpenFails(o)
    \/ EnterHandle(o)
    \/ LeaveHandle(o)
    \/ LoseCapture(o)

Next ==
    /\ alive
    /\ \/ StartSniffing
       \/ StopSniffing
       \/ Reply
       \/ \E o \in Ops : AddOperation(o) \/ Cancel(o) \/ Thread(o)

Spec == Init /\ [][Next]_vars

\* A call runs to its reply, the queue runs what is in it, and TCP packets keep
\* arriving on busy interfaces.  Nobody has to start or to stop, and nothing has
\* to fail.
Fairness ==
    /\ WF_vars(alive /\ Reply)
    /\ \A o \in Ops :
          /\ WF_vars(alive /\ AddOperation(o))
          /\ WF_vars(alive /\ Cancel(o))
          /\ WF_vars(alive /\ Begin(o))
          /\ WF_vars(alive /\ Main(o))
          /\ WF_vars(alive /\ EnterHandle(o))
          /\ WF_vars(alive /\ LeaveHandle(o))

FairSpec == Spec /\ Fairness

-----------------------------------------------------------------------------
\* The types; and handle never sends _handlePDU to nil.
TypeOK ==
    /\ state \in [Ops -> States]
    /\ cancelled \in [Ops -> BOOLEAN]
    /\ handler \in [Ops -> Ops \cup {NoOp}]
    /\ \A o \in Ops : state[o] = "handling" => handler[o] # NoOp
    /\ me \in Ops \cup {NoOp}
    /\ call \in {"none", "start", "stop"}
    /\ todo \subseteq Ops
    /\ session \in 0 .. Sessions
    /\ {alive, patient} \subseteq BOOLEAN

Running(o) == state[o] \in {"running", "handling"}

\* Whatever the user does, an operation that runs finds me set, and me is an
\* operation that runs, or one that ended because it was cancelled or because
\* its capture was lost.  An operation whose sniffer could not be opened would
\* stay in me, ask nobody and never be cancelled: the process does not go on
\* with one.
MeIsAlive ==
    /\ \A o \in Ops : Running(o) => me # NoOp
    /\ alive /\ me # NoOp =>
          /\ state[me] \in {"running", "handling", "finished", "lost"}
          /\ state[me] = "finished" => cancelled[me]

AllCancelled == \A o \in Operations : cancelled[o]

\* The operation in me ended by itself: it left the queue, no stop reaches it.
MeIsLost == me # NoOp /\ state[me] = "lost" /\ ~cancelled[me]

\* The loop of every operation asks the operation in me, not itself; yet when
\* every operation of the queue is cancelled, whatever sessions they are from,
\* each ends with the packet it is handling.  The one exception is a me whose
\* capture was lost before the stop: then all the others go on.
StopTakesEffect ==
    [][\A o \in Ops :
          /\ AllCancelled
          /\ state[o] = "handling" /\ state'[o] # "handling"
          => state'[o] = "finished" \/ MeIsLost]_vars

\* When every operation is cancelled, the queue drains or the user starts again;
\* unless me is lost or the process ended.
QueueDrains ==
    \A s \in 1 .. Sessions :
        (session = s /\ call = "none" /\ AllCancelled)
            ~> (Operations = {} \/ session > s \/ MeIsLost \/ ~alive)

\* An operation ends only because it was told to: it is cancelled, or the stop
\* under way is about to cancel it.  Holds of a patient user only.
EndsOnlyIfCancelled ==
    patient =>
        \A o \in Ops :
            state[o] = "finished" =>
                cancelled[o] \/ (call = "stop" /\ o \in todo)

\* For a patient user cancelled operations end, though they ask another one,
\* as long as that one did not lose its capture.
CancelledEndIfPatient ==
    (\E o \in Operations : cancelled[o])
        ~> \/ \A o \in Operations : ~cancelled[o]
           \/ ~patient \/ MeIsLost \/ ~alive

\* A cancelled operation ends: "sniffing stopped".  Not so for a user who does
\* not wait: a start overwrites me, and an old operation goes on.
CancelledEnds == \A o \in Ops : cancelled[o] ~> state[o] = "finished"

\* Every packet is parsed by the operation of the interface it was captured on,
\* which knows the addresses that tell requests from responses.
ParsedByOwnOperation ==
    \A o \in Ops : state[o] = "handling" => handler[o] = o

=============================================================================
