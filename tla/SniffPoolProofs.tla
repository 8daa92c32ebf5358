-------------------------- MODULE SniffPoolProofs ---------------------------
(***************************************************************************)
(* Proofs about SniffPool, for every set of interfaces and every number of *)
(* sessions.                                                               *)
(***************************************************************************)
EXTENDS SniffPool, TLAPS

\* The operations a start is about to add are those of its session, unused.
StartsFresh ==
    /\ \A o \in Ops : o[2] > session => state[o] = "none"
    /\ call = "start" => \A o \in todo : o[2] = session /\ state[o] = "none"

IInv == TypeOK /\ StartsFresh /\ MeIsAlive

LEMMA InitIInv == Init => IInv
<1> SUFFICES ASSUME Init PROVE IInv
  OBVIOUS
<1>1. TypeOK
  BY PoolAssumption DEF Init, TypeOK, States
<1>2. StartsFresh /\ MeIsAlive
  BY DEF Init, StartsFresh, MeIsAlive, Running
<1>3. QED
  BY <1>1, <1>2 DEF IInv

LEMMA StepIInv == IInv /\ [Next]_vars => IInv'
<1> SUFFICES ASSUME IInv, [Next]_vars PROVE IInv'
  OBVIOUS
<1> USE DEF IInv
<1>0. /\ TypeOK /\ StartsFresh /\ MeIsAlive
      /\ NoOp \notin Ops
      /\ \A o \in Ops : o[2] \in 1 .. Sessions
      /\ Sessions \in Nat
  BY PoolAssumption DEF Ops
<1>1. CASE StartSniffing
  <2>1. TypeOK'
    BY <1>0, <1>1 DEF StartSniffing, TypeOK, Ops
  <2>2. \A o \in Interfaces \X {session + 1} : o \in Ops /\ o[2] = session + 1
    BY <2>1, <1>1 DEF StartSniffing, TypeOK, Ops
  <2>3. StartsFresh'
    BY <1>0, <1>1, <2>2 DEF StartSniffing, TypeOK, StartsFresh
  <2>4. MeIsAlive'
    BY <1>0, <1>1 DEF StartSniffing, MeIsAlive, Running
  <2>5. QED
    BY <2>1, <2>3, <2>4
<1>2. CASE StopSniffing
  BY <1>0, <1>2 DEF StopSniffing, TypeOK, StartsFresh, MeIsAlive, Running, Operations
<1>3. CASE Reply
  BY <1>0, <1>3 DEF Reply, TypeOK, StartsFresh, MeIsAlive, Running
<1>4. ASSUME alive, NEW o \in Ops, AddOperation(o) PROVE IInv'
  <2>1. state[o] = "none" /\ o[2] = session
    BY <1>0, <1>4 DEF AddOperation, StartsFresh
  <2>2. me # o
    BY <1>0, <1>4, <2>1 DEF MeIsAlive
  <2>3. TypeOK'
    BY <1>0, <1>4 DEF AddOperation, TypeOK, States
  <2>4. StartsFresh'
    BY <1>0, <1>4, <2>1 DEF AddOperation, StartsFresh, TypeOK
  <2>5. MeIsAlive'
    BY <1>0, <1>4, <2>2 DEF AddOperation, MeIsAlive, Running, TypeOK
  <2>6. QED
    BY <2>3, <2>4, <2>5
<1>5. ASSUME NEW o \in Ops, Cancel(o) PROVE IInv'
  BY <1>0, <1>5 DEF Cancel, TypeOK, StartsFresh, MeIsAlive, Running
<1>6. ASSUME alive, NEW o \in Ops, Begin(o) PROVE IInv'
  <2>1. me # o
    BY <1>0, <1>6 DEF Begin, MeIsAlive
  <2>2. TypeOK'
    BY <1>0, <1>6 DEF Begin, TypeOK, States
  <2>3. StartsFresh'
    BY <1>0, <1>6 DEF Begin, TypeOK, StartsFresh
  <2>4. MeIsAlive'
    BY <1>0, <1>6, <2>1 DEF Begin, TypeOK, MeIsAlive, Running
  <2>5. QED
    BY <2>2, <2>3, <2>4
<1>7. ASSUME NEW o \in Ops, Main(o) PROVE IInv'
  <2>1. TypeOK'
    BY <1>0, <1>7 DEF Main, MeInMain, TypeOK, States
  <2>2. StartsFresh'
    BY <1>0, <1>7 DEF Main, TypeOK, StartsFresh
  <2>3. MeIsAlive'
    BY <1>0, <1>7 DEF Main, MeInMain, TypeOK, MeIsAlive, Running
  <2>4. QED
    BY <2>1, <2>2, <2>3
<1>8. ASSUME NEW o \in Ops, EnterHandle(o) PROVE IInv'
  <2>0. me # NoOp
    BY <1>0, <1>8 DEF EnterHandle, MeIsAlive, Running
  <2>1. TypeOK'
    BY <1>0, <1>8, <2>0 DEF EnterHandle, TypeOK, States
  <2>2. StartsFresh'
    BY <1>0, <1>8 DEF EnterHandle, TypeOK, StartsFresh
  <2>3. MeIsAlive'
    BY <1>0, <1>8 DEF EnterHandle, TypeOK, MeIsAlive, Running
  <2>4. QED
    BY <2>1, <2>2, <2>3
<1>9. ASSUME NEW o \in Ops, LeaveHandle(o) PROVE IInv'
  <2>1. TypeOK'
    BY <1>0, <1>9 DEF LeaveHandle, TypeOK, States
  <2>2. StartsFresh'
    BY <1>0, <1>9 DEF LeaveHandle, TypeOK, StartsFresh
  <2>3. MeIsAlive'
    BY <1>0, <1>9 DEF LeaveHandle, Continues, TypeOK, MeIsAlive, Running
  <2>4. QED
    BY <2>1, <2>2, <2>3
<1>10. ASSUME NEW o \in Ops, OpenFails(o) PROVE IInv'
  <2>1. TypeOK'
    BY <1>0, <1>10 DEF OpenFails, MeInMain, TypeOK, States
  <2>2. StartsFresh'
    BY <1>0, <1>10 DEF OpenFails, TypeOK, StartsFresh
  <2>3. MeIsAlive'
    BY <1>0, <1>10 DEF OpenFails, MeInMain, TypeOK, MeIsAlive, Running
  <2>4. QED
    BY <2>1, <2>2, <2>3
<1>11. ASSUME NEW o \in Ops, LoseCapture(o) PROVE IInv'
  <2>1. TypeOK'
    BY <1>0, <1>11 DEF LoseCapture, TypeOK, States
  <2>2. StartsFresh'
    BY <1>0, <1>11 DEF LoseCapture, TypeOK, StartsFresh
  <2>3. MeIsAlive'
    BY <1>0, <1>11 DEF LoseCapture, TypeOK, MeIsAlive, Running
  <2>4. QED
    BY <2>1, <2>2, <2>3
<1>12. CASE UNCHANGED vars
  BY <1>0, <1>12 DEF vars, TypeOK, StartsFresh, MeIsAlive, Running
<1>13. QED
  BY <1>1, <1>2, <1>3, <1>4, <1>5, <1>6, <1>7, <1>8, <1>9, <1>10, <1>11, <1>12
  DEF Next, Thread

\* Every call and every thread keeps the variables well typed.
THEOREM TypeCorrect == Spec => []TypeOK
<1>1. IInv => TypeOK
  BY DEF IInv
<1>2. QED
  BY <1>1, InitIInv, StepIInv, PTL DEF Spec

\* Whatever the user does, whatever fails, and however the threads of main interleave:
\* while an operation runs me is set, and as long as the process lives, me is an
\* operation that runs, that was cancelled before it ended, or that lost its capture.
THEOREM MeStaysAlive == Spec => []MeIsAlive
<1>1. IInv => MeIsAlive
  BY DEF IInv
<1>2. QED
  BY <1>1, InitIInv, StepIInv, PTL DEF Spec

\* When every operation of the queue is cancelled, one that leaves handle ends:
\* me is in the queue, and cancelled like the rest, or it ended cancelled; unless
\* its capture was lost.
THEOREM StopWorks == Spec => StopTakesEffect
<1> DEFINE Takes == \A o \in Ops : /\ AllCancelled
                                   /\ state[o] = "handling" /\ state'[o] # "handling"
                                   => state'[o] = "finished" \/ MeIsLost
<1>1. IInv /\ [Next]_vars => [Takes]_vars
  <2> SUFFICES ASSUME IInv, Next, NEW o \in Ops, AllCancelled,
                      state[o] = "handling", state'[o] # "handling", ~MeIsLost
               PROVE  state'[o] = "finished"
    BY DEF Takes
  <2>1. TypeOK /\ MeIsAlive
    BY DEF IInv
  <2>2. me \in Ops /\ me # NoOp
    BY <2>1, PoolAssumption DEF MeIsAlive, Running, TypeOK
  <2>3. cancelled[me]
    BY <2>1, <2>2 DEF Next, MeIsAlive, MeIsLost, AllCancelled, Operations
  <2>4. ~Continues
    BY <2>3 DEF Continues
  <2>5. PICK q \in Ops : \/ StartSniffing \/ StopSniffing \/ Reply
                         \/ AddOperation(q) \/ Cancel(q) \/ Begin(q)
                         \/ Main(q) \/ EnterHandle(q) \/ LeaveHandle(q)
                         \/ OpenFails(q) \/ LoseCapture(q)
    BY DEF Next, Thread
  <2>6. CASE LeaveHandle(q)
    BY <2>1, <2>4, <2>6 DEF LeaveHandle, TypeOK
  <2>7. CASE AddOperation(q)
    <3>1. q # o
      BY <2>7 DEF IInv, StartsFresh, AddOperation
    <3>2. QED
      BY <2>1, <2>7, <3>1 DEF AddOperation, TypeOK
  <2>8. CASE \/ Begin(q) \/ Main(q) \/ EnterHandle(q)
             \/ OpenFails(q) \/ LoseCapture(q)
    BY <2>1, <2>8 DEF Begin, Main, EnterHandle, OpenFails, LoseCapture, TypeOK
  <2>9. CASE StartSniffing \/ StopSniffing \/ Reply \/ Cancel(q)
    BY <2>9 DEF StartSniffing, StopSniffing, Reply, Cancel
  <2>10. QED
    BY <2>5, <2>6, <2>7, <2>8, <2>9
<1>2. QED
  BY <1>1, InitIInv, StepIInv, PTL DEF Spec, StopTakesEffect

-----------------------------------------------------------------------------
(***************************************************************************)
(* A patient user.  All operations of the queue are then of one session,   *)
(* and so is me while any of them runs; a stop cancels a session as a      *)
(* whole.  So a cancelled me means that the operation that asks is itself  *)
(* cancelled or next in the loop of the stop.                              *)
(***************************************************************************)
OneSession ==
    /\ \A o \in Operations : o[2] = session
    /\ \A o \in Ops : Running(o) => me[2] = session

CancelledTogether ==
    /\ \A o \in Ops : cancelled[o] => o[2] <= session
    /\ call = "start" => \A o \in Ops : o[2] = session => ~cancelled[o]
    /\ call = "stop" => /\ \A o \in Operations : cancelled[o] \/ o \in todo
                        /\ \A o \in todo : o[2] <= session
    /\ call = "none" => \A p \in Ops : cancelled[p] /\ p[2] = session => AllCancelled

PInv == IInv /\ OneSession /\ CancelledTogether /\ EndsOnlyIfCancelled

LEMMA InitPInv == Init => PInv
<1> SUFFICES ASSUME Init PROVE PInv
  OBVIOUS
<1>1. IInv
  BY InitIInv
<1>2. OneSession /\ CancelledTogether /\ EndsOnlyIfCancelled
  BY DEF Init, OneSession, CancelledTogether, EndsOnlyIfCancelled, Operations,
     Running, AllCancelled
<1>3. QED
  BY <1>1, <1>2 DEF PInv

LEMMA StepPInv == patient' /\ patient /\ PInv /\ [Next]_vars => PInv'
<1> SUFFICES ASSUME patient', patient, PInv, [Next]_vars PROVE PInv'
  OBVIOUS
<1> DEFINE Rest == OneSession /\ CancelledTogether /\ EndsOnlyIfCancelled
<1>0. /\ TypeOK /\ StartsFresh /\ MeIsAlive /\ Rest
      /\ \A o \in Ops : o[2] \in 1 .. Sessions
      /\ Sessions \in Nat /\ session \in Nat
      /\ NoOp \notin Ops
      /\ IInv'
  BY StepIInv, PoolAssumption DEF PInv, IInv, Ops, TypeOK
<1> USE DEF OneSession, CancelledTogether, EndsOnlyIfCancelled, Operations,
            Running, AllCancelled
<1>1. CASE StartSniffing
  <2>1. Operations = {}
    BY <1>1 DEF StartSniffing
  <2>2. \A o \in Ops : ~Running(o)
    BY <2>1
  <2>3. OneSession'
    BY <1>1, <2>1, <2>2 DEF StartSniffing
  <2>4. CancelledTogether'
    BY <1>0, <1>1 DEF StartSniffing
  <2>5. EndsOnlyIfCancelled'
    BY <1>0, <1>1 DEF StartSniffing
  <2>6. QED
    BY <1>0, <2>3, <2>4, <2>5 DEF PInv
<1>2. CASE StopSniffing
  <2>1. OneSession'
    BY <1>0, <1>2 DEF StopSniffing
  <2>2. \A o \in Operations : o[2] <= session
    BY <1>0
  <2>3. CancelledTogether'
    BY <1>0, <1>2, <2>2 DEF StopSniffing
  <2>4. EndsOnlyIfCancelled'
    BY <1>0, <1>2 DEF StopSniffing
  <2>5. QED
    BY <1>0, <2>1, <2>3, <2>4 DEF PInv
<1>3. CASE Reply
  <2>1. CancelledTogether'
    BY <1>0, <1>3 DEF Reply, TypeOK
  <2>2. OneSession' /\ EndsOnlyIfCancelled'
    BY <1>0, <1>3 DEF Reply
  <2>3. QED
    BY <1>0, <2>1, <2>2 DEF PInv
<1>4. ASSUME alive, NEW o \in Ops, AddOperation(o) PROVE PInv'
  <2>1. /\ state[o] = "none" /\ o[2] = session
        /\ state' = [state EXCEPT ![o] = "queued"]
        /\ UNCHANGED <<cancelled, me, call, session>>
        /\ call = "start"
    BY <1>0, <1>4 DEF AddOperation, StartsFresh
  <2>2. OneSession'
    BY <1>0, <2>1 DEF TypeOK
  <2>3. CancelledTogether'
    BY <1>0, <2>1
  <2>4. EndsOnlyIfCancelled'
    BY <1>0, <2>1 DEF TypeOK
  <2>5. QED
    BY <1>0, <2>2, <2>3, <2>4 DEF PInv
<1>5. ASSUME NEW o \in Ops, Cancel(o) PROVE PInv'
  <2>1. /\ o \in todo /\ call = "stop"
        /\ cancelled' = [cancelled EXCEPT ![o] = TRUE]
        /\ todo' = todo \ {o}
        /\ UNCHANGED <<state, me, call, session>>
    BY <1>5 DEF Cancel
  <2>2. OneSession'
    BY <1>0, <2>1
  <2>3. CancelledTogether'
    BY <1>0, <2>1 DEF TypeOK
  <2>4. EndsOnlyIfCancelled'
    BY <1>0, <2>1 DEF TypeOK
  <2>5. QED
    BY <1>0, <2>2, <2>3, <2>4 DEF PInv
<1>6. ASSUME alive, NEW o \in Ops, Begin(o) PROVE PInv'
  <2>1. /\ state[o] = "queued"
        /\ state' = [state EXCEPT ![o] =
                        IF cancelled[o] THEN "finished" ELSE "starting"]
        /\ UNCHANGED <<cancelled, me, call, todo, session>>
    BY <1>6 DEF Begin
  <2>2. Operations' \subseteq Operations
    BY <1>0, <2>1 DEF TypeOK
  <2>3. \A p \in Ops : Running(p)' => Running(p)
    BY <1>0, <2>1 DEF TypeOK
  <2>4. OneSession'
    BY <1>0, <2>1, <2>2, <2>3
  <2>5. CancelledTogether'
    BY <1>0, <2>1, <2>2
  <2>6. EndsOnlyIfCancelled'
    BY <1>0, <2>1 DEF TypeOK
  <2>7. QED
    BY <1>0, <2>4, <2>5, <2>6 DEF PInv
<1>7. ASSUME NEW o \in Ops, Main(o) PROVE PInv'
  <2>1. /\ state[o] = "starting"
        /\ state' = [state EXCEPT ![o] = "running"]
        /\ me' = o
        /\ UNCHANGED <<cancelled, call, todo, session>>
    BY <1>7 DEF Main, MeInMain
  <2>2. Operations' = Operations /\ o \in Operations
    BY <1>0, <2>1 DEF TypeOK
  <2>3. OneSession'
    BY <1>0, <2>1, <2>2
  <2>4. CancelledTogether'
    BY <1>0, <2>1, <2>2
  <2>5. EndsOnlyIfCancelled'
    BY <1>0, <2>1 DEF TypeOK
  <2>6. QED
    BY <1>0, <2>3, <2>4, <2>5 DEF PInv
<1>8. ASSUME NEW o \in Ops, EnterHandle(o) PROVE PInv'
  <2>1. /\ state[o] = "running"
        /\ state' = [state EXCEPT ![o] = "handling"]
        /\ UNCHANGED <<cancelled, me, call, todo, session>>
    BY <1>8 DEF EnterHandle
  <2>2. Operations' = Operations /\ \A p \in Ops : Running(p)' <=> Running(p)
    BY <1>0, <2>1 DEF TypeOK
  <2>3. OneSession' /\ CancelledTogether'
    BY <1>0, <2>1, <2>2
  <2>4. EndsOnlyIfCancelled'
    BY <1>0, <2>1 DEF TypeOK
  <2>5. QED
    BY <1>0, <2>3, <2>4 DEF PInv
<1>9. ASSUME NEW o \in Ops, LeaveHandle(o) PROVE PInv'
  <2>1. /\ state[o] = "handling"
        /\ state' = [state EXCEPT ![o] =
                        IF cancelled[me] THEN "finished" ELSE "running"]
        /\ UNCHANGED <<cancelled, me, call, todo, session>>
    BY <1>9 DEF LeaveHandle, Continues
  <2>2. Operations' \subseteq Operations /\ \A p \in Ops : Running(p)' => Running(p)
    BY <1>0, <2>1 DEF TypeOK
  <2>3. OneSession' /\ CancelledTogether'
    BY <1>0, <2>1, <2>2
  <2>4. me \in Ops /\ me[2] = session /\ o \in Operations
    BY <1>0, <2>1 DEF MeIsAlive, TypeOK
  <2>5. cancelled[me] => cancelled[o] \/ (call = "stop" /\ o \in todo)
    BY <1>0, <2>4 DEF TypeOK
  <2>6. EndsOnlyIfCancelled'
    BY <1>0, <2>1, <2>5 DEF TypeOK
  <2>7. QED
    BY <1>0, <2>3, <2>6 DEF PInv
<1>10. ASSUME NEW o \in Ops, OpenFails(o) PROVE PInv'
  <2>1. /\ state[o] = "starting"
        /\ state' = [state EXCEPT ![o] = "unopened"]
        /\ me' = o
        /\ UNCHANGED <<cancelled, call, todo, session>>
    BY <1>10 DEF OpenFails, MeInMain
  <2>2. Operations' \subseteq Operations /\ o \in Operations
    BY <1>0, <2>1 DEF TypeOK
  <2>3. OneSession'
    BY <1>0, <2>1, <2>2
  <2>4. CancelledTogether'
    BY <1>0, <2>1, <2>2
  <2>5. EndsOnlyIfCancelled'
    BY <1>0, <2>1 DEF TypeOK
  <2>6. QED
    BY <1>0, <2>3, <2>4, <2>5 DEF PInv
<1>11. ASSUME NEW o \in Ops, LoseCapture(o) PROVE PInv'
  <2>1. /\ state[o] = "running"
        /\ state' = [state EXCEPT ![o] = "lost"]
        /\ UNCHANGED <<cancelled, me, call, todo, session>>
    BY <1>11 DEF LoseCapture
  <2>2. Operations' \subseteq Operations /\ \A p \in Ops : Running(p)' => Running(p)
    BY <1>0, <2>1 DEF TypeOK
  <2>3. OneSession' /\ CancelledTogether'
    BY <1>0, <2>1, <2>2
  <2>4. EndsOnlyIfCancelled'
    BY <1>0, <2>1 DEF TypeOK
  <2>5. QED
    BY <1>0, <2>3, <2>4 DEF PInv
<1>12. CASE UNCHANGED vars
  BY <1>0, <1>12 DEF vars, PInv
<1>13. QED
  BY <1>1, <1>2, <1>3, <1>4, <1>5, <1>6, <1>7, <1>8, <1>9, <1>10, <1>11, <1>12
  DEF Next, Thread

\* An impatient user stays one.
LEMMA PatientStep == [Next]_vars /\ patient' => patient
  BY DEF Next, vars, StartSniffing, StopSniffing, Reply, AddOperation, Cancel,
     Thread, Begin, Main, OpenFails, EnterHandle, LeaveHandle, LoseCapture

\* With a patient user an operation ends only if it was cancelled, or the stop
\* under way is about to cancel it, although it never asks about itself.
THEOREM EndsAreOrdered == Spec => []EndsOnlyIfCancelled
<1> DEFINE QInv == IInv /\ (patient => PInv)
<1>1. Init => QInv
  BY InitPInv DEF PInv
<1>2. QInv /\ [Next]_vars => QInv'
  <2> SUFFICES ASSUME QInv, [Next]_vars PROVE QInv'
    OBVIOUS
  <2>1. IInv'
    BY StepIInv
  <2>2. patient' => PInv'
    BY PatientStep, StepPInv
  <2>3. QED
    BY <2>1, <2>2
<1>3. QInv => EndsOnlyIfCancelled
  BY DEF PInv, EndsOnlyIfCancelled
<1> HIDE DEF QInv
<1>4. QED
  BY <1>1, <1>2, <1>3, PTL DEF Spec
=============================================================================
