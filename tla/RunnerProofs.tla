---------------------------- MODULE RunnerProofs ----------------------------
(***************************************************************************)
(* Theorems about Runner, for every number of attempts and of slots.       *)
(***************************************************************************)
EXTENDS Runner, TLAPS

-----------------------------------------------------------------------------
(* The end of the run.                                                     *)

\* What makes the properties of the end inductive: the order in which the goroutines
\* of the run set the flags that the return of Run reads.
EndInv ==
    /\ sleeper # "sleep" => finished
    /\ cancelled => interrupts > 0 \/ sleeper = "done"
    /\ loop \in {"logs", "completed", "stopped"} => cancelled
    /\ loop \in {"completed", "stopped"} => logger = "done"
    /\ loop = "stopped" => interrupts > 0
    /\ exit = "stopped" => loop = "stopped"
    /\ interrupts \in Nat

\* Every step keeps the order in which a run ends.
LEMMA EndInvStep ==
    ASSUME EndInv, [Next]_vars
    PROVE  EndInv'
<1> USE DEF EndInv
<1>1. ASSUME NEW p \in Peers, Acquire(p) \/ Go(p)
      PROVE  EndInv'
  BY <1>1 DEF Acquire, Go
<1>2. CASE Connection
  BY <1>2 DEF Connection, runVars
<1>3. CASE Tick
  BY <1>3 DEF Tick
<1>4. CASE LeaveLoop
  BY <1>4 DEF LeaveLoop
<1>5. CASE ReturnFromRun
  BY <1>5 DEF ReturnFromRun
<1>6. CASE Wake
  BY <1>6 DEF Wake
<1>7. CASE EndDuration
  BY <1>7 DEF EndDuration
<1>8. CASE LoggerTick \/ LoggerCancelled
  BY <1>8 DEF LoggerTick, LoggerCancelled
<1>9. CASE Interrupt
  BY <1>9 DEF Interrupt
<1>10. CASE InterruptAgain
  BY <1>10 DEF InterruptAgain
<1>11. CASE ExitProcess
  BY <1>11 DEF ExitProcess
<1>12. CASE UNCHANGED vars
  BY <1>12 DEF vars, runVars
<1>13. QED
  BY <1>1, <1>2, <1>3, <1>4, <1>5, <1>6, <1>7, <1>8, <1>9, <1>10, <1>11, <1>12
     DEF Next, Exited

\* It is inductive by itself.
LEMMA EndInvHolds == Spec => []EndInv
<1>1. Init => EndInv
  BY DEF Init, EndInv
<1>2. EndInv /\ [Next]_vars => EndInv'
  BY EndInvStep
<1>3. QED
  BY <1>1, <1>2, PTL DEF Spec

\* A run that nobody interrupts never ends as stopped.
THEOREM UninterruptedCorrect == Spec => []UninterruptedRunCompletes
<1>1. EndInv => UninterruptedRunCompletes
  BY DEF EndInv, UninterruptedRunCompletes
<1>2. QED
  BY <1>1, EndInvHolds, PTL

\* Run returns after the end of its context and of the logger only.
THEOREM ReturnCorrect == Spec => []ReturnsWhenOver
<1>1. EndInv => ReturnsWhenOver
  BY DEF EndInv, ReturnsWhenOver
<1>2. QED
  BY <1>1, EndInvHolds, PTL

-----------------------------------------------------------------------------
(* Type correctness.                                                       *)

\* The types of the slots are inductive with the room that a registered peer has to
\* leave the registry once more.
PoolInv == PoolTypeOK /\ \A p \in live : left[p] < MaxReturns

\* Every slot is free at first.
LEMMA PoolInvInit ==
    ASSUME PoolInit
    PROVE  PoolInv
<1>1. taken = {} /\ live = {} /\ left \in [Peers -> 0 .. MaxReturns]
  BY PoolAssumption DEF PoolInit
<1>2. joining = 0 /\ leaving = 0 /\ due = 0 /\ current = 0
  BY DEF PoolInit
<1>3. available \in 0 .. Connections + 1 /\ ~(available > Connections)
  BY PoolAssumption DEF PoolInit
<1>4. panicked \in BOOLEAN /\ ~panicked
  BY Zenon DEF PoolInit
<1>5. QED
  BY <1>1, <1>2, <1>3, <1>4 DEF PoolInv, PoolTypeOK

\* Every step of the slots keeps their types; one that would make available exceed
\* the slots panics.
LEMMA PoolInvStep ==
    ASSUME PoolInv, [PoolNext]_poolVars
    PROVE  PoolInv'
<1> USE PoolAssumption DEF PoolInv, PoolTypeOK
<1>1. ASSUME NEW p \in Peers, Take(p)
      PROVE  PoolInv'
  BY <1>1 DEF Take
<1>2. ASSUME NEW p \in Peers, Register(p)
      PROVE  PoolInv'
  BY <1>2 DEF Register
<1>3. ASSUME NEW p \in Peers, Unregister(p)
      PROVE  PoolInv'
  BY <1>3 DEF Unregister
<1>4. CASE CountIn \/ CountOut
  BY <1>4 DEF CountIn, CountOut
<1>5. CASE Return
  <2>1. /\ UNCHANGED <<taken, live, left, joining, leaving, current>>
        /\ due > 0 /\ due' = due - 1 /\ available' = available + 1 /\ ~panicked
    BY <1>5 DEF Return
  <2>2. panicked' \in BOOLEAN /\ (panicked' <=> available = Connections)
    BY <1>5 DEF Return
  <2>3. QED
    BY <2>1, <2>2
<1>6. CASE UNCHANGED poolVars
  BY <1>6 DEF poolVars
<1>7. QED
  BY <1>1, <1>2, <1>3, <1>4, <1>5, <1>6 DEF PoolNext

\* The control state of the run, and the attempts it has started.
RunTypes ==
    /\ loop \in {"acquire", "go", "tick", "logs", "completed", "stopped"}
    /\ started \subseteq taken
    /\ sleeper \in {"sleep", "woken", "done"}
    /\ logger \in {"run", "done"}
    /\ finished \in BOOLEAN
    /\ cancelled \in BOOLEAN
    /\ interrupts \in 0 .. 2
    /\ exit \in {"none", "completed", "stopped", "forced"}

\* Every step of the run takes a step of the slots or leaves them alone.
LEMMA RunStepOfPool ==
    ASSUME PoolInv, RunTypes, [Next]_vars
    PROVE  [PoolNext]_poolVars
<1>1. ASSUME NEW p \in Peers, Acquire(p)
      PROVE  [PoolNext]_poolVars
  BY <1>1 DEF Acquire, PoolNext
<1>2. CASE Connection
  BY <1>2 DEF Connection, PoolNext, PoolInv, PoolTypeOK, RunTypes
<1>3. CASE \/ \E p \in Peers : Go(p)
           \/ Tick \/ LeaveLoop \/ ReturnFromRun \/ Wake \/ EndDuration
           \/ LoggerTick \/ LoggerCancelled \/ Interrupt \/ InterruptAgain \/ ExitProcess
  BY <1>3 DEF Go, Tick, LeaveLoop, ReturnFromRun, Wake, EndDuration, LoggerTick,
              LoggerCancelled, Interrupt, InterruptAgain, ExitProcess
<1>4. CASE UNCHANGED vars
  BY <1>4 DEF vars
<1>5. QED
  BY <1>1, <1>2, <1>3, <1>4 DEF Next, Exited

\* Every step keeps the types of the run's own variables.
LEMMA RunTypesStep ==
    ASSUME RunTypes, [Next]_vars
    PROVE  RunTypes'
<1> USE DEF RunTypes
<1>1. ASSUME NEW p \in Peers, Acquire(p)
      PROVE  RunTypes'
  BY <1>1 DEF Acquire, Take
<1>2. ASSUME NEW p \in Peers, Go(p)
      PROVE  RunTypes'
  BY <1>2 DEF Go, poolVars
<1>3. CASE Connection
  <2>1. UNCHANGED taken
    BY <1>3 DEF Connection, Register, Unregister, CountIn, CountOut, Return
  <2>2. QED
    BY <1>3, <2>1 DEF Connection, runVars
<1>4. CASE Tick \/ LeaveLoop \/ ReturnFromRun
  BY <1>4 DEF Tick, LeaveLoop, ReturnFromRun, poolVars
<1>5. CASE Wake \/ EndDuration \/ LoggerTick \/ LoggerCancelled
  BY <1>5 DEF Wake, EndDuration, LoggerTick, LoggerCancelled, poolVars
<1>6. CASE Interrupt \/ InterruptAgain
  <2>1. interrupts' \in 0 .. 2
    BY <1>6 DEF Interrupt, InterruptAgain
  <2>2. cancelled' \in BOOLEAN /\ exit' \in {"none", "completed", "stopped", "forced"}
    BY <1>6 DEF Interrupt, InterruptAgain
  <2>3. UNCHANGED <<taken, started, loop, sleeper, logger, finished>>
    BY <1>6 DEF Interrupt, InterruptAgain, poolVars
  <2>4. QED
    BY <2>1, <2>2, <2>3
<1>7. CASE ExitProcess
  BY <1>7 DEF ExitProcess, poolVars
<1>8. CASE UNCHANGED vars
  BY <1>8 DEF vars, runVars, poolVars
<1>9. QED
  BY <1>1, <1>2, <1>3, <1>4, <1>5, <1>6, <1>7, <1>8 DEF Next, Exited

\* Every variable of the run keeps its type: in particular the semaphore has more slots
\* than Config.Connections only as the process dies of it, and no attempt is started
\* that has not taken a slot.
THEOREM RunTypeCorrect == Spec => []TypeOK
<1>1. Init => PoolInv /\ RunTypes
  <2> SUFFICES ASSUME Init PROVE PoolInv /\ RunTypes
    OBVIOUS
  <2>1. PoolInv
    BY PoolInvInit DEF Init
  <2>2. interrupts \in 0 .. 2
    BY DEF Init
  <2>3. QED
    BY <2>1, <2>2 DEF Init, RunTypes
<1>2. PoolInv /\ RunTypes /\ [Next]_vars => (PoolInv /\ RunTypes)'
  BY RunStepOfPool, PoolInvStep, RunTypesStep
<1>3. PoolInv /\ RunTypes => TypeOK
  BY DEF PoolInv, RunTypes, TypeOK
<1>4. QED
  BY <1>1, <1>2, <1>3, PTL DEF Spec
=============================================================================
