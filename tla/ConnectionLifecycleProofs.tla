---------------------- MODULE ConnectionLifecycleProofs ----------------------
(***************************************************************************)
(* Theorems about ConnectionLifecycle, for every number of attempts, slots *)
(* and reported states: the types and the two counts.                      *)
(***************************************************************************)
EXTENDS ConnectionLifecycle, FiniteSetTheorems, SequenceTheorems, TLAPS

-----------------------------------------------------------------------------
(* Type correctness.                                                       *)

\* The switch of handleConnectionStateChange has a status for every pion state.
LEMMA StatusOfType ==
    ASSUME NEW state \in PionStates
    PROVE  StatusOf(state) \in Statuses
BY DEF StatusOf, PionStates, Statuses

\* Every reported state yields a status for the job that handles it.
LEMMA ChangeType ==
    ASSUME TypeOK, NEW p \in Peers, NEW i \in 1 .. Len(events[p])
    PROVE  Change(p, i) \in Statuses
<1>1. events[p] \in Seq(PionStates)
  BY DEF TypeOK
<1>2. events[p][i] \in PionStates
  BY <1>1
<1>3. QED
  BY <1>2, StatusOfType DEF Change

\* A report keeps the sequences of reports well-formed.
LEMMA ReportType ==
    ASSUME TypeOK, NEW p \in Peers, NEW state \in PionStates, Report(p, state)
    PROVE  events' \in [Peers -> Seq(PionStates)]
<1>1. events[p] \in Seq(PionStates)
  BY DEF TypeOK
<1>2. Append(events[p], state) \in Seq(PionStates)
  BY <1>1, AppendProperties
<1>3. QED
  BY <1>2 DEF Report, TypeOK

\* Closing a peer keeps the reports and the sockets well-formed.
LEMMA ClosePeerType ==
    ASSUME TypeOK, NEW p \in Peers, NEW seen \in BOOLEAN, ClosePeer(p, seen)
    PROVE  /\ events' \in [Peers -> Seq(PionStates)]
           /\ sockets' \in [Peers -> BOOLEAN]
<1>1. events' \in [Peers -> Seq(PionStates)]
  <2>1. CASE PionClosed(p)
    BY <2>1 DEF ClosePeer, TypeOK
  <2>2. CASE ~PionClosed(p)
    <3>1. Report(p, "closed")
      BY <2>2 DEF ClosePeer
    <3>2. QED
      BY <3>1, ReportType DEF PionStates
  <2>3. QED
    BY <2>1, <2>2
<1>2. sockets' \in [Peers -> BOOLEAN]
  BY DEF ClosePeer, TypeOK
<1>3. QED
  BY <1>1, <1>2

\* An attempt's goroutine moves between its control states only.
LEMMA GotoType ==
    ASSUME TypeOK, NEW p \in Peers, NEW from, NEW to \in Phases, Goto(p, from, to)
    PROVE  phase' \in [Peers -> Phases]
BY DEF Goto, TypeOK

\* A handler moves between its control states only.
LEMMA StepType ==
    ASSUME TypeOK, NEW p \in Peers, NEW i \in 1 .. MaxEvents,
           NEW from, NEW to \in Labels, Step(p, i, from, to)
    PROVE  at' \in [Job -> Labels]
BY DEF Step, TypeOK

\* Every step of an attempt or of its watcher keeps the types.
LEMMA AttemptType ==
    ASSUME TypeOK, NEW p \in Peers, Acquire(p) \/ Attempt(p) \/ Watcher(p)
    PROVE  TypeOK'
<1> USE DEF attemptVars, pionVars, registryVars, processVars
<1>1. CASE Acquire(p)
  <2>1. phase' \in [Peers -> Phases]
    BY <1>1, GotoType DEF Acquire, Phases
  <2>2. held' \in Int
    BY <1>1 DEF Acquire, TypeOK
  <2>3. QED
    BY <1>1, <2>1, <2>2 DEF Acquire, TypeOK
<1>2. CASE InitFails(p) \/ OfferFails(p) \/ Signal(p) \/ SetAnswerFails(p) \/ SetAnswer(p)
  <2>1. phase' \in [Peers -> Phases]
    BY <1>2, GotoType DEF InitFails, OfferFails, Signal, SetAnswerFails, SetAnswer, Phases
  <2>2. QED
    BY <1>2, <2>1 DEF InitFails, OfferFails, Signal, SetAnswerFails, SetAnswer, TypeOK
<1>3. CASE InitPeer(p)
  <2>1. phase' \in [Peers -> Phases]
    BY <1>3, GotoType DEF InitPeer, Phases
  <2>2. events' \in [Peers -> Seq(PionStates)]
    BY <1>3, ReportType DEF InitPeer, PionStates
  <2>3. QED
    BY <1>3, <2>1, <2>2 DEF InitPeer, TypeOK
<1>4. CASE SignalFails(p)
  <2>1. phase' \in [Peers -> Phases]
    BY <1>4, GotoType DEF SignalFails, Phases
  <2>2. events' \in [Peers -> Seq(PionStates)] /\ sockets' \in [Peers -> BOOLEAN]
    BY <1>4, ClosePeerType DEF SignalFails
  <2>3. QED
    BY <1>4, <2>1, <2>2 DEF SignalFails, TypeOK
<1>5. CASE SignalSucceeds(p)
  <2>1. phase' \in [Peers -> Phases]
    BY <1>5, GotoType DEF SignalSucceeds, Phases
  <2>2. sockets' \in [Peers -> BOOLEAN]
    BY <1>5, ConstantsAssumption DEF SignalSucceeds, TypeOK
  <2>3. QED
    BY <1>5, <2>1, <2>2 DEF SignalSucceeds, TypeOK
<1>6. CASE SetSignalingCloser(p)
  <2>1. phase' \in [Peers -> Phases]
    BY <1>6, GotoType DEF SetSignalingCloser, Phases
  <2>2. closer' \in [Peers -> BOOLEAN]
    BY <1>6, ConstantsAssumption DEF SetSignalingCloser, TypeOK
  <2>3. QED
    BY <1>6, <2>1, <2>2 DEF SetSignalingCloser, TypeOK
<1>7. CASE Watcher(p)
  <2>1. phase' \in [Peers -> Phases]
    BY <1>7, GotoType DEF Watcher, Phases
  <2>2. closer[p] \in BOOLEAN
    BY DEF TypeOK
  <2>3. events' \in [Peers -> Seq(PionStates)] /\ sockets' \in [Peers -> BOOLEAN]
    BY <1>7, <2>2, ClosePeerType DEF Watcher
  <2>4. QED
    BY <1>7, <2>1, <2>3 DEF Watcher, TypeOK
<1>8. QED
  BY <1>1, <1>2, <1>3, <1>4, <1>5, <1>6, <1>7 DEF Attempt

\* Every step of a handler keeps the types.
LEMMA HandlerType ==
    ASSUME TypeOK, NEW p \in Peers, NEW i \in 1 .. MaxEvents, Handler(p, i)
    PROVE  TypeOK'
<1> USE DEF attemptVars, pionVars, registryVars, processVars, notRegistry, notCurrent
<1> DEFINE after == AfterSwap(p, i)
<1>a. after \in Labels
  BY DEF AfterSwap, Labels
<1>1. CASE Begin(p, i)
  <2>1. at' \in [Job -> Labels]
    BY <1>1, StepType DEF Begin, Labels
  <2>2. i \in 1 .. Len(events[p])
    BY <1>1 DEF Begin, Step
  <2>3. Change(p, i) \in Statuses
    BY <2>2, ChangeType
  <2>4. QED
    BY <1>1, <2>1, <2>3 DEF Begin, TypeOK
<1>2. CASE Swap(p, i)
  <2>1. at' \in [Job -> Labels]
    BY <1>a, <1>2, StepType DEF Swap, Labels
  <2>2. i \in 1 .. Len(events[p])
    BY <1>2 DEF Swap, Step
  <2>3. Change(p, i) \in Statuses
    BY <2>2, ChangeType
  <2>4. QED
    BY <1>2, <2>1, <2>3 DEF Swap, TypeOK
<1>3. CASE CountTotal(p, i)
  <2>1. at' \in [Job -> Labels]
    BY <1>3, StepType DEF CountTotal, Labels
  <2>2. QED
    BY <1>3, <2>1 DEF CountTotal, TypeOK
<1>4. CASE CountCurrent(p, i)
  <2>1. at' \in [Job -> Labels]
    BY <1>a, <1>4, StepType DEF CountCurrent
  <2>2. QED
    BY <1>4, <2>1 DEF CountCurrent, TypeOK
<1>5. CASE Hangup(p, i)
  <2>1. at' \in [Job -> Labels]
    BY <1>5, StepType DEF Hangup, Labels
  <2>2. PICK seen \in {FALSE, closer[p]} : ClosePeer(p, seen)
    BY <1>5 DEF Hangup
  <2>3. seen \in BOOLEAN
    BY <2>2 DEF TypeOK
  <2>4. events' \in [Peers -> Seq(PionStates)] /\ sockets' \in [Peers -> BOOLEAN]
    BY <2>2, <2>3, ClosePeerType
  <2>5. QED
    BY <1>5, <2>1, <2>4 DEF Hangup, TypeOK
<1>6. CASE LoadAndDelete(p, i)
  <2>1. at' \in [Job -> Labels]
    BY <1>6, StepType DEF LoadAndDelete, Labels
  <2>2. QED
    BY <1>6, <2>1 DEF LoadAndDelete, TypeOK
<1>7. CASE Uncount(p, i)
  <2>1. at' \in [Job -> Labels]
    BY <1>7, StepType DEF Uncount, Labels
  <2>2. QED
    BY <1>7, <2>1 DEF Uncount, TypeOK
<1>8. CASE Release(p, i)
  <2>1. at' \in [Job -> Labels]
    BY <1>8, StepType DEF Release, Labels
  <2>2. held' \in Int /\ process' \in {"running", "panicked", "exited"}
    BY <1>8 DEF Release, TypeOK
  <2>3. QED
    BY <1>8, <2>1, <2>2 DEF Release, TypeOK
<1>9. QED
  BY <1>1, <1>2, <1>3, <1>4, <1>5, <1>6, <1>7, <1>8 DEF Handler

\* Each variable keeps its type: in particular every status a handler stores and
\* every label it goes to is one the code has.
THEOREM TypeCorrect == Spec => []TypeOK
<1>1. Init => TypeOK
  <2> SUFFICES ASSUME Init PROVE TypeOK
    OBVIOUS
  <2>1. events \in [Peers -> Seq(PionStates)]
    <3>1. <<>> \in Seq(PionStates)
      OBVIOUS
    <3>2. QED
      BY <3>1 DEF Init
  <2>2. /\ phase \in [Peers -> Phases]
        /\ at \in [Job -> Labels]
        /\ status \in [Peers -> Statuses]
    BY DEF Init, Phases, Labels, Statuses
  <2>3. /\ closer \in [Peers -> BOOLEAN]
        /\ sockets \in [Peers -> BOOLEAN]
        /\ connectionsState \in [Peers -> Statuses \cup {NoEntry}]
    BY DEF Init
  <2>4. /\ TotalConnections \in Nat
        /\ CurrentConnections \in Int
        /\ held \in Int
    BY DEF Init
  <2>5. cancelled \in BOOLEAN /\ process \in {"running", "panicked", "exited"}
    BY Zenon DEF Init
  <2>6. QED
    BY <2>1, <2>2, <2>3, <2>4, <2>5 DEF TypeOK
<1>2. TypeOK /\ [Next]_vars => TypeOK'
  <2> SUFFICES ASSUME TypeOK, [Next]_vars PROVE TypeOK'
    OBVIOUS
  <2>1. CASE Cancel \/ Exit
    BY <2>1 DEF Cancel, Exit, TypeOK, attemptVars, pionVars, registryVars
  <2>2. ASSUME NEW p \in Peers, Acquire(p) \/ Attempt(p) \/ Watcher(p) PROVE TypeOK'
    BY <2>2, AttemptType
  <2>3. ASSUME NEW p \in Peers, NEW state \in PionStates, PionReports(p, state)
        PROVE  TypeOK'
    <3>1. events' \in [Peers -> Seq(PionStates)]
      BY <2>3, ReportType DEF PionReports
    <3>2. QED
      BY <2>3, <3>1 DEF PionReports, TypeOK, attemptVars, registryVars, processVars
  <2>4. ASSUME NEW p \in Peers, NEW i \in 1 .. MaxEvents, Handler(p, i) PROVE TypeOK'
    BY <2>4, HandlerType
  <2>5. CASE UNCHANGED vars
    BY <2>5 DEF vars, attemptVars, pionVars, registryVars, processVars, TypeOK
  <2>6. QED
    BY <2>1, <2>2, <2>3, <2>4, <2>5 DEF Next, Stopped
<1>3. QED
  BY <1>1, <1>2, PTL DEF Spec

-----------------------------------------------------------------------------
(* The two counting invariants.                                            *)

\* There are finitely many handlers, so that those at a label can be counted.
LEMMA AtFinite ==
    \A label : IsFiniteSet(At(label)) /\ Cardinality(At(label)) \in Nat
<1>1. IsFiniteSet(1 .. MaxEvents)
  BY ConstantsAssumption, FS_Interval
<1>2. IsFiniteSet(Job)
  BY <1>1, ConstantsAssumption, FS_Product DEF Job
<1>3. TAKE label
<1>4. At(label) \in SUBSET Job
  BY DEF At
<1>5. IsFiniteSet(At(label))
  BY <1>2, <1>4, FS_Subset
<1>6. QED
  BY <1>5, FS_CardinalityType

\* Likewise for the peers that are registered and the attempts that were started.
LEMMA PeersFinite ==
    /\ IsFiniteSet(Registered) /\ Cardinality(Registered) \in Nat
    /\ IsFiniteSet(Started) /\ Cardinality(Started) \in Nat
<1>1. Registered \in SUBSET Peers /\ Started \in SUBSET Peers
  BY DEF Registered, Started
<1>2. IsFiniteSet(Registered) /\ IsFiniteSet(Started)
  BY <1>1, ConstantsAssumption, FS_Subset
<1>3. QED
  BY <1>2, FS_CardinalityType

\* A step of a handler takes it out of the handlers at one label into those at another.
LEMMA StepCounts ==
    ASSUME TypeOK, NEW p \in Peers, NEW i \in 1 .. MaxEvents,
           NEW from, NEW to, from # to, Step(p, i, from, to)
    PROVE  /\ Cardinality(At(from))' = Cardinality(At(from)) - 1
           /\ Cardinality(At(to))' = Cardinality(At(to)) + 1
           /\ \A label : label # from /\ label # to => At(label)' = At(label)
<1> DEFINE j == <<p, i>>
<1>1. j \in Job /\ at[j] = from /\ at' = [at EXCEPT ![j] = to]
  BY DEF Job, Step
<1>2. at \in [Job -> Labels]
  BY DEF TypeOK
<1> HIDE DEF j
<1>3. At(from)' = At(from) \ {j} /\ j \in At(from)
  BY <1>1, <1>2 DEF At
<1>4. At(to)' = At(to) \cup {j} /\ j \notin At(to)
  BY <1>1, <1>2 DEF At
<1>5. \A label : label # from /\ label # to => At(label)' = At(label)
  BY <1>1, <1>2 DEF At
<1>6. Cardinality(At(from) \ {j}) = Cardinality(At(from)) - 1
  BY <1>3, AtFinite, FS_RemoveElement
<1>7. Cardinality(At(to) \cup {j}) = Cardinality(At(to)) + 1
  BY <1>4, AtFinite, FS_AddElement
<1>8. QED
  BY <1>3, <1>4, <1>5, <1>6, <1>7

\* Storing a status registers the peer, if it was not registered.
LEMMA RegisterCounts ==
    ASSUME TypeOK, NEW p \in Peers, NEW s \in Statuses,
           connectionsState' = [connectionsState EXCEPT ![p] = s]
    PROVE  Cardinality(Registered)' =
             Cardinality(Registered) + (IF connectionsState[p] = NoEntry THEN 1 ELSE 0)
<1>1. connectionsState \in [Peers -> Statuses \cup {NoEntry}] /\ s # NoEntry
  BY DEF TypeOK, Statuses, NoEntry
<1>2. Registered' = Registered \cup {p}
  BY <1>1 DEF Registered
<1>3. p \in Registered <=> connectionsState[p] # NoEntry
  BY DEF Registered
<1>4. Cardinality(Registered \cup {p}) =
        IF p \in Registered THEN Cardinality(Registered) ELSE Cardinality(Registered) + 1
  BY PeersFinite, FS_AddElement
<1>5. QED
  BY <1>2, <1>3, <1>4, PeersFinite

\* Deleting an entry unregisters the peer, if it was registered.
LEMMA UnregisterCounts ==
    ASSUME TypeOK, NEW p \in Peers,
           connectionsState' = [connectionsState EXCEPT ![p] = NoEntry]
    PROVE  Cardinality(Registered)' =
             Cardinality(Registered) - (IF connectionsState[p] = NoEntry THEN 0 ELSE 1)
<1>1. connectionsState \in [Peers -> Statuses \cup {NoEntry}]
  BY DEF TypeOK
<1>2. Registered' = Registered \ {p}
  BY <1>1 DEF Registered
<1>3. p \in Registered <=> connectionsState[p] # NoEntry
  BY DEF Registered
<1>4. Cardinality(Registered \ {p}) =
        IF p \in Registered THEN Cardinality(Registered) - 1 ELSE Cardinality(Registered)
  BY PeersFinite, FS_RemoveElement
<1>5. QED
  BY <1>2, <1>3, <1>4, PeersFinite

\* What a step of a handler does to the counted quantities: the five cases that touch
\* one of them, and the rest.
Effect(dRegistered, dTotalAt, dCurrentAt, dUncountAt, dReleaseAt) ==
    /\ Cardinality(Registered)' = Cardinality(Registered) + dRegistered
    /\ Cardinality(At("total"))' = Cardinality(At("total")) + dTotalAt
    /\ Cardinality(At("current"))' = Cardinality(At("current")) + dCurrentAt
    /\ Cardinality(At("uncount"))' = Cardinality(At("uncount")) + dUncountAt
    /\ Cardinality(At("release"))' = Cardinality(At("release")) + dReleaseAt

\* Each step of a handler moves the registry, the counters and the semaphore together.
LEMMA HandlerEffect ==
    ASSUME TypeOK, NEW p \in Peers, NEW i \in 1 .. MaxEvents, Handler(p, i)
    PROVE  /\ UNCHANGED phase
           /\ \/ /\ Effect(0, 0, 0, 0, 0) \/ Effect(1, 1, 0, 0, 0) \/ Effect(-1, 0, 0, 1, 0)
                 /\ UNCHANGED <<TotalConnections, CurrentConnections, held>>
              \/ /\ Effect(0, -1, 1, 0, 0)
                 /\ TotalConnections' = TotalConnections + 1
                 /\ UNCHANGED <<CurrentConnections, held>>
              \/ /\ Effect(0, 0, -1, 0, 0)
                 /\ CurrentConnections' = CurrentConnections + 1
                 /\ UNCHANGED <<TotalConnections, held>>
              \/ /\ Effect(0, 0, 0, -1, 1)
                 /\ CurrentConnections' = CurrentConnections - 1
                 /\ UNCHANGED <<TotalConnections, held>>
              \/ /\ Effect(0, 0, 0, 0, -1)
                 /\ held' = held - 1
                 /\ UNCHANGED <<TotalConnections, CurrentConnections>>
<1> USE AtFinite, PeersFinite
<1> USE DEF attemptVars, pionVars, registryVars, processVars, notRegistry, notCurrent
<1>a. UNCHANGED connectionsState => UNCHANGED Registered
  BY DEF Registered
<1>1. CASE Begin(p, i)
  <2>1. PICK to \in {"delete", "swap"} : Step(p, i, "start", to)
    BY <1>1 DEF Begin
  <2>2. Effect(0, 0, 0, 0, 0)
    BY <1>a, <1>1, <2>1, StepCounts DEF Begin, Effect
  <2>3. QED
    BY <1>1, <2>2 DEF Begin
<1>2. CASE Swap(p, i)
  <2>1. Change(p, i) \in Statuses
    BY <1>2, ChangeType DEF Swap, Step
  <2>2. Cardinality(Registered)' =
          Cardinality(Registered) + (IF connectionsState[p] = NoEntry THEN 1 ELSE 0)
    BY <1>2, <2>1, RegisterCounts DEF Swap
  <2>3. CASE connectionsState[p] = NoEntry
    <3>1. Step(p, i, "swap", "total")
      BY <1>2, <2>3 DEF Swap
    <3>2. Effect(1, 1, 0, 0, 0)
      BY <2>2, <2>3, <3>1, StepCounts DEF Effect
    <3>3. QED
      BY <1>2, <3>2 DEF Swap
  <2>4. CASE connectionsState[p] # NoEntry
    <3>1. PICK to \in {"hangup", "returned"} : Step(p, i, "swap", to)
      BY <1>2, <2>4 DEF Swap, AfterSwap
    <3>2. Effect(0, 0, 0, 0, 0)
      BY <2>2, <2>4, <3>1, StepCounts DEF Effect
    <3>3. QED
      BY <1>2, <3>2 DEF Swap
  <2>5. QED
    BY <2>3, <2>4
<1>3. CASE CountTotal(p, i)
  <2>1. Effect(0, -1, 1, 0, 0)
    BY <1>a, <1>3, StepCounts DEF CountTotal, Effect
  <2>2. QED
    BY <1>3, <2>1 DEF CountTotal
<1>4. CASE CountCurrent(p, i)
  <2>1. PICK to \in {"hangup", "returned"} : Step(p, i, "current", to)
    BY <1>4 DEF CountCurrent, AfterSwap
  <2>2. Effect(0, 0, -1, 0, 0)
    BY <1>a, <1>4, <2>1, StepCounts DEF CountCurrent, Effect
  <2>3. QED
    BY <1>4, <2>2 DEF CountCurrent
<1>5. CASE Hangup(p, i)
  <2>1. Effect(0, 0, 0, 0, 0)
    BY <1>a, <1>5, StepCounts DEF Hangup, Effect
  <2>2. QED
    BY <1>5, <2>1 DEF Hangup
<1>6. CASE LoadAndDelete(p, i)
  <2>1. Cardinality(Registered)' =
          Cardinality(Registered) - (IF connectionsState[p] = NoEntry THEN 0 ELSE 1)
    BY <1>6, UnregisterCounts DEF LoadAndDelete
  <2>2. CASE connectionsState[p] = NoEntry
    <3>1. Step(p, i, "delete", "returned")
      BY <1>6, <2>2 DEF LoadAndDelete
    <3>2. Effect(0, 0, 0, 0, 0)
      BY <2>1, <2>2, <3>1, StepCounts DEF Effect
    <3>3. QED
      BY <1>6, <3>2 DEF LoadAndDelete
  <2>3. CASE connectionsState[p] # NoEntry
    <3>1. Step(p, i, "delete", "uncount")
      BY <1>6, <2>3 DEF LoadAndDelete
    <3>2. Effect(-1, 0, 0, 1, 0)
      BY <2>1, <2>3, <3>1, StepCounts DEF Effect
    <3>3. QED
      BY <1>6, <3>2 DEF LoadAndDelete
  <2>4. QED
    BY <2>2, <2>3
<1>7. CASE Uncount(p, i)
  <2>1. Effect(0, 0, 0, -1, 1)
    BY <1>a, <1>7, StepCounts DEF Uncount, Effect
  <2>2. QED
    BY <1>7, <2>1 DEF Uncount
<1>8. CASE Release(p, i)
  <2>1. Effect(0, 0, 0, 0, -1)
    BY <1>a, <1>8, StepCounts DEF Release, Effect
  <2>2. QED
    BY <1>8, <2>1 DEF Release
<1>9. QED
  BY <1>1, <1>2, <1>3, <1>4, <1>5, <1>6, <1>7, <1>8 DEF Handler

\* The other steps leave the registry, the handlers and the counters alone.
LEMMA OtherSteps ==
    ASSUME NEW p \in Peers,
           \/ Attempt(p) \/ Watcher(p) \/ Cancel \/ Exit \/ UNCHANGED vars
           \/ \E state \in PionStates : PionReports(p, state)
    PROVE  UNCHANGED <<registryVars, at, held>>
BY DEF Attempt, InitFails, InitPeer, OfferFails, Signal, SignalFails, SignalSucceeds,
       SetAnswerFails, SetAnswer, SetSignalingCloser, Watcher, Cancel, Exit, PionReports,
       vars, registryVars

\* Past its start, an attempt remains started.
LEMMA StartedKept ==
    ASSUME TypeOK, NEW p \in Peers,
           \/ Attempt(p) \/ Watcher(p) \/ UNCHANGED phase
    PROVE  Started' = Started
<1>1. CASE UNCHANGED phase
  BY <1>1 DEF Started
<1>2. CASE Attempt(p) \/ Watcher(p)
  <2>1. PICK from \in Phases \ {"idle"}, to \in Phases \ {"idle"} : Goto(p, from, to)
    BY <1>2 DEF Attempt, InitFails, InitPeer, OfferFails, Signal, SignalFails, SignalSucceeds,
                SetAnswerFails, SetAnswer, SetSignalingCloser, Watcher, Phases
  <2>2. QED
    BY <2>1 DEF Goto, Started, TypeOK
<1>3. QED
  BY <1>1, <1>2

\* Taking a slot starts one attempt.
LEMMA AcquireStarts ==
    ASSUME TypeOK, NEW p \in Peers, Acquire(p)
    PROVE  /\ Cardinality(Started)' = Cardinality(Started) + 1
           /\ held' = held + 1
           /\ UNCHANGED <<registryVars, at>>
<1>1. Started' = Started \cup {p} /\ p \notin Started
  BY DEF Acquire, Goto, Started, TypeOK
<1>2. Cardinality(Started \cup {p}) = Cardinality(Started) + 1
  BY <1>1, PeersFinite, FS_AddElement
<1>3. QED
  BY <1>1, <1>2 DEF Acquire, registryVars

\* The two invariants are inductive together, given the types.
Counting == CounterTracksRegistry /\ SlotsConserved

\* Nothing is registered and no attempt has started at first.
LEMMA CountingInit ==
    ASSUME Init
    PROVE  Counting
<1>1. Registered = {} /\ Started = {}
  BY DEF Init, Registered, Started
<1>2. At("total") = {} /\ At("current") = {} /\ At("uncount") = {} /\ At("release") = {}
  BY DEF Init, At
<1>3. Cardinality({}) = 0
  BY FS_EmptySet
<1>4. TotalConnections = 0 /\ CurrentConnections = 0 /\ held = 0
  BY DEF Init
<1>5. QED
  BY <1>1, <1>2, <1>3, <1>4 DEF Counting, CounterTracksRegistry, SlotsConserved

\* Whatever a step adds to a counter it takes from, or adds to, the handlers on their way.
LEMMA CountingStep ==
    ASSUME TypeOK, Counting, [Next]_vars
    PROVE  Counting'
<1> USE AtFinite, PeersFinite DEF Counting, CounterTracksRegistry, SlotsConserved
<1>a. UNCHANGED <<registryVars, at>> =>
        UNCHANGED <<Registered, At("total"), At("current"), At("uncount"), At("release")>>
  BY DEF registryVars, Registered, At
<1>b. TotalConnections \in Nat /\ CurrentConnections \in Int /\ held \in Int
  BY DEF TypeOK
<1>1. ASSUME NEW p \in Peers, Acquire(p)
      PROVE  Counting'
  BY <1>1, <1>a, <1>b, AcquireStarts DEF registryVars
<1>2. ASSUME NEW p \in Peers, Attempt(p) \/ Watcher(p)
      PROVE  Counting'
  BY <1>2, <1>a, <1>b, OtherSteps, StartedKept DEF registryVars
<1>3. ASSUME NEW p \in Peers, NEW state \in PionStates, PionReports(p, state)
      PROVE  Counting'
  <2>1. Started' = Started
    BY <1>3 DEF PionReports, attemptVars, Started
  <2>2. QED
    BY <1>3, <1>a, <1>b, <2>1, OtherSteps DEF registryVars
<1>4. CASE Cancel \/ Exit \/ UNCHANGED vars
  <2>1. Started' = Started
    BY <1>4 DEF Cancel, Exit, vars, attemptVars, Started
  <2>2. UNCHANGED <<registryVars, at, held>>
    BY <1>4 DEF Cancel, Exit, vars, registryVars
  <2>3. QED
    BY <1>a, <1>b, <2>1, <2>2 DEF registryVars
<1>5. ASSUME NEW p \in Peers, NEW i \in 1 .. MaxEvents, Handler(p, i)
      PROVE  Counting'
  <2>1. Started' = Started
    BY <1>5, HandlerEffect, StartedKept
  <2>2. QED
    BY <1>5, <1>b, <2>1, HandlerEffect DEF Effect
<1>6. QED
  BY <1>1, <1>2, <1>3, <1>4, <1>5 DEF Next, Stopped

\* The two counts hold in every behaviour; their steps need the types.
LEMMA CountingHolds == Spec => []Counting
<1>1. Init => Counting
  BY CountingInit
<1>2. TypeOK /\ Counting /\ [Next]_vars => Counting'
  BY CountingStep
<1>3. QED
  BY <1>1, <1>2, TypeCorrect, PTL DEF Spec

\* CurrentConnections never drifts from the registry by more than the handlers under
\* way explain, however pion's reports are interleaved.
THEOREM CounterCorrect == Spec => []CounterTracksRegistry
<1>1. Counting => CounterTracksRegistry
  BY DEF Counting
<1>2. QED
  BY <1>1, CountingHolds, PTL

\* Slots are neither lost nor made up: those in use are the attempts started, less
\* the connections that were counted and are no longer registered.
THEOREM SlotsCorrect == Spec => []SlotsConserved
<1>1. Counting => SlotsConserved
  BY DEF Counting
<1>2. QED
  BY <1>1, CountingHolds, PTL
==============================================================================
