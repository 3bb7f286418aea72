------------------------- MODULE ConnectionSlotsProofs -------------------------
(***************************************************************************)
(* Theorems about ConnectionLifecycle and the slots of the semaphore: when *)
(* a slot is given back, how many connections there are, and what the      *)
(* runner may count on (SlotPool), for every number of attempts, slots and *)
(* reported states and in whatever order the handlers of a peer run.       *)
(***************************************************************************)
EXTENDS ConnectionLifecycleProofs

-----------------------------------------------------------------------------
(* A peer that leaves the registry is dead.                                *)

Dead(p) == events[p] # <<>> /\ Last(events[p]) \in {"failed", "closed"}

\* OnClosed was called for the peer.
Leaving(p, i) == at[<<p, i>>] \in {"delete", "uncount", "release", "released"}

\* Nothing is reported before the peer connection exists, nothing but closed after
\* failed or closed, and OnClosed is called for dead peers only.
Departures(p) ==
    /\ phase[p] \in {"idle", "init"} => events[p] = <<>>
    /\ \A i \in 1 .. Len(events[p]) : events[p][i] \in {"failed", "closed"} => Dead(p)
    /\ \A i \in 1 .. MaxEvents : Leaving(p, i) => Dead(p)

DeparturesInv == \A p \in Peers : Departures(p)

\* The peer is left alone.
Same(p) ==
    /\ phase'[p] = phase[p]
    /\ events'[p] = events[p]
    /\ \A i \in 1 .. MaxEvents : at'[<<p, i>>] = at[<<p, i>>]

\* A step that leaves all of a peer alone keeps what holds of the peer.
LEMMA SameKeeps ==
    ASSUME NEW p \in Peers, Same(p), Departures(p)
    PROVE  Departures(p)'
BY DEF Same, Departures, Leaving, Dead

\* An attempt, its watcher and pion touch one peer, and no handler.
LEMMA OneAttempt ==
    ASSUME TypeOK, NEW p \in Peers, NEW q \in Peers, q # p,
           \/ Acquire(p) \/ Attempt(p) \/ Watcher(p)
           \/ \E state \in PionStates : PionReports(p, state)
    PROVE  Same(q)
<1>1. UNCHANGED at
  BY DEF Acquire, Attempt, InitFails, InitPeer, OfferFails, Signal, SignalFails,
         SignalSucceeds, SetAnswerFails, SetAnswer, SetSignalingCloser, Watcher,
         PionReports
<1>2. phase'[q] = phase[q]
  BY DEF TypeOK, Acquire, Attempt, InitFails, InitPeer, OfferFails, Signal, SignalFails,
         SignalSucceeds, SetAnswerFails, SetAnswer, SetSignalingCloser, Watcher,
         PionReports, Goto, attemptVars
<1>3. events'[q] = events[q]
  BY DEF TypeOK, Acquire, Attempt, InitFails, InitPeer, OfferFails, Signal, SignalFails,
         SignalSucceeds, SetAnswerFails, SetAnswer, SetSignalingCloser, Watcher,
         PionReports, ClosePeer, Report, pionVars
<1>4. QED
  BY <1>1, <1>2, <1>3 DEF Same

\* A step of a handler leaves every other handler where it is.
LEMMA StepAt ==
    ASSUME TypeOK, NEW p \in Peers, NEW i \in 1 .. MaxEvents, NEW from, NEW to,
           Step(p, i, from, to)
    PROVE  /\ at[<<p, i>>] = from /\ at'[<<p, i>>] = to
           /\ i \in 1 .. Len(events[p])
           /\ \A q \in Peers, k \in 1 .. MaxEvents :
                 q # p \/ k # i => at'[<<q, k>>] = at[<<q, k>>]
BY DEF TypeOK, Job, Step

\* A handler touches its own peer, and no attempt.
LEMMA OneHandler ==
    ASSUME TypeOK, NEW p \in Peers, NEW i \in 1 .. MaxEvents, Handler(p, i)
    PROVE  /\ UNCHANGED phase
           /\ \A q \in Peers : q # p => Same(q)
<1>1. UNCHANGED phase
  BY HandlerEffect
<1>2. PICK from, to : Step(p, i, from, to)
  BY DEF Handler, Begin, Swap, CountTotal, CountCurrent, Hangup, LoadAndDelete, Uncount,
         Release
<1>3. \A q \in Peers, k \in 1 .. MaxEvents : q # p => at'[<<q, k>>] = at[<<q, k>>]
  BY <1>2 DEF TypeOK, Job, Step
<1>4. \A q \in Peers : q # p => events'[q] = events[q]
  BY DEF TypeOK, Handler, Begin, Swap, CountTotal, CountCurrent, Hangup, LoadAndDelete,
         Uncount, Release, ClosePeer, Report, pionVars, notRegistry, notCurrent
<1>5. QED
  BY <1>1, <1>3, <1>4 DEF Same

\* A report that is no sign of life keeps a dead peer dead.
LEMMA ReportKeeps ==
    ASSUME TypeOK, NEW p \in Peers, Departures(p), NEW state \in PionStates,
           Report(p, state), Dead(p) => state = "closed", UNCHANGED at,
           phase'[p] \notin {"idle", "init"}
    PROVE  Departures(p)'
<1> DEFINE s == events[p]  t == events'[p]
<1>1. s \in Seq(PionStates) /\ Len(s) \in Nat
  BY LenProperties DEF TypeOK
<1>2. /\ t = Append(s, state) /\ Len(t) = Len(s) + 1 /\ t # <<>> /\ t[Len(t)] = state
      /\ \A i \in 1 .. Len(s) : t[i] = s[i]
  BY <1>1, AppendProperties DEF Report, TypeOK
<1>3. Dead(p) => Dead(p)'
  BY <1>2 DEF Dead, Last
<1>4. ASSUME NEW i \in 1 .. Len(t), t[i] \in {"failed", "closed"}
      PROVE  Dead(p)'
  <2>1. CASE i = Len(t)
    BY <1>2, <1>4, <2>1 DEF Dead, Last
  <2>2. CASE i # Len(t)
    <3>1. i \in 1 .. Len(s)
      BY <1>1, <1>2, <2>2
    <3>2. Dead(p)
      BY <1>2, <1>4, <3>1 DEF Departures
    <3>3. QED
      BY <1>3, <3>2
  <2>3. QED
    BY <2>1, <2>2
<1>5. QED
  BY <1>3, <1>4 DEF Departures, Leaving

\* Closing a peer makes it dead, or keeps it dead.
LEMMA CloseKeeps ==
    ASSUME TypeOK, NEW p \in Peers, Departures(p), NEW seen, ClosePeer(p, seen),
           UNCHANGED at, phase'[p] \notin {"idle", "init"}
    PROVE  Departures(p)' /\ Dead(p)'
<1>1. CASE PionClosed(p)
  <2>1. UNCHANGED events
    BY <1>1 DEF ClosePeer
  <2>2. QED
    BY <1>1, <2>1 DEF Departures, Leaving, Dead, PionClosed
<1>2. CASE ~PionClosed(p)
  <2>1. Report(p, "closed") /\ "closed" \in PionStates
    BY <1>2 DEF ClosePeer, PionStates
  <2>2. events[p] \in Seq(PionStates) /\ Len(events[p]) \in Nat
    BY LenProperties DEF TypeOK
  <2>3. events'[p] = Append(events[p], "closed")
    BY <2>1 DEF Report, TypeOK
  <2>4. Dead(p)'
    BY <2>2, <2>3, AppendProperties DEF Dead, Last
  <2>5. QED
    BY <2>1, <2>4, ReportKeeps
<1>3. QED
  BY <1>1, <1>2

\* An attempt, its watcher and pion never report life of a dead peer.
LEMMA AttemptKeeps ==
    ASSUME TypeOK, NEW p \in Peers, Departures(p),
           \/ Acquire(p) \/ Attempt(p) \/ Watcher(p)
           \/ \E state \in PionStates : PionReports(p, state)
    PROVE  Departures(p)'
<1>1. CASE Acquire(p) \/ InitFails(p)
  <2>1. phase[p] \in {"idle", "init"} /\ UNCHANGED <<events, at>>
    BY <1>1 DEF Acquire, InitFails, Goto, pionVars
  <2>2. QED
    BY <2>1 DEF Departures, Leaving, Dead
<1>2. CASE \/ OfferFails(p) \/ Signal(p) \/ SignalSucceeds(p) \/ SetAnswerFails(p)
           \/ SetAnswer(p) \/ SetSignalingCloser(p)
  <2>1. phase'[p] \notin {"idle", "init"} /\ UNCHANGED <<events, at>>
    BY <1>2 DEF OfferFails, Signal, SignalSucceeds, SetAnswerFails, SetAnswer,
                SetSignalingCloser, Goto, pionVars, TypeOK
  <2>2. QED
    BY <2>1 DEF Departures, Leaving, Dead
<1>3. CASE InitPeer(p)
  <2>1. /\ phase'[p] = "offer" /\ Report(p, "new") /\ UNCHANGED at
        /\ ~Dead(p)
    BY <1>3 DEF InitPeer, Goto, TypeOK, Departures, Dead
  <2>2. QED
    BY <2>1, ReportKeeps DEF PionStates
<1>4. CASE SignalFails(p) \/ Watcher(p)
  <2>1. PICK seen : ClosePeer(p, seen)
    BY <1>4 DEF SignalFails, Watcher
  <2>2. phase'[p] \in {"failed", "down"} /\ UNCHANGED at
    BY <1>4 DEF SignalFails, Watcher, Goto, TypeOK
  <2>3. QED
    BY <2>1, <2>2, CloseKeeps
<1>5. CASE \E state \in PionStates : PionReports(p, state)
  <2>1. PICK state \in PionStates : PionReports(p, state)
    BY <1>5
  <2>2. /\ phase'[p] \notin {"idle", "init"} /\ Report(p, state) /\ UNCHANGED at
        /\ <<Last(events[p]), state>> \in PionSteps
    BY <2>1 DEF PionReports, attemptVars
  <2>3. ~Dead(p)
    BY <2>2 DEF PionSteps, Dead
  <2>4. QED
    BY <2>2, <2>3, ReportKeeps
<1>6. QED
  BY <1>1, <1>2, <1>3, <1>4, <1>5 DEF Attempt

\* A handler that calls OnClosed handles failed or closed, or has just closed the peer.
LEMMA HandlerKeeps ==
    ASSUME TypeOK, NEW p \in Peers, NEW i \in 1 .. MaxEvents, Departures(p), Handler(p, i)
    PROVE  Departures(p)'
<1>1. PICK from, to : Step(p, i, from, to)
  BY DEF Handler, Begin, Swap, CountTotal, CountCurrent, Hangup, LoadAndDelete, Uncount,
         Release
<1>2. /\ at[<<p, i>>] = from /\ at'[<<p, i>>] = to /\ i \in 1 .. Len(events[p])
      /\ \A k \in 1 .. MaxEvents : k # i => at'[<<p, k>>] = at[<<p, k>>]
  BY <1>1, StepAt
<1>3. UNCHANGED phase /\ phase[p] \notin {"idle", "init"}
  <2>1. Len(events[p]) # 0
    BY <1>2
  <2>2. QED
    BY <2>1, OneHandler DEF Departures
<1>4. CASE Hangup(p, i)
  <2>1. PICK seen : ClosePeer(p, seen)
    BY <1>4 DEF Hangup
  <2>2. Dead(p)'
    <3>1. CASE PionClosed(p)
      BY <2>1, <3>1 DEF ClosePeer, PionClosed, Dead
    <3>2. CASE ~PionClosed(p)
      <4>1. events'[p] = Append(events[p], "closed")
        BY <2>1, <3>2 DEF ClosePeer, Report, TypeOK
      <4>2. events[p] \in Seq(PionStates) /\ Len(events[p]) \in Nat
        BY LenProperties DEF TypeOK
      <4>3. QED
        BY <4>1, <4>2, AppendProperties DEF Dead, Last
    <3>3. QED
      BY <3>1, <3>2
  <2>3. QED
    BY <1>3, <2>2 DEF Departures
<1>5. CASE ~Hangup(p, i)
  <2>1. UNCHANGED events
    BY <1>5 DEF Handler, Begin, Swap, CountTotal, CountCurrent, LoadAndDelete, Uncount,
                Release, pionVars, notRegistry, notCurrent
  <2>2. Leaving(p, i)' => Dead(p)
    <3>1. CASE Begin(p, i)
      <4>1. SUFFICES ASSUME Leaving(p, i)' PROVE Dead(p)
        OBVIOUS
      <4>2. Change(p, i) = "Closed"
        BY <3>1, <4>1 DEF Begin, Step, Leaving, TypeOK, Job
      <4>3. events[p][i] \in PionStates
        BY <1>2 DEF TypeOK
      <4>4. events[p][i] \in {"failed", "closed"}
        BY <4>2, <4>3 DEF Change, StatusOf, PionStates
      <4>5. QED
        BY <1>2, <4>4 DEF Departures
    <3>2. CASE Swap(p, i) \/ CountTotal(p, i) \/ CountCurrent(p, i)
      <4>1. at'[<<p, i>>] \in {"total", "current", "hangup", "returned"}
        BY <3>2 DEF Swap, CountTotal, CountCurrent, AfterSwap, Step, TypeOK, Job
      <4>2. QED
        BY <4>1 DEF Leaving
    <3>3. CASE LoadAndDelete(p, i) \/ Uncount(p, i) \/ Release(p, i)
      <4>1. at[<<p, i>>] \in {"delete", "uncount", "release"}
        BY <3>3 DEF LoadAndDelete, Uncount, Release, Step
      <4>2. QED
        BY <4>1 DEF Departures, Leaving
    <3>4. QED
      BY <1>5, <3>1, <3>2, <3>3 DEF Handler
  <2>3. QED
    BY <1>2, <1>3, <2>1, <2>2 DEF Departures, Leaving, Dead
<1>6. QED
  BY <1>4, <1>5

\* Only dead peers leave the registry, always.
LEMMA DeparturesHold == Spec => []DeparturesInv
<1>1. Init => DeparturesInv
  BY DEF Init, DeparturesInv, Departures, Leaving, Dead, Job
<1>2. TypeOK /\ DeparturesInv /\ [Next]_vars => DeparturesInv'
  <2> SUFFICES ASSUME TypeOK, DeparturesInv, [Next]_vars, NEW q \in Peers
               PROVE  Departures(q)'
    BY DEF DeparturesInv
  <2>0. Departures(q)
    BY DEF DeparturesInv
  <2>1. ASSUME NEW p \in Peers,
               \/ Acquire(p) \/ Attempt(p) \/ Watcher(p)
               \/ \E state \in PionStates : PionReports(p, state)
        PROVE  Departures(q)'
    <3>1. CASE p = q
      BY <2>0, <2>1, <3>1, AttemptKeeps
    <3>2. CASE p # q
      BY <2>0, <2>1, <3>2, OneAttempt, SameKeeps
    <3>3. QED
      BY <3>1, <3>2
  <2>2. ASSUME NEW p \in Peers, NEW i \in 1 .. MaxEvents, Handler(p, i)
        PROVE  Departures(q)'
    <3>1. CASE p = q
      BY <2>0, <2>2, <3>1, HandlerKeeps
    <3>2. CASE p # q
      BY <2>0, <2>2, <3>2, OneHandler, SameKeeps
    <3>3. QED
      BY <3>1, <3>2
  <2>3. CASE Cancel \/ Exit \/ UNCHANGED vars
    <3>1. Same(q)
      BY <2>3 DEF Cancel, Exit, Same, vars, attemptVars, pionVars
    <3>2. QED
      BY <2>0, <3>1, SameKeeps
  <2>4. QED
    BY <2>1, <2>2, <2>3 DEF Next, Stopped
<1>3. QED
  BY <1>1, <1>2, TypeCorrect, PTL DEF Spec

\* OnClosed takes a peer out of the registry, and gives its slot back, only when pion
\* has failed or closed the peer, in whatever order reports and handlers come.
THEOREM SlotsOfTheDead == Spec => []SlotKeptWhileAlive
<1>1. DeparturesInv => SlotKeptWhileAlive
  BY DEF DeparturesInv, Departures, SlotKeptWhileAlive, Somewhere, Leaving, Alive, Dead
<1>2. QED
  BY <1>1, DeparturesHold, PTL

-----------------------------------------------------------------------------
(* The semaphore.                                                          *)

\* A slot in use is one that an attempt took, and each release gives one back; only a
\* release that finds no slot in use makes the process panic.
SemaphoreInv ==
    /\ held = Cardinality(Started) - Cardinality(At("released"))
    /\ held <= Connections
    /\ held < 0 <=> process = "panicked"

\* No slot is in use at first.
LEMMA SemaphoreInit ==
    ASSUME Init
    PROVE  SemaphoreInv
<1>1. Started = {} /\ At("released") = {}
  BY DEF Init, Started, At
<1>2. held = 0 /\ process = "running"
  BY Zenon DEF Init
<1>3. QED
  BY <1>1, <1>2, FS_EmptySet, ConstantsAssumption DEF SemaphoreInv

\* Acquire starts an attempt, Release is the only way to "released", and what else
\* happens changes neither.
LEMMA SemaphoreStep ==
    ASSUME TypeOK, SemaphoreInv, [Next]_vars
    PROVE  SemaphoreInv'
<1> USE AtFinite, PeersFinite, ConstantsAssumption
<1>a. held \in Int
  BY DEF TypeOK
<1>b. UNCHANGED at => At("released")' = At("released")
  BY DEF At
<1>1. ASSUME NEW p \in Peers, Acquire(p)
      PROVE  SemaphoreInv'
  <2>1. held < Connections /\ UNCHANGED <<at, process>> /\ process = "running"
    BY <1>1 DEF Acquire, Goto, processVars
  <2>2. QED
    BY <1>1, <1>a, <1>b, <2>1, AcquireStarts DEF SemaphoreInv
<1>2. ASSUME NEW p \in Peers,
             Attempt(p) \/ Watcher(p) \/ \E state \in PionStates : PionReports(p, state)
      PROVE  SemaphoreInv'
  <2>1. UNCHANGED <<at, held, process>>
    BY <1>2 DEF Attempt, InitFails, InitPeer, OfferFails, Signal, SignalFails,
                SignalSucceeds, SetAnswerFails, SetAnswer, SetSignalingCloser, Watcher,
                PionReports, processVars
  <2>2. Started' = Started
    <3>1. CASE Attempt(p) \/ Watcher(p)
      BY <3>1, StartedKept
    <3>2. CASE \E state \in PionStates : PionReports(p, state)
      BY <3>2 DEF PionReports, attemptVars, Started
    <3>3. QED
      BY <1>2, <3>1, <3>2
  <2>3. QED
    BY <1>b, <2>1, <2>2 DEF SemaphoreInv
<1>3. ASSUME NEW p \in Peers, NEW i \in 1 .. MaxEvents, Handler(p, i), ~Release(p, i)
      PROVE  SemaphoreInv'
  <2>1. UNCHANGED <<phase, held, process>>
    BY <1>3 DEF Handler, Begin, Swap, CountTotal, CountCurrent, Hangup, LoadAndDelete,
                Uncount, attemptVars, processVars, notRegistry, notCurrent
  <2>2. PICK from, to : Step(p, i, from, to) /\ from # "released" /\ to # "released"
    BY <1>3 DEF Handler, Begin, Swap, CountTotal, CountCurrent, Hangup, LoadAndDelete,
                Uncount, AfterSwap
  <2>3. \A j \in Job : at'[j] = "released" <=> at[j] = "released"
    BY <2>2 DEF TypeOK, Job, Step
  <2>4. At("released")' = At("released") /\ Started' = Started
    BY <2>1, <2>3 DEF At, Started
  <2>5. QED
    BY <2>1, <2>4 DEF SemaphoreInv
<1>4. ASSUME NEW p \in Peers, NEW i \in 1 .. MaxEvents, Release(p, i)
      PROVE  SemaphoreInv'
  <2>1. /\ held' = held - 1 /\ UNCHANGED phase /\ process = "running"
        /\ process' = IF held = 0 THEN "panicked" ELSE process
    BY <1>4 DEF Release, Step, attemptVars
  <2>2. Cardinality(At("released"))' = Cardinality(At("released")) + 1
    BY <1>4, StepCounts DEF Release
  <2>3. Started' = Started
    BY <2>1 DEF Started
  <2>4. held >= 0
    BY <1>a, <2>1 DEF SemaphoreInv
  <2>5. QED
    BY <1>a, <2>1, <2>2, <2>3, <2>4 DEF SemaphoreInv
<1>5. CASE Cancel \/ Exit \/ UNCHANGED vars
  <2>1. UNCHANGED <<phase, at, held>>
    BY <1>5 DEF Cancel, Exit, vars, attemptVars
  <2>2. process' = process \/ (process = "running" /\ process' = "exited")
    BY <1>5 DEF Cancel, Exit, vars, processVars
  <2>3. Started' = Started
    BY <2>1 DEF Started
  <2>4. QED
    BY <1>b, <2>1, <2>2, <2>3 DEF SemaphoreInv
<1>6. QED
  BY <1>1, <1>2, <1>3, <1>4, <1>5 DEF Next, Stopped

\* The semaphore counts the attempts and the releases, always.
LEMMA SemaphoreHolds == Spec => []SemaphoreInv
<1>1. Init => SemaphoreInv
  BY SemaphoreInit
<1>2. TypeOK /\ SemaphoreInv /\ [Next]_vars => SemaphoreInv'
  BY SemaphoreStep
<1>3. QED
  BY <1>1, <1>2, TypeCorrect, PTL DEF Spec

\* The peers alive and those that gave a slot back are different attempts.
LEMMA AliveOrGiver ==
    ASSUME DeparturesInv
    PROVE  LET A == {p \in Peers : Alive(p)}
           IN  /\ IsFiniteSet(A) /\ Cardinality(A) \in Nat /\ Cardinality(Givers) \in Nat
               /\ Cardinality(A) + Cardinality(Givers) <= Cardinality(Started)
<1> DEFINE A == {p \in Peers : Alive(p)}
<1>1. A \subseteq Started
  BY DEF Alive, Started
<1>2. ASSUME NEW p \in Givers PROVE p \in Started /\ p \notin A
  <2>1. Departures(p) /\ Dead(p)
    BY <1>2 DEF DeparturesInv, Departures, Givers, Somewhere, Leaving
  <2>2. QED
    BY <1>2, <2>1 DEF Departures, Dead, Alive, Started, Givers
<1> HIDE DEF A
<1>3. IsFiniteSet(A) /\ IsFiniteSet(Givers)
  BY <1>1, <1>2, PeersFinite, FS_Subset
<1>4. Cardinality(A \cap Givers) = 0
  <2>1. A \cap Givers = {}
    BY <1>2
  <2>2. QED
    BY <2>1, FS_EmptySet
<1>5. Cardinality(A \cup Givers) = Cardinality(A) + Cardinality(Givers)
  <2>1. Cardinality(A) \in Nat /\ Cardinality(Givers) \in Nat
    BY <1>3, FS_CardinalityType
  <2>2. Cardinality(A \cup Givers) =
          Cardinality(A) + Cardinality(Givers) - Cardinality(A \cap Givers)
    BY <1>3, FS_Union
  <2>3. QED
    BY <1>4, <2>1, <2>2
<1>6. Cardinality(A \cup Givers) <= Cardinality(Started)
  <2>1. (A \cup Givers) \subseteq Started
    BY <1>1, <1>2
  <2>2. QED
    BY <2>1, PeersFinite, FS_Subset
<1>7. QED
  BY <1>3, <1>5, <1>6, FS_CardinalityType DEF A

\* There are never more connections than Config.Connections, nor is the semaphore
\* released below zero, but for the peers that gave their slot back more than once.
THEOREM ConnectionsBounded == Spec => []AtMostConnections
<1>1. TypeOK /\ DeparturesInv /\ SemaphoreInv => AtMostConnections
  <2> SUFFICES ASSUME TypeOK, DeparturesInv, SemaphoreInv PROVE AtMostConnections
    OBVIOUS
  <2> DEFINE A == {p \in Peers : Alive(p)}
  <2>1. /\ Cardinality(A) \in Nat /\ Cardinality(Givers) \in Nat
        /\ Cardinality(A) + Cardinality(Givers) <= Cardinality(Started)
    BY AliveOrGiver
  <2>2. Cardinality(At("released")) \in Nat /\ Cardinality(Started) \in Nat
    BY AtFinite, PeersFinite
  <2> HIDE DEF A
  <2>3. Cardinality(A) <= Connections + SpareReleases
    BY <2>1, <2>2, ConstantsAssumption DEF SemaphoreInv, SpareReleases
  <2>4. process = "panicked" => SpareReleases > 0
    BY <2>1, <2>2 DEF SemaphoreInv, SpareReleases
  <2>5. QED
    BY <2>3, <2>4 DEF A, AtMostConnections
<1>2. QED
  BY <1>1, DeparturesHold, SemaphoreHolds, TypeCorrect, PTL

-----------------------------------------------------------------------------
(* The slots the runner counts on.                                         *)

Gone == {"uncount", "release", "released"}

\* A peer leaves the registry at most once for each of its handlers.
LEMMA LeftFinite ==
    ASSUME NEW p \in Peers
    PROVE  IsFiniteSet(Left(p)) /\ Cardinality(Left(p)) \in 0 .. MaxEvents
<1>1. IsFiniteSet(1 .. MaxEvents) /\ Cardinality(1 .. MaxEvents) = MaxEvents
  BY FS_Interval, ConstantsAssumption
<1>2. Left(p) \in SUBSET (1 .. MaxEvents)
  BY DEF Left
<1>3. IsFiniteSet(Left(p)) /\ Cardinality(Left(p)) <= MaxEvents
  BY <1>1, <1>2, FS_Subset
<1>4. QED
  BY <1>3, FS_CardinalityType, ConstantsAssumption

\* A handler that has not taken the entry out leaves room for one that does.
LEMMA LeftRoom ==
    ASSUME NEW p \in Peers, NEW i \in 1 .. MaxEvents, at[<<p, i>>] \notin Gone
    PROVE  Cardinality(Left(p)) < MaxEvents
<1>1. /\ IsFiniteSet(1 .. MaxEvents) /\ Cardinality(1 .. MaxEvents) = MaxEvents
      /\ i \in 1 .. MaxEvents
  BY FS_Interval, ConstantsAssumption
<1>2. Cardinality((1 .. MaxEvents) \ {i}) = MaxEvents - 1
  BY <1>1, FS_RemoveElement
<1>3. IsFiniteSet((1 .. MaxEvents) \ {i})
  BY <1>1, FS_RemoveElement
<1>4. Left(p) \in SUBSET ((1 .. MaxEvents) \ {i})
  BY DEF Left, Gone
<1>5. Cardinality(Left(p)) <= MaxEvents - 1
  BY <1>2, <1>3, <1>4, FS_Subset
<1>6. QED
  BY <1>5, LeftFinite, ConstantsAssumption

\* A step of a handler that stays on one side of the removal changes no peer's count ...
LEMMA LeftKept ==
    ASSUME TypeOK, NEW p \in Peers, NEW i \in 1 .. MaxEvents, NEW from, NEW to,
           Step(p, i, from, to), from \in Gone <=> to \in Gone
    PROVE  [q \in Peers |-> Cardinality(Left(q))]' = [q \in Peers |-> Cardinality(Left(q))]
<1>1. /\ at[<<p, i>>] = from /\ at'[<<p, i>>] = to
      /\ \A q \in Peers, k \in 1 .. MaxEvents :
            q # p \/ k # i => at'[<<q, k>>] = at[<<q, k>>]
  BY StepAt
<1>2. ASSUME NEW q \in Peers PROVE Left(q)' = Left(q)
  BY <1>1 DEF Left, Gone
<1>3. QED
  BY <1>2

\* ... and one that takes the entry out adds to its own peer's.
LEMMA LeftOnce ==
    ASSUME TypeOK, NEW p \in Peers, NEW i \in 1 .. MaxEvents,
           Step(p, i, "delete", "uncount")
    PROVE  [q \in Peers |-> Cardinality(Left(q))]' =
             [[q \in Peers |-> Cardinality(Left(q))] EXCEPT ![p] = @ + 1]
<1>1. /\ at[<<p, i>>] = "delete" /\ at'[<<p, i>>] = "uncount"
      /\ \A q \in Peers, k \in 1 .. MaxEvents :
            q # p \/ k # i => at'[<<q, k>>] = at[<<q, k>>]
  BY StepAt
<1>2. ASSUME NEW q \in Peers, q # p PROVE Left(q)' = Left(q)
  BY <1>1, <1>2 DEF Left
<1>3. Left(p)' = Left(p) \cup {i} /\ i \notin Left(p)
  BY <1>1 DEF Left
<1>4. Cardinality(Left(p) \cup {i}) = Cardinality(Left(p)) + 1
  BY <1>3, LeftFinite, FS_AddElement
<1>5. QED
  BY <1>2, <1>3, <1>4

\* Storing a status enters the peer's name in the registry, deleting it takes it out.
LEMMA RegistryChange ==
    ASSUME TypeOK, NEW p \in Peers, NEW s \in Statuses \cup {NoEntry},
           connectionsState' = [connectionsState EXCEPT ![p] = s]
    PROVE  Registered' = IF s = NoEntry THEN Registered \ {p} ELSE Registered \cup {p}
BY DEF TypeOK, Registered

\* Each step of the connections is a step of the slots or changes nothing of them.
LEMMA PoolStep ==
    ASSUME TypeOK, DeparturesInv, SemaphoreInv, [Next]_vars
    PROVE  [Slots!PoolNext]_Slots!poolVars
<1> USE AtFinite, ConstantsAssumption DEF Slots!PoolNext, Slots!poolVars
<1> DEFINE left == [q \in Peers |-> Cardinality(Left(q))]
<1>a. held \in Int /\ CurrentConnections \in Int /\ Connections \in Nat
  BY DEF TypeOK
<1>b. UNCHANGED at => UNCHANGED <<left, At("total"), At("current"), At("uncount"),
                                  At("release")>>
  BY DEF Left, At
<1>c. UNCHANGED connectionsState => Registered' = Registered
  BY DEF Registered
<1>d. UNCHANGED phase => Started' = Started
  BY DEF Started
<1>1. ASSUME NEW p \in Peers, Acquire(p)
      PROVE  [Slots!PoolNext]_Slots!poolVars
  <2>1. /\ phase[p] = "idle" /\ phase' = [phase EXCEPT ![p] = "init"]
        /\ held' = held + 1 /\ held < Connections /\ process = "running"
        /\ UNCHANGED <<at, connectionsState, CurrentConnections, process>>
    BY <1>1 DEF Acquire, Goto, registryVars, processVars
  <2>2. Started' = Started \cup {p} /\ p \notin Started
    BY <2>1 DEF Started, TypeOK
  <2>3. Connections - held > 0 /\ Connections - held' = (Connections - held) - 1
    BY <1>a, <2>1
  <2>4. Slots!Take(p)
    BY <1>b, <1>c, <2>1, <2>2, <2>3 DEF Slots!Take
  <2>5. QED
    BY <2>4
<1>2. ASSUME NEW p \in Peers,
             Attempt(p) \/ Watcher(p) \/ \E state \in PionStates : PionReports(p, state)
      PROVE  [Slots!PoolNext]_Slots!poolVars
  <2>1. UNCHANGED <<at, connectionsState, held, CurrentConnections, process>>
    BY <1>2 DEF Attempt, InitFails, InitPeer, OfferFails, Signal, SignalFails,
                SignalSucceeds, SetAnswerFails, SetAnswer, SetSignalingCloser, Watcher,
                PionReports, processVars, registryVars
  <2>2. Started' = Started
    <3>1. CASE Attempt(p) \/ Watcher(p)
      BY <3>1, StartedKept
    <3>2. CASE \E state \in PionStates : PionReports(p, state)
      BY <3>2, <1>d DEF PionReports, attemptVars
    <3>3. QED
      BY <1>2, <3>1, <3>2
  <2>3. QED
    BY <1>b, <1>c, <2>1, <2>2
<1>3. ASSUME NEW p \in Peers, NEW i \in 1 .. MaxEvents, Handler(p, i)
      PROVE  [Slots!PoolNext]_Slots!poolVars
  <2> USE DEF attemptVars, processVars, registryVars, notRegistry, notCurrent
  <2>0. Started' = Started
    BY <1>3, <1>d, OneHandler
  <2>1. CASE Begin(p, i) \/ Hangup(p, i)
    <3>1. PICK from \in {"start", "hangup"}, to \in {"swap", "delete"} : Step(p, i, from, to)
      BY <2>1 DEF Begin, Hangup
    <3>2. left' = left
      BY <3>1, LeftKept DEF Gone
    <3>3. UNCHANGED <<At("total"), At("current"), At("uncount"), At("release")>>
      BY <3>1, StepCounts
    <3>4. UNCHANGED <<connectionsState, held, CurrentConnections, process>>
      BY <2>1 DEF Begin, Hangup
    <3>5. QED
      BY <1>c, <2>0, <3>2, <3>3, <3>4
  <2>2. CASE Swap(p, i)
    <3>1. Change(p, i) \in Statuses /\ Change(p, i) # NoEntry
      <4>1. Change(p, i) \in Statuses
        BY <2>2, ChangeType DEF Swap, Step
      <4>2. QED
        BY <4>1 DEF Statuses, NoEntry
    <3>2. Registered' = Registered \cup {p}
      BY <2>2, <3>1, RegistryChange DEF Swap
    <3>3. UNCHANGED <<held, CurrentConnections, process>> /\ process = "running"
      BY <2>2 DEF Swap, Step
    <3>4. CASE connectionsState[p] = NoEntry
      <4>1. Step(p, i, "swap", "total")
        BY <2>2, <3>4 DEF Swap
      <4>2. left' = left
        BY <4>1, LeftKept DEF Gone
      <4>3. /\ Cardinality(At("total"))' = Cardinality(At("total")) + 1
            /\ UNCHANGED <<At("current"), At("uncount"), At("release")>>
        BY <4>1, StepCounts
      <4>4. p \in Started \ Registered
        <5>1. i \in 1 .. Len(events[p])
          BY <4>1 DEF Step
        <5>2. Len(events[p]) # 0
          BY <5>1
        <5>3. phase[p] # "idle"
          BY <5>2 DEF DeparturesInv, Departures
        <5>4. QED
          BY <3>4, <5>3 DEF Started, Registered
      <4>5. left[p] < MaxEvents
        BY <4>1, LeftRoom DEF Step, Gone
      <4>6. Slots!Register(p)
        BY <2>0, <3>2, <3>3, <4>2, <4>3, <4>4, <4>5 DEF Slots!Register
      <4>7. QED
        BY <4>6
    <3>5. CASE connectionsState[p] # NoEntry
      <4>1. PICK to \in {"hangup", "returned"} : Step(p, i, "swap", to)
        BY <2>2, <3>5 DEF Swap, AfterSwap
      <4>2. left' = left
        BY <4>1, LeftKept DEF Gone
      <4>3. UNCHANGED <<At("total"), At("current"), At("uncount"), At("release")>>
        BY <4>1, StepCounts
      <4>4. Registered' = Registered
        BY <3>2, <3>5 DEF Registered
      <4>5. QED
        BY <2>0, <3>3, <4>2, <4>3, <4>4
    <3>6. QED
      BY <3>4, <3>5
  <2>3. CASE CountTotal(p, i)
    <3>1. Step(p, i, "total", "current")
      BY <2>3 DEF CountTotal
    <3>2. left' = left
      BY <3>1, LeftKept DEF Gone
    <3>3. /\ Cardinality(At("total"))' = Cardinality(At("total")) - 1
          /\ Cardinality(At("current"))' = Cardinality(At("current")) + 1
          /\ UNCHANGED <<At("uncount"), At("release")>>
      BY <3>1, StepCounts
    <3>4. UNCHANGED <<connectionsState, held, CurrentConnections, process>>
      BY <2>3 DEF CountTotal
    <3>5. UNCHANGED (Cardinality(At("total")) + Cardinality(At("current")))
      BY <3>3
    <3>6. QED
      BY <1>c, <2>0, <3>2, <3>3, <3>4, <3>5
  <2>4. CASE CountCurrent(p, i)
    <3>1. PICK to \in {"hangup", "returned"} : Step(p, i, "current", to)
      BY <2>4 DEF CountCurrent, AfterSwap
    <3>2. left' = left
      BY <3>1, LeftKept DEF Gone
    <3>3. /\ Cardinality(At("current"))' = Cardinality(At("current")) - 1
          /\ UNCHANGED <<At("total"), At("uncount"), At("release")>>
      BY <3>1, StepCounts
    <3>4. /\ UNCHANGED <<connectionsState, held, process>> /\ process = "running"
          /\ CurrentConnections' = CurrentConnections + 1
      BY <2>4 DEF CountCurrent, Step
    <3>5. Cardinality(At("current")) > 0
      <4>1. <<p, i>> \in At("current")
        BY <3>1 DEF At, Step, Job
      <4>2. QED
        BY <4>1, FS_EmptySet
    <3>6. Slots!CountIn
      BY <1>c, <2>0, <3>2, <3>3, <3>4, <3>5 DEF Slots!CountIn
    <3>7. QED
      BY <3>6
  <2>5. CASE LoadAndDelete(p, i)
    <3>1. Registered' = Registered \ {p}
      BY <2>5, RegistryChange DEF LoadAndDelete
    <3>2. UNCHANGED <<held, CurrentConnections, process>> /\ process = "running"
      BY <2>5 DEF LoadAndDelete, Step
    <3>3. CASE connectionsState[p] = NoEntry
      <4>1. Step(p, i, "delete", "returned")
        BY <2>5, <3>3 DEF LoadAndDelete
      <4>2. left' = left
        BY <4>1, LeftKept DEF Gone
      <4>3. UNCHANGED <<At("total"), At("current"), At("uncount"), At("release")>>
        BY <4>1, StepCounts
      <4>4. Registered' = Registered
        BY <3>1, <3>3 DEF Registered
      <4>5. QED
        BY <2>0, <3>2, <4>2, <4>3, <4>4
    <3>4. CASE connectionsState[p] # NoEntry
      <4>1. Step(p, i, "delete", "uncount")
        BY <2>5, <3>4 DEF LoadAndDelete
      <4>2. left' = [left EXCEPT ![p] = @ + 1]
        BY <4>1, LeftOnce
      <4>3. /\ Cardinality(At("uncount"))' = Cardinality(At("uncount")) + 1
            /\ UNCHANGED <<At("total"), At("current"), At("release")>>
        BY <4>1, StepCounts
      <4>4. p \in Registered
        BY <3>4 DEF Registered
      <4>5. Slots!Unregister(p)
        BY <2>0, <3>1, <3>2, <4>2, <4>3, <4>4 DEF Slots!Unregister
      <4>6. QED
        BY <4>5
    <3>5. QED
      BY <3>3, <3>4
  <2>6. CASE Uncount(p, i)
    <3>1. Step(p, i, "uncount", "release")
      BY <2>6 DEF Uncount
    <3>2. left' = left
      BY <3>1, LeftKept DEF Gone
    <3>3. /\ Cardinality(At("uncount"))' = Cardinality(At("uncount")) - 1
          /\ Cardinality(At("release"))' = Cardinality(At("release")) + 1
          /\ UNCHANGED <<At("total"), At("current")>>
      BY <3>1, StepCounts
    <3>4. /\ UNCHANGED <<connectionsState, held, process>> /\ process = "running"
          /\ CurrentConnections' = CurrentConnections - 1
      BY <2>6 DEF Uncount, Step
    <3>5. Cardinality(At("uncount")) > 0
      <4>1. <<p, i>> \in At("uncount")
        BY <3>1 DEF At, Step, Job
      <4>2. QED
        BY <4>1, FS_EmptySet
    <3>6. Slots!CountOut
      BY <1>c, <2>0, <3>2, <3>3, <3>4, <3>5 DEF Slots!CountOut
    <3>7. QED
      BY <3>6
  <2>7. CASE Release(p, i)
    <3>1. Step(p, i, "release", "released")
      BY <2>7 DEF Release
    <3>2. left' = left
      BY <3>1, LeftKept DEF Gone
    <3>3. /\ Cardinality(At("release"))' = Cardinality(At("release")) - 1
          /\ UNCHANGED <<At("total"), At("current"), At("uncount")>>
      BY <3>1, StepCounts
    <3>4. /\ UNCHANGED <<connectionsState, CurrentConnections>> /\ process = "running"
          /\ held' = held - 1 /\ process' = IF held = 0 THEN "panicked" ELSE process
      BY <2>7 DEF Release, Step
    <3>5. Cardinality(At("release")) > 0
      <4>1. <<p, i>> \in At("release")
        BY <3>1 DEF At, Step, Job
      <4>2. QED
        BY <4>1, FS_EmptySet
    <3>6. /\ Connections - held' = (Connections - held) + 1
          /\ (process' = "panicked") = (Connections - held = Connections)
      BY <1>a, <3>4
    <3>7. Slots!Return
      BY <1>c, <2>0, <3>2, <3>3, <3>4, <3>5, <3>6 DEF Slots!Return
    <3>8. QED
      BY <3>7
  <2>8. QED
    BY <1>3, <2>1, <2>2, <2>3, <2>4, <2>5, <2>6, <2>7 DEF Handler
<1>4. CASE Cancel \/ Exit \/ UNCHANGED vars
  <2>1. UNCHANGED <<phase, at, connectionsState, held, CurrentConnections>>
    BY <1>4 DEF Cancel, Exit, vars, attemptVars, registryVars
  <2>2. (process' = "panicked") = (process = "panicked")
    BY <1>4 DEF Cancel, Exit, vars, processVars
  <2>3. QED
    BY <1>b, <1>c, <1>d, <2>1, <2>2
<1>5. QED
  BY <1>1, <1>2, <1>3, <1>4 DEF Next, Stopped

\* The connections implement the slots the runner is built on, in whatever order the
\* handlers of a peer run and whether or not a peer reconnects.
THEOREM LifecycleImplementsPool == Spec => ImplementsSlotPool
<1>1. Init => Slots!PoolInit
  <2> SUFFICES ASSUME Init PROVE Slots!PoolInit
    OBVIOUS
  <2>1. Started = {} /\ Registered = {}
    BY DEF Init, Started, Registered
  <2>2. \A label : label # "start" => At(label) = {}
    BY DEF Init, At
  <2>3. [p \in Peers |-> Cardinality(Left(p))] = [p \in Peers |-> 0]
    <3>1. \A p \in Peers : Left(p) = {}
      BY DEF Init, Left, Job
    <3>2. QED
      BY <3>1, FS_EmptySet
  <2>4. Connections - held = Connections /\ CurrentConnections = 0
    BY ConstantsAssumption DEF Init
  <2>5. (process = "panicked") = FALSE
    BY DEF Init
  <2>6. QED
    BY <2>1, <2>2, <2>3, <2>4, <2>5, FS_EmptySet DEF Slots!PoolInit
<1>2. TypeOK /\ DeparturesInv /\ SemaphoreInv /\ [Next]_vars
        => [Slots!PoolNext]_Slots!poolVars
  BY PoolStep
<1>3. QED
  BY <1>1, <1>2, DeparturesHold, SemaphoreHolds, TypeCorrect, PTL
     DEF Spec, ImplementsSlotPool, Slots!PoolSpec
==============================================================================
