--------------------------- MODULE SignalingProofs ---------------------------
(***************************************************************************)
(* Theorems about Signaling, for all metadata messages, any target and any *)
(* number of calls that close.                                             *)
(***************************************************************************)
EXTENDS Signaling, InductionLemmas, FiniteSetTheorems, TLAPS

-----------------------------------------------------------------------------
(* The sockets, the readers and the calls of close.                        *)

SocketTypes ==
    /\ caller \in {"start", "dial", "offer", "wait", "failing", "answered", "failed"}
    /\ socket \in [Sockets -> {"none", "open", "broken", "closed"}]
    /\ reader \in [Sockets -> {"none", "read", "deferred", "done"}]
    /\ closing \in [Closing -> {"idle", "signaling", "metadata", "wait", "done"}]

\* The sockets come one after the other, and the readers with the second.
Opened ==
    /\ caller = "start" => \A s \in Sockets : socket[s] = "none" /\ reader[s] = "none"
    /\ caller = "dial" => socket["metadata"] = "none" /\ \A s \in Sockets : reader[s] = "none"

\* close is called by wsSignal or by the holders of its result, never by both.
CalledBy ==
    /\ \A c \in Closers : closing[c] # "idle" => caller = "answered"
    /\ closing[Caller] # "idle" =>
           caller = IF closing[Caller] = "done" THEN "failed" ELSE "failing"

\* How far a call of close has come is how much is closed.
ClosedSoFar ==
    \A c \in Closing :
        /\ closing[c] \in {"metadata", "wait"} => socket["signaling"] = "closed"
        /\ closing[c] = "wait" => socket["metadata"] = "closed"

SocketInv == SocketTypes /\ Opened /\ CalledBy /\ ClosedSoFar /\ FailureLeavesNothing

socketVars == <<caller, socket, reader, closing>>

\* wsSignal's own call is none of the holders'.
LEMMA CallerNotCloser ==
    /\ Caller \in Closing
    /\ \A c \in Closers : c # Caller /\ c \in Closing
    /\ \A c \in Closing : c \in Closers \/ c = Caller
BY ClosersAssumption DEF Closing, Caller, ClosersAssumption

\* The invariant holds at first.
LEMMA SocketInit == Init => SocketInv
BY CallerNotCloser
   DEF Init, SocketInv, SocketTypes, Opened, CalledBy, ClosedSoFar, FailureLeavesNothing,
       Sockets, Closing

\* A step of wsSignal or httpSignal.
LEMMA CallerKeeps ==
    ASSUME SocketInv, CallerStep
    PROVE  SocketInv'
<1> USE CallerNotCloser DEF SocketInv, SocketTypes, Opened, CalledBy, ClosedSoFar,
        FailureLeavesNothing, Sockets, Goto, wsVars
<1>1. CASE FailsAtOnce \/ HTTPAnswer
  BY <1>1 DEF FailsAtOnce, HTTPAnswer
<1>2. CASE DialSignaling
  BY <1>2 DEF DialSignaling, Connect
<1>3. CASE DialMetadataFails
  BY <1>3 DEF DialMetadataFails
<1>4. CASE DialMetadata
  BY <1>4 DEF DialMetadata, Connect
<1>5. CASE OfferSent \/ TakeAnswer
  BY <1>5 DEF OfferSent, TakeAnswer
<1>6. CASE OfferFails \/ TakeError \/ AnswerTimeout
  BY <1>6 DEF OfferFails, TakeError, AnswerTimeout, Fails, StartClosing
<1>7. QED
  BY <1>1, <1>2, <1>3, <1>4, <1>5, <1>6 DEF CallerStep

\* A step of a call of close.
LEMMA CloseKeeps ==
    ASSUME SocketInv, NEW c \in Closing, CallClose(c) \/ CloseStep(c)
    PROVE  SocketInv'
<1> USE CallerNotCloser DEF SocketInv, SocketTypes, Opened, CalledBy, ClosedSoFar,
        FailureLeavesNothing, Sockets
<1>1. CASE CallClose(c)
  BY <1>1 DEF CallClose, StartClosing
<1>2. CASE CloseSocket(c, "signaling", "metadata")
  BY <1>2 DEF CloseSocket
<1>3. CASE CloseSocket(c, "metadata", "wait")
  <2>1. /\ closing[c] = "metadata" /\ closing' = [closing EXCEPT ![c] = "wait"]
        /\ socket' = [socket EXCEPT !["metadata"] = "closed"]
        /\ UNCHANGED <<caller, reader>>
    BY <1>3 DEF CloseSocket
  <2>2. caller \in {"failing", "failed", "answered"} /\ (c = Caller => caller = "failing")
    BY <2>1
  <2>3. SocketTypes' /\ Opened'
    BY <2>1, <2>2
  <2>4. CalledBy'
    BY <2>1, <2>2
  <2>5. ClosedSoFar'
    BY <2>1
  <2>6. FailureLeavesNothing'
    BY <2>1
  <2>7. QED
    BY <2>3, <2>4, <2>5, <2>6
<1>4. CASE ReadersDone(c)
  BY <1>4 DEF ReadersDone
<1>5. QED
  BY <1>1, <1>2, <1>3, <1>4 DEF CloseStep

\* A step of a reader, which may end, but is not started again.
LEMMA ReaderKeeps ==
    ASSUME SocketInv, NEW s \in Sockets, reader[s] # "none",
           NEW next \in {"deferred", "done"}, s = "metadata" => next = "done",
           reader[s] # "done",
           reader' = [reader EXCEPT ![s] = next],
           UNCHANGED <<caller, socket, closing>>
    PROVE  SocketInv'
<1>1. caller # "start" /\ caller # "dial" /\ caller # "failed"
  BY DEF SocketInv, Opened, FailureLeavesNothing, Sockets
<1>2. QED
  BY <1>1 DEF SocketInv, SocketTypes, Opened, CalledBy, ClosedSoFar, FailureLeavesNothing

\* A step that leaves the sockets, the readers and the calls alone keeps it.
LEMMA StutterKeeps ==
    ASSUME SocketInv, UNCHANGED socketVars
    PROVE  SocketInv'
BY DEF SocketInv, SocketTypes, Opened, CalledBy, ClosedSoFar, FailureLeavesNothing, socketVars

\* A socket that is open breaks.
LEMMA BreakKeeps ==
    ASSUME SocketInv, NEW s \in Sockets, Break(s)
    PROVE  SocketInv'
BY DEF Break, SocketInv, SocketTypes, Opened, CalledBy, ClosedSoFar, FailureLeavesNothing

\* Every other step leaves the sockets, the readers and the calls alone.
OtherStep ==
    \/ \E offer \in Offers : ReadMetadata(offer)
    \/ \E u \in Updaters : UpdaterStep(u)
    \/ TimerStep \/ CooldownPasses \/ ConcurrentWrite \/ Ended
    \/ UNCHANGED vars

\* They do leave them alone.
LEMMA OtherStutters == OtherStep => UNCHANGED socketVars
BY DEF OtherStep, ReadMetadata, UpdaterStep, TimerStep, CooldownPasses, ConcurrentWrite, Ended,
   vars, wsVars, socketVars

\* Every step keeps it.
LEMMA SocketStep ==
    ASSUME SocketInv, [Next]_vars
    PROVE  SocketInv'
<1>1. CASE OtherStep
  BY <1>1, OtherStutters, StutterKeeps
<1>2. CASE CallerStep
  BY <1>2, CallerKeeps
<1>3. ASSUME NEW c \in Closing, CallClose(c) \/ CloseStep(c) PROVE SocketInv'
  BY <1>3, CloseKeeps
<1>4. CASE ReadAnswer \/ SignalingReadFails \/ SignalingReaderEnds
  BY <1>4, ReaderKeeps
     DEF ReadAnswer, SignalingReadFails, SignalingReaderEnds, Read, Sockets
<1>5. CASE MetadataReadFails
  BY <1>5, ReaderKeeps DEF MetadataReadFails, Read, Sockets
<1>6. ASSUME NEW s \in Sockets, Break(s) PROVE SocketInv'
  BY <1>6, BreakKeeps
<1>7. QED
  BY <1>1, <1>2, <1>3, <1>4, <1>5, <1>6 DEF OtherStep, Next, Step

\* The sockets, the readers and the calls are as they should be, always.
LEMMA SocketInvariant == Spec => []SocketInv
BY SocketInit, SocketStep, PTL DEF Spec

\* Whichever of its steps fails, and whatever the server does meanwhile, wsSignal leaves no
\* socket open and no reader running when it returns an error.
THEOREM FailureIsClean == Spec => []FailureLeavesNothing
BY SocketInvariant, PTL DEF SocketInv

-----------------------------------------------------------------------------
(* Signaling implements SignalingOutcome.                                  *)

\* The steps that settle the outcome, and those that open or close a socket, do it as
\* SignalingOutcome allows; every other one is a stutter.
LEMMA CallerRefines ==
    ASSUME SocketInv, CallerStep
    PROVE  [Outcome!OutcomeNext]_Outcome!outcomeVars
<1> USE DEF SocketInv, SocketTypes, Opened, Sockets, Goto, wsVars,
        Outcome!OutcomeNext, Outcome!outcomeVars, Outcome!Succeed, Outcome!Fail, Outcome!Open
<1>1. CASE FailsAtOnce \/ HTTPAnswer
  BY <1>1 DEF FailsAtOnce, HTTPAnswer
<1>2. CASE DialSignaling
  BY <1>2 DEF DialSignaling, Connect
<1>3. CASE DialMetadataFails
  BY <1>3 DEF DialMetadataFails
<1>4. CASE DialMetadata
  BY <1>4 DEF DialMetadata, Connect
<1>5. CASE OfferSent \/ TakeAnswer
  BY <1>5 DEF OfferSent, TakeAnswer
<1>6. CASE OfferFails \/ TakeError \/ AnswerTimeout
  BY <1>6 DEF OfferFails, TakeError, AnswerTimeout, Fails
<1>7. QED
  BY <1>1, <1>2, <1>3, <1>4, <1>5, <1>6 DEF CallerStep

\* A call of close closes a socket after the other, and the caller's own one settles.
LEMMA CloseRefines ==
    ASSUME SocketInv, NEW c \in Closing, CallClose(c) \/ CloseStep(c)
    PROVE  [Outcome!OutcomeNext]_Outcome!outcomeVars
<1> USE CallerNotCloser
    DEF SocketInv, SocketTypes, CalledBy, ClosedSoFar, Sockets,
        Outcome!OutcomeNext, Outcome!outcomeVars, Outcome!Fail, Outcome!Close
<1>1. CASE CallClose(c)
  BY <1>1 DEF CallClose
<1>2. CASE CloseSocket(c, "signaling", "metadata")
  BY <1>2 DEF CloseSocket
<1>3. CASE CloseSocket(c, "metadata", "wait")
  BY <1>3 DEF CloseSocket
<1>4. CASE ReadersDone(c)
  BY <1>4 DEF ReadersDone
<1>5. QED
  BY <1>1, <1>2, <1>3, <1>4 DEF CloseStep

\* Every step is one of SignalingOutcome or a stutter.
LEMMA NextRefines ==
    ASSUME SocketInv, [Next]_vars
    PROVE  [Outcome!OutcomeNext]_Outcome!outcomeVars
<1>1. CASE UNCHANGED <<caller, socket>>
  BY <1>1 DEF Outcome!outcomeVars
<1>2. CASE CallerStep
  BY <1>2, CallerRefines
<1>3. ASSUME NEW c \in Closing, CallClose(c) \/ CloseStep(c)
      PROVE  [Outcome!OutcomeNext]_Outcome!outcomeVars
  BY <1>3, CloseRefines
<1>4. ASSUME NEW s \in Sockets, Break(s)
      PROVE  [Outcome!OutcomeNext]_Outcome!outcomeVars
  BY <1>4 DEF Break, SocketInv, SocketTypes, Outcome!outcomeVars
<1>5. CASE OtherStep
  BY <1>1, <1>5, OtherStutters DEF socketVars
<1>6. CASE ReadAnswer \/ SignalingReadFails \/ SignalingReaderEnds \/ MetadataReadFails
  BY <1>1, <1>6 DEF ReadAnswer, SignalingReadFails, SignalingReaderEnds, MetadataReadFails
<1>7. QED
  BY <1>2, <1>3, <1>4, <1>5, <1>6 DEF OtherStep, Next, Step

\* Signaling settles once, an answer may be followed by the closing of the sockets only,
\* and a failure leaves none: what ConnectionLifecycle takes to be one step.
THEOREM OutcomeImplemented == Spec => ImplementsOutcome
<1>1. Init => Outcome!OutcomeInit
  BY DEF Init, Outcome!OutcomeInit, Sockets
<1>2. SocketInv /\ [Next]_vars => [Outcome!OutcomeNext]_Outcome!outcomeVars
  BY NextRefines
<1>3. QED
  BY <1>1, <1>2, SocketInvariant, PTL DEF Spec, ImplementsOutcome, Outcome!OutcomeSpec

-----------------------------------------------------------------------------
(* The tracker.                                                            *)

\* Where the updaters may be; what they choose is some value.
Updating ==
    /\ at = [u \in Updaters |-> at[u]]
    /\ at["metadata"] \in {"idle", "write", "store"}
    /\ at["timer"] \in {"idle", "armed", "copied", "write", "store", "done"}
    /\ best = [u \in Updaters |-> best[u]]
    /\ burst \in Nat

\* An updater past the checks has something to switch to, one that stores has sent it, and
\* unless two have met there is only one.
Agreement ==
    /\ \A u \in Updaters : Switching(u) => best[u] # NoIdx
    /\ ~raced =>
           /\ ~(Switching("metadata") /\ Switching("timer"))
           /\ \A u \in Updaters : at[u] = "store" => playing = best[u]
    /\ IndexAgrees

\* Until the timer is done nobody switches while another's cooldown lasts; afterwards the
\* metadata reader may be caught by the one the timer has begun.
Cooldown ==
    /\ CooldownOverrunOnce
    /\ Switching("metadata") /\ cooling => at["timer"] = "done" /\ burst <= 1
    /\ at["timer"] \in {"write", "store"} => burst <= 1

TrackerInv == Updating /\ Agreement /\ Cooldown

\* The checks and what follows from them.
LEMMA UpdateKeeps ==
    ASSUME TrackerInv, NEW u \in Updaters, NEW from, NEW tracks,
           UpdateTracks(u, from, tracks),
           from = IF u = "timer" THEN "copied" ELSE "idle"
    PROVE  TrackerInv'
<1> USE DEF TrackerInv, Updating, Agreement, Cooldown, IndexAgrees, CooldownOverrunOnce,
        Switching, Updaters
<1>1. PICK idx \in FoundIdxs[tracks] :
          IF Wants(idx)
          THEN /\ Move(u, from, "write")
               /\ best' = [best EXCEPT ![u] = idx]
               /\ raced' = (raced \/ \E v \in Updaters \ {u} : Switching(v))
          ELSE Leave(u, from) /\ UNCHANGED <<best, raced>>
  BY DEF UpdateTracks
<1>2. UNCHANGED <<currentIdx, cooling, playing, burst>>
  BY DEF UpdateTracks
<1>3. CASE Wants(idx)
  <2>1. /\ at[u] = from /\ at' = [at EXCEPT ![u] = "write"]
        /\ best' = [best EXCEPT ![u] = idx] /\ idx # NoIdx /\ ~cooling
        /\ raced' = (raced \/ \E v \in Updaters \ {u} : Switching(v))
    BY <1>1, <1>3 DEF Wants, Move
  <2>2. Updating'
    BY <1>2, <2>1
  <2>3. ~raced' => ~raced /\ \A v \in Updaters \ {u} : ~Switching(v)
    BY <2>1
  <2>4. Agreement'
    BY <1>2, <2>1, <2>3
  <2>5. Cooldown'
    <3>1. CASE u = "timer"
      BY <1>2, <2>1, <3>1
    <3>2. CASE u = "metadata"
      BY <1>2, <2>1, <3>2
    <3>3. QED
      BY <3>1, <3>2
  <2>6. QED
    BY <2>2, <2>4, <2>5
<1>4. CASE ~Wants(idx)
  BY <1>1, <1>2, <1>4 DEF Leave, Move
<1>5. QED
  BY <1>3, <1>4

\* The end of a write, and the storing of what it has sent.
LEMMA SwitchKeeps ==
    ASSUME TrackerInv, NEW u \in Updaters, SwitchEnds(u) \/ StoreSwitch(u)
    PROVE  TrackerInv'
<1> USE DEF TrackerInv, Updating, Agreement, Cooldown, IndexAgrees, CooldownOverrunOnce,
        Switching, Updaters, Return, Leave, Move
<1>1. CASE SwitchSent(u)
  BY <1>1 DEF SwitchSent
<1>2. CASE SwitchFails(u)
  BY <1>2 DEF SwitchFails
<1>3. CASE StoreSwitch(u)
  <2>1. /\ currentIdx' = best[u] /\ UNCHANGED <<playing, raced>>
    BY <1>3 DEF StoreSwitch
  <2> burst' \in Nat /\ (burst' = 1 \/ (cooling /\ burst' = burst + 1))
    <3>1. CASE cooling
      BY <1>3, <3>1 DEF StoreSwitch
    <3>2. CASE ~cooling
      BY <1>3, <3>2 DEF StoreSwitch
    <3>3. QED
      BY <3>1, <3>2
  <2>2. CASE u = "timer"
    <3>1. /\ at["timer"] = "store" /\ at' = [at EXCEPT !["timer"] = "done"]
          /\ best' = [best EXCEPT !["timer"] = NoIdx]
      BY <1>3, <2>2 DEF StoreSwitch
    <3>2. Updating'
      BY <2>1, <3>1
    <3>3. Agreement'
      BY <2>1, <2>2, <3>1
    <3>4. burst <= 1 /\ (Switching("metadata") => ~cooling)
      BY <3>1
    <3>5. burst' <= 2 /\ (Switching("metadata") => burst' <= 1)
      BY <3>4
    <3>6. Cooldown'
      BY <3>1, <3>5
    <3>7. QED
      BY <3>2, <3>3, <3>6
  <2>3. CASE u = "metadata"
    <3>1. /\ at["metadata"] = "store" /\ at' = [at EXCEPT !["metadata"] = "idle"]
          /\ best' = [best EXCEPT !["metadata"] = NoIdx]
      BY <1>3, <2>3 DEF StoreSwitch
    <3>2. Updating'
      BY <2>1, <3>1
    <3>3. Agreement'
      BY <2>1, <2>3, <3>1
    <3>4. cooling => at["timer"] = "done" /\ burst <= 1
      BY <3>1
    <3>5. burst' <= 2 /\ (at["timer"] # "done" => burst' <= 1)
      BY <3>4
    <3>6. Cooldown'
      BY <3>1, <3>5
    <3>7. QED
      BY <3>2, <3>3, <3>6
  <2>4. QED
    BY <2>2, <2>3
<1>4. QED
  BY <1>1, <1>2, <1>3 DEF SwitchEnds

\* The timer is armed, or makes its copy.
LEMMA TimerMoves ==
    ASSUME TrackerInv, NEW from \in {"idle", "armed"}, NEW to \in {"armed", "copied", "done"},
           Move("timer", from, to), UNCHANGED <<switchVars, raced>>
    PROVE  TrackerInv'
<1> USE DEF TrackerInv, Updating, Agreement, Cooldown, IndexAgrees, CooldownOverrunOnce,
        Switching, Updaters
<1>1. /\ at["timer"] = from /\ at' = [at EXCEPT !["timer"] = to]
      /\ UNCHANGED <<best, currentIdx, cooling, playing, burst, raced>>
  BY DEF Move, switchVars
<1>2. at'["metadata"] = at["metadata"] /\ at'["timer"] = to
  BY <1>1
<1>3. Updating'
  BY <1>1
<1>4. Agreement'
  BY <1>1, <1>2
<1>5. Cooldown'
  BY <1>1, <1>2
<1>6. QED
  BY <1>3, <1>4, <1>5

\* What leaves the tracker alone, or ends a cooldown, keeps its invariant.
LEMMA TrackerStutters ==
    ASSUME TrackerInv, UNCHANGED <<at, best, currentIdx, playing, burst, raced>>,
           UNCHANGED cooling \/ (cooling /\ cooling' = FALSE)
    PROVE  TrackerInv'
BY DEF TrackerInv, Updating, Agreement, Cooldown, IndexAgrees, CooldownOverrunOnce, Switching

\* The steps that leave the tracker alone.
NoTrackerStep ==
    \/ FailsAtOnce \/ HTTPAnswer \/ DialSignaling \/ DialMetadataFails \/ DialMetadata
    \/ OfferSent \/ OfferFails \/ TakeError \/ AnswerTimeout
    \/ \E c \in Closing : CallClose(c) \/ CloseStep(c)
    \/ ReadAnswer \/ SignalingReadFails \/ SignalingReaderEnds \/ MetadataReadFails
    \/ \E s \in Sockets : Break(s)
    \/ ConcurrentWrite \/ Ended \/ UNCHANGED vars

\* They do leave it alone.
LEMMA NoTrackerStepStutters == NoTrackerStep => UNCHANGED trackerVars
BY DEF NoTrackerStep, FailsAtOnce, HTTPAnswer, DialSignaling, DialMetadataFails, DialMetadata,
       OfferSent, OfferFails, TakeError, AnswerTimeout, Fails, CallClose, CloseStep, CloseSocket,
       ReadersDone, ReadAnswer, SignalingReadFails, SignalingReaderEnds, MetadataReadFails, Break,
       ConcurrentWrite, Ended, vars

\* Every step keeps the tracker's invariant.
LEMMA TrackerStep ==
    ASSUME TrackerInv, [Next]_vars
    PROVE  TrackerInv'
<1>1. CASE NoTrackerStep
  BY <1>1, NoTrackerStepStutters, TrackerStutters DEF trackerVars, switchVars
<1>2. CASE TakeAnswer
  <2>1. CASE TargetHeight > 0
    BY <1>2, <2>1, TimerMoves DEF TakeAnswer, ArmTimer
  <2>2. CASE ~(TargetHeight > 0)
    BY <1>2, <2>2, TrackerStutters DEF TakeAnswer, ArmTimer, switchVars
  <2>3. QED
    BY <2>1, <2>2
<1>3. ASSUME NEW offer \in Offers, ReadMetadata(offer) PROVE TrackerInv'
  BY <1>3, UpdateKeeps DEF ReadMetadata, Metadata, Updaters
<1>4. ASSUME NEW u \in Updaters, UpdaterStep(u) PROVE TrackerInv'
  BY <1>4, SwitchKeeps DEF UpdaterStep
<1>5. CASE TimerStep
  <2>1. CASE CopyTracks
    BY <2>1, TimerMoves DEF CopyTracks
  <2>2. CASE ApplyCopy
    BY <2>2, UpdateKeeps DEF ApplyCopy, Updaters
  <2>3. QED
    BY <1>5, <2>1, <2>2 DEF TimerStep
<1>6. CASE CooldownPasses
  BY <1>6, TrackerStutters DEF CooldownPasses, CooldownEnds
<1>7. QED
  BY <1>1, <1>2, <1>3, <1>4, <1>5, <1>6 DEF NoTrackerStep, Next, Step, CallerStep

\* It holds at first.
LEMMA TrackerStart == Init => TrackerInv
BY DEF Init, TrackerInit, TrackerInv, Updating, Agreement, Cooldown, IndexAgrees,
       CooldownOverrunOnce, Switching, Updaters, NoIdx

\* It holds always.
LEMMA TrackerInvariant == Spec => []TrackerInv
BY TrackerStart, TrackerStep, PTL DEF Spec

\* Unless two updates overlap, what the tracker takes to be playing is what the server was
\* last asked for, although it is stored after the write and without the lock in between.
THEOREM IndexKept == Spec => []IndexAgrees
BY TrackerInvariant, PTL DEF TrackerInv, Agreement

\* The cooldown is overrun once at most, by the timer's goroutine.
THEOREM OverrunOnce == Spec => []CooldownOverrunOnce
BY TrackerInvariant, PTL DEF TrackerInv, Cooldown

-----------------------------------------------------------------------------
(* The choice of a track.                                                  *)

\* The tracks of a list, or none.
Found(tracks) == tracks \cup {NoTrack}

\* The two folds of findBestTrackIndex.
FoldedBelow(order) == FoldLeft(AtOrBelow, NoTrack, order)
FoldedLowest(order) == FoldLeft(Lowest, NoTrack, order)

\* What they have found after each track.
StepsBelow(fold, order, n) ==
    /\ fold[0] = NoTrack
    /\ \A i \in 1 .. n : fold[i] = AtOrBelow(fold[i - 1], order[i])
    /\ FoldedBelow(order) = fold[n]
StepsLowest(fold, order, n) ==
    /\ fold[0] = NoTrack
    /\ \A i \in 1 .. n : fold[i] = Lowest(fold[i - 1], order[i])
    /\ FoldedLowest(order) = fold[n]

\* The fold of AtOrBelow takes the tracks of a sequence one after the other.
LEMMA AtOrBelowUnfolds ==
    ASSUME NEW n \in Nat, NEW tracks, NEW order \in [1 .. n -> tracks]
    PROVE  \E fold \in [0 .. n -> Found(tracks)] : StepsBelow(fold, order, n)
<1> DEFINE A == Found(tracks)
<1> DEFINE step == [p \in A \X (1 .. n) |-> AtOrBelow(p[1], order[p[2]])]
<1> DEFINE IsIter(g) == g = [s \in SUBSET (1 .. n) |->
              IF s = {} THEN NoTrack
              ELSE AtOrBelow(g[s \ {Greatest(s)}], order[Greatest(s)])]
<1>1. step \in [A \X (1 .. n) -> A]
  BY DEF Found, AtOrBelow
<1>2. NoTrack \in A
  BY DEF Found
<1>3. PICK g \in [SUBSET (1 .. n) -> A] : Folding(g, n, NoTrack, step)
  <2> HIDE DEF A, step
  <2>1. QED
    BY <1>1, <1>2, FoldExists
<1>4. \A s \in SUBSET (1 .. n) : s # {} =>
              Greatest(s) \in 1 .. n /\ s \ {Greatest(s)} \in SUBSET (1 .. n)
  BY GreatestExists
<1>5. \A s \in SUBSET (1 .. n) : s # {} =>
              g[s] = AtOrBelow(g[s \ {Greatest(s)}], order[Greatest(s)])
  <2> SUFFICES ASSUME NEW s \in SUBSET (1 .. n), s # {}
               PROVE  g[s] = AtOrBelow(g[s \ {Greatest(s)}], order[Greatest(s)])
    OBVIOUS
  <2>1. <<g[s \ {Greatest(s)}], Greatest(s)>> \in A \X (1 .. n)
    BY <1>3, <1>4
  <2> HIDE DEF A
  <2>2. QED
    BY <1>3, <2>1 DEF Folding
<1>6. IsIter(g)
  <2> HIDE DEF A, step
  <2>1. g = [s \in SUBSET (1 .. n) |-> g[s]]
    BY <1>3
  <2>2. \A s \in SUBSET (1 .. n) : g[s] = IF s = {} THEN NoTrack
                    ELSE AtOrBelow(g[s \ {Greatest(s)}], order[Greatest(s)])
    BY <1>3, <1>5 DEF Folding
  <2>3. QED
    BY <2>1, <2>2
<1> DEFINE iter == CHOOSE h : IsIter(h)
<1>7. IsIter(iter)
  <2>1. \E h : IsIter(h)
    <3> HIDE DEF IsIter
    <3>1. QED
      BY <1>6
  <2> HIDE DEF IsIter
  <2>2. QED
    BY <2>1
<1>8. FoldedBelow(order) = iter[1 .. n]
  BY DEF FoldedBelow, FoldLeft, MapThenFoldSet, Max, Greatest
<1> HIDE DEF iter
<1>9. \A s \in SUBSET (1 .. n) : iter[s] = IF s = {} THEN NoTrack
                    ELSE AtOrBelow(iter[s \ {Greatest(s)}], order[Greatest(s)])
  BY <1>7
<1> DEFINE fold == [i \in 0 .. n |-> iter[1 .. i]]
<1>10. fold[0] = NoTrack
  <2>1. 0 \in 0 .. n /\ 1 .. 0 = {}
    OBVIOUS
  <2>2. QED
    BY <1>9, <2>1
<1>11. \A i \in 1 .. n : fold[i] = AtOrBelow(fold[i - 1], order[i])
  <2> TAKE i \in 1 .. n
  <2>1. i \in Nat /\ i >= 1 /\ i \in 0 .. n /\ i - 1 \in 0 .. n
        /\ 1 .. i \in SUBSET (1 .. n)
    OBVIOUS
  <2>2. Greatest(1 .. i) = i /\ (1 .. i) \ {i} = 1 .. (i - 1) /\ 1 .. i # {}
    BY <2>1, GreatestOfFirst
  <2>3. iter[1 .. i] = AtOrBelow(iter[1 .. (i - 1)], order[i])
    BY <1>9, <2>1, <2>2
  <2>4. QED
    BY <2>1, <2>3
<1>12. fold \in [0 .. n -> A]
  <2> DEFINE I == {i \in 0 .. n : fold[i] \in A}
  <2>1. 0 \in I
    BY <1>2, <1>10
  <2>2. \A i \in 1 .. n : i - 1 \in I => i \in I
    <3> TAKE i \in 1 .. n
    <3> HAVE i - 1 \in I
    <3> HIDE DEF fold
    <3>1. order[i] \in A /\ i \in 0 .. n
      BY DEF Found
    <3>2. QED
      BY <1>11, <3>1 DEF AtOrBelow
  <2> HIDE DEF I
  <2>3. 0 .. n \subseteq I
    BY <2>1, <2>2, BoundedInduction
  <2>4. QED
    BY <2>3 DEF I
<1>13. FoldedBelow(order) = fold[n]
  BY <1>8
<1> HIDE DEF fold, A
<1>14. StepsBelow(fold, order, n)
  BY <1>10, <1>11, <1>13 DEF StepsBelow
<1>15. QED
  BY <1>12, <1>14 DEF A

\* The same for Lowest.
LEMMA LowestUnfolds ==
    ASSUME NEW n \in Nat, NEW tracks, NEW order \in [1 .. n -> tracks]
    PROVE  \E fold \in [0 .. n -> Found(tracks)] : StepsLowest(fold, order, n)
<1> DEFINE A == Found(tracks)
<1> DEFINE step == [p \in A \X (1 .. n) |-> Lowest(p[1], order[p[2]])]
<1> DEFINE IsIter(g) == g = [s \in SUBSET (1 .. n) |->
              IF s = {} THEN NoTrack
              ELSE Lowest(g[s \ {Greatest(s)}], order[Greatest(s)])]
<1>1. step \in [A \X (1 .. n) -> A]
  BY DEF Found, Lowest
<1>2. NoTrack \in A
  BY DEF Found
<1>3. PICK g \in [SUBSET (1 .. n) -> A] : Folding(g, n, NoTrack, step)
  <2> HIDE DEF A, step
  <2>1. QED
    BY <1>1, <1>2, FoldExists
<1>4. \A s \in SUBSET (1 .. n) : s # {} =>
              Greatest(s) \in 1 .. n /\ s \ {Greatest(s)} \in SUBSET (1 .. n)
  BY GreatestExists
<1>5. \A s \in SUBSET (1 .. n) : s # {} =>
              g[s] = Lowest(g[s \ {Greatest(s)}], order[Greatest(s)])
  <2> SUFFICES ASSUME NEW s \in SUBSET (1 .. n), s # {}
               PROVE  g[s] = Lowest(g[s \ {Greatest(s)}], order[Greatest(s)])
    OBVIOUS
  <2>1. <<g[s \ {Greatest(s)}], Greatest(s)>> \in A \X (1 .. n)
    BY <1>3, <1>4
  <2> HIDE DEF A
  <2>2. QED
    BY <1>3, <2>1 DEF Folding
<1>6. IsIter(g)
  <2> HIDE DEF A, step
  <2>1. g = [s \in SUBSET (1 .. n) |-> g[s]]
    BY <1>3
  <2>2. \A s \in SUBSET (1 .. n) : g[s] = IF s = {} THEN NoTrack
                    ELSE Lowest(g[s \ {Greatest(s)}], order[Greatest(s)])
    BY <1>3, <1>5 DEF Folding
  <2>3. QED
    BY <2>1, <2>2
<1> DEFINE iter == CHOOSE h : IsIter(h)
<1>7. IsIter(iter)
  <2>1. \E h : IsIter(h)
    <3> HIDE DEF IsIter
    <3>1. QED
      BY <1>6
  <2> HIDE DEF IsIter
  <2>2. QED
    BY <2>1
<1>8. FoldedLowest(order) = iter[1 .. n]
  BY DEF FoldedLowest, FoldLeft, MapThenFoldSet, Max, Greatest
<1> HIDE DEF iter
<1>9. \A s \in SUBSET (1 .. n) : iter[s] = IF s = {} THEN NoTrack
                    ELSE Lowest(iter[s \ {Greatest(s)}], order[Greatest(s)])
  BY <1>7
<1> DEFINE fold == [i \in 0 .. n |-> iter[1 .. i]]
<1>10. fold[0] = NoTrack
  <2>1. 0 \in 0 .. n /\ 1 .. 0 = {}
    OBVIOUS
  <2>2. QED
    BY <1>9, <2>1
<1>11. \A i \in 1 .. n : fold[i] = Lowest(fold[i - 1], order[i])
  <2> TAKE i \in 1 .. n
  <2>1. i \in Nat /\ i >= 1 /\ i \in 0 .. n /\ i - 1 \in 0 .. n
        /\ 1 .. i \in SUBSET (1 .. n)
    OBVIOUS
  <2>2. Greatest(1 .. i) = i /\ (1 .. i) \ {i} = 1 .. (i - 1) /\ 1 .. i # {}
    BY <2>1, GreatestOfFirst
  <2>3. iter[1 .. i] = Lowest(iter[1 .. (i - 1)], order[i])
    BY <1>9, <2>1, <2>2
  <2>4. QED
    BY <2>1, <2>3
<1>12. fold \in [0 .. n -> A]
  <2> DEFINE I == {i \in 0 .. n : fold[i] \in A}
  <2>1. 0 \in I
    BY <1>2, <1>10
  <2>2. \A i \in 1 .. n : i - 1 \in I => i \in I
    <3> TAKE i \in 1 .. n
    <3> HAVE i - 1 \in I
    <3> HIDE DEF fold
    <3>1. order[i] \in A /\ i \in 0 .. n
      BY DEF Found
    <3>2. QED
      BY <1>11, <3>1 DEF Lowest
  <2> HIDE DEF I
  <2>3. 0 .. n \subseteq I
    BY <2>1, <2>2, BoundedInduction
  <2>4. QED
    BY <2>3 DEF I
<1>13. FoldedLowest(order) = fold[n]
  BY <1>8
<1> HIDE DEF fold, A
<1>14. StepsLowest(fold, order, n)
  BY <1>10, <1>11, <1>13 DEF StepsLowest
<1>15. QED
  BY <1>12, <1>14 DEF A

\* The tracks that the metadata messages list.
Lists == {ExtractTracks(offer) : offer \in Offers}

\* A track at or below the target.
Fits(t) == Matches(t) /\ t.height \in 1 .. TargetHeight

\* A list is finite, its tracks have numbers, and none of them stands for no track.
LEMMA ListFacts ==
    ASSUME NEW tracks \in Lists
    PROVE  /\ IsFiniteSet(tracks)
           /\ \A t \in tracks : t.idx \in Nat /\ t.height \in Nat /\ t # NoTrack
           /\ NoTrack.height = 0 /\ NoTrack.idx = NoIdx /\ TargetHeight \in Nat
<1>1. PICK offer \in Offers : tracks = ExtractTracks(offer)
  BY DEF Lists
<1>2. tracks \subseteq offer
  BY <1>1 DEF ExtractTracks
<1>3. IsFiniteSet(tracks)
  BY <1>2, FS_Subset, TrackerAssumption
<1>4. \A t \in tracks : t.idx \in Nat /\ t.height \in Nat
  BY <1>2, TrackerAssumption
<1>5. NoTrack.height = 0 /\ NoTrack.idx = NoIdx /\ NoIdx \notin Nat
  BY DEF NoTrack, NoIdx
<1>6. QED
  BY <1>3, <1>4, <1>5, TrackerAssumption

\* The fold of AtOrBelow is the highest track that fits, or none if none does.
LEMMA AtOrBelowFinds ==
    ASSUME NEW tracks \in Lists, NEW n \in Nat, NEW order \in [1 .. n -> tracks],
           NEW found, found = FoldedBelow(order)
    PROVE  /\ found # NoTrack => found \in tracks /\ Fits(found)
           /\ \A j \in 1 .. n : Fits(order[j]) =>
                 found # NoTrack /\ order[j].height <= found.height
<1>a. PICK fold \in [0 .. n -> Found(tracks)] : StepsBelow(fold, order, n)
  BY AtOrBelowUnfolds
<1>1. /\ fold[0] = NoTrack
      /\ \A i \in 1 .. n : fold[i] = AtOrBelow(fold[i - 1], order[i])
      /\ found = fold[n]
  BY <1>a DEF StepsBelow
<1> DEFINE Highest(i) ==
        /\ fold[i] # NoTrack => Fits(fold[i])
        /\ \A j \in 1 .. i : Fits(order[j]) =>
              fold[i] # NoTrack /\ order[j].height <= fold[i].height
<1> DEFINE I == {i \in 0 .. n : Highest(i)}
<1>2. \A i \in 0 .. n : fold[i] \in tracks \/ fold[i] = NoTrack
  BY DEF Found
<1>3. \A i \in 0 .. n : fold[i].height \in Nat
  BY <1>2, ListFacts
<1>4. 0 \in I
  BY <1>1
<1>5. \A i \in 1 .. n : i - 1 \in I => i \in I
  <2> SUFFICES ASSUME NEW i \in 1 .. n, Highest(i - 1) PROVE Highest(i)
    OBVIOUS
  <2> DEFINE t == order[i]
  <2>1. /\ i - 1 \in 0 .. n /\ i \in 0 .. n /\ t \in tracks
        /\ \A j \in 1 .. i : j = i \/ j \in 1 .. (i - 1)
    OBVIOUS
  <2>2. t.height \in Nat /\ t # NoTrack
    BY <2>1, ListFacts
  <2>3. fold[i - 1].height \in Nat /\ (fold[i - 1] = NoTrack => fold[i - 1].height = 0)
    BY <1>3, <2>1, ListFacts
  <2>4. TargetHeight \in Nat
    BY ListFacts
  <2>5. fold[i] = AtOrBelow(fold[i - 1], t)
    BY <1>1
  <2>6. \A j \in 1 .. n : order[j].height \in Nat
    BY ListFacts
  <2>7. CASE Matches(t) /\ t.height <= TargetHeight /\ t.height > fold[i - 1].height
    <3>1. fold[i] = t
      BY <2>5, <2>7 DEF AtOrBelow
    <3>2. Fits(t)
      BY <2>2, <2>3, <2>4, <2>7 DEF Fits
    <3>3. \A j \in 1 .. i : Fits(order[j]) => order[j].height <= t.height
      <4>1. \A j \in 1 .. (i - 1) : Fits(order[j]) => order[j].height <= fold[i - 1].height
        OBVIOUS
      <4>2. \A j \in 1 .. i : j \in 1 .. n
        OBVIOUS
      <4> HIDE DEF Highest
      <4>3. QED
        BY <2>1, <2>2, <2>3, <2>6, <2>7, <4>1, <4>2
    <3>4. QED
      BY <2>2, <3>1, <3>2, <3>3
  <2>8. CASE ~(Matches(t) /\ t.height <= TargetHeight /\ t.height > fold[i - 1].height)
    <3>1. fold[i] = fold[i - 1]
      BY <2>5, <2>8 DEF AtOrBelow
    <3>2. Fits(t) => t.height <= fold[i - 1].height /\ fold[i - 1] # NoTrack
      BY <2>2, <2>3, <2>4, <2>8 DEF Fits
    <3>3. QED
      BY <2>1, <3>1, <3>2
  <2>9. QED
    BY <2>7, <2>8
<1>6. Highest(n)
  <2> HIDE DEF Highest
  <2>1. n \in 0 .. n
    OBVIOUS
  <2>2. 0 .. n \subseteq I
    BY <1>4, <1>5, BoundedInduction
  <2>3. QED
    BY <2>1, <2>2
<1>7. n \in 0 .. n
  OBVIOUS
<1>8. QED
  BY <1>1, <1>2, <1>6, <1>7

\* The fold of Lowest is the lowest track of the codec, or none if none is.
LEMMA LowestFinds ==
    ASSUME NEW tracks \in Lists, NEW n \in Nat, NEW order \in [1 .. n -> tracks],
           NEW found, found = FoldedLowest(order)
    PROVE  /\ found # NoTrack => found \in tracks /\ Matches(found)
           /\ \A j \in 1 .. n : Matches(order[j]) =>
                 found # NoTrack /\ found.height <= order[j].height
<1>a. PICK fold \in [0 .. n -> Found(tracks)] : StepsLowest(fold, order, n)
  BY LowestUnfolds
<1>1. /\ fold[0] = NoTrack
      /\ \A i \in 1 .. n : fold[i] = Lowest(fold[i - 1], order[i])
      /\ found = fold[n]
  BY <1>a DEF StepsLowest
<1> DEFINE Least(i) ==
        /\ fold[i] # NoTrack => Matches(fold[i])
        /\ \A j \in 1 .. i : Matches(order[j]) =>
              fold[i] # NoTrack /\ fold[i].height <= order[j].height
<1> DEFINE I == {i \in 0 .. n : Least(i)}
<1>2. \A i \in 0 .. n : fold[i] \in tracks \/ fold[i] = NoTrack
  BY DEF Found
<1>3. \A i \in 0 .. n : fold[i].height \in Nat
  BY <1>2, ListFacts
<1>4. 0 \in I
  BY <1>1
<1>5. \A i \in 1 .. n : i - 1 \in I => i \in I
  <2> SUFFICES ASSUME NEW i \in 1 .. n, Least(i - 1) PROVE Least(i)
    OBVIOUS
  <2> DEFINE t == order[i]
  <2>1. /\ i - 1 \in 0 .. n /\ i \in 0 .. n /\ t \in tracks
        /\ \A j \in 1 .. i : j = i \/ j \in 1 .. (i - 1)
    OBVIOUS
  <2>2. t.height \in Nat /\ t # NoTrack
    BY <2>1, ListFacts
  <2>3. fold[i - 1].height \in Nat
    BY <1>3, <2>1
  <2>4. fold[i] = Lowest(fold[i - 1], t)
    BY <1>1
  <2>5. \A j \in 1 .. n : order[j].height \in Nat
    BY ListFacts
  <2>6. CASE Matches(t) /\ (fold[i - 1] = NoTrack \/ t.height < fold[i - 1].height)
    <3>1. fold[i] = t
      BY <2>4, <2>6 DEF Lowest
    <3>2. \A j \in 1 .. i : Matches(order[j]) => t.height <= order[j].height
      <4>1. \A j \in 1 .. (i - 1) : Matches(order[j]) =>
               fold[i - 1] # NoTrack /\ fold[i - 1].height <= order[j].height
        OBVIOUS
      <4>2. \A j \in 1 .. i : j \in 1 .. n
        OBVIOUS
      <4> HIDE DEF Least
      <4>3. QED
        BY <2>1, <2>2, <2>3, <2>5, <2>6, <4>1, <4>2
    <3>3. QED
      BY <2>2, <2>6, <3>1, <3>2
  <2>7. CASE ~(Matches(t) /\ (fold[i - 1] = NoTrack \/ t.height < fold[i - 1].height))
    <3>1. fold[i] = fold[i - 1]
      BY <2>4, <2>7 DEF Lowest
    <3>2. Matches(t) => fold[i - 1] # NoTrack /\ fold[i - 1].height <= t.height
      BY <2>2, <2>3, <2>7
    <3>3. QED
      BY <2>1, <3>1, <3>2
  <2>8. QED
    BY <2>6, <2>7
<1>6. Least(n)
  <2> HIDE DEF Least
  <2>1. n \in 0 .. n
    OBVIOUS
  <2>2. 0 .. n \subseteq I
    BY <1>4, <1>5, BoundedInduction
  <2>3. QED
    BY <2>1, <2>2
<1>7. n \in 0 .. n
  OBVIOUS
<1>8. QED
  BY <1>1, <1>2, <1>6, <1>7

\* In whatever order the map of a message yields its tracks, findBestTrackIndex finds a
\* best one, or none if no track has the codec.
LEMMA FindsBest ==
    ASSUME NEW offer \in Offers, NEW order \in SetToSeqs(ExtractTracks(offer)),
           FindBestTrackIndex(order) # NoIdx
    PROVE  FindBestTrackIndex(order) \in BestIdxs(offer)
<1> DEFINE tracks == ExtractTracks(offer)
<1> DEFINE n == Cardinality(tracks)
<1>1. tracks \in Lists
  BY DEF Lists
<1>2. IsFiniteSet(tracks) /\ n \in Nat
  BY <1>1, ListFacts, FS_CardinalityType
<1>3. order \in [1 .. n -> tracks] /\ \A i, j \in 1 .. n : i # j => order[i] # order[j]
  BY DEF SetToSeqs
<1>4. \A t \in tracks : \E j \in 1 .. n : order[j] = t
  <2> HIDE DEF tracks
  <2>1. order \in Injection(1 .. n, tracks)
    BY <1>3 DEF Injection, IsInjective
  <2>2. IsFiniteSet(1 .. n) /\ Cardinality(1 .. n) = n
    <3> HIDE DEF n
    <3>1. QED
      BY <1>2, FS_Interval
  <2>3. order \in Surjection(1 .. n, tracks)
    <3>1. Cardinality(1 .. n) = Cardinality(tracks)
      BY <2>2
    <3> HIDE DEF n
    <3>2. QED
      BY <1>2, <2>1, <3>1, FS_Injection
  <2>4. QED
    BY <2>3 DEF Surjection
<1>5. \A t : t \in Candidates(offer) <=> t \in tracks /\ Matches(t)
  BY DEF Candidates, ExtractTracks
<1> DEFINE below == FoldedBelow(order)
<1> DEFINE lowest == FoldedLowest(order)
<1> DEFINE fitting == {t \in Candidates(offer) : t.height \in 1 .. TargetHeight}
<1>6. FindBestTrackIndex(order) = IF below # NoTrack THEN below.idx ELSE lowest.idx
  BY DEF FindBestTrackIndex, FoldedBelow, FoldedLowest
<1>7. BestTracks(offer) =
         IF fitting # {}
         THEN {t \in fitting : \A s \in fitting : s.height <= t.height}
         ELSE {t \in Candidates(offer) : \A s \in Candidates(offer) : t.height <= s.height}
  BY DEF BestTracks
<1>8. \A t : t \in fitting <=> t \in tracks /\ Fits(t)
  BY <1>5 DEF Fits
<1> HIDE DEF tracks, n, below, lowest, fitting
<1>9. /\ below # NoTrack => below \in tracks /\ Fits(below)
      /\ \A j \in 1 .. n : Fits(order[j]) =>
            below # NoTrack /\ order[j].height <= below.height
  BY <1>1, <1>2, <1>3, AtOrBelowFinds DEF below
<1>10. /\ lowest # NoTrack => lowest \in tracks /\ Matches(lowest)
       /\ \A j \in 1 .. n : Matches(order[j]) =>
             lowest # NoTrack /\ lowest.height <= order[j].height
  BY <1>1, <1>2, <1>3, LowestFinds DEF lowest
<1>11. CASE below # NoTrack
  <2>1. below \in fitting /\ \A s \in fitting : s.height <= below.height
    BY <1>4, <1>8, <1>9, <1>11
  <2>2. below \in BestTracks(offer)
    BY <1>7, <2>1
  <2>3. QED
    BY <1>6, <1>11, <2>2 DEF BestIdxs
<1>12. CASE below = NoTrack
  <2>1. fitting = {}
    BY <1>4, <1>8, <1>9, <1>12
  <2>2. lowest # NoTrack
    BY <1>1, <1>6, <1>12, ListFacts
  <2>3. /\ lowest \in Candidates(offer)
        /\ \A s \in Candidates(offer) : lowest.height <= s.height
    BY <1>4, <1>5, <1>10, <2>2
  <2>4. lowest \in BestTracks(offer)
    BY <1>7, <2>1, <2>3
  <2>5. QED
    BY <1>6, <1>12, <2>4 DEF BestIdxs
<1>13. QED
  BY <1>11, <1>12

-----------------------------------------------------------------------------
(* The tracker chooses the best track.                                     *)

\* The inductive invariant.  The lists are those of messages, also the timer's copy, and
\* what an updater has chosen of one it keeps until it returns.
Choice ==
    /\ availableTracks \in Lists \cup {{}}
    /\ at["timer"] = "copied" => copied \in Lists
    /\ best \in [Updaters -> Idxs \cup {NoIdx}]
    /\ currentIdx \in Idxs \cup {0}
    /\ playing \in Idxs \cup {NoIdx}
    /\ {cooling, raced} \subseteq BOOLEAN
    /\ SwitchesToBest

\* The index of a best track is that of a track.
LEMMA BestIsIdx == \A offer \in Offers : BestIdxs(offer) \subseteq Idxs
BY DEF BestIdxs, BestTracks, Candidates, Idxs

\* What updateTracks finds in a list is nothing, or the best of a message.
LEMMA FoundIsBest ==
    ASSUME NEW tracks \in Lists, NEW idx \in FoundIdxs[tracks], idx # NoIdx
    PROVE  \E offer \in Offers : idx \in BestIdxs(offer)
<1>1. PICK offer \in Offers : tracks = ExtractTracks(offer)
  BY DEF Lists
<1>2. \E order \in SetToSeqs(tracks) : idx = FindBestTrackIndex(order)
  BY DEF FoundIdxs, Lists
<1>3. QED
  BY <1>1, <1>2, FindsBest

\* An updater that has checked what it found writes or returns.
LEMMA UpdateMoves ==
    ASSUME NEW u \in Updaters, NEW from, NEW tracks, UpdateTracks(u, from, tracks)
    PROVE  \E to \in {"write", "idle", "done"} : at' = [at EXCEPT ![u] = to]
<1>1. PICK idx \in FoundIdxs[tracks] : IF Wants(idx) THEN Move(u, from, "write") ELSE Leave(u, from)
  BY Zenon DEF UpdateTracks
<1>2. Move(u, from, "write") \/ Move(u, from, "done") \/ Move(u, from, "idle")
  BY <1>1 DEF Leave
<1>3. QED
  BY <1>2 DEF Move

\* The checks of updateTracks, of a list of a message.
LEMMA UpdateChooses ==
    ASSUME TrackerInv, Choice, NEW u \in Updaters, NEW from, NEW tracks \in Lists,
           UpdateTracks(u, from, tracks), from \in {"idle", "copied"},
           at'["timer"] = "copied" => copied' \in Lists
    PROVE  Choice'
<1>1. PICK idx \in FoundIdxs[tracks] :
          IF Wants(idx)
          THEN /\ Move(u, from, "write")
               /\ best' = [best EXCEPT ![u] = idx]
               /\ raced' = (raced \/ \E v \in Updaters \ {u} : Switching(v))
          ELSE Leave(u, from) /\ UNCHANGED <<best, raced>>
  BY DEF UpdateTracks
<1>2. UNCHANGED <<currentIdx, cooling, playing>> /\ availableTracks' = tracks
  BY DEF UpdateTracks
<1>3. at = [v \in Updaters |-> at[v]] /\ best \in [Updaters -> Idxs \cup {NoIdx}]
  BY DEF TrackerInv, Updating, Choice
<1>4. raced' \in BOOLEAN
  BY <1>1, Zenon DEF Choice
<1>5. at'["timer"] = "copied" => copied' \in Lists
  OBVIOUS
<1>6. CASE Wants(idx)
  <2>1. /\ at' = [at EXCEPT ![u] = "write"] /\ best' = [best EXCEPT ![u] = idx] /\ idx # NoIdx
    BY <1>1, <1>6 DEF Wants, Move
  <2>2. PICK offer \in Offers : idx \in BestIdxs(offer)
    BY <2>1, FoundIsBest
  <2>3. idx \in Idxs
    BY <2>2, BestIsIdx
  <2>4. best' \in [Updaters -> Idxs \cup {NoIdx}]
    BY <1>3, <2>1, <2>3
  <2>5. \A v \in Updaters : v # u => at'[v] = at[v] /\ best'[v] = best[v]
    BY <1>3, <2>1
  <2>6. best'[u] = idx
    BY <1>3, <2>1
  <2>7. SwitchesToBest'
    BY <2>2, <2>5, <2>6 DEF Choice, SwitchesToBest, Switching
  <2>8. QED
    BY <1>2, <1>4, <1>5, <2>4, <2>7 DEF Choice
<1>7. CASE ~Wants(idx)
  <2>1. UNCHANGED <<best, raced>> /\ \E to \in {"done", "idle"} : at' = [at EXCEPT ![u] = to]
    BY <1>1, <1>7 DEF Leave, Move
  <2>2. \A v \in Updaters : Switching(v)' => Switching(v)
    BY <1>3, <2>1 DEF Switching
  <2>3. SwitchesToBest'
    BY <2>1, <2>2 DEF Choice, SwitchesToBest
  <2>4. QED
    BY <1>2, <1>4, <1>5, <2>1, <2>3 DEF Choice
<1>8. QED
  BY <1>6, <1>7

\* The end of a write, and the storing of what it has sent.
LEMMA SwitchChooses ==
    ASSUME TrackerInv, Choice, NEW u \in Updaters, SwitchEnds(u) \/ StoreSwitch(u)
    PROVE  Choice'
<1>1. at = [v \in Updaters |-> at[v]] /\ best \in [Updaters -> Idxs \cup {NoIdx}]
  BY DEF TrackerInv, Updating, Choice
<1>2. Switching(u) /\ best[u] \in Idxs
  <2>1. Switching(u)
    BY DEF SwitchEnds, SwitchSent, SwitchFails, StoreSwitch, Return, Leave, Move, Switching
  <2>2. QED
    BY <2>1, BestIsIdx DEF Choice, SwitchesToBest
<1>3. /\ \E to \in {"store", "done", "idle"} : at' = [at EXCEPT ![u] = to]
      /\ UNCHANGED <<copied, availableTracks, raced>>
      /\ playing' \in {playing, best[u]} /\ currentIdx' \in {currentIdx, best[u]}
      /\ cooling' \in {cooling, TRUE}
      /\ UNCHANGED best \/ (best' = [best EXCEPT ![u] = NoIdx] /\ ~Switching(u)')
  <2>1. CASE SwitchSent(u)
    BY <2>1 DEF SwitchSent, Move
  <2>2. CASE SwitchFails(u) \/ StoreSwitch(u)
    <3>1. PICK to \in {"done", "idle"} : at' = [at EXCEPT ![u] = to]
      BY <2>2 DEF SwitchFails, StoreSwitch, Return, Leave, Move
    <3>2. ~Switching(u)'
      BY <1>1, <3>1 DEF Switching
    <3>3. QED
      BY <2>2, <3>1, <3>2 DEF SwitchFails, StoreSwitch, Return
  <2>3. QED
    BY <2>1, <2>2 DEF SwitchEnds
<1>4. \A v \in Updaters : v # u => at'[v] = at[v] /\ best'[v] = best[v]
  BY <1>1, <1>3
<1>5. best' \in [Updaters -> Idxs \cup {NoIdx}]
  BY <1>1, <1>3
<1>6. SwitchesToBest'
  <2>1. ASSUME NEW v \in Updaters, Switching(v)'
        PROVE  Switching(v) /\ best'[v] = best[v]
    BY <1>2, <1>3, <1>4, <2>1 DEF Switching
  <2>2. QED
    BY <2>1 DEF Choice, SwitchesToBest
<1>7. at'["timer"] = "copied" => copied' \in Lists
  BY <1>1, <1>3 DEF Choice
<1>8. playing' \in Idxs \cup {NoIdx} /\ currentIdx' \in Idxs \cup {0}
  BY <1>2, <1>3 DEF Choice
<1>9. {cooling', raced'} \subseteq BOOLEAN
  BY <1>3 DEF Choice
<1>10. QED
  BY <1>3, <1>5, <1>6, <1>7, <1>8, <1>9 DEF Choice

\* The timer is armed, or copies a list that is there.
LEMMA TimerChooses ==
    ASSUME TrackerInv, Choice, UNCHANGED <<switchVars, availableTracks, raced>>,
           \/ Move("timer", "idle", "armed") /\ UNCHANGED copied
           \/ CopyTracks
    PROVE  Choice'
<1>1. UNCHANGED <<best, currentIdx, cooling, playing>> /\ at = [v \in Updaters |-> at[v]]
  BY DEF switchVars, TrackerInv, Updating
<1>2. PICK to : at' = [at EXCEPT !["timer"] = to] /\ to \in {"armed", "copied", "done"}
                /\ (to = "copied" => copied' = availableTracks /\ availableTracks # {})
  BY DEF CopyTracks, Move
<1>3. \A v \in Updaters : Switching(v)' => Switching(v)
  BY <1>1, <1>2 DEF Switching
<1>4. SwitchesToBest'
  BY <1>1, <1>3 DEF Choice, SwitchesToBest
<1>5. at'["timer"] = "copied" => copied' \in Lists
  BY <1>1, <1>2 DEF Choice, Updaters
<1>6. QED
  BY <1>1, <1>4, <1>5 DEF Choice

\* What leaves the choices alone.
LEMMA ChoiceStutters ==
    ASSUME Choice, UNCHANGED <<at, best, copied, availableTracks, currentIdx, playing, raced>>,
           cooling' \in {cooling, FALSE}
    PROVE  Choice'
<1>1. {cooling', raced'} \subseteq BOOLEAN
  BY DEF Choice
<1>2. QED
  BY <1>1 DEF Choice, SwitchesToBest, Switching

\* Every step keeps the invariant.
LEMMA ChoiceStep ==
    ASSUME TrackerInv, Choice, [Next]_vars
    PROVE  Choice'
<1>0. /\ at = [u \in Updaters |-> at[u]]
      /\ "metadata" \in Updaters /\ "timer" \in Updaters
  BY DEF TrackerInv, Updating, Updaters
<1>1. CASE NoTrackerStep
  BY <1>1, NoTrackerStepStutters, ChoiceStutters DEF trackerVars, switchVars
<1>2. CASE TakeAnswer
  <2>1. CASE TargetHeight > 0
    BY <1>2, <2>1, TimerChooses DEF TakeAnswer, ArmTimer
  <2>2. CASE ~(TargetHeight > 0)
    BY <1>2, <2>2, ChoiceStutters DEF TakeAnswer, ArmTimer, switchVars
  <2>3. QED
    BY <2>1, <2>2
<1>3. ASSUME NEW offer \in Offers, ReadMetadata(offer) PROVE Choice'
  <2>1. /\ UpdateTracks("metadata", "idle", ExtractTracks(offer)) /\ UNCHANGED copied
        /\ ExtractTracks(offer) \in Lists
    BY <1>3 DEF ReadMetadata, Metadata, Lists
  <2>2. at'["timer"] = at["timer"]
    <3>1. "metadata" \in Updaters
      BY DEF Updaters
    <3>2. PICK to : at' = [at EXCEPT !["metadata"] = to]
      BY <2>1, <3>1, UpdateMoves
    <3>3. QED
      BY <1>0, <3>2
  <2>3. at'["timer"] = "copied" => copied' \in Lists
    BY <2>1, <2>2 DEF Choice
  <2>4. QED
    BY <1>0, <2>1, <2>3, UpdateChooses
<1>4. ASSUME NEW u \in Updaters, UpdaterStep(u) PROVE Choice'
  BY <1>4, SwitchChooses DEF UpdaterStep
<1>5. CASE TimerStep
  <2>1. CASE CopyTracks
    BY <2>1, TimerChooses DEF CopyTracks
  <2>2. CASE ApplyCopy
    <3>1. UpdateTracks("timer", "copied", copied) /\ copied \in Lists
      BY <2>2 DEF ApplyCopy, UpdateTracks, Choice
    <3>2. at'["timer"] # "copied"
      <4>1. "timer" \in Updaters
        BY DEF Updaters
      <4>2. PICK to \in {"write", "idle", "done"} : at' = [at EXCEPT !["timer"] = to]
        BY <3>1, <4>1, UpdateMoves
      <4>3. QED
        BY <1>0, <4>2
    <3>3. QED
      BY <1>0, <3>1, <3>2, UpdateChooses
  <2>3. QED
    BY <1>5, <2>1, <2>2 DEF TimerStep
<1>6. CASE CooldownPasses
  BY <1>6, ChoiceStutters DEF CooldownPasses, CooldownEnds
<1>7. QED
  BY <1>1, <1>2, <1>3, <1>4, <1>5, <1>6 DEF NoTrackerStep, Next, Step, CallerStep

\* Nothing has been listed, chosen or sent at first.
LEMMA ChoiceStart == Init => Choice
BY DEF Init, TrackerInit, Choice, SwitchesToBest, Switching, Updaters

\* The choices are as they should be, always.
LEMMA ChoiceInvariant == Spec => []Choice
<1>1. TrackerInv /\ Choice /\ [Next]_vars => Choice'
  BY ChoiceStep
<1>2. QED
  BY <1>1, ChoiceStart, TrackerInvariant, PTL DEF Spec

\* Whatever the messages list and in whatever order their maps yield it, a switch asks for
\* the highest track at or below the target of one message, or for its lowest if none is.
THEOREM BestIsChosen == Spec => []SwitchesToBest
BY ChoiceInvariant, PTL DEF Choice

-----------------------------------------------------------------------------
(* Types.                                                                  *)

\* The promise and the two flags have their types.
PromiseTypes ==
    promise \in {"empty", "answer", "error"} /\ {resolved, panicked} \subseteq BOOLEAN

\* Every step keeps the types of the promise.
LEMMA PromiseStep ==
    ASSUME PromiseTypes, [Next]_vars
    PROVE  PromiseTypes'
<1> USE DEF PromiseTypes
<1>1. CASE CallerStep /\ UNCHANGED panicked
  BY <1>1 DEF CallerStep, FailsAtOnce, HTTPAnswer, DialSignaling, DialMetadataFails,
         DialMetadata, OfferSent, OfferFails, TakeAnswer, TakeError, AnswerTimeout, Fails,
         wsVars, promiseVars
<1>2. CASE /\ UNCHANGED panicked
           /\ \/ \E c \in Closing : CallClose(c) \/ CloseStep(c)
              \/ \E s \in Sockets : Break(s)
              \/ MetadataReadFails \/ OtherStep
  BY <1>2 DEF CallClose, CloseStep, CloseSocket, ReadersDone, Break, MetadataReadFails, OtherStep,
         ReadMetadata, UpdaterStep, TimerStep, CooldownPasses, ConcurrentWrite, Ended,
         vars, wsVars, promiseVars
<1>3. CASE UNCHANGED panicked /\ (ReadAnswer \/ SignalingReadFails \/ SignalingReaderEnds)
  BY <1>3 DEF ReadAnswer, SignalingReadFails, SignalingReaderEnds, Resolve, Send, promiseVars
<1>4. CASE ConcurrentWrite
  BY <1>4 DEF ConcurrentWrite, wsVars, promiseVars
<1>5. CASE Ended \/ UNCHANGED vars
  BY <1>5 DEF Ended, vars, wsVars, promiseVars
<1>6. QED
  BY <1>1, <1>2, <1>3, <1>4, <1>5 DEF Next, Running, Step, OtherStep

\* Every variable of signaling and of the tracker keeps its type: what is stored and sent
\* as an index is that of a track some message has listed, or what stands for none.
THEOREM TypesKept == Spec => []TypeOK
<1>1. Init => PromiseTypes
  BY DEF Init, PromiseTypes
<1>2. PromiseTypes /\ [Next]_vars => PromiseTypes'
  BY PromiseStep
<1>3. SocketInv /\ TrackerInv /\ Choice /\ PromiseTypes => TypeOK
  <2> SUFFICES ASSUME SocketInv, TrackerInv, Choice, PromiseTypes PROVE TypeOK
    OBVIOUS
  <2>1. Types
    BY DEF SocketInv, SocketTypes, PromiseTypes, Types
  <2>2. at \in [Updaters -> {"idle", "armed", "copied", "write", "store", "done"}]
    BY DEF TrackerInv, Updating, Updaters
  <2>3. QED
    BY <2>1, <2>2 DEF TypeOK, TrackerTypeOK, Choice, TrackerInv, Updating
<1>4. QED
  BY <1>1, <1>2, <1>3, SocketInvariant, TrackerInvariant, ChoiceInvariant, PTL DEF Spec
=============================================================================
