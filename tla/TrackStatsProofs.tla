-------------------------- MODULE TrackStatsProofs --------------------------
(***************************************************************************)
(* Theorems about TrackStats, for every set of tracks, any number of       *)
(* packets and whatever losses are reported.                               *)
(***************************************************************************)
EXTENDS TrackStats, InductionLemmas, FiniteSetTheorems, TLAPS

-----------------------------------------------------------------------------
(* Types.                                                                  *)

\* What the constants, the zero counters and the mark of a missing entry are.
LEMMA ConstantFacts ==
    /\ AnyTrack \in Tracks
    /\ Zero \in [Counters -> Nat] /\ \A c \in Counters : Zero[c] = 0
    /\ \A c \in Counters : NoEntry[c] = -1
    /\ NoEntry \notin [Counters -> Nat]
    /\ \A t \in Tracks : Kind(t) \in Kinds
<1>1. AnyTrack \in Tracks
  BY TracksAssumption DEF AnyTrack
<1>2. "packets" \in Counters /\ NoEntry["packets"] = -1
  BY DEF Counters, NoEntry
<1>3. QED
  BY <1>1, <1>2 DEF Zero, NoEntry, Kind, Kinds

\* What the reader of a track does keeps the types.
LEMMA ReaderTypes ==
    ASSUME Types, NEW t \in Tracks,
           ReceivePacket(t) \/ CountBytesAndLost(t) \/ ReaderEnds(t)
    PROVE  Types'
<1> USE DEF Types, Read, introVars, loggerVars
<1>1. CASE ReceivePacket(t)
  BY <1>1 DEF ReceivePacket, Counters
<1>2. CASE CountBytesAndLost(t)
  BY <1>2, TracksAssumption DEF CountBytesAndLost, Counters
<1>3. CASE ReaderEnds(t)
  BY <1>3 DEF ReaderEnds
<1>4. QED
  BY <1>1, <1>2, <1>3

\* Closing the tracks of a peer keeps the types.
LEMMA CloseTypes ==
    ASSUME Types, CloseAllTracks
    PROVE  Types'
<1>1. closed' \in [Tracks -> BOOLEAN]
  BY Zenon DEF CloseAllTracks, Types
<1>2. QED
  BY <1>1 DEF Types, CloseAllTracks, readerVars, introVars, loggerVars

\* What OnTrack does keeps the types.
LEMMA IntroTypes ==
    ASSUME Types, NEW t \in Tracks,
           \/ NewTrack(t) \/ CountTrack(t) \/ StoreTrack(t)
           \/ \E c \in Counters : AddTotal(t, c) \/ ReadBaseline(t, c)
    PROVE  Types'
<1>a. ASSUME NEW from, NEW to \in Labels, Introduce(t, from, to)
      PROVE  intro' \in [Tracks -> Labels]
  BY <1>a DEF Types, Introduce
<1>b. Kind(t) \in Kinds
  BY ConstantFacts
<1>1. CASE NewTrack(t)
  BY <1>1 DEF NewTrack, Types, Introduce, Labels, Read, loggerVars
<1>2. CASE CountTrack(t)
  <2>1. intro' \in [Tracks -> Labels]
    BY <1>2, <1>a DEF CountTrack, Labels
  <2>2. TotalTracks' \in [Kinds -> Nat]
    BY <1>2, <1>b DEF CountTrack, Types
  <2>3. CurrentTracks' \in [Kinds -> Int]
    BY <1>2, <1>b DEF CountTrack, Types
  <2>4. QED
    BY <1>2, <2>1, <2>2, <2>3 DEF CountTrack, Types, readerVars, loggerVars
<1>3. CASE StoreTrack(t)
  <2>1. intro' \in [Tracks -> Labels]
    BY <1>3, <1>a DEF StoreTrack, Labels
  <2>2. tracks' \in [Tracks -> [Counters -> Nat] \cup {NoEntry}]
    BY <1>3 DEF StoreTrack, Types, Counters
  <2>3. baseline' \in [Tracks -> [Counters -> Nat]]
    BY <1>3, ConstantFacts DEF StoreTrack, Types
  <2>4. due' \in SUBSET Tracks
    BY <1>3 DEF StoreTrack, InRange, Types
  <2>5. QED
    BY <1>3, <2>1, <2>2, <2>3, <2>4 DEF StoreTrack, Types, readerVars
<1>4. ASSUME NEW c \in Counters, AddTotal(t, c)
      PROVE  Types'
  <2>1. intro' \in [Tracks -> Labels]
    BY <1>4, <1>a DEF AddTotal, NextTotal, Labels
  <2>2. /\ Total \in [Kinds -> [Counters -> Int]]
        /\ Total[Kind(t)][c] + count[t][c] \in Int
    BY <1>b DEF Types
  <2>3. Total' \in [Kinds -> [Counters -> Int]]
    BY <1>4, <1>b, <2>2 DEF AddTotal
  <2>4. QED
    BY <1>4, <2>1, <2>3 DEF AddTotal, Types, readerVars, loggerVars
<1>5. ASSUME NEW c \in Counters, ReadBaseline(t, c)
      PROVE  Types'
  <2>1. intro' \in [Tracks -> Labels]
    BY <1>5, <1>a DEF ReadBaseline, Labels
  <2>2. /\ baseline \in [Tracks -> [Counters -> Nat]]
        /\ count[t][c] \in Nat
    BY DEF Types
  <2>3. baseline' \in [Tracks -> [Counters -> Nat]]
    BY <1>5, <2>2 DEF ReadBaseline
  <2>4. QED
    BY <1>5, <2>1, <2>3 DEF ReadBaseline, Types, readerVars, loggerVars
<1>6. QED
  BY <1>1, <1>2, <1>3, <1>4, <1>5

\* The counters the logger has read last are numbers, and so is what they add to delta.
LEMMA ReadTypes ==
    ASSUME Types, ReadLostAndBytes
    PROVE  /\ seen' \in [Counters -> Nat]
           /\ delta' \in [Kinds -> [Counters -> Int]]
<1>1. Kind(current) \in Kinds
  BY ConstantFacts DEF Types
<1>2. count[current] \in [Counters -> Nat] /\ seen \in [Counters -> Nat]
  BY DEF Types
<1>3. seen["packets"] \in Nat
  BY <1>2 DEF Counters
<1>4. seen' \in [Counters -> Nat]
  BY <1>2, <1>3 DEF ReadLostAndBytes
<1>5. tracks[current] \in [Counters -> Int]
  BY DEF Types, NoEntry
<1>6. delta \in [Kinds -> [Counters -> Int]]
  BY DEF Types
<1>7. [c \in Counters |-> delta[Kind(current)][c] + seen'[c] - tracks[current][c]]
         \in [Counters -> Int]
  BY <1>1, <1>4, <1>5, <1>6
<1>8. delta' \in [Kinds -> [Counters -> Int]]
  BY <1>1, <1>6, <1>7 DEF ReadLostAndBytes
<1>9. QED
  BY <1>4, <1>8

\* What the logger does keeps the types.
LEMMA LoggerTypes ==
    ASSUME Types, Logger
    PROVE  Types'
<1> USE ConstantFacts DEF Types, Log, LeaveTrack, readerVars, introVars
<1>1. CASE StartRange
  BY <1>1 DEF StartRange, Registered
<1>2. ASSUME NEW t \in Tracks, Visit(t)
      PROVE  Types'
  BY <1>2 DEF Visit, Counters
<1>3. CASE ReadLostAndBytes
  BY <1>3, ReadTypes DEF ReadLostAndBytes
<1>4. CASE Forget
  BY <1>4 DEF Forget
<1>5. CASE UncountTrack
  BY <1>5 DEF UncountTrack
<1>6. CASE Renew
  BY <1>6 DEF Renew
<1>7. CASE EndRange
  BY <1>7 DEF EndRange
<1>8. CASE EndLogger
  BY <1>8 DEF EndLogger
<1>9. QED
  BY <1>1, <1>2, <1>3, <1>4, <1>5, <1>6, <1>7, <1>8 DEF Logger

\* The variables have their types at first ...
LEMMA TypesInit == Init => Types
BY ConstantFacts DEF Init, Types, Labels

\* ... and keep them in every step.
LEMMA TypesStep == Types /\ [Next]_vars => Types'
<1> SUFFICES ASSUME Types, [Next]_vars
             PROVE  Types'
  OBVIOUS
<1>1. CASE UNCHANGED vars
  BY <1>1 DEF Types, vars, readerVars, introVars, loggerVars
<1>2. CASE Next
  BY <1>2, ReaderTypes, CloseTypes, IntroTypes, LoggerTypes DEF Next
<1>3. QED
  BY <1>1, <1>2

-----------------------------------------------------------------------------
(* The entries lag behind the counters.                                    *)

\* The inductive invariant.  An entry, and the counters read for one, are at most the
\* counters of the track; while the logger visits a track it has an entry, which no one
\* else changes, and what was read is at least what the entry holds.
Lag ==
    /\ \A t \in Tracks : intro[t] # "done" => tracks[t] = NoEntry
    /\ \A t \in Tracks, c \in Counters : tracks[t][c] <= count[t][c]
    /\ \A t \in Tracks, c \in Counters : baseline[t][c] <= count[t][c]
    /\ \A c \in Counters : seen[c] <= count[current][c]
    /\ \A k \in Kinds, c \in Counters : delta[k][c] >= 0

Visiting ==
    /\ due \subseteq Registered
    /\ logger \in {"read", "check"} => current \in Registered \ due
    /\ logger = "uncount" => tracks[current] = NoEntry /\ intro[current] = "done"
    /\ logger = "read" => tracks[current]["packets"] <= seen["packets"]
    /\ logger = "check" => \A c \in Counters : tracks[current][c] <= seen[c]

LagInv == Types /\ Lag /\ Visiting

\* The entries and the counters are compared as integers.
LEMMA Numbers ==
    ASSUME Types
    PROVE  /\ current \in Tracks
           /\ \A t \in Tracks, c \in Counters :
                 count[t][c] \in Nat /\ tracks[t][c] \in Int /\ baseline[t][c] \in Nat
           /\ \A c \in Counters : seen[c] \in Nat
           /\ \A k \in Kinds, c \in Counters : delta[k][c] \in Int
<1>1. \A t \in Tracks, c \in Counters : count[t][c] \in Nat /\ baseline[t][c] \in Nat
  BY DEF Types
<1>2. \A t \in Tracks, c \in Counters : tracks[t][c] \in Int
  <2>1. ASSUME NEW t \in Tracks, NEW c \in Counters
        PROVE  tracks[t][c] \in Int
    <3>1. tracks[t] \in [Counters -> Nat] \/ tracks[t] = NoEntry
      BY DEF Types
    <3>2. QED
      BY <3>1, ConstantFacts
  <2>2. QED
    BY <2>1
<1>3. QED
  BY <1>1, <1>2 DEF Types

\* The invariant holds at first ...
LEMMA LagInit == Init => LagInv
<1> SUFFICES ASSUME Init
             PROVE  Lag /\ Visiting
  BY TypesInit DEF LagInv
<1>1. Lag
  BY ConstantFacts DEF Init, Lag
<1>2. Visiting
  BY DEF Init, Visiting
<1>3. QED
  BY <1>1, <1>2

\* The reader only lets the counters grow.
LEMMA ReaderLag ==
    ASSUME LagInv, NEW t \in Tracks,
           ReceivePacket(t) \/ CountBytesAndLost(t) \/ ReaderEnds(t)
    PROVE  Lag' /\ Visiting'
<1>1. /\ UNCHANGED <<intro, baseline, tracks, logger, due, current, seen, delta>>
      /\ Types
  BY DEF ReceivePacket, CountBytesAndLost, ReaderEnds, introVars, loggerVars, LagInv
<1>2. \A u \in Tracks, c \in Counters : count[u][c] <= count'[u][c]
  <2>1. CASE ReceivePacket(t)
    BY <2>1, <1>1 DEF ReceivePacket, Types, Counters
  <2>2. CASE CountBytesAndLost(t)
    BY <2>2, <1>1, TracksAssumption DEF CountBytesAndLost, Types, Counters
  <2>3. CASE ReaderEnds(t)
    BY <2>3, <1>1 DEF ReaderEnds, Types
  <2>4. QED
    BY <2>1, <2>2, <2>3
<1>3. Types'
  BY <1>1, ReaderTypes
<1>4. \A u \in Tracks, c \in Counters : count'[u][c] \in Int
  BY <1>3 DEF Types
<1>5. Lag'
  BY <1>1, <1>2, <1>4, Numbers DEF LagInv, Lag
<1>6. Visiting'
  BY <1>1 DEF LagInv, Visiting, Registered
<1>7. QED
  BY <1>5, <1>6

\* OnTrack stores what it has read of the counters, of a track the logger cannot visit.
LEMMA IntroLag ==
    ASSUME LagInv, NEW t \in Tracks,
           \/ NewTrack(t) \/ CountTrack(t) \/ StoreTrack(t)
           \/ \E c \in Counters : AddTotal(t, c) \/ ReadBaseline(t, c)
    PROVE  Lag' /\ Visiting'
<1> USE DEF LagInv
<1>a. ASSUME NEW from, NEW to, Introduce(t, from, to), from # "done", UNCHANGED tracks,
             UNCHANGED loggerVars
      PROVE  Visiting' /\ \A u \in Tracks : intro'[u] # "done" => tracks'[u] = NoEntry
  BY <1>a DEF Introduce, Visiting, Lag, loggerVars, Registered, Types
<1>1. CASE NewTrack(t) \/ CountTrack(t)
  BY <1>1, <1>a DEF NewTrack, CountTrack, Lag, readerVars, loggerVars
<1>2. CASE StoreTrack(t)
  <2>1. /\ intro[t] = "store" /\ tracks[t] = NoEntry
        /\ intro' = [intro EXCEPT ![t] = "done"]
        /\ tracks' = [tracks EXCEPT ![t] = [baseline[t] EXCEPT !["lost"] = count[t]["lost"]]]
        /\ baseline' = [baseline EXCEPT ![t] = Zero]
        /\ due' \in {due, due \cup {t}}
        /\ UNCHANGED <<count, logger, current, seen, delta>>
    BY <1>2 DEF StoreTrack, Introduce, InRange, Lag, readerVars
  <2>2. t \in Tracks /\ tracks'[t] \in [Counters -> Nat]
    BY <2>1 DEF Types, Counters
  <2>3. \A c \in Counters : tracks'[t][c] <= count[t][c]
    BY <2>1 DEF Types, Lag
  <2>4. \A c \in Counters : baseline'[t][c] <= count[t][c]
    BY <2>1, ConstantFacts DEF Types
  <2>5. Lag'
    BY <2>1, <2>3, <2>4 DEF Lag, Types
  <2>6. tracks'[t] # NoEntry
    BY <2>2, ConstantFacts
  <2>7. logger \in {"read", "check"} => current # t
    BY <2>1 DEF Visiting, Registered
  <2>8. logger = "uncount" => current # t
    BY <2>1 DEF Visiting
  <2>9. Visiting'
    BY <2>1, <2>6, <2>7, <2>8 DEF Visiting, Registered, Types
  <2>10. QED
    BY <2>5, <2>9
<1>3. ASSUME NEW c \in Counters, AddTotal(t, c)
      PROVE  Lag' /\ Visiting'
  <2>1. c # "done"
    BY DEF Counters
  <2>2. QED
    BY <1>3, <1>a, <2>1 DEF AddTotal, Lag, readerVars, loggerVars
<1>4. ASSUME NEW c \in Counters, ReadBaseline(t, c)
      PROVE  Lag' /\ Visiting'
  <2>1. Visiting' /\ \A u \in Tracks : intro'[u] # "done" => tracks'[u] = NoEntry
    BY <1>4, <1>a DEF ReadBaseline
  <2>2. \A u \in Tracks, d \in Counters : baseline'[u][d] <= count[u][d]
    <3>1. baseline' = [baseline EXCEPT ![t][c] = count[t][c]]
      BY <1>4 DEF ReadBaseline
    <3>2. baseline \in [Tracks -> [Counters -> Nat]]
      BY DEF Types
    <3>3. \A u \in Tracks, d \in Counters :
              baseline'[u][d] = IF u = t /\ d = c THEN count[t][c] ELSE baseline[u][d]
      BY <3>1, <3>2
    <3>4. QED
      BY <3>3, Numbers DEF Lag
  <2>3. QED
    BY <1>4, <2>1, <2>2 DEF ReadBaseline, Lag, readerVars, loggerVars
<1>5. QED
  BY <1>1, <1>2, <1>3, <1>4

\* The logger reads counters that have only grown since it stored the entry.
LEMMA LoggerLag ==
    ASSUME LagInv, Logger
    PROVE  Lag' /\ Visiting'
<1> USE ConstantFacts DEF LagInv
<1>a. UNCHANGED <<count, intro, baseline>>
  BY DEF Logger, StartRange, EndLogger, Visit, ReadLostAndBytes, Forget, UncountTrack,
         Renew, EndRange, readerVars, introVars
<1>b. \A c \in Counters : 0 <= count'[AnyTrack][c]
  BY <1>a DEF Types
<1>1. CASE StartRange \/ EndLogger
  BY <1>1, <1>a DEF StartRange, EndLogger, Log, Lag, Visiting, Registered
<1>2. ASSUME NEW t \in Tracks, Visit(t)
      PROVE  Lag' /\ Visiting'
  <2>1. \A c \in Counters : seen'[c] <= count[t][c]
    BY <1>2 DEF Visit, Types
  <2>2. "packets" \in Counters
    BY DEF Counters
  <2>3. tracks[t]["packets"] <= seen'["packets"]
    BY <1>2, <2>2 DEF Visit, Lag, Zero
  <2>4. QED
    BY <1>2, <1>a, <2>1, <2>3 DEF Visit, Log, Lag, Visiting, Registered
<1>3. CASE ReadLostAndBytes
  <2>1. /\ logger = "read" /\ logger' = "check" /\ current \in Tracks
        /\ UNCHANGED <<tracks, due, current>>
    BY <1>3 DEF ReadLostAndBytes, Log, Types
  <2>2. \A c \in Counters : tracks[current][c] <= seen'[c] /\ seen'[c] <= count[current][c]
    BY <1>3, <2>1 DEF ReadLostAndBytes, Types, Lag, Visiting
  <2>3. \A k \in Kinds, c \in Counters : delta'[k][c] >= 0
    <3>1. \A c \in Counters :
                 /\ seen'[c] \in Int /\ tracks[current][c] \in Int
                 /\ delta[Kind(current)][c] \in Int /\ delta[Kind(current)][c] >= 0
      BY <1>3, <2>1, ReadTypes, Numbers DEF Lag
    <3>2. \A c \in Counters :
              delta[Kind(current)][c] + seen'[c] - tracks[current][c] >= 0
      BY <2>2, <3>1
    <3>3. QED
      BY <1>3, <3>2 DEF ReadLostAndBytes, Types, Lag
  <2>4. QED
    BY <1>a, <2>1, <2>2, <2>3 DEF Lag, Visiting, Registered
<1>4. CASE Forget
  <2>1. /\ logger = "check" /\ logger' = "uncount"
        /\ tracks' = [tracks EXCEPT ![current] = NoEntry]
        /\ UNCHANGED <<due, current, seen, delta>>
    BY <1>4 DEF Forget, Log
  <2>2. \A c \in Counters : NoEntry[c] <= count[current][c]
    BY DEF Types
  <2>3. intro[current] = "done" /\ current \notin due
    BY <2>1 DEF Lag, Visiting, Registered
  <2>4. QED
    BY <1>a, <2>1, <2>2, <2>3 DEF Lag, Visiting, Registered, Types
<1>5. CASE UncountTrack
  BY <1>5, <1>a, <1>b DEF UncountTrack, Log, LeaveTrack, Lag, Visiting, Registered
<1>6. CASE Renew
  <2>1. /\ logger = "check" /\ logger' = "range"
        /\ tracks' = [tracks EXCEPT ![current] = seen]
        /\ current' = AnyTrack /\ seen' = Zero
        /\ UNCHANGED <<due, delta>>
    BY <1>6 DEF Renew, Log, LeaveTrack
  <2>2. intro[current] = "done" /\ current \notin due
    BY <2>1 DEF Lag, Visiting, Registered
  <2>3. Lag'
    BY <1>a, <1>b, <2>1, <2>2 DEF Lag, Types
  <2>4. Visiting'
    BY <2>1, <2>2 DEF Visiting, Registered, Types
  <2>5. QED
    BY <2>3, <2>4
<1>7. CASE EndRange
  BY <1>7, <1>a DEF EndRange, Log, Lag, Visiting, Registered
<1>8. QED
  BY <1>1, <1>2, <1>3, <1>4, <1>5, <1>6, <1>7 DEF Logger

\* ... and every step keeps it.
LEMMA LagStep == LagInv /\ [Next]_vars => LagInv'
<1> SUFFICES ASSUME LagInv, [Next]_vars
             PROVE  Lag' /\ Visiting'
  BY TypesStep DEF LagInv
<1>1. CASE UNCHANGED vars
  BY <1>1 DEF LagInv, Lag, Visiting, Registered, vars, readerVars, introVars, loggerVars
<1>2. CASE CloseAllTracks
  BY <1>2 DEF CloseAllTracks, LagInv, Lag, Visiting, Registered, readerVars, introVars,
              loggerVars
<1>3. QED
  BY <1>1, <1>2, ReaderLag, IntroLag, LoggerLag DEF Next

\* What the logger reads of a track is never less than the entry it left or OnTrack
\* stored, and the unsigned differences never wrap, in every interleaving.
THEOREM UnderflowCorrect == Spec => []NoUnderflow
<1>1. Init => LagInv
  BY LagInit
<1>2. LagInv /\ [Next]_vars => LagInv'
  BY LagStep
<1>3. LagInv => NoUnderflow
  BY DEF LagInv, Lag, Visiting, NoUnderflow
<1>4. QED
  BY <1>1, <1>2, <1>3, PTL DEF Spec

-----------------------------------------------------------------------------
(* The tracks that are counted.                                            *)

CountedOf(k) == {t \in KindOf(k) : Counted(t)}

\* The counted tracks of a kind are finitely many.
LEMMA CountedFinite ==
    \A k : IsFiniteSet(CountedOf(k)) /\ Cardinality(CountedOf(k)) \in Nat
<1>1. \A k : CountedOf(k) \subseteq Tracks
  BY DEF CountedOf, KindOf
<1>2. \A k : IsFiniteSet(CountedOf(k))
  BY <1>1, TracksAssumption, FS_Subset
<1>3. QED
  BY <1>2, FS_CardinalityType

\* Counting and uncounting a track changes the tracks that are counted by this track,
\* every other step leaves them as they are.
LEMMA CountedStep ==
    ASSUME LagInv, [Next]_vars
    PROVE  \/ /\ \A t \in Tracks : Counted(t)' <=> Counted(t)
              /\ UNCHANGED CurrentTracks
           \/ \E t \in Tracks :
                 /\ ~Counted(t) /\ Counted(t)'
                 /\ \A u \in Tracks \ {t} : Counted(u)' <=> Counted(u)
                 /\ CurrentTracks' = [CurrentTracks EXCEPT ![Kind(t)] = @ + 1]
           \/ \E t \in Tracks :
                 /\ Counted(t) /\ ~Counted(t)'
                 /\ \A u \in Tracks \ {t} : Counted(u)' <=> Counted(u)
                 /\ CurrentTracks' = [CurrentTracks EXCEPT ![Kind(t)] = @ - 1]
<1> USE DEF Counted
<1>1. CASE UNCHANGED vars
  BY <1>1 DEF vars, introVars, loggerVars
<1>2. ASSUME NEW t \in Tracks,
             ReceivePacket(t) \/ CountBytesAndLost(t) \/ ReaderEnds(t) \/ CloseAllTracks
      PROVE  UNCHANGED <<intro, tracks, logger, current, CurrentTracks>>
  BY <1>2 DEF ReceivePacket, CountBytesAndLost, ReaderEnds, CloseAllTracks, introVars,
              loggerVars
<1>3. ASSUME NEW t \in Tracks,
             NewTrack(t) \/ \E c \in Counters : AddTotal(t, c) \/ ReadBaseline(t, c)
      PROVE  /\ \A u \in Tracks : Counted(u)' <=> Counted(u)
             /\ UNCHANGED CurrentTracks
  BY <1>3 DEF NewTrack, AddTotal, NextTotal, ReadBaseline, Introduce, loggerVars, Counters,
              LagInv, Types
<1>4. ASSUME NEW t \in Tracks, CountTrack(t)
      PROVE  /\ ~Counted(t) /\ Counted(t)'
             /\ \A u \in Tracks \ {t} : Counted(u)' <=> Counted(u)
             /\ CurrentTracks' = [CurrentTracks EXCEPT ![Kind(t)] = @ + 1]
  BY <1>4 DEF CountTrack, Introduce, loggerVars, LagInv, Lag, Visiting, Types
<1>5. ASSUME NEW t \in Tracks, StoreTrack(t)
      PROVE  /\ \A u \in Tracks : Counted(u)' <=> Counted(u)
             /\ UNCHANGED CurrentTracks
  <2>1. tracks'[t] # NoEntry
    <3>1. tracks'[t] = [baseline[t] EXCEPT !["lost"] = count[t]["lost"]]
      BY <1>5 DEF StoreTrack, LagInv, Types
    <3>2. tracks'[t] \in [Counters -> Nat]
      BY <3>1 DEF LagInv, Types, Counters
    <3>3. QED
      BY <3>2, ConstantFacts
  <2>2. QED
    BY <1>5, <2>1 DEF StoreTrack, Introduce, LagInv, Types
<1>6. CASE StartRange \/ EndLogger \/ ReadLostAndBytes \/ EndRange
  BY <1>6 DEF StartRange, EndLogger, ReadLostAndBytes, EndRange, Log, introVars
<1>7. ASSUME NEW t \in Tracks, Visit(t)
      PROVE  /\ \A u \in Tracks : Counted(u)' <=> Counted(u)
             /\ UNCHANGED CurrentTracks
  BY <1>7 DEF Visit, Log, introVars
<1>8. CASE Forget
  BY <1>8 DEF Forget, Log, introVars, LagInv, Lag, Visiting, Registered, Types
<1>9. CASE Renew
  <2>1. seen # NoEntry
    BY ConstantFacts DEF LagInv, Types
  <2>2. QED
    BY <1>9, <2>1 DEF Renew, Log, LeaveTrack, introVars, LagInv, Visiting, Registered, Types
<1>10. ASSUME NEW t \in Tracks, t = current, UncountTrack
       PROVE  /\ Counted(t) /\ ~Counted(t)'
              /\ \A u \in Tracks \ {t} : Counted(u)' <=> Counted(u)
              /\ CurrentTracks' = [CurrentTracks EXCEPT ![Kind(t)] = @ - 1]
  <2>1. Counted(t) /\ ~Counted(t)'
    BY <1>10 DEF UncountTrack, Log, introVars, LagInv, Visiting
  <2>2. \A u \in Tracks \ {t} : Counted(u)' <=> Counted(u)
    BY <1>10 DEF UncountTrack, Log, introVars
  <2>3. QED
    BY <1>10, <2>1, <2>2 DEF UncountTrack
<1>11. QED
  BY <1>1, <1>2, <1>3, <1>4, <1>5, <1>6, <1>7, <1>8, <1>9, <1>10, TracksAssumption
     DEF Next, Logger, LagInv, Types

\* Every step counts or uncounts the track that it adds or removes.
LEMMA AgreeStep ==
    ASSUME LagInv, CurrentTracksAgree, [Next]_vars
    PROVE  CurrentTracksAgree'
<1>0. /\ CurrentTracks \in [Kinds -> Int]
      /\ \A k \in Kinds : CurrentTracks[k] = Cardinality(CountedOf(k))
  BY DEF LagInv, Types, CurrentTracksAgree, CountedOf
<1> SUFFICES \A k \in Kinds : CurrentTracks'[k] = Cardinality(CountedOf(k))'
  BY DEF CurrentTracksAgree, CountedOf
<1>1. CASE /\ \A t \in Tracks : Counted(t)' <=> Counted(t)
           /\ UNCHANGED CurrentTracks
  <2>1. \A k : CountedOf(k)' = CountedOf(k)
    BY <1>1 DEF CountedOf, KindOf
  <2>2. QED
    BY <1>0, <1>1, <2>1
<1>2. ASSUME NEW t \in Tracks, ~Counted(t), Counted(t)',
             \A u \in Tracks \ {t} : Counted(u)' <=> Counted(u),
             CurrentTracks' = [CurrentTracks EXCEPT ![Kind(t)] = @ + 1]
      PROVE  \A k \in Kinds : CurrentTracks'[k] = Cardinality(CountedOf(k))'
  <2>1. \A k : CountedOf(k)' = IF k = Kind(t) THEN CountedOf(k) \cup {t} ELSE CountedOf(k)
    BY <1>2 DEF CountedOf, KindOf
  <2>2. \A k : t \notin CountedOf(k)
    BY <1>2 DEF CountedOf
  <2>3. \A k : Cardinality(CountedOf(k) \cup {t}) = Cardinality(CountedOf(k)) + 1
    BY <2>2, CountedFinite, FS_AddElement
  <2>4. QED
    BY <1>0, <1>2, <2>1, <2>3
<1>3. ASSUME NEW t \in Tracks, Counted(t), ~Counted(t)',
             \A u \in Tracks \ {t} : Counted(u)' <=> Counted(u),
             CurrentTracks' = [CurrentTracks EXCEPT ![Kind(t)] = @ - 1]
      PROVE  \A k \in Kinds : CurrentTracks'[k] = Cardinality(CountedOf(k))'
  <2>1. \A k : CountedOf(k)' = IF k = Kind(t) THEN CountedOf(k) \ {t} ELSE CountedOf(k)
    BY <1>3 DEF CountedOf, KindOf
  <2>2. t \in CountedOf(Kind(t))
    BY <1>3 DEF CountedOf, KindOf
  <2>3. Cardinality(CountedOf(Kind(t)) \ {t}) = Cardinality(CountedOf(Kind(t))) - 1
    BY <2>2, CountedFinite, FS_RemoveElement
  <2>4. QED
    BY <1>0, <1>3, <2>1, <2>3
<1>4. QED
  BY <1>1, <1>2, <1>3, CountedStep

\* No track is counted at first.
LEMMA AgreeInit == Init => CurrentTracksAgree
<1> SUFFICES ASSUME Init, NEW k \in Kinds
             PROVE  CurrentTracks[k] = Cardinality(CountedOf(k))
  BY DEF CurrentTracksAgree, CountedOf
<1>1. CountedOf(k) = {}
  BY DEF Init, CountedOf, KindOf, Counted
<1>2. QED
  BY <1>1, FS_EmptySet DEF Init

\* CurrentAudioTracks and CurrentVideoTracks are the tracks of the kind that OnTrack has
\* counted and the logger not yet uncounted, whatever the order in which they are closed.
THEOREM CurrentTracksCorrect == Spec => []CurrentTracksAgree
<1>1. Init => LagInv /\ CurrentTracksAgree
  BY LagInit, AgreeInit
<1>2. LagInv /\ CurrentTracksAgree /\ [Next]_vars => LagInv' /\ CurrentTracksAgree'
  BY LagStep, AgreeStep
<1>3. QED
  BY <1>1, <1>2, PTL DEF Spec

\* Every variable keeps its type, and the tracks of a kind are never fewer than none.
THEOREM TrackTypeCorrect == Spec => []TypeOK
<1>1. Init => LagInv /\ CurrentTracksAgree
  BY LagInit, AgreeInit
<1>2. LagInv /\ CurrentTracksAgree /\ [Next]_vars => LagInv' /\ CurrentTracksAgree'
  BY LagStep, AgreeStep
<1>3. LagInv /\ CurrentTracksAgree => TypeOK
  <2> SUFFICES ASSUME LagInv, CurrentTracksAgree, NEW k \in Kinds
               PROVE  CurrentTracks[k] >= 0
    BY DEF LagInv, TypeOK
  <2>1. CurrentTracks[k] = Cardinality(CountedOf(k))
    BY DEF CurrentTracksAgree, CountedOf
  <2>2. QED
    BY <2>1, CountedFinite
<1>4. QED
  BY <1>1, <1>2, <1>3, PTL DEF Spec

-----------------------------------------------------------------------------
(* Nothing is counted twice.                                               *)

\* OnTrack has added the counter to the totals ...
Added(t, c) ==
    \/ intro[t] \in {"baseline bytes", "baseline packets", "store", "done"}
    \/ c = "packets" /\ intro[t] \in {"bytes", "lost"}
    \/ c = "bytes" /\ intro[t] = "lost"

\* ... and has read it again for the entry.
Copied(t, c) ==
    \/ c = "bytes" /\ intro[t] \in {"baseline packets", "store"}
    \/ c = "packets" /\ intro[t] = "store"

\* What totals and delta hold of a counter at most: the entry has it, or will have it.
Summed(t, c) ==
    IF tracks[t] # NoEntry
    THEN IF logger = "check" /\ current = t THEN seen[c] ELSE tracks[t][c]
    ELSE IF ~Added(t, c) THEN 0
    ELSE IF Copied(t, c) THEN baseline[t][c]
    ELSE count[t][c]

\* The inductive invariant behind NoOvercount.
NoneTwice ==
    \A k \in Kinds, c \in Counters :
        Total[k][c] + delta[k][c] <= SumFunctionOnSet([t \in Tracks |-> Summed(t, c)], KindOf(k))

\* The tracks of a kind are finitely many.
LEMMA KindsFinite == \A k : IsFiniteSet(KindOf(k))
<1>1. \A k : KindOf(k) \subseteq Tracks
  BY DEF KindOf
<1>2. QED
  BY <1>1, TracksAssumption, FS_Subset

\* What is summed of a counter is no more than the counter.
LEMMA SummedBelow ==
    LagInv => \A t \in Tracks, c \in Counters :
                 Summed(t, c) \in Int /\ Summed(t, c) <= count[t][c]
<1> SUFFICES ASSUME LagInv, NEW t \in Tracks, NEW c \in Counters
             PROVE  Summed(t, c) \in Int /\ Summed(t, c) <= count[t][c]
  OBVIOUS
<1>1. /\ count[t][c] \in Nat /\ tracks[t][c] \in Int /\ baseline[t][c] \in Nat
      /\ seen[c] \in Nat
  BY Numbers DEF LagInv
<1>2. tracks[t][c] <= count[t][c] /\ baseline[t][c] <= count[t][c]
  BY DEF LagInv, Lag
<1>3. current = t => seen[c] <= count[t][c]
  BY DEF LagInv, Lag
<1>4. QED
  BY <1>1, <1>2, <1>3 DEF Summed

\* The same in the next state.
LEMMA SummedBelowNext ==
    LagInv' => \A t \in Tracks, c \in Counters : Summed(t, c)' \in Int
<1>1. LagInv' => (\A t \in Tracks, c \in Counters :
                     Summed(t, c) \in Int /\ Summed(t, c) <= count[t][c])'
  BY SummedBelow, PTL
<1>2. QED
  BY <1>1

\* The step adds d to the totals and the delta of one track's kind, and at least as much to
\* what is summed of the track.
Grows(t, d, c) ==
    /\ \A u \in Tracks : Summed(u, c) + (IF u = t THEN d ELSE 0) <= Summed(u, c)'
    /\ \A k \in Kinds : Total'[k][c] + delta'[k][c]
                          = Total[k][c] + delta[k][c] + (IF k = Kind(t) THEN d ELSE 0)

\* A step that does so for each counter keeps the invariant.
LEMMA GrowsKeeps ==
    ASSUME LagInv, LagInv', NoneTwice,
           \A c \in Counters : \E t \in Tracks, d \in Int : Grows(t, d, c)
    PROVE  NoneTwice'
<1> SUFFICES ASSUME NEW k \in Kinds, NEW c \in Counters
             PROVE  Total'[k][c] + delta'[k][c]
                      <= SumFunctionOnSet([t \in Tracks |-> Summed(t, c)], KindOf(k))'
  BY DEF NoneTwice
<1> DEFINE f == [t \in Tracks |-> Summed(t, c)]
<1> DEFINE g == [t \in Tracks |-> Summed(t, c)']
<1>1. PICK t \in Tracks, d \in Int : Grows(t, d, c)
  OBVIOUS
<1>2. \A u \in Tracks : Summed(u, c) \in Int /\ Summed(u, c)' \in Int
  <2>1. \A u \in Tracks : Summed(u, c) \in Int
    BY SummedBelow
  <2>2. \A u \in Tracks : Summed(u, c)' \in Int
    BY SummedBelowNext
  <2>3. QED
    BY <2>1, <2>2
<1>3. \A u \in KindOf(k) : u \in Tracks /\ f[u] = Summed(u, c) /\ g[u] = Summed(u, c)'
  BY DEF KindOf
<1>4. \A u \in KindOf(k) : f[u] \in Int /\ g[u] \in Int
  BY <1>2, <1>3
<1>5. \A u \in KindOf(k) : f[u] + (IF u = t THEN d ELSE 0) <= g[u]
  BY <1>1, <1>3 DEF Grows
<1>6. t \in KindOf(k) <=> k = Kind(t)
  BY DEF KindOf
<1> HIDE DEF f, g
<1>7. /\ SumFunctionOnSet(f, KindOf(k)) \in Int /\ SumFunctionOnSet(g, KindOf(k)) \in Int
      /\ SumFunctionOnSet(f, KindOf(k)) + (IF t \in KindOf(k) THEN d ELSE 0)
           <= SumFunctionOnSet(g, KindOf(k))
  BY <1>4, <1>5, KindsFinite, SumGrows
<1>8. Total[k][c] + delta[k][c] <= SumFunctionOnSet(f, KindOf(k))
  BY DEF NoneTwice, f
<1>9. Total'[k][c] + delta'[k][c]
        = Total[k][c] + delta[k][c] + (IF k = Kind(t) THEN d ELSE 0)
  BY <1>1 DEF Grows
<1>10. Total[k][c] \in Int /\ delta[k][c] \in Int
  BY DEF LagInv, Types
<1>11. Total'[k][c] + delta'[k][c] <= SumFunctionOnSet(g, KindOf(k))
  BY <1>6, <1>7, <1>8, <1>9, <1>10
<1>12. SumFunctionOnSet([u \in Tracks |-> Summed(u, c)], KindOf(k))'
         = SumFunctionOnSet(g, KindOf(k))
  BY DEF g, KindOf
<1>13. QED
  BY <1>11, <1>12

\* A step that leaves the totals alone and nothing that is summed smaller.
LEMMA GrowsByNone ==
    ASSUME LagInv, NEW c \in Counters,
           \A u \in Tracks : Summed(u, c) <= Summed(u, c)',
           \A k \in Kinds : Total'[k][c] + delta'[k][c] = Total[k][c] + delta[k][c]
    PROVE  \E t \in Tracks, d \in Int : Grows(t, d, c)
<1>1. \A u \in Tracks : Summed(u, c) \in Int
  BY SummedBelow
<1>2. \A k \in Kinds : Total[k][c] \in Int /\ delta[k][c] \in Int
  BY DEF LagInv, Types
<1>3. Grows(AnyTrack, 0, c)
  BY <1>1, <1>2 DEF Grows
<1>4. QED
  BY <1>3, ConstantFacts

\* The reader only adds to its counters.
LEMMA ReaderGrows ==
    ASSUME LagInv, LagInv', NEW c \in Counters, NEW t \in Tracks,
           ReceivePacket(t) \/ CountBytesAndLost(t) \/ ReaderEnds(t)
    PROVE  \E u \in Tracks, d \in Int : Grows(u, d, c)
<1>1. UNCHANGED <<intro, baseline, tracks, logger, current, seen, delta, Total>>
  BY DEF ReceivePacket, CountBytesAndLost, ReaderEnds, introVars, loggerVars
<1>2. \A u \in Tracks : count[u][c] <= count'[u][c]
  <2>1. CASE ReceivePacket(t)
    BY <2>1 DEF ReceivePacket, Types, Counters, LagInv
  <2>2. CASE CountBytesAndLost(t)
    BY <2>2, TracksAssumption DEF CountBytesAndLost, Types, Counters, LagInv
  <2>3. CASE ReaderEnds(t)
    BY <2>3 DEF ReaderEnds, Types, LagInv
  <2>4. QED
    BY <2>1, <2>2, <2>3
<1>3. \A u \in Tracks : Summed(u, c) \in Int
  BY SummedBelow
<1>4. \A u \in Tracks : (Added(u, c)' <=> Added(u, c)) /\ (Copied(u, c)' <=> Copied(u, c))
  BY <1>1 DEF Added, Copied
<1>5. \A u \in Tracks : \/ Summed(u, c)' = Summed(u, c)
                       \/ /\ Summed(u, c)' = count'[u][c]
                          /\ Summed(u, c) = count[u][c]
  BY <1>1, <1>4 DEF Summed
<1>6. \A u \in Tracks : Summed(u, c) <= Summed(u, c)'
  BY <1>2, <1>3, <1>5
<1>7. QED
  BY <1>1, <1>6, GrowsByNone

\* Closing the tracks leaves the counters and what is summed of them alone.
LEMMA CloseGrows ==
    ASSUME LagInv, NEW c \in Counters,
           CloseAllTracks \/ UNCHANGED vars
    PROVE  \E u \in Tracks, d \in Int : Grows(u, d, c)
<1>1. UNCHANGED <<count, intro, baseline, tracks, logger, current, seen, delta, Total>>
  BY DEF CloseAllTracks, readerVars, introVars, loggerVars, vars
<1>2. \A u \in Tracks : Summed(u, c)' = Summed(u, c)
  BY <1>1 DEF Summed, Added, Copied
<1>3. \A u \in Tracks : Summed(u, c) \in Int
  BY SummedBelow
<1>4. QED
  BY <1>1, <1>2, <1>3, GrowsByNone

\* OnTrack adds a counter to the totals once; the entry starts from no less than what it
\* added.
LEMMA IntroGrows ==
    ASSUME LagInv, LagInv', NEW c \in Counters, NEW t \in Tracks,
           \/ NewTrack(t) \/ CountTrack(t) \/ StoreTrack(t)
           \/ \E e \in Counters : AddTotal(t, e) \/ ReadBaseline(t, e)
    PROVE  \E u \in Tracks, d \in Int : Grows(u, d, c)
<1>a. /\ \A u \in Tracks : Summed(u, c) \in Int /\ Summed(u, c) <= count[u][c]
      /\ \A u \in Tracks, e \in Counters : count[u][e] \in Nat
  BY SummedBelow, Numbers DEF LagInv
<1>b. /\ intro \in [Tracks -> Labels] /\ baseline \in [Tracks -> [Counters -> Nat]]
      /\ intro[t] # "done" => tracks[t] = NoEntry
      /\ count \in [Tracks -> [Counters -> Nat]]
  BY DEF LagInv, Lag, Types
<1>c. ASSUME \A u \in Tracks : u # t => Summed(u, c)' = Summed(u, c),
             Summed(t, c)' = Summed(t, c) \/ Summed(t, c)' = count[t][c],
             UNCHANGED <<delta, Total>>
      PROVE  \E u \in Tracks, d \in Int : Grows(u, d, c)
  <2>1. \A u \in Tracks : Summed(u, c) <= Summed(u, c)'
    BY <1>a, <1>c
  <2>2. QED
    BY <1>c, <2>1, GrowsByNone
<1>d. ASSUME NEW from, NEW to, Introduce(t, from, to), UNCHANGED baseline,
             UNCHANGED <<tracks, logger, current, seen, count>>
      PROVE  \A u \in Tracks : u # t => Summed(u, c)' = Summed(u, c)
  BY <1>b, <1>d DEF Introduce, Summed, Added, Copied
<1>1. CASE NewTrack(t) \/ CountTrack(t)
  <2>1. /\ UNCHANGED <<count, baseline, tracks, logger, current, seen, delta, Total>>
        /\ Introduce(t, "none", "tracks") \/ Introduce(t, "tracks", "packets")
    BY <1>1 DEF NewTrack, CountTrack, readerVars, loggerVars
  <2>2. Summed(t, c)' = Summed(t, c)
    BY <1>b, <2>1 DEF Introduce, Summed, Added, Copied, Labels
  <2>3. QED
    BY <1>c, <1>d, <2>1, <2>2
<1>2. CASE StoreTrack(t)
  <2>1. /\ intro[t] = "store" /\ tracks[t] = NoEntry
        /\ intro' = [intro EXCEPT ![t] = "done"]
        /\ tracks' = [tracks EXCEPT ![t] = [baseline[t] EXCEPT !["lost"] = count[t]["lost"]]]
        /\ baseline' = [baseline EXCEPT ![t] = Zero]
        /\ UNCHANGED <<count, logger, current, seen, delta, Total>>
    BY <1>2, <1>b DEF StoreTrack, Introduce, readerVars
  <2>2. tracks'[t] = [baseline[t] EXCEPT !["lost"] = count[t]["lost"]]
    BY <2>1 DEF LagInv, Types
  <2>3. tracks'[t] # NoEntry
    <3>1. tracks'[t] \in [Counters -> Nat]
      BY <1>b, <2>2 DEF Counters
    <3>2. QED
      BY <3>1, ConstantFacts
  <2>4. ~(logger' = "check" /\ current' = t)
    BY <2>1 DEF LagInv, Visiting, Registered
  <2>5. Summed(t, c)' = tracks'[t][c]
    BY <2>3, <2>4 DEF Summed
  <2>6. Summed(t, c) = IF c = "lost" THEN count[t][c] ELSE baseline[t][c]
    BY <2>1 DEF Summed, Added, Copied, Counters
  <2>7. Summed(t, c)' = Summed(t, c)
    BY <1>b, <2>2, <2>5, <2>6
  <2>8. \A u \in Tracks : u # t => Summed(u, c)' = Summed(u, c)
    <3>1. \A u \in Tracks : u # t => /\ intro'[u] = intro[u] /\ baseline'[u] = baseline[u]
                                     /\ tracks'[u] = tracks[u]
      BY <1>b, <2>1 DEF LagInv, Types
    <3>2. QED
      BY <2>1, <3>1 DEF Summed, Added, Copied
  <2>9. QED
    BY <1>c, <2>1, <2>7, <2>8
<1>3. ASSUME NEW e \in Counters, AddTotal(t, e)
      PROVE  \E u \in Tracks, d \in Int : Grows(u, d, c)
  <2>1. /\ UNCHANGED <<count, baseline, tracks, logger, current, seen, delta>>
        /\ Introduce(t, e, NextTotal(e))
        /\ Total' = [Total EXCEPT ![Kind(t)][e] = @ + count[t][e]]
    BY <1>3 DEF AddTotal, readerVars, loggerVars
  <2> DEFINE d == IF c = e THEN count[t][e] ELSE 0
  <2>2. d \in Int
    BY <1>a
  <2>3. intro[t] = e /\ intro'[t] = NextTotal(e) /\ tracks[t] = NoEntry
    BY <1>b, <2>1 DEF Introduce, Counters
  <2>a. intro'[t] = IF e = "packets" THEN "bytes"
                    ELSE IF e = "bytes" THEN "lost" ELSE "baseline bytes"
    BY <2>3, Zenon DEF NextTotal
  <2>b. e \in {"packets", "bytes", "lost"} /\ c \in {"packets", "bytes", "lost"}
    BY DEF Counters
  <2>c. (Added(t, c) <=> c # e /\ Added(t, c)') /\ ~Copied(t, c) /\ ~Copied(t, c)'
    BY <2>3, <2>a, <2>b DEF Added, Copied
  <2>d. c = e => Added(t, c)'
    BY <2>3, <2>a, <2>b DEF Added
  <2>4. c = e => Summed(t, c) = 0 /\ Summed(t, c)' = count[t][c]
    BY <2>1, <2>3, <2>c, <2>d DEF Summed
  <2>5. c # e => Summed(t, c)' = Summed(t, c)
    BY <2>1, <2>3, <2>c DEF Summed
  <2>6. \A u \in Tracks : Summed(u, c) + (IF u = t THEN d ELSE 0) <= Summed(u, c)'
    BY <1>a, <1>d, <2>1, <2>4, <2>5
  <2>7. \A k \in Kinds : Total'[k][c] = Total[k][c] + (IF k = Kind(t) THEN d ELSE 0)
    <3>1. Total \in [Kinds -> [Counters -> Int]]
      BY DEF LagInv, Types
    <3>2. QED
      BY <2>1, <3>1, ConstantFacts
  <2>8. \A k \in Kinds : Total'[k][c] + delta'[k][c]
                            = Total[k][c] + delta[k][c] + (IF k = Kind(t) THEN d ELSE 0)
    <3>1. \A k \in Kinds : Total[k][c] \in Int /\ delta[k][c] \in Int
      BY DEF LagInv, Types
    <3> HIDE DEF d
    <3>2. QED
      BY <2>1, <2>2, <2>7, <3>1
  <2> HIDE DEF d
  <2>9. QED
    BY <2>2, <2>6, <2>8 DEF Grows
<1>4. ASSUME NEW e \in Counters, ReadBaseline(t, e)
      PROVE  \E u \in Tracks, d \in Int : Grows(u, d, c)
  <2>1. /\ UNCHANGED <<count, tracks, logger, current, seen, delta, Total>>
        /\ e \in {"bytes", "packets"}
        /\ baseline' = [baseline EXCEPT ![t][e] = count[t][e]]
        /\ intro[t] = IF e = "bytes" THEN "baseline bytes" ELSE "baseline packets"
        /\ intro' = [intro EXCEPT ![t] = IF e = "bytes" THEN "baseline packets" ELSE "store"]
    BY <1>4 DEF ReadBaseline, Introduce, readerVars, loggerVars
  <2>2. \A u \in Tracks : /\ intro'[u] = IF u # t THEN intro[u]
                                        ELSE IF e = "bytes" THEN "baseline packets" ELSE "store"
                          /\ baseline'[u][c] = IF u = t /\ c = e THEN count[t][c]
                                                ELSE baseline[u][c]
    BY <1>b, <2>1
  <2>3. tracks[t] = NoEntry
    BY <1>b, <2>1
  <2>a. c \in {"packets", "bytes", "lost"}
    BY DEF Counters
  <2>b. /\ Added(t, c) /\ Added(t, c)'
        /\ Copied(t, c)' <=> Copied(t, c) \/ c = e
    <3>1. CASE e = "bytes"
      <4>1. intro[t] = "baseline bytes" /\ intro'[t] = "baseline packets"
        BY <2>1, <2>2, <3>1
      <4>2. QED
        BY <2>a, <3>1, <4>1 DEF Added, Copied
    <3>2. CASE e = "packets"
      <4>1. intro[t] = "baseline packets" /\ intro'[t] = "store"
        BY <2>1, <2>2, <3>2
      <4>2. QED
        BY <2>a, <3>2, <4>1 DEF Added, Copied
    <3>3. QED
      BY <2>1, <3>1, <3>2
  <2>c. baseline'[t][c] = IF c = e THEN count[t][c] ELSE baseline[t][c]
    BY <2>2
  <2>4. Summed(t, c)' = Summed(t, c) \/ Summed(t, c)' = count[t][c]
    BY <2>1, <2>3, <2>b, <2>c DEF Summed
  <2>5. \A u \in Tracks : u # t => Summed(u, c)' = Summed(u, c)
    BY <2>1, <2>2 DEF Summed, Added, Copied
  <2>6. QED
    BY <1>c, <2>1, <2>4, <2>5
<1>5. QED
  BY <1>1, <1>2, <1>3, <1>4

\* The logger adds to the delta what the counter has grown since the entry was written, and
\* the entry takes it over before the track is visited again.
LEMMA LoggerGrows ==
    ASSUME LagInv, LagInv', NEW c \in Counters, Logger
    PROVE  \E u \in Tracks, d \in Int : Grows(u, d, c)
<1>a. \A u \in Tracks : Summed(u, c) \in Int /\ Summed(u, c) <= count[u][c]
  BY SummedBelow
<1>b. UNCHANGED <<count, intro, baseline>>
  BY DEF Logger, StartRange, EndLogger, Visit, ReadLostAndBytes, Forget, UncountTrack,
         Renew, EndRange, readerVars, introVars
<1>c. \A u \in Tracks : (Added(u, c)' <=> Added(u, c)) /\ (Copied(u, c)' <=> Copied(u, c))
  BY <1>b DEF Added, Copied
<1>d. \A k \in Kinds, e \in Counters : Total[k][e] \in Int /\ delta[k][e] \in Int
  BY DEF LagInv, Types
<1>e. /\ tracks \in [Tracks -> [Counters -> Nat] \cup {NoEntry}]
      /\ delta \in [Kinds -> [Counters -> Int]]
      /\ current \in Tracks
  BY DEF LagInv, Types
<1>f. \A u \in Tracks, e \in Counters : count[u][e] \in Nat
  BY Numbers DEF LagInv
<1>g. ASSUME \A u \in Tracks : Summed(u, c)' = Summed(u, c),
             \A k \in Kinds : Total'[k][c] + delta'[k][c] = Total[k][c] + delta[k][c]
      PROVE  \E u \in Tracks, d \in Int : Grows(u, d, c)
  <2>1. \A u \in Tracks : Summed(u, c) <= Summed(u, c)'
    BY <1>a, <1>g
  <2>2. QED
    BY <1>g, <2>1, GrowsByNone
<1>1. ASSUME NEW t \in Tracks, StartRange \/ EndLogger \/ Visit(t)
      PROVE  \E u \in Tracks, d \in Int : Grows(u, d, c)
  <2>1. logger # "check" /\ logger' # "check" /\ UNCHANGED <<tracks, delta, Total>>
    BY <1>1 DEF StartRange, EndLogger, Visit, Log
  <2>2. \A u \in Tracks : Summed(u, c)' = Summed(u, c)
    BY <1>b, <1>c, <2>1 DEF Summed
  <2>3. QED
    BY <1>g, <2>1, <2>2
<1>2. CASE ReadLostAndBytes
  <2>1. /\ logger = "read" /\ logger' = "check"
        /\ UNCHANGED <<tracks, current, Total>>
        /\ delta' = [delta EXCEPT ![Kind(current)] =
                        [e \in Counters |-> @[e] + seen'[e] - tracks[current][e]]]
    BY <1>2 DEF ReadLostAndBytes, Log
  <2>2. tracks[current] # NoEntry
    BY <2>1 DEF LagInv, Visiting, Registered
  <2>3. seen'[c] \in Int /\ tracks[current][c] \in Int
    BY <1>2, ReadTypes, Numbers DEF LagInv
  <2> DEFINE d == seen'[c] - tracks[current][c]
  <2>4. d \in Int
    BY <2>3
  <2>5. \A u \in Tracks :
           u = current => Summed(u, c) = tracks[current][c] /\ Summed(u, c)' = seen'[c]
    BY <2>1, <2>2 DEF Summed
  <2>6. \A u \in Tracks : u # current => Summed(u, c)' = Summed(u, c)
    BY <1>b, <1>c, <2>1 DEF Summed
  <2>7. \A u \in Tracks : Summed(u, c) + (IF u = current THEN d ELSE 0) <= Summed(u, c)'
    BY <1>a, <2>3, <2>5, <2>6
  <2>8. \A k \in Kinds : delta'[k][c]
                           = IF k = Kind(current) THEN delta[k][c] + seen'[c] - tracks[current][c]
                             ELSE delta[k][c]
    BY <1>e, <2>1, ConstantFacts
  <2>9. \A k \in Kinds : Total'[k][c] + delta'[k][c]
                          = Total[k][c] + delta[k][c] + (IF k = Kind(current) THEN d ELSE 0)
    BY <1>d, <2>1, <2>3, <2>8
  <2> HIDE DEF d
  <2>10. QED
    BY <1>e, <2>4, <2>7, <2>9 DEF Grows
<1>3. CASE Forget
  <2>1. /\ logger = "check" /\ logger' = "uncount"
        /\ tracks' = [tracks EXCEPT ![current] = NoEntry]
        /\ UNCHANGED <<current, seen, delta, Total>>
    BY <1>3 DEF Forget, Log
  <2>2. intro[current] = "done"
    BY <1>e, <2>1 DEF LagInv, Lag, Visiting, Registered
  <2>3. \A u \in Tracks : u = current => Summed(u, c)' = count[u][c]
    BY <1>b, <1>e, <2>1, <2>2 DEF Summed, Added, Copied
  <2>4. \A u \in Tracks : u # current => Summed(u, c)' = Summed(u, c)
    BY <1>b, <1>c, <1>e, <2>1 DEF Summed
  <2>5. \A u \in Tracks : Summed(u, c) <= Summed(u, c)'
    BY <1>a, <1>f, <2>3, <2>4
  <2>6. QED
    BY <2>1, <2>5, GrowsByNone
<1>4. CASE UncountTrack
  <2>1. /\ logger = "uncount" /\ logger' = "range"
        /\ UNCHANGED <<tracks, delta, Total>>
    BY <1>4 DEF UncountTrack, Log
  <2>2. \A u \in Tracks : Summed(u, c)' = Summed(u, c)
    BY <1>b, <1>c, <2>1 DEF Summed
  <2>3. QED
    BY <1>g, <2>1, <2>2
<1>5. CASE Renew
  <2>1. /\ logger = "check" /\ logger' = "range"
        /\ tracks' = [tracks EXCEPT ![current] = seen]
        /\ UNCHANGED <<delta, Total>>
    BY <1>5 DEF Renew, Log
  <2>2. seen # NoEntry
    BY ConstantFacts DEF LagInv, Types
  <2>3. tracks[current] # NoEntry
    BY <2>1 DEF LagInv, Visiting, Registered
  <2>4. \A u \in Tracks : Summed(u, c)' = Summed(u, c)
    BY <1>b, <1>c, <1>e, <2>1, <2>2, <2>3 DEF Summed
  <2>5. QED
    BY <1>g, <2>1, <2>4
<1>6. CASE EndRange
  <2>1. /\ logger = "range" /\ logger' = "idle" /\ UNCHANGED tracks
        /\ Total' = [k \in Kinds |-> [e \in Counters |-> Total[k][e] + delta[k][e]]]
        /\ delta' = [k \in Kinds |-> Zero]
    BY <1>6 DEF EndRange, Log
  <2>2. \A k \in Kinds : Total'[k][c] = Total[k][c] + delta[k][c] /\ delta'[k][c] = 0
    BY <2>1, ConstantFacts
  <2>3. \A k \in Kinds : Total'[k][c] + delta'[k][c] = Total[k][c] + delta[k][c]
    BY <1>d, <2>2
  <2>4. \A u \in Tracks : Summed(u, c)' = Summed(u, c)
    BY <1>b, <1>c, <2>1 DEF Summed
  <2>5. QED
    BY <1>g, <2>3, <2>4
<1>7. QED
  BY <1>1, <1>2, <1>3, <1>4, <1>5, <1>6, TracksAssumption DEF Logger

\* Every step keeps the invariant.
LEMMA TwiceStep ==
    ASSUME LagInv, NoneTwice, [Next]_vars
    PROVE  NoneTwice'
<1>1. LagInv'
  BY LagStep
<1>2. \A c \in Counters : \E t \in Tracks, d \in Int : Grows(t, d, c)
  BY <1>1, ReaderGrows, CloseGrows, IntroGrows, LoggerGrows DEF Next
<1>3. QED
  BY <1>1, <1>2, GrowsKeeps

\* Nothing is counted and nothing summed at first.
LEMMA TwiceInit == Init => NoneTwice
<1> SUFFICES ASSUME Init, NEW k \in Kinds, NEW c \in Counters
             PROVE  Total[k][c] + delta[k][c]
                      <= SumFunctionOnSet([t \in Tracks |-> Summed(t, c)], KindOf(k))
  BY DEF NoneTwice
<1>1. \A t \in KindOf(k) : [u \in Tracks |-> Summed(u, c)][t] = 0
  BY DEF Init, KindOf, Summed, Added, Copied
<1>2. SumFunctionOnSet([t \in Tracks |-> Summed(t, c)], KindOf(k)) = 0
  BY <1>1, KindsFinite, SumOfZeros
<1>3. Total[k][c] = 0 /\ delta[k][c] = 0
  BY ConstantFacts DEF Init
<1>4. QED
  BY <1>2, <1>3

\* OnTrack and the logger read the counters one by one while the reader adds to them, and
\* yet no packet, byte or loss reaches the totals twice, for any tracks and packets.
THEOREM NothingCountedTwice == Spec => []NoOvercount
<1>1. Init => LagInv /\ NoneTwice
  BY LagInit, TwiceInit
<1>2. LagInv /\ NoneTwice /\ [Next]_vars => LagInv' /\ NoneTwice'
  BY LagStep, TwiceStep
<1>3. LagInv /\ NoneTwice => NoOvercount
  <2> SUFFICES ASSUME LagInv, NoneTwice, NEW k \in Kinds, NEW c \in Counters
               PROVE  Total[k][c] + delta[k][c]
                        <= SumFunctionOnSet([t \in Tracks |-> count[t][c]], KindOf(k))
    BY DEF NoOvercount
  <2> DEFINE f == [t \in Tracks |-> Summed(t, c)]
  <2> DEFINE g == [t \in Tracks |-> count[t][c]]
  <2>1. \A u \in KindOf(k) : f[u] \in Int /\ g[u] \in Int /\ f[u] <= g[u]
    BY SummedBelow, Numbers DEF KindOf, LagInv
  <2>2. Total[k][c] + delta[k][c] <= SumFunctionOnSet(f, KindOf(k))
    BY DEF NoneTwice
  <2>3. Total[k][c] \in Int /\ delta[k][c] \in Int
    BY DEF LagInv, Types
  <2> HIDE DEF f, g
  <2>4. \A u \in KindOf(k) : f[u] + (IF u = AnyTrack THEN 0 ELSE 0) <= g[u]
    BY <2>1
  <2>5. /\ SumFunctionOnSet(f, KindOf(k)) \in Int /\ SumFunctionOnSet(g, KindOf(k)) \in Int
        /\ SumFunctionOnSet(f, KindOf(k)) + (IF AnyTrack \in KindOf(k) THEN 0 ELSE 0)
             <= SumFunctionOnSet(g, KindOf(k))
    BY <2>1, <2>4, KindsFinite, SumGrows
  <2>6. Total[k][c] + delta[k][c] <= SumFunctionOnSet(g, KindOf(k))
    BY <2>2, <2>3, <2>5
  <2>7. QED
    BY <2>6 DEF g
<1>4. QED
  BY <1>1, <1>2, <1>3, PTL DEF Spec
=============================================================================
