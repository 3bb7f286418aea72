----------------------------- MODULE TrackStats -----------------------------
(***************************************************************************)
(* The packet, byte and loss counters of the media tracks and the totals   *)
(* of the run: the reader goroutine of each track (newTrackInfo) counts,   *)
(* OnTrack registers a track, a closing peer marks its tracks closed, and  *)
(* the logger sums what the tracks received since its last tick and        *)
(* forgets those that are closed (GetTracksPacketsDelta).                  *)
(*                                                                         *)
(* The loads and stores of a track's counters are steps of their own,      *)
(* except that bytes and losses share some: no property compares one       *)
(* counter with another.  The additions to the totals of EndRange are one  *)
(* step: while the logger is there nobody else reads a total.              *)
(***************************************************************************)
EXTENDS Integers, FiniteSets, Functions

CONSTANTS
    Tracks,       \* the tracks of a peer
    AudioTracks,  \* those of kind audio; the others are video
    MaxPackets,   \* bound: packets received on a track
    Losses        \* what ReportPacket may report

ASSUME TracksAssumption ==
    /\ IsFiniteSet(Tracks) /\ Tracks # {}
    /\ AudioTracks \subseteq Tracks
    /\ MaxPackets \in Nat
    /\ Losses \subseteq Nat

Kinds == {"audio", "video"}
Kind(t) == IF t \in AudioTracks THEN "audio" ELSE "video"

Counters == {"packets", "bytes", "lost"}
Zero == [c \in Counters |-> 0]
NoEntry == [c \in Counters |-> -1]

\* Stands for the current track when there is none.
AnyTrack == CHOOSE t \in Tracks : TRUE

VARIABLES
    reader,    \* the goroutine of newTrackInfo
    count,     \* rtpPackets, rtpBuffer and rtpLostPackets
    closed,    \* trackInfoImpl.closed
    intro,     \* handleTrack and OnTrack
    baseline,  \* the counters OnTrack has read for its entry
    tracks,    \* callbacks.tracks: the counters at the last visit
    logger,    \* the logger in GetTracksPacketsDelta
    due,       \* the tracks Range has still to visit
    current,   \* the track Range is at
    seen,      \* the counters read of it
    delta,     \* what the tracks received since the last tick
    TotalTracks, CurrentTracks, Total

readerVars == <<reader, count>>
introVars  == <<intro, baseline>>
loggerVars == <<logger, due, current, seen, delta>>
vars == <<readerVars, closed, introVars, tracks, loggerVars,
          TotalTracks, CurrentTracks, Total>>

Registered == {t \in Tracks : tracks[t] # NoEntry}

Init ==
    /\ reader = [t \in Tracks |-> "none"]
    /\ count = [t \in Tracks |-> Zero]
    /\ closed = [t \in Tracks |-> FALSE]
    /\ intro = [t \in Tracks |-> "none"]
    /\ baseline = [t \in Tracks |-> Zero]
    /\ tracks = [t \in Tracks |-> NoEntry]
    /\ logger = "idle"
    /\ due = {}
    /\ current = AnyTrack
    /\ seen = Zero
    /\ delta = [k \in Kinds |-> Zero]
    /\ TotalTracks = [k \in Kinds |-> 0]
    /\ CurrentTracks = [k \in Kinds |-> 0]
    /\ Total = [k \in Kinds |-> Zero]

-----------------------------------------------------------------------------
(* The reader of a track.                                                  *)

Read(t, from, to) == reader[t] = from /\ reader' = [reader EXCEPT ![t] = to]

ReceivePacket(t) ==
    /\ count[t]["packets"] < MaxPackets
    /\ Read(t, "read", "count")
    /\ count' = [count EXCEPT ![t]["packets"] = @ + 1]
    /\ UNCHANGED <<closed, introVars, tracks, loggerVars, TotalTracks, CurrentTracks, Total>>

\* The bytes and the losses are added one after the other; the counters are never
\* compared with one another, and so one step stands for both.
CountBytesAndLost(t) ==
    /\ Read(t, "count", "read")
    /\ \E lost \in Losses :
          count' = [count EXCEPT ![t]["bytes"] = @ + 1, ![t]["lost"] = @ + lost]
    /\ UNCHANGED <<closed, introVars, tracks, loggerVars, TotalTracks, CurrentTracks, Total>>

\* ReadRTP fails: the track or its peer is gone.
ReaderEnds(t) ==
    /\ Read(t, "read", "ended")
    /\ closed' = [closed EXCEPT ![t] = TRUE]
    /\ UNCHANGED <<count, introVars, tracks, loggerVars, TotalTracks, CurrentTracks, Total>>

\* closeAllTracks, from the handler of a failed or closed state; the readers go on
\* with what pion has buffered.
CloseAllTracks ==
    /\ \E t \in Tracks : intro[t] # "none" /\ ~closed[t]
    /\ closed' = [t \in Tracks |-> closed[t] \/ intro[t] # "none"]
    /\ UNCHANGED <<readerVars, introVars, tracks, loggerVars,
                   TotalTracks, CurrentTracks, Total>>

-----------------------------------------------------------------------------
(* handleTrack and OnTrack.                                                *)

Introduce(t, from, to) == intro[t] = from /\ intro' = [intro EXCEPT ![t] = to]

\* newTrackInfo starts the reader, handleTrack appends the track to those of the peer.
NewTrack(t) ==
    /\ Introduce(t, "none", "tracks")
    /\ Read(t, "none", "read")
    /\ UNCHANGED <<count, closed, baseline, tracks, loggerVars,
                   TotalTracks, CurrentTracks, Total>>

CountTrack(t) ==
    /\ Introduce(t, "tracks", "packets")
    /\ TotalTracks' = [TotalTracks EXCEPT ![Kind(t)] = @ + 1]
    /\ CurrentTracks' = [CurrentTracks EXCEPT ![Kind(t)] = @ + 1]
    /\ UNCHANGED <<readerVars, closed, baseline, tracks, loggerVars, Total>>

\* Total...Packets, Total...Bytes and TotalLost...Packets, in this order.
NextTotal(c) == CASE c = "packets" -> "bytes"
                  [] c = "bytes" -> "lost"
                  [] OTHER -> "baseline bytes"

AddTotal(t, c) ==
    /\ Introduce(t, c, NextTotal(c))
    /\ Total' = [Total EXCEPT ![Kind(t)][c] = @ + count[t][c]]
    /\ UNCHANGED <<readerVars, closed, baseline, tracks, loggerVars,
                   TotalTracks, CurrentTracks>>

\* The counters are read again for the entry ...
ReadBaseline(t, c) ==
    /\ c \in {"bytes", "packets"}
    /\ Introduce(t, IF c = "bytes" THEN "baseline bytes" ELSE "baseline packets",
                    IF c = "bytes" THEN "baseline packets" ELSE "store")
    /\ baseline' = [baseline EXCEPT ![t][c] = count[t][c]]
    /\ UNCHANGED <<readerVars, closed, tracks, loggerVars,
                   TotalTracks, CurrentTracks, Total>>

\* A Range under way may visit an entry that is stored meanwhile, or miss it.
InRange(t) ==
    \/ due' = due
    \/ logger \notin {"idle", "ended"} /\ due' = due \cup {t}

\* Mutation: the entry starts from zero, although the totals do not.
StoreZero(t) ==
    /\ Introduce(t, "store", "done")
    /\ tracks' = [tracks EXCEPT ![t] = Zero]
    /\ baseline' = [baseline EXCEPT ![t] = Zero]
    /\ InRange(t)
    /\ UNCHANGED <<readerVars, closed, logger, current, seen, delta,
                   TotalTracks, CurrentTracks, Total>>

\* ... which is stored with the losses read last.
StoreTrack(t) ==
    /\ Introduce(t, "store", "done")
    /\ tracks' = [tracks EXCEPT ![t] = [baseline[t] EXCEPT !["lost"] = count[t]["lost"]]]
    /\ baseline' = [baseline EXCEPT ![t] = Zero]
    /\ InRange(t)
    /\ UNCHANGED <<readerVars, closed, logger, current, seen, delta,
                   TotalTracks, CurrentTracks, Total>>

-----------------------------------------------------------------------------
(* GetTracksPacketsDelta, which only the logger calls.                     *)

Log(from, to) == logger = from /\ logger' = to

\* A tick.  Range visits every entry there is at its start.
StartRange ==
    /\ Log("idle", "range")
    /\ due' = Registered
    /\ UNCHANGED <<readerVars, closed, introVars, tracks, current, seen, delta,
                   TotalTracks, CurrentTracks, Total>>

\* The track and the counters read are locals of one visit.
LeaveTrack == current' = AnyTrack /\ seen' = Zero

\* The next entry: its packets are read first.
Visit(t) ==
    /\ t \in due
    /\ Log("range", "read")
    /\ due' = due \ {t}
    /\ current' = t
    /\ seen' = [Zero EXCEPT !["packets"] = count[t]["packets"]]
    /\ UNCHANGED <<readerVars, closed, introVars, tracks, delta,
                   TotalTracks, CurrentTracks, Total>>

\* Then the losses and the bytes, after which the delta takes the growth since the
\* last visit.
ReadLostAndBytes ==
    /\ Log("read", "check")
    /\ seen' = [count[current] EXCEPT !["packets"] = seen["packets"]]
    /\ delta' = [delta EXCEPT ![Kind(current)] =
                    [c \in Counters |-> @[c] + seen'[c] - tracks[current][c]]]
    /\ UNCHANGED <<readerVars, closed, introVars, tracks, due, current,
                   TotalTracks, CurrentTracks, Total>>

\* Mutation: a track that received nothing is passed over.
ForgetActive ==
    /\ closed[current]
    /\ seen # tracks[current]
    /\ Log("check", "uncount")
    /\ tracks' = [tracks EXCEPT ![current] = NoEntry]
    /\ UNCHANGED <<readerVars, closed, introVars, due, current, seen, delta,
                   TotalTracks, CurrentTracks, Total>>

\* IsClosed is asked after the counters were read; the entry goes ...
Forget ==
    /\ closed[current]
    /\ Log("check", "uncount")
    /\ tracks' = [tracks EXCEPT ![current] = NoEntry]
    /\ UNCHANGED <<readerVars, closed, introVars, due, current, seen, delta,
                   TotalTracks, CurrentTracks, Total>>

\* Mutation: the track is uncounted as video, whatever its kind.
UncountVideo ==
    /\ Log("uncount", "range")
    /\ CurrentTracks' = [CurrentTracks EXCEPT !["video"] = @ - 1]
    /\ LeaveTrack
    /\ UNCHANGED <<readerVars, closed, introVars, tracks, due, delta,
                   TotalTracks, Total>>

\* Mutation: a forgotten track remains counted.
UncountNothing ==
    /\ Log("uncount", "range")
    /\ LeaveTrack
    /\ UNCHANGED <<readerVars, closed, introVars, tracks, due, delta,
                   TotalTracks, CurrentTracks, Total>>

\* ... and then the track is no longer counted.
UncountTrack ==
    /\ Log("uncount", "range")
    /\ CurrentTracks' = [CurrentTracks EXCEPT ![Kind(current)] = @ - 1]
    /\ LeaveTrack
    /\ UNCHANGED <<readerVars, closed, introVars, tracks, due, delta,
                   TotalTracks, Total>>

\* Mutation: bytes and packets change places in the entry.
RenewSwapped ==
    /\ ~closed[current]
    /\ Log("check", "range")
    /\ tracks' = [tracks EXCEPT ![current] =
                     [seen EXCEPT !["packets"] = seen["bytes"], !["bytes"] = seen["packets"]]]
    /\ LeaveTrack
    /\ UNCHANGED <<readerVars, closed, introVars, due, delta,
                   TotalTracks, CurrentTracks, Total>>

\* An open track's entry is brought up to what was read.
Renew ==
    /\ ~closed[current]
    /\ Log("check", "range")
    /\ tracks' = [tracks EXCEPT ![current] = seen]
    /\ LeaveTrack
    /\ UNCHANGED <<readerVars, closed, introVars, due, delta,
                   TotalTracks, CurrentTracks, Total>>

\* Mutation: the delta is not reset for the next tick.
EndRangeKeepsDelta ==
    /\ due = {}
    /\ Log("range", "idle")
    /\ Total' = [k \in Kinds |-> [c \in Counters |-> Total[k][c] + delta[k][c]]]
    /\ UNCHANGED <<readerVars, closed, introVars, tracks, due, current, seen, delta,
                   TotalTracks, CurrentTracks>>

\* Range is over: the totals grow by the delta, which starts from zero at each call.
EndRange ==
    /\ due = {}
    /\ Log("range", "idle")
    /\ Total' = [k \in Kinds |-> [c \in Counters |-> Total[k][c] + delta[k][c]]]
    /\ delta' = [k \in Kinds |-> Zero]
    /\ UNCHANGED <<readerVars, closed, introVars, tracks, due, current, seen,
                   TotalTracks, CurrentTracks>>

\* Or the logger ends, without a last look at the tracks: the context is done or no
\* connection is counted.
EndLogger ==
    /\ Log("idle", "ended")
    /\ UNCHANGED <<readerVars, closed, introVars, tracks, due, current, seen, delta,
                   TotalTracks, CurrentTracks, Total>>

Logger ==
    \/ StartRange \/ EndLogger
    \/ \E t \in Tracks : Visit(t)
    \/ ReadLostAndBytes
    \/ Forget \/ UncountTrack \/ Renew
    \/ EndRange

Next ==
    \/ \E t \in Tracks :
          \/ ReceivePacket(t) \/ CountBytesAndLost(t) \/ ReaderEnds(t)
          \/ NewTrack(t) \/ CountTrack(t)
          \/ \E c \in Counters : AddTotal(t, c) \/ ReadBaseline(t, c)
          \/ StoreTrack(t)
    \/ CloseAllTracks
    \/ Logger

Spec == Init /\ [][Next]_vars

\* The ticker fires until the logger ends, and GetTracksPacketsDelta never blocks;
\* nothing is assumed of the tracks.
FairSpec == Spec /\ WF_vars(Logger)

-----------------------------------------------------------------------------
(* Properties.                                                             *)

Labels == {"none", "tracks", "packets", "bytes", "lost",
           "baseline bytes", "baseline packets", "store", "done"}

Types ==
    /\ reader \in [Tracks -> {"none", "read", "count", "ended"}]
    /\ count \in [Tracks -> [Counters -> Nat]]
    /\ closed \in [Tracks -> BOOLEAN]
    /\ intro \in [Tracks -> Labels]
    /\ baseline \in [Tracks -> [Counters -> Nat]]
    /\ tracks \in [Tracks -> [Counters -> Nat] \cup {NoEntry}]
    /\ logger \in {"idle", "range", "read", "check", "uncount", "ended"}
    /\ due \in SUBSET Tracks
    /\ current \in Tracks
    /\ seen \in [Counters -> Nat]
    /\ delta \in [Kinds -> [Counters -> Int]]
    /\ TotalTracks \in [Kinds -> Nat]
    /\ CurrentTracks \in [Kinds -> Int]
    /\ Total \in [Kinds -> [Counters -> Int]]

\* The types; the signed CurrentAudioTracks and CurrentVideoTracks never fall below zero.
TypeOK == Types /\ \A k \in Kinds : CurrentTracks[k] >= 0

\* The unsigned subtractions of GetTracksPacketsDelta never wrap: what the logger reads
\* of a counter is at least what its entry holds, although the reader, OnTrack and the
\* logger read and write them with nothing held.
NoUnderflow ==
    /\ \A k \in Kinds, c \in Counters : delta[k][c] >= 0
    /\ logger = "check" => \A c \in Counters : tracks[current][c] <= seen[c]

KindOf(k) == {t \in Tracks : Kind(t) = k}

\* No packet, byte or loss is counted twice, although OnTrack adds a track's counters to
\* the totals while its reader counts on: totals and delta never exceed the counters.
NoOvercount ==
    \A k \in Kinds, c \in Counters :
        Total[k][c] + delta[k][c] <= SumFunctionOnSet([t \in Tracks |-> count[t][c]], KindOf(k))

\* The tracks OnTrack has counted and the logger not yet uncounted.
Counted(t) ==
    \/ intro[t] \notin {"none", "tracks", "done"}
    \/ tracks[t] # NoEntry
    \/ logger = "uncount" /\ current = t

\* CurrentAudioTracks and CurrentVideoTracks are the tracks that are registered, but for
\* those OnTrack or the logger is in the middle of: a track closed before OnTrack stored
\* its entry is uncounted once, no more and no less.
CurrentTracksAgree ==
    \A k \in Kinds : CurrentTracks[k] = Cardinality({t \in KindOf(k) : Counted(t)})

\* A closed track is forgotten while the logger lasts, whenever it was closed.
ClosedTracksForgotten ==
    \A t \in Tracks :
        closed[t] /\ tracks[t] # NoEntry ~> tracks[t] = NoEntry \/ logger = "ended"

\* A test says of the logger that it counts the packets of a closed track for the last
\* time before it removes the track: nothing of a track whose reader has ended is left
\* uncounted by the removal.
LastCountBeforeRemoval ==
    [][\A t \in Tracks :
          tracks[t] # NoEntry /\ tracks'[t] = NoEntry /\ reader[t] = "ended"
             => seen = count[t]]_vars
=============================================================================
