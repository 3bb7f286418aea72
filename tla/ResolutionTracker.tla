-------------------------- MODULE ResolutionTracker --------------------------
(***************************************************************************)
(* The tracker that asks the server for the video track nearest below a    *)
(* target height.  Two goroutines update it: the metadata reader, at every *)
(* message, and a timer, once, with a copy of what was available then.     *)
(* updateTracks reads the index and the time of the last switch under the  *)
(* lock, writes to the signaling socket without it, and takes it again to  *)
(* store what it has switched to; so do the labels below.                  *)
(*                                                                         *)
(* Signaling says when a goroutine runs and what becomes of its writes.    *)
(***************************************************************************)
EXTENDS Integers, FiniteSets, SequencesExt

CONSTANTS
    Offers,        \* the metadata messages: sets of tracks
    TargetHeight,  \* 0: there is no tracker
    TargetCodec    \* "": none preferred

Updaters == {"metadata", "timer"}

\* No track has this index.
NoIdx == -1

ASSUME TrackerAssumption ==
    /\ \A offer \in Offers :
           /\ IsFiniteSet(offer)
           /\ \A t \in offer : t.idx \in Nat /\ t.height \in Nat
    /\ TargetHeight \in Nat

VARIABLES
    at,               \* where each updater is
    best,             \* bestIdx of an updater that switches
    copied,           \* the timer's copy of availableTracks
    availableTracks,
    currentIdx,
    cooling,          \* lastSwitchTime is less than the cooldown ago
    playing,          \* the last index the server was sent
    burst,            \* switches stored since the last one that found no cooldown
    raced             \* two updaters have been past the checks at once

switchVars == <<best, currentIdx, cooling, playing, burst>>
trackerVars == <<at, switchVars, copied, availableTracks, raced>>

TrackerInit ==
    /\ at = [u \in Updaters |-> "idle"]
    /\ best = [u \in Updaters |-> NoIdx]
    /\ copied = {}
    /\ availableTracks = {}
    /\ currentIdx = 0
    /\ cooling = FALSE
    /\ playing = NoIdx
    /\ burst = 0
    /\ raced = FALSE

-----------------------------------------------------------------------------
(* The choice of a track.                                                  *)

\* newResolutionTracker: H264 unless a codec is preferred.
WantedCodec == IF TargetHeight > 0 /\ TargetCodec = "" THEN "H264" ELSE TargetCodec

\* Codecs are names without regard to case, as strings.EqualFold compares them.
Matches(t) == WantedCodec \in {"", t.codec}

\* extractTracksFromMetadata takes the video tracks out of a map.
ExtractTracks(offer) == {t \in offer : t.type = "video"}

NoTrack == [idx |-> NoIdx, height |-> 0]

AtOrBelow(found, t) ==
    IF Matches(t) /\ t.height <= TargetHeight /\ t.height > found.height THEN t ELSE found

Lowest(found, t) ==
    IF Matches(t) /\ (found = NoTrack \/ t.height < found.height) THEN t ELSE found

\* Mutation: the target is not looked at.
FindLowestOnly(tracks) == FoldLeft(Lowest, NoTrack, tracks).idx

\* findBestTrackIndex; NoIdx stands for found = false.
FindBestTrackIndex(tracks) ==
    LET below == FoldLeft(AtOrBelow, NoTrack, tracks)
    IN  IF below # NoTrack THEN below.idx ELSE FoldLeft(Lowest, NoTrack, tracks).idx

\* What it may find, as the tracks come in any order of the map.
FoundIdxs ==
    [tracks \in {ExtractTracks(offer) : offer \in Offers} |->
        {FindBestTrackIndex(order) : order \in SetToSeqs(tracks)}]

-----------------------------------------------------------------------------
(* updateTracks.                                                           *)

Move(u, from, to) == at[u] = from /\ at' = [at EXCEPT ![u] = to]

\* The metadata reader reads on, the timer's goroutine ends.
Leave(u, from) == Move(u, from, IF u = "timer" THEN "done" ELSE "idle")

Switching(u) == at[u] \in {"write", "store"}

\* Mutations: found, the cooldown or a lower index is not looked at.
WantsUnfound(idx) == ~cooling /\ idx # currentIdx
WantsAnyTime(idx) == idx \notin {NoIdx, currentIdx}
WantsHigher(idx) == ~cooling /\ idx > currentIdx

\* The checks between the unlock and the write.
Wants(idx) == ~cooling /\ idx \notin {NoIdx, currentIdx}

\* The first critical section, and the checks of what it has copied.
UpdateTracks(u, from, tracks) ==
    /\ at[u] = from
    /\ availableTracks' = tracks
    /\ \E idx \in FoundIdxs[tracks] :
          IF Wants(idx)
          THEN /\ Move(u, from, "write")
               /\ best' = [best EXCEPT ![u] = idx]
               /\ raced' = (raced \/ \E v \in Updaters \ {u} : Switching(v))
          ELSE Leave(u, from) /\ UNCHANGED <<best, raced>>
    /\ UNCHANGED <<currentIdx, cooling, playing, burst>>

\* An updater returns; its locals are gone.
Return(u, from) ==
    /\ Leave(u, from)
    /\ best' = [best EXCEPT ![u] = NoIdx]

\* WriteJSON has sent the message ...
SwitchSent(u) ==
    /\ Move(u, "write", "store")
    /\ playing' = best[u]
    /\ UNCHANGED <<best, currentIdx, cooling, burst, copied, availableTracks, raced>>

\* Mutation: the index is taken over although the write failed.
SwitchFailsStores(u) ==
    /\ Return(u, "write")
    /\ currentIdx' = best[u]
    /\ UNCHANGED <<cooling, playing, burst, copied, availableTracks, raced>>

\* ... or has not, and nothing is stored.
SwitchFails(u) ==
    /\ Return(u, "write")
    /\ UNCHANGED <<currentIdx, cooling, playing, burst, copied, availableTracks, raced>>

\* The second critical section.
StoreSwitch(u) ==
    /\ Return(u, "store")
    /\ currentIdx' = best[u]
    /\ cooling' = TRUE
    /\ burst' = IF cooling THEN burst + 1 ELSE 1
    /\ UNCHANGED <<playing, copied, availableTracks, raced>>

CooldownEnds ==
    /\ cooling
    /\ cooling' = FALSE
    /\ UNCHANGED <<at, best, currentIdx, playing, burst, copied, availableTracks, raced>>

-----------------------------------------------------------------------------
(* The updaters.                                                           *)

\* A metadata message that lists video tracks.
Metadata(offer) ==
    /\ ExtractTracks(offer) # {}
    /\ UpdateTracks("metadata", "idle", ExtractTracks(offer))
    /\ UNCHANGED copied

\* triggerInitialTrackCheck, once there is an answer.
ArmTimer ==
    IF TargetHeight > 0 THEN Move("timer", "idle", "armed") ELSE UNCHANGED at

\* The timer fires: a copy under the read lock ...
CopyTracks ==
    /\ Move("timer", "armed", IF availableTracks = {} THEN "done" ELSE "copied")
    /\ copied' = availableTracks
    /\ UNCHANGED <<switchVars, availableTracks, raced>>

\* ... which updateTracks stores again and works with.
ApplyCopy ==
    /\ UpdateTracks("timer", "copied", copied)
    /\ copied' = {}

-----------------------------------------------------------------------------
(* Properties.                                                             *)

Idxs == {t.idx : t \in UNION Offers}

TrackerTypeOK ==
    /\ at \in [Updaters -> {"idle", "armed", "copied", "write", "store", "done"}]
    /\ best \in [Updaters -> Idxs \cup {NoIdx}]
    /\ currentIdx \in Idxs \cup {0}
    /\ playing \in Idxs \cup {NoIdx}
    /\ {cooling, raced} \subseteq BOOLEAN
    /\ burst \in Nat

\* What the flag's description asks for, without reference to an order: the highest
\* track at or below the target, or the lowest if there is none.
Candidates(offer) == {t \in offer : t.type = "video" /\ Matches(t)}
BestTracks(offer) ==
    LET below == {t \in Candidates(offer) : t.height \in 1 .. TargetHeight}
    IN  IF below # {}
        THEN {t \in below : \A s \in below : s.height <= t.height}
        ELSE {t \in Candidates(offer) : \A s \in Candidates(offer) : t.height <= s.height}
BestIdxs(offer) == {t.idx : t \in BestTracks(offer)}

\* Every switch asks for the best track of one message, never of a mixture of two or of
\* none, whichever goroutine makes it and however old its copy is.
SwitchesToBest ==
    \A u \in Updaters :
        Switching(u) => \E offer \in Offers : best[u] \in BestIdxs(offer)

\* What the tracker takes to be playing is what the server was last asked for, unless two
\* updates have overlapped or one is about to store its index.  Index 0 is assumed
\* before the first switch.
IndexAgrees ==
    ~raced /\ (\A u \in Updaters : at[u] # "store") =>
        currentIdx = IF playing = NoIdx THEN 0 ELSE playing

\* The cooldown is read before the write and set after it, and so may be overrun, but by
\* the timer only, and only once: metadata never switches twice within a cooldown.
CooldownOverrunOnce ==
    burst <= IF at["timer"] \in {"idle", "armed", "copied"} THEN 1 ELSE 2
=============================================================================
