----------------------------- MODULE LostPackets -----------------------------
(***************************************************************************)
(* lostPacketsTracker, which a track's reader asks after every packet how  *)
(* many before it were lost.  Packets wait in a buffer sorted by sequence  *)
(* number until they are older than the buffer is long; gaps are counted   *)
(* as they leave it.                                                       *)
(*                                                                         *)
(* The sender numbers packets and stamps them with the time; the network   *)
(* loses and delays them.  A packet is named by its place in the stream,   *)
(* from which its 16-bit sequence number and its timestamp follow.  The    *)
(* timestamps, in milliseconds, wrap long before the 32-bit word does that *)
(* the cut-off is computed in.                                             *)
(***************************************************************************)
EXTENDS Integers, Sequences, FiniteSets

CONSTANTS
    MaxSent,         \* bound: packets of the stream
    Gaps,            \* the times between two packets
    FirstSeqs,       \* the sequence numbers a stream may start with
    FirstTimes,      \* the times it may start at
    SeqRange,        \* 2^16
    TimeRange,       \* timestamps wrap here: 2^32 over the clock rate in kHz
    WordRange,       \* 2^32
    BufferDuration

ASSUME StreamAssumption ==
    /\ MaxSent \in Nat
    /\ Gaps \subseteq Nat /\ FirstTimes \subseteq Nat
    /\ SeqRange \in Nat \ {0} /\ FirstSeqs \subseteq 0 .. SeqRange - 1
    /\ TimeRange \in Nat \ {0}
    /\ WordRange \in Nat /\ WordRange >= TimeRange
    /\ BufferDuration \in Nat /\ BufferDuration < WordRange

VARIABLES
    first,    \* the first sequence number
    time,     \* when each packet was sent
    arrived,  \* the packets that were received
    late,     \* one came when a packet it precedes may have left the buffer
    origin,   \* the first packet to leave the buffer
    packets,  \* the buffer: packets and timestamps of the tracker
    started, lastSeq,
    lost      \* the sum of what ReportPacket has returned

streamVars == <<first, time, arrived, late, origin>>
trackerVars == <<packets, started, lastSeq, lost>>
vars == <<streamVars, trackerVars>>

SeqOf(p) == (first + p) % SeqRange
Timestamp(p) == time[p] % TimeRange

Init ==
    /\ first \in FirstSeqs
    /\ \E t \in FirstTimes : time = <<t>>
    /\ arrived = {}
    /\ late = FALSE
    /\ origin = 0
    /\ packets = <<>>
    /\ started = FALSE
    /\ lastSeq = 0
    /\ lost = 0

-----------------------------------------------------------------------------
(* ReportPacket.                                                           *)

\* sort.SearchInts: the first place whose number is not smaller.
Places(p) ==
    {i \in 1 .. Len(packets) + 1 :
        /\ \A j \in 1 .. i - 1 : SeqOf(packets[j]) < SeqOf(p)
        /\ i <= Len(packets) => SeqOf(packets[i]) >= SeqOf(p)}

\* Mutation: a packet is put at the end.
AppendPacket(p) == {Append(packets, p)}

\* The buffer with the packet at its place.
AddPacket(p) ==
    {[j \in 1 .. Len(packets) + 1 |->
        IF j < i THEN packets[j] ELSE IF j = i THEN p ELSE packets[j - 1]] : i \in Places(p)}

\* Unsigned: before the buffer's first length has passed it is a very late time.
CutOff(p) == (Timestamp(p) - BufferDuration) % WordRange

\* Mutation: an if in place of the loop.
LeavingOne(p, buffer) == {IF Timestamp(buffer[1]) < CutOff(p) THEN 1 ELSE 0}

\* The loop ends at the first packet that is not older than the cut-off.
Leaving(p, buffer) ==
    {n \in 0 .. Len(buffer) :
        /\ \A i \in 1 .. n : Timestamp(buffer[i]) < CutOff(p)
        /\ n < Len(buffer) => Timestamp(buffer[n + 1]) >= CutOff(p)}

\* Mutations: the difference is taken of numbers in any order; the number after the gap is
\* counted; a single lost packet is not.
GapSigned(last, seq) == seq - last - 1
GapInclusive(last, seq) == IF seq > last + 1 THEN seq - last ELSE 0
GapOfTwo(last, seq) == IF seq > last + 2 THEN seq - last - 1 ELSE 0

Gap(last, seq) == IF seq > last + 1 THEN seq - last - 1 ELSE 0

\* Mutation: the first packet is compared with zero.
BeforeZero(buffer, i) == IF i > 1 THEN SeqOf(buffer[i - 1]) ELSE lastSeq

\* lastSeq as the loop reaches the i-th packet; the first of all sets it.
Before(buffer, i) ==
    IF i > 1 THEN SeqOf(buffer[i - 1])
    ELSE IF started THEN lastSeq ELSE SeqOf(buffer[1])

\* What the loop has dropped after its first n packets.
Dropped(buffer, n) ==
    LET dropped[i \in 0 .. n] ==
            IF i = 0 THEN 0
            ELSE dropped[i - 1] + Gap(Before(buffer, i), SeqOf(buffer[i]))
    IN  dropped[n]

ReportPacket(p) ==
    \E buffer \in AddPacket(p) : \E n \in Leaving(p, buffer) :
        /\ packets' = SubSeq(buffer, n + 1, Len(buffer))
        /\ started' = (started \/ n > 0)
        /\ lastSeq' = IF n > 0 THEN SeqOf(buffer[n]) ELSE lastSeq
        /\ lost' = lost + Dropped(buffer, n)
        /\ origin' = IF n > 0 /\ ~started THEN buffer[1] ELSE origin

-----------------------------------------------------------------------------
(* The stream.  A packet that never arrives is lost.                       *)

Sent == 1 .. Len(time)

Send(gap) ==
    /\ Len(time) < MaxSent
    /\ time' = Append(time, time[Len(time)] + gap)
    /\ UNCHANGED <<first, arrived, late, origin, trackerVars>>

\* ReadRTP returns a packet; none twice, as SRTP drops a replay.
Receive(p) ==
    /\ p \in Sent \ arrived
    /\ arrived' = arrived \cup {p}
    /\ late' = (late \/ \E q \in arrived : time[q] > time[p] + BufferDuration)
    /\ ReportPacket(p)
    /\ UNCHANGED <<first, time>>

Next ==
    \/ \E gap \in Gaps : Send(gap)
    \/ \E p \in 1 .. MaxSent : Receive(p)

Spec == Init /\ [][Next]_vars

-----------------------------------------------------------------------------
(* Properties.                                                             *)

TypeOK ==
    /\ packets \in Seq(1 .. MaxSent)
    /\ started \in BOOLEAN
    /\ lastSeq \in 0 .. SeqRange - 1
    /\ lost \in Nat

\* The packets in the buffer, and those that have left it.
Held == {packets[i] : i \in 1 .. Len(packets)}
Left == arrived \ Held

\* The packets of the stream that should have left the buffer between two that have.
Missing ==
    {p \in Sent \ arrived : \E q, r \in Left : q < p /\ p < r}

\* No sequence number wraps; no timestamp does, and no cut-off underflows.
NoSeqWrap == first + Len(time) < SeqRange
NoTimeWrap == time[1] >= BufferDuration /\ time[Len(time)] < TimeRange

\* The buffer is sorted, whatever order packets come in: SearchInts relies on it.
Sorted ==
    \A i, j \in 1 .. Len(packets) : i < j => SeqOf(packets[i]) <= SeqOf(packets[j])

\* If no packet is later than the buffer is long, and no number wraps, the losses are the
\* packets that never came, each counted once, in whatever order the others came.
LossesExact == NoSeqWrap /\ NoTimeWrap /\ ~late => lost = Cardinality(Missing)

\* While no sequence number wraps, the losses are never fewer than the packets missing after the
\* first to leave, whatever the timestamps.  They may be more: a late packet moves lastSeq
\* back, and what follows it is counted again.
LossesNotMissed ==
    NoSeqWrap => lost >= Cardinality({p \in Missing : p > origin})

\* If no packet is late and no number wraps, none is held when one has come that is newer
\* by more than the buffer is long.
HeldBriefly ==
    NoSeqWrap /\ NoTimeWrap /\ ~late =>
        \A p \in Held : \A q \in arrived : time[q] <= time[p] + BufferDuration

\* Where the sequence numbers wrap once but no timestamp does, losses may be hidden, but none
\* is made up: never more are reported than packets have not come, if none is later than the
\* buffer is long.  (The packets before the wrap stay in the buffer behind those after it;
\* once the numbers come round to theirs, they leave among packets of the next cycle, and
\* what is then still on its way can count as lost.)
NoSpuriousLoss ==
    Len(time) <= SeqRange /\ NoTimeWrap /\ ~late => lost <= Cardinality(Missing)
=============================================================================
