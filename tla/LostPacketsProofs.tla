-------------------------- MODULE LostPacketsProofs --------------------------
(***************************************************************************)
(* Theorems about LostPackets, for streams of any length that start with   *)
(* any number, wraps of the numbers and the timestamps included.           *)
(*                                                                         *)
(* LossInv is the inductive invariant.  SkippedCounted looks at what has   *)
(* left the buffer: the numbers it passed over are counted, each at least  *)
(* once.  CalmInv looks at what has come while nothing is late: packets    *)
(* leave in the order of the stream, the last number is that of the newest *)
(* to have left, and a gap between two of them is of packets that will not *)
(* come any more.  A packet from before a wrap stays behind those after    *)
(* it, so that none leaves once one of those has come (NewestStays).       *)
(* The loop of ReportPacket is a sum, whose terms are found by induction.  *)
(***************************************************************************)
EXTENDS LostPackets, InductionLemmas, SequenceTheorems, FiniteSetTheorems, TLAPS

-----------------------------------------------------------------------------
(* The buffer.                                                             *)

\* The buffer holds packets of the stream, by number.
Buffered ==
    /\ first \in Nat
    /\ time # <<>> /\ time \in Seq(Nat)
    /\ packets \in Seq(1 .. Len(time))

\* What a search of the buffer relies on.
SortedInv == Buffered /\ Sorted

\* A buffer that is sorted by number.
InOrder(buffer) ==
    \A i, j \in 1 .. Len(buffer) : i < j => SeqOf(buffer[i]) <= SeqOf(buffer[j])

\* A sequence number is a number of the range.
LEMMA SeqOfType == Buffered => \A p \in Nat : SeqOf(p) \in 0 .. SeqRange - 1
BY StreamAssumption DEF StreamAssumption, Buffered, SeqOf

\* The packet is put where the order is kept.
LEMMA InsertionKeepsOrder ==
    ASSUME SortedInv, NEW p \in 1 .. Len(time), NEW buffer \in AddPacket(p)
    PROVE  buffer \in Seq(1 .. Len(time)) /\ InOrder(buffer)
<1>1. Len(time) \in Nat /\ Len(packets) \in Nat /\ packets \in [1 .. Len(packets) -> 1 .. Len(time)]
  BY LenProperties DEF SortedInv, Buffered
<1>2. PICK i \in Places(p) :
        buffer = [j \in 1 .. Len(packets) + 1 |->
                     IF j < i THEN packets[j] ELSE IF j = i THEN p ELSE packets[j - 1]]
  BY DEF AddPacket
<1>3. i \in 1 .. Len(packets) + 1
  BY DEF Places
<1>4. \A j \in 1 .. Len(packets) + 1 : buffer[j] \in 1 .. Len(time)
  <2> TAKE j \in 1 .. Len(packets) + 1
  <2>1. CASE j < i
    <3>1. j \in 1 .. Len(packets) /\ buffer[j] = packets[j]
      BY <1>1, <1>2, <1>3, <2>1
    <3>2. QED
      BY <1>1, <3>1
  <2>2. CASE j = i
    BY <1>2, <2>2
  <2>3. CASE j > i
    <3>1. j - 1 \in 1 .. Len(packets) /\ buffer[j] = packets[j - 1]
      BY <1>1, <1>2, <1>3, <2>3
    <3>2. QED
      BY <1>1, <3>1
  <2>4. QED
    BY <1>1, <1>3, <2>1, <2>2, <2>3
<1>5. buffer \in Seq(1 .. Len(time)) /\ Len(buffer) = Len(packets) + 1
  BY <1>1, <1>2, <1>4
<1>6. \A q \in 1 .. Len(time) : SeqOf(q) \in Int
  BY SeqOfType, <1>1, StreamAssumption DEF SortedInv, StreamAssumption
<1>7. \A j, k \in 1 .. Len(packets) : j < k => SeqOf(packets[j]) <= SeqOf(packets[k])
  BY DEF SortedInv, Sorted
<1>8. \A j \in 1 .. i - 1 : SeqOf(packets[j]) < SeqOf(p)
  BY DEF Places
<1>9. \A k \in i .. Len(packets) : SeqOf(p) <= SeqOf(packets[k])
  <2> TAKE k \in i .. Len(packets)
  <2>1. i \in 1 .. Len(packets) /\ k \in 1 .. Len(packets)
    BY <1>1, <1>3
  <2>2. SeqOf(p) <= SeqOf(packets[i])
    BY <1>1, <1>6, <2>1 DEF Places
  <2>3. packets[i] \in 1 .. Len(time) /\ packets[k] \in 1 .. Len(time)
    BY <1>1, <2>1
  <2>4. CASE k = i
    BY <2>2, <2>4
  <2>5. CASE i < k
    <3>1. SeqOf(packets[i]) <= SeqOf(packets[k])
      BY <1>7, <2>1, <2>5
    <3>2. QED
      BY <1>6, <2>2, <2>3, <3>1
  <2>6. QED
    BY <2>1, <2>4, <2>5
<1>10. ASSUME NEW j \in 1 .. Len(buffer), NEW k \in 1 .. Len(buffer), j < k
       PROVE  SeqOf(buffer[j]) <= SeqOf(buffer[k])
  <2>1. CASE k < i
    BY <1>1, <1>2, <1>3, <1>5, <1>7, <1>10, <2>1
  <2>2. CASE k = i
    BY <1>1, <1>2, <1>3, <1>5, <1>6, <1>8, <1>10, <2>2
  <2>3. CASE k > i /\ j < i
    BY <1>1, <1>2, <1>3, <1>5, <1>7, <1>10, <2>3
  <2>4. CASE k > i /\ j = i
    BY <1>1, <1>2, <1>3, <1>5, <1>9, <1>10, <2>4
  <2>5. CASE j > i
    <3>1. /\ buffer[j] = packets[j - 1] /\ buffer[k] = packets[k - 1]
          /\ j - 1 \in 1 .. Len(packets) /\ k - 1 \in 1 .. Len(packets) /\ j - 1 < k - 1
      BY <1>1, <1>2, <1>3, <1>5, <1>10, <2>5
    <3>2. QED
      BY <1>7, <3>1
  <2>6. QED
    BY <1>3, <1>5, <1>10, <2>1, <2>2, <2>3, <2>4, <2>5
<1>11. QED
  BY <1>5, <1>10 DEF InOrder

\* The packets that stay are in the order they were in.
LEMMA RestInOrder ==
    ASSUME NEW buffer \in Seq(Nat), InOrder(buffer), NEW n \in 0 .. Len(buffer)
    PROVE  InOrder(SubSeq(buffer, n + 1, Len(buffer)))
<1> DEFINE rest == SubSeq(buffer, n + 1, Len(buffer))
<1>1. Len(buffer) \in Nat /\ Len(rest) = Len(buffer) - n
  BY LenProperties, SubSeqProperties
<1>2. \A i \in 1 .. Len(rest) : rest[i] = buffer[i + n] /\ i + n \in 1 .. Len(buffer)
  BY <1>1, SubSeqProperties
<1> HIDE DEF rest
<1>3. ASSUME NEW i \in 1 .. Len(rest), NEW j \in 1 .. Len(rest), i < j
      PROVE  SeqOf(rest[i]) <= SeqOf(rest[j])
  <2>1. i + n < j + n
    BY <1>1, <1>3
  <2>2. SeqOf(buffer[i + n]) <= SeqOf(buffer[j + n])
    BY <1>2, <2>1 DEF InOrder
  <2>3. QED
    BY <1>2, <2>2
<1>4. QED
  BY <1>3 DEF InOrder, rest

\* The stream: times do not go back, and what has come was sent.
StreamInv ==
    /\ first \in 0 .. SeqRange - 1
    /\ time \in Seq(Nat) /\ time # <<>>
    /\ \A i, j \in 1 .. Len(time) : i <= j => time[i] <= time[j]
    /\ arrived \subseteq 1 .. Len(time) /\ arrived \subseteq 1 .. MaxSent
    /\ arrived # {} => \E newest \in arrived : \A q \in arrived : q <= newest

\* The buffer: packets that have come, none twice, in the order of their numbers.
BufferInv ==
    /\ packets \in Seq(arrived)
    /\ \A i, j \in 1 .. Len(packets) : packets[i] = packets[j] => i = j
    /\ Sorted

\* The tracker: once started, lastSeq is the number of a packet that has left the buffer.
TrackerInv ==
    /\ started \in BOOLEAN
    /\ lastSeq \in 0 .. SeqRange - 1
    /\ lost \in Nat
    /\ started => origin \in Left /\ \E last \in Left : lastSeq = SeqOf(last)
    /\ ~started => Left = {}

StateInv == StreamInv /\ BufferInv /\ TrackerInv

\* The first i packets of a buffer, and those that stay when n leave.
Leads(buffer, i) == {buffer[j] : j \in 1 .. i}

\* The new packet joins the buffer, and nothing else changes there.
LEMMA InsertionAdds ==
    ASSUME packets \in Seq(arrived),
           \A i, j \in 1 .. Len(packets) : packets[i] = packets[j] => i = j,
           NEW p, p \notin arrived, NEW buffer \in AddPacket(p)
    PROVE  /\ buffer \in Seq(arrived \cup {p})
           /\ \A i, j \in 1 .. Len(buffer) : buffer[i] = buffer[j] => i = j
           /\ Leads(buffer, Len(buffer)) = Held \cup {p}
<1>1. Len(packets) \in Nat /\ packets \in [1 .. Len(packets) -> arrived]
  BY LenProperties
<1>2. PICK i \in Places(p) :
        buffer = [j \in 1 .. Len(packets) + 1 |->
                     IF j < i THEN packets[j] ELSE IF j = i THEN p ELSE packets[j - 1]]
  BY DEF AddPacket
<1>3. i \in 1 .. Len(packets) + 1
  BY DEF Places
<1>4. ASSUME NEW j \in 1 .. Len(packets) + 1
      PROVE  /\ j < i => j \in 1 .. Len(packets) /\ buffer[j] = packets[j]
             /\ j = i => buffer[j] = p
             /\ j > i => j - 1 \in 1 .. Len(packets) /\ buffer[j] = packets[j - 1]
  BY <1>1, <1>2, <1>3
<1>5. \A j \in 1 .. Len(packets) + 1 : buffer[j] \in arrived \cup {p}
  <2> TAKE j \in 1 .. Len(packets) + 1
  <2>1. j < i \/ j = i \/ j > i
    BY <1>3
  <2>2. QED
    BY <1>1, <1>4, <2>1
<1>6. buffer \in Seq(arrived \cup {p}) /\ Len(buffer) = Len(packets) + 1
  BY <1>1, <1>2, <1>5
<1>7. ASSUME NEW j \in 1 .. Len(buffer), NEW k \in 1 .. Len(buffer), buffer[j] = buffer[k]
      PROVE  j = k
  <2>1. /\ j \in 1 .. Len(packets) + 1 /\ k \in 1 .. Len(packets) + 1
        /\ j < i \/ j = i \/ j > i
        /\ k < i \/ k = i \/ k > i
    BY <1>3, <1>6
  <2>2. \A l \in 1 .. Len(packets) : packets[l] # p
    BY <1>1
  <2>3. CASE j < i
    <3>1. j \in 1 .. Len(packets) /\ buffer[j] = packets[j]
      BY <1>4, <2>1, <2>3
    <3>2. CASE k < i
      BY <1>4, <1>7, <2>1, <3>1, <3>2
    <3>3. CASE k = i
      BY <1>4, <1>7, <2>1, <2>2, <3>1, <3>3
    <3>4. CASE k > i
      <4>1. k - 1 \in 1 .. Len(packets) /\ buffer[k] = packets[k - 1]
        BY <1>4, <2>1, <3>4
      <4>2. j = k - 1
        BY <1>7, <3>1, <4>1
      <4>3. QED
        BY <1>3, <2>1, <2>3, <3>4, <4>2
    <3>5. QED
      BY <2>1, <3>2, <3>3, <3>4
  <2>4. CASE j = i
    BY <1>4, <1>7, <2>1, <2>2, <2>4
  <2>5. CASE j > i
    <3>1. j - 1 \in 1 .. Len(packets) /\ buffer[j] = packets[j - 1]
      BY <1>4, <2>1, <2>5
    <3>2. CASE k < i
      <4>1. k \in 1 .. Len(packets) /\ buffer[k] = packets[k]
        BY <1>4, <2>1, <3>2
      <4>2. k = j - 1
        BY <1>7, <3>1, <4>1
      <4>3. QED
        BY <1>3, <2>1, <2>5, <3>2, <4>2
    <3>3. CASE k = i
      BY <1>4, <1>7, <2>1, <2>2, <3>1, <3>3
    <3>4. CASE k > i
      <4>1. k - 1 \in 1 .. Len(packets) /\ buffer[k] = packets[k - 1]
        BY <1>4, <2>1, <3>4
      <4>2. j - 1 = k - 1
        BY <1>7, <3>1, <4>1
      <4>3. QED
        BY <2>1, <4>2
    <3>5. QED
      BY <2>1, <3>2, <3>3, <3>4
  <2>6. QED
    BY <2>1, <2>3, <2>4, <2>5
<1>8. Leads(buffer, Len(buffer)) = Held \cup {p}
  <2>1. ASSUME NEW q \in Leads(buffer, Len(buffer)) PROVE q \in Held \cup {p}
    <3>1. PICK j \in 1 .. Len(packets) + 1 : q = buffer[j]
      BY <1>6 DEF Leads
    <3>2. j < i \/ j = i \/ j > i
      BY <1>3
    <3>3. QED
      BY <1>4, <3>1, <3>2 DEF Held
  <2>2. p \in Leads(buffer, Len(buffer))
    BY <1>3, <1>4, <1>6 DEF Leads
  <2>3. ASSUME NEW k \in 1 .. Len(packets) PROVE packets[k] \in Leads(buffer, Len(buffer))
    <3>1. CASE k < i
      <4>1. k \in 1 .. Len(packets) + 1 /\ buffer[k] = packets[k]
        BY <1>1, <1>4, <3>1
      <4>2. QED
        BY <1>6, <4>1 DEF Leads
    <3>2. CASE k >= i
      <4>1. k + 1 \in 1 .. Len(packets) + 1 /\ k + 1 > i /\ (k + 1) - 1 = k
        BY <1>1, <1>3, <3>2
      <4>2. buffer[k + 1] = packets[k]
        BY <1>4, <4>1
      <4>3. QED
        BY <1>6, <4>1, <4>2 DEF Leads
    <3>3. QED
      BY <1>3, <3>1, <3>2
  <2>4. QED
    BY <2>1, <2>2, <2>3 DEF Held
<1>9. QED
  BY <1>6, <1>7, <1>8
Stay(buffer, n) == {buffer[j] : j \in n + 1 .. Len(buffer)}

\* A step of ReportPacket(p), with the buffer it makes and the number of packets to leave.
Shape(p, buffer, n) ==
    /\ p \in 1 .. Len(time) \ arrived /\ p \in 1 .. MaxSent
    /\ buffer \in Seq(arrived \cup {p})
    /\ \A i, j \in 1 .. Len(buffer) : buffer[i] = buffer[j] => i = j
    /\ InOrder(buffer)
    /\ Leads(buffer, Len(buffer)) = Held \cup {p}
    /\ n \in Leaving(p, buffer)
    /\ packets' = SubSeq(buffer, n + 1, Len(buffer))
    /\ Held' = Stay(buffer, n)
    /\ Left' = Left \cup Leads(buffer, n)
    /\ started' = (started \/ n > 0)
    /\ lastSeq' = IF n > 0 THEN SeqOf(buffer[n]) ELSE lastSeq
    /\ lost' = lost + Dropped(buffer, n)
    /\ origin' = IF n > 0 /\ ~started THEN buffer[1] ELSE origin
    /\ arrived' = arrived \cup {p}
    /\ late' = (late \/ \E q \in arrived : time[q] > time[p] + BufferDuration)
    /\ UNCHANGED <<first, time>>

\* A sequence over a set is one over any larger set.
LEMMA SeqWidens ==
    ASSUME NEW S, NEW T, S \subseteq T, NEW s \in Seq(S)
    PROVE  s \in Seq(T)
<1>1. Len(s) \in Nat /\ s \in [1 .. Len(s) -> S]
  BY LenProperties
<1>2. s \in [1 .. Len(s) -> T]
  BY <1>1
<1>3. QED
  BY <1>1, <1>2, SeqDef

\* A part of a sequence holds what stands at its places.
LEMMA RestHolds ==
    ASSUME NEW S, NEW buffer \in Seq(S), NEW n \in 0 .. Len(buffer),
           NEW rest, rest = SubSeq(buffer, n + 1, Len(buffer))
    PROVE  /\ Len(rest) = Len(buffer) - n
           /\ \A i \in 1 .. Len(rest) : rest[i] = buffer[i + n] /\ i + n \in n + 1 .. Len(buffer)
           /\ Leads(rest, Len(rest)) = Stay(buffer, n)
<1>1. Len(buffer) \in Nat /\ Len(rest) = Len(buffer) - n
  BY LenProperties, SubSeqProperties
<1>2. \A i \in 1 .. Len(rest) : rest[i] = buffer[i + n] /\ i + n \in n + 1 .. Len(buffer)
  BY <1>1, SubSeqProperties
<1>3. ASSUME NEW j \in n + 1 .. Len(buffer)
      PROVE  buffer[j] \in {rest[i] : i \in 1 .. Len(rest)}
  <2>1. j - n \in 1 .. Len(rest) /\ (j - n) + n = j
    BY <1>1
  <2>2. rest[j - n] = buffer[j]
    BY <1>2, <2>1
  <2>3. QED
    BY <2>1, <2>2
<1>4. \A i \in 1 .. Len(rest) : rest[i] \in Stay(buffer, n)
  BY <1>2 DEF Stay
<1>5. Leads(rest, Len(rest)) = Stay(buffer, n)
  BY <1>3, <1>4 DEF Leads, Stay
<1>6. QED
  BY <1>1, <1>2, <1>5

\* Receiving a packet is a step of ReportPacket of this shape.
LEMMA ReceiveShape ==
    ASSUME StateInv, NEW p \in 1 .. MaxSent, Receive(p)
    PROVE  \E buffer : \E n : Shape(p, buffer, n)
<1>1. p \in 1 .. Len(time) \ arrived /\ ReportPacket(p)
  BY DEF Receive, Sent
<1>2. PICK buffer \in AddPacket(p) : \E n \in Leaving(p, buffer) :
        /\ packets' = SubSeq(buffer, n + 1, Len(buffer))
        /\ started' = (started \/ n > 0)
        /\ lastSeq' = IF n > 0 THEN SeqOf(buffer[n]) ELSE lastSeq
        /\ lost' = lost + Dropped(buffer, n)
        /\ origin' = IF n > 0 /\ ~started THEN buffer[1] ELSE origin
  BY <1>1 DEF ReportPacket
<1>3. PICK n \in Leaving(p, buffer) :
        /\ packets' = SubSeq(buffer, n + 1, Len(buffer))
        /\ started' = (started \/ n > 0)
        /\ lastSeq' = IF n > 0 THEN SeqOf(buffer[n]) ELSE lastSeq
        /\ lost' = lost + Dropped(buffer, n)
        /\ origin' = IF n > 0 /\ ~started THEN buffer[1] ELSE origin
  BY <1>2
<1>4. /\ buffer \in Seq(arrived \cup {p})
      /\ \A i, j \in 1 .. Len(buffer) : buffer[i] = buffer[j] => i = j
      /\ Leads(buffer, Len(buffer)) = Held \cup {p}
  BY <1>1, InsertionAdds DEF StateInv, BufferInv
<1>5. SortedInv
  <2>1. packets \in Seq(1 .. Len(time))
    BY SeqWidens DEF StateInv, StreamInv, BufferInv
  <2>2. QED
    BY <2>1, StreamAssumption
       DEF StreamAssumption, StateInv, StreamInv, BufferInv, SortedInv, Buffered
<1>6. InOrder(buffer)
  BY <1>1, <1>5, InsertionKeepsOrder
<1>7. n \in 0 .. Len(buffer) /\ Len(buffer) \in Nat
  BY <1>4, LenProperties DEF Leaving
<1>8. Held' = Stay(buffer, n)
  <2> DEFINE rest == SubSeq(buffer, n + 1, Len(buffer))
  <2>1. Leads(rest, Len(rest)) = Stay(buffer, n)
    <3>1. rest = SubSeq(buffer, n + 1, Len(buffer))
      OBVIOUS
    <3> HIDE DEF rest
    <3>2. QED
      <4>1. buffer \in Seq(arrived \cup {p}) /\ n \in 0 .. Len(buffer)
        BY <1>4, <1>7
      <4>2. QED
        BY <3>1, <4>1, RestHolds
  <2>2. QED
    BY <1>3, <2>1 DEF Held, Leads
<1>9. arrived' = arrived \cup {p}
  BY DEF Receive
<1>10. Left' = Left \cup Leads(buffer, n)
  <2>1. Leads(buffer, n) \cup Held' = Held \cup {p}
    BY <1>4, <1>7, <1>8 DEF Leads, Stay
  <2>2. Leads(buffer, n) \cap Held' = {}
    <3>1. ASSUME NEW i \in 1 .. n, NEW j \in n + 1 .. Len(buffer), buffer[i] = buffer[j]
          PROVE  FALSE
      BY <1>4, <1>7, <3>1
    <3>2. QED
      BY <1>8, <3>1 DEF Leads, Stay
  <2>3. Held \subseteq arrived
    BY LenProperties DEF StateInv, BufferInv, Held
  <2>4. Left' = arrived' \ Held' /\ Left = arrived \ Held
    BY DEF Left
  <2>5. QED
    BY <1>1, <1>9, <2>1, <2>2, <2>3, <2>4
<1>11. QED
  BY <1>1, <1>3, <1>4, <1>6, <1>8, <1>9, <1>10 DEF Receive, Shape

\* What the loop has dropped is a sum, one gap after the other.
LEMMA DroppedIsSum ==
    ASSUME NEW buffer, NEW n \in Nat,
           \A i \in 1 .. n : Gap(Before(buffer, i), SeqOf(buffer[i])) \in Nat
    PROVE  \E f \in [0 .. n -> Nat] :
              /\ f[0] = 0
              /\ \A i \in 1 .. n : f[i] = f[i - 1] + Gap(Before(buffer, i), SeqOf(buffer[i]))
              /\ Dropped(buffer, n) = f[n]
<1> DEFINE gap(i) == Gap(Before(buffer, i), SeqOf(buffer[i]))
<1> DEFINE IsSum(f, m) == f = [i \in 0 .. m |-> IF i = 0 THEN 0 ELSE f[i - 1] + gap(i)]
<1> DEFINE S == {m \in 0 .. n : \E f : IsSum(f, m)}
<1>1. 0 \in S
  <2> DEFINE f == [i \in 0 .. 0 |-> 0]
  <2> HIDE DEF gap
  <2>1. \A i \in 0 .. 0 : 0 = IF i = 0 THEN 0 ELSE f[i - 1] + gap(i)
    OBVIOUS
  <2>2. IsSum(f, 0)
    BY <2>1
  <2>3. QED
    <3> HIDE DEF IsSum, f
    <3>1. QED
      BY <2>2
<1>2. \A m \in 1 .. n : m - 1 \in S => m \in S
  <2> TAKE m \in 1 .. n
  <2> HAVE m - 1 \in S
  <2>0. PICK g : IsSum(g, m - 1)
    <3> HIDE DEF IsSum
    <3>1. QED
      OBVIOUS
  <2> DEFINE f == [i \in 0 .. m |-> IF i = m THEN g[m - 1] + gap(m) ELSE g[i]]
  <2> HIDE DEF gap
  <2>1. \A i \in 0 .. m - 1 : g[i] = IF i = 0 THEN 0 ELSE g[i - 1] + gap(i)
    BY <2>0
  <2>2. ASSUME NEW i \in 0 .. m
        PROVE  f[i] = IF i = 0 THEN 0 ELSE f[i - 1] + gap(i)
    <3>1. CASE i = m
      BY <3>1
    <3>2. CASE i # m
      BY <2>1, <3>2
    <3>3. QED
      BY <3>1, <3>2
  <2>3. f = [i \in 0 .. m |-> f[i]]
    OBVIOUS
  <2>4. IsSum(f, m)
    <3> HIDE DEF f
    <3>1. QED
      BY <2>2, <2>3
  <2>5. QED
    <3> HIDE DEF IsSum, f
    <3>1. QED
      BY <2>4
<1>3. n \in S
  <2> HIDE DEF S
  <2>1. QED
    BY <1>1, <1>2, BoundedInduction
<1> DEFINE dropped == CHOOSE f : IsSum(f, n)
<1>4. IsSum(dropped, n)
  <2>1. \E f : IsSum(f, n)
    BY <1>3
  <2> HIDE DEF IsSum
  <2>2. QED
    BY <2>1
<1>5. Dropped(buffer, n) = dropped[n]
  BY DEF Dropped
<1> HIDE DEF dropped
<1>6. \A i \in 0 .. n : dropped[i] = IF i = 0 THEN 0 ELSE dropped[i - 1] + gap(i)
  <2> HIDE DEF gap
  <2>1. QED
    BY <1>4
<1>7. \A i \in 0 .. n : dropped[i] \in Nat
  <2> DEFINE N == {i \in 0 .. n : dropped[i] \in Nat}
  <2>1. 0 \in N
    BY <1>6
  <2>2. \A i \in 1 .. n : i - 1 \in N => i \in N
    <3> HIDE DEF gap
    <3>0. \A i \in 1 .. n : gap(i) \in Nat
      BY DEF gap
    <3>1. QED
      BY <1>6, <3>0
  <2> HIDE DEF N
  <2>3. 0 .. n \subseteq N
    BY <2>1, <2>2, BoundedInduction
  <2>4. QED
    BY <2>3 DEF N
<1>8. dropped = [i \in 0 .. n |-> dropped[i]]
  <2> HIDE DEF gap
  <2>1. QED
    BY <1>4
<1>9. dropped \in [0 .. n -> Nat]
  <2> HIDE DEF IsSum
  <2>1. QED
    BY <1>7, <1>8
<1>10. QED
  <2>1. dropped[0] = 0
    BY <1>6
  <2>2. \A i \in 1 .. n : dropped[i] = dropped[i - 1] + gap(i)
    <3> HIDE DEF gap
    <3>1. QED
      BY <1>6
  <2>3. QED
    BY <1>5, <1>9, <2>1, <2>2

-----------------------------------------------------------------------------
(* A step of ReportPacket.                                                 *)

\* Numbers and times are those of the stream where they do not wrap.
LEMMA SeqOfValue ==
    ASSUME StreamInv, NEW p \in 1 .. SeqRange
    PROVE  SeqOf(p) = IF first + p < SeqRange THEN first + p ELSE first + p - SeqRange
<1>1. /\ SeqRange \in Nat \ {0} /\ first \in 0 .. SeqRange - 1
      /\ p \in Nat /\ 1 <= p /\ p <= SeqRange
  BY StreamAssumption DEF StreamAssumption, StreamInv
<1>2. \A x \in 0 .. SeqRange - 1 : x % SeqRange = x
  BY <1>1
<1>3. \A x \in 0 .. SeqRange - 1 : (x + SeqRange) % SeqRange = x
  BY <1>1
<1>4. CASE first + p < SeqRange
  BY <1>1, <1>2, <1>4 DEF SeqOf
<1>5. CASE ~(first + p < SeqRange)
  <2>1. first + p - SeqRange \in 0 .. SeqRange - 1
    BY <1>1, <1>5
  <2>2. (first + p - SeqRange) + SeqRange = first + p
    BY <1>1
  <2>3. QED
    BY <1>3, <1>5, <2>1, <2>2 DEF SeqOf
<1>6. QED
  BY <1>4, <1>5

\* Sequence numbers are in the range, whatever the packet.
LEMMA SeqOfInRange ==
    ASSUME StreamInv, NEW p \in Nat
    PROVE  SeqOf(p) \in 0 .. SeqRange - 1 /\ SeqOf(p) \in Int
BY StreamAssumption DEF StreamAssumption, StreamInv, SeqOf

\* Where the times do not wrap, the timestamp is the time and the cut-off does not underflow.
LEMMA TimeValue ==
    ASSUME StreamInv, NoTimeWrap, NEW p \in 1 .. Len(time)
    PROVE  /\ Timestamp(p) = time[p] /\ CutOff(p) = time[p] - BufferDuration
           /\ time[p] \in Nat
<1>1. /\ Len(time) \in Nat /\ time \in [1 .. Len(time) -> Nat] /\ 1 <= Len(time)
      /\ 1 \in 1 .. Len(time) /\ Len(time) \in 1 .. Len(time)
  BY LenProperties, EmptySeq DEF StreamInv
<1>2. time[p] \in Nat /\ time[1] \in Nat /\ time[Len(time)] \in Nat
  BY <1>1
<1>3. time[1] <= time[p] /\ time[p] <= time[Len(time)]
  BY <1>1 DEF StreamInv
<1>4. BufferDuration <= time[p] /\ time[p] < TimeRange
  BY <1>2, <1>3, StreamAssumption DEF NoTimeWrap, StreamAssumption
<1>5. /\ TimeRange \in Nat \ {0} /\ WordRange \in Nat \ {0} /\ TimeRange <= WordRange
      /\ BufferDuration \in Nat
  BY StreamAssumption DEF StreamAssumption
<1>6. Timestamp(p) = time[p]
  BY <1>2, <1>4, <1>5 DEF Timestamp
<1>7. CutOff(p) = time[p] - BufferDuration
  <2>1. time[p] - BufferDuration \in 0 .. WordRange - 1
    BY <1>2, <1>4, <1>5
  <2>2. (time[p] - BufferDuration) % WordRange = time[p] - BufferDuration
    BY <1>5, <2>1
  <2>3. QED
    BY <1>6, <2>2 DEF CutOff
<1>8. QED
  BY <1>2, <1>6, <1>7

\* What the buffer is made of when a packet is received.
LEMMA ShapeTypes ==
    ASSUME StateInv, NEW p, NEW buffer, NEW n, Shape(p, buffer, n)
    PROVE  /\ Len(time) \in Nat /\ p \in 1 .. Len(time)
           /\ Len(buffer) \in Nat /\ n \in 0 .. Len(buffer)
           /\ \A i \in 1 .. Len(buffer) : buffer[i] \in arrived' /\ buffer[i] \in 1 .. Len(time)
           /\ arrived' \subseteq 1 .. Len(time)
           /\ \A i \in 1 .. n : i \in 1 .. Len(buffer)
<1>1. Len(time) \in Nat /\ p \in 1 .. Len(time) /\ arrived' \subseteq 1 .. Len(time)
  BY LenProperties DEF StateInv, StreamInv, Shape
<1>2. Len(buffer) \in Nat /\ buffer \in [1 .. Len(buffer) -> arrived'] /\ n \in 0 .. Len(buffer)
  BY LenProperties DEF Shape, Leaving
<1>3. \A i \in 1 .. Len(buffer) : buffer[i] \in arrived' /\ buffer[i] \in 1 .. Len(time)
  BY <1>1, <1>2
<1>4. \A i \in 1 .. n : i \in 1 .. Len(buffer)
  BY <1>2
<1>5. QED
  BY <1>1, <1>2, <1>3, <1>4

\* A gap is never negative, and at least the distance.
LEMMA GapType == \A a, b \in Int : Gap(a, b) \in Nat /\ Gap(a, b) >= b - a - 1
BY DEF Gap

\* Every term of the sum that ReportPacket adds up is a number.
LEMMA GapsAreNat ==
    ASSUME StateInv, NEW p, NEW buffer, NEW n, Shape(p, buffer, n)
    PROVE  \A i \in 1 .. n :
              /\ Before(buffer, i) \in Int /\ SeqOf(buffer[i]) \in Int
              /\ Gap(Before(buffer, i), SeqOf(buffer[i])) \in Nat
<1> TAKE i \in 1 .. n
<1>1. Len(buffer) \in Nat /\ n \in 0 .. Len(buffer) /\ Len(time) \in Nat
  BY ShapeTypes
<1>2. \A j \in 1 .. n : buffer[j] \in Nat
  BY <1>1, ShapeTypes
<1>3. \A j \in 1 .. n : SeqOf(buffer[j]) \in Int
  <2>1. \A q \in Nat : SeqOf(q) \in 0 .. SeqRange - 1
    BY SeqOfInRange DEF StateInv
  <2>2. SeqRange \in Nat
    BY StreamAssumption DEF StreamAssumption
  <2>3. QED
    BY <1>2, <2>1, <2>2
<1>4. Before(buffer, i) \in Int
  <2>1. lastSeq \in Int
    BY StreamAssumption DEF StreamAssumption, StateInv, TrackerInv
  <2>2. i > 1 => i - 1 \in 1 .. n
    BY <1>1
  <2>3. 1 \in 1 .. n
    BY <1>1
  <2>4. QED
    BY <1>3, <2>1, <2>2, <2>3 DEF Before
<1>5. QED
  BY <1>3, <1>4, GapType

\* A step of ReportPacket keeps the types, the order of the buffer and what lastSeq is.
LEMMA ReceiveKeepsState ==
    ASSUME StateInv, NEW p, NEW buffer, NEW n, Shape(p, buffer, n)
    PROVE  StateInv'
<1>1. /\ Len(time) \in Nat /\ p \in 1 .. Len(time)
      /\ Len(buffer) \in Nat /\ n \in 0 .. Len(buffer)
      /\ \A i \in 1 .. Len(buffer) : buffer[i] \in 1 .. Len(time)
      /\ arrived' \subseteq 1 .. Len(time)
  BY ShapeTypes
<1>2. UNCHANGED <<first, time>> /\ arrived' = arrived \cup {p} /\ p \in 1 .. MaxSent
  BY DEF Shape
<1>3. StreamInv'
  <2>1. \E newest \in arrived' : \A q \in arrived' : q <= newest
    <3>1. CASE arrived = {}
      BY <1>1, <1>2, <3>1
    <3>2. CASE arrived # {}
      <4>1. PICK newest \in arrived : \A q \in arrived : q <= newest
        BY <3>2 DEF StateInv, StreamInv
      <4>2. newest \in Nat /\ p \in Nat /\ arrived \subseteq Nat
        BY <1>1, <1>2
      <4>3. CASE p <= newest
        BY <1>2, <4>1, <4>3
      <4>4. CASE ~(p <= newest)
        <5>1. \A q \in arrived' : q <= p
          BY <1>2, <4>1, <4>2, <4>4
        <5>2. QED
          BY <1>2, <5>1
      <4>5. QED
        BY <4>3, <4>4
    <3>3. QED
      BY <3>1, <3>2
  <2>2. QED
    BY <1>1, <1>2, <2>1 DEF StateInv, StreamInv
<1>4. BufferInv'
  <2> DEFINE rest == SubSeq(buffer, n + 1, Len(buffer))
  <2>1. packets' = rest /\ buffer \in Seq(arrived')
    BY DEF Shape
  <2>2. packets' \in Seq(arrived')
    BY <1>1, <2>1, SubSeqProperties
  <2>3. rest = SubSeq(buffer, n + 1, Len(buffer))
    OBVIOUS
  <2> HIDE DEF rest
  <2>4. /\ Len(rest) = Len(buffer) - n
        /\ \A i \in 1 .. Len(rest) : rest[i] = buffer[i + n] /\ i + n \in n + 1 .. Len(buffer)
    <3>1. buffer \in Seq(arrived') /\ n \in 0 .. Len(buffer)
      BY <1>1, <2>1
    <3>2. QED
      BY <2>3, <3>1, RestHolds
  <2>5. ASSUME NEW i \in 1 .. Len(rest), NEW j \in 1 .. Len(rest), rest[i] = rest[j]
        PROVE  i = j
    <3>1. /\ i + n \in 1 .. Len(buffer) /\ j + n \in 1 .. Len(buffer)
          /\ buffer[i + n] = buffer[j + n]
      BY <1>1, <2>4, <2>5
    <3>2. i + n = j + n
      BY <3>1 DEF Shape
    <3>3. QED
      BY <1>1, <2>4, <3>2
  <2>6. buffer \in Seq(Nat)
    <3>1. arrived' \subseteq Nat
      BY <1>1
    <3>2. QED
      BY <2>1, <3>1, SeqWidens
  <2>7. InOrder(rest)
    BY <1>1, <2>3, <2>6, RestInOrder DEF Shape
  <2>8. Sorted'
    BY <1>2, <2>1, <2>7 DEF Sorted, InOrder, SeqOf
  <2>9. QED
    BY <2>1, <2>2, <2>5, <2>8 DEF BufferInv
<1>5. TrackerInv'
  <2>1. \A i \in 1 .. Len(buffer) : SeqOf(buffer[i]) \in 0 .. SeqRange - 1
    <3>1. \A i \in 1 .. Len(buffer) : buffer[i] \in Nat
      BY <1>1
    <3>2. StreamInv
      BY DEF StateInv
    <3>3. QED
      BY <3>1, <3>2, SeqOfInRange
  <2>2. SeqOf(p)' = SeqOf(p) /\ \A q : SeqOf(q)' = SeqOf(q)
    BY <1>2 DEF SeqOf
  <2>3. lastSeq' \in 0 .. SeqRange - 1
    BY <1>1, <2>1 DEF StateInv, TrackerInv, Shape
  <2>4. lost' \in Nat
    <3>1. Dropped(buffer, n) \in Nat
      <4>1. \A i \in 1 .. n : Gap(Before(buffer, i), SeqOf(buffer[i])) \in Nat
        BY GapsAreNat
      <4>2. n \in Nat
        BY <1>1
      <4>3. \E f \in [0 .. n -> Nat] : Dropped(buffer, n) = f[n]
        BY <4>1, <4>2, DroppedIsSum
      <4>4. QED
        BY <4>2, <4>3
    <3>2. QED
      BY <3>1 DEF StateInv, TrackerInv, Shape
  <2>5. started' = (started \/ n > 0) /\ Left' = Left \cup Leads(buffer, n)
    BY DEF Shape
  <2>6. CASE n = 0
    <3>1. Leads(buffer, n) = {}
      BY <2>6 DEF Leads
    <3>2. Left' = Left /\ UNCHANGED <<started, lastSeq, origin>>
      BY <1>1, <2>5, <2>6, <3>1 DEF Shape, StateInv, TrackerInv
    <3>3. started => \E last \in Left : lastSeq = SeqOf(last)
      BY DEF StateInv, TrackerInv
    <3>4. started' => \E last \in Left' : lastSeq' = SeqOf(last)'
      BY <2>2, <3>2, <3>3
    <3>5. QED
      BY <2>3, <2>4, <3>2, <3>4 DEF StateInv, TrackerInv
  <2>7. CASE n > 0
    <3>1. started' = TRUE
      BY <2>5, <2>7
    <3>2. buffer[1] \in Left' /\ buffer[n] \in Left'
      BY <1>1, <2>5, <2>7 DEF Leads
    <3>3. lastSeq' = SeqOf(buffer[n])'
      BY <2>2, <2>7 DEF Shape
    <3>4. origin' \in Left'
      BY <2>5, <2>7, <3>2 DEF StateInv, TrackerInv, Shape
    <3>5. QED
      BY <2>3, <2>4, <3>1, <3>2, <3>3, <3>4 DEF TrackerInv
  <2>8. QED
    BY <1>1, <2>6, <2>7
<1>6. QED
  BY <1>3, <1>4, <1>5 DEF StateInv

-----------------------------------------------------------------------------
(* What left is counted.                                                   *)

\* The packets that were passed over by those to leave, the first of which is o.
Skipped(left, o) == {q \in 1 .. Len(time) \ left : o < q /\ \E r \in left : q < r}

\* Each of them is counted at least once.
SkippedCounted == NoSeqWrap => Cardinality(Skipped(Left, origin)) <= lost

\* The numbers between two numbers.
LEMMA BetweenIsFinite ==
    ASSUME NEW a \in Int, NEW b \in Int
    PROVE  /\ IsFiniteSet(a + 1 .. b - 1)
           /\ Cardinality(a + 1 .. b - 1) = IF b > a + 1 THEN b - a - 1 ELSE 0
<1>1. a + 1 \in Int /\ b - 1 \in Int
  OBVIOUS
<1>2. /\ IsFiniteSet(a + 1 .. b - 1)
      /\ Cardinality(a + 1 .. b - 1) = IF a + 1 > b - 1 THEN 0 ELSE (b - 1) - (a + 1) + 1
  BY <1>1, FS_Interval
<1>3. QED
  BY <1>2

\* Sets of packets that were sent are finite.
LEMMA StreamIsFinite ==
    ASSUME StateInv, NEW S, S \subseteq 1 .. Len(time)
    PROVE  IsFiniteSet(S) /\ Cardinality(S) \in Nat
<1>1. 1 \in Int /\ Len(time) \in Int
  BY LenProperties DEF StateInv, StreamInv
<1>2. IsFiniteSet(1 .. Len(time))
  BY <1>1, FS_Interval
<1>3. QED
  BY <1>2, FS_Subset, FS_CardinalityType

\* The first i packets are the first i - 1 and the i-th.
LEMMA LeadsGrow ==
    ASSUME NEW buffer, NEW i \in Nat, i >= 1
    PROVE  Leads(buffer, i) = Leads(buffer, i - 1) \cup {buffer[i]}
<1>1. 1 .. i = 1 .. i - 1 \cup {i}
  OBVIOUS
<1>2. QED
  BY <1>1 DEF Leads

\* The packet lastSeq is the number of as the loop reaches the i-th.
LEMMA BeforeIsLast ==
    ASSUME StateInv, NEW p, NEW buffer, NEW n, Shape(p, buffer, n), NEW i \in 1 .. n,
           i > 1 \/ started
    PROVE  \E last \in Left \cup Leads(buffer, i - 1) :
              Before(buffer, i) = SeqOf(last) /\ (i > 1 => last = buffer[i - 1])
<1>1. Len(buffer) \in Nat /\ n \in 0 .. Len(buffer)
  BY ShapeTypes
<1>2. CASE i > 1
  <2>1. i - 1 \in 1 .. i - 1
    BY <1>1, <1>2
  <2>2. buffer[i - 1] \in Leads(buffer, i - 1)
    BY <2>1 DEF Leads
  <2>3. QED
    BY <1>2, <2>2 DEF Before
<1>3. CASE ~(i > 1)
  BY <1>3 DEF Before, StateInv, TrackerInv
<1>4. QED
  BY <1>2, <1>3

\* Every number that the packets to leave pass over is counted, in the order of the loop.
LEMMA ReceiveCountsSkipped ==
    ASSUME StateInv, NoSeqWrap, SkippedCounted,
           NEW p, NEW buffer, NEW n, Shape(p, buffer, n)
    PROVE  Cardinality(Skipped(Left, origin))' <= lost'
<1>1. /\ Len(time) \in Nat
      /\ Len(buffer) \in Nat /\ n \in 0 .. Len(buffer) /\ n \in Nat
      /\ \A i \in 1 .. Len(buffer) : buffer[i] \in 1 .. Len(time)
      /\ lost \in Nat
  BY ShapeTypes DEF StateInv, TrackerInv
<1>2. \A i \in 1 .. n : Gap(Before(buffer, i), SeqOf(buffer[i])) \in Nat
  BY GapsAreNat
<1>3. PICK f \in [0 .. n -> Nat] :
        /\ f[0] = 0
        /\ \A i \in 1 .. n : f[i] = f[i - 1] + Gap(Before(buffer, i), SeqOf(buffer[i]))
        /\ Dropped(buffer, n) = f[n]
  BY <1>1, <1>2, DroppedIsSum
<1> DEFINE U(i) == Skipped(Left \cup Leads(buffer, i), origin')
<1> DEFINE S == {i \in 0 .. n : Cardinality(U(i)) <= lost + f[i]}
<1>4. \A i \in 0 .. n : IsFiniteSet(U(i)) /\ Cardinality(U(i)) \in Nat
  <2> TAKE i \in 0 .. n
  <2>1. U(i) \subseteq 1 .. Len(time)
    BY DEF Skipped
  <2>2. QED
    <3> HIDE DEF U
    <3>1. QED
      BY <2>1, StreamIsFinite
<1>5. 0 \in S
  <2>1. Leads(buffer, 0) = {}
    BY DEF Leads
  <2>2. CASE started
    <3>1. origin' = origin
      BY <2>2 DEF Shape
    <3>2. U(0) = Skipped(Left, origin)
      BY <2>1, <3>1
    <3>3. Cardinality(U(0)) <= lost
      BY <3>2 DEF SkippedCounted
    <3>4. QED
      <4> HIDE DEF U
      <4>1. QED
        BY <1>1, <1>3, <3>3
  <2>3. CASE ~started
    <3>1. Left = {}
      BY <2>3 DEF StateInv, TrackerInv
    <3>2. U(0) = {}
      BY <2>1, <3>1 DEF Skipped
    <3>3. Cardinality(U(0)) = 0
      BY <3>2, FS_EmptySet
    <3>4. QED
      <4> HIDE DEF U
      <4>1. QED
        BY <1>1, <1>3, <3>3
  <2>4. QED
    BY <2>2, <2>3
<1>6. ASSUME NEW i \in 1 .. n, i - 1 \in S
      PROVE  i \in S
  <2> DEFINE gap == Gap(Before(buffer, i), SeqOf(buffer[i]))
  <2>1. /\ i \in Nat /\ i >= 1 /\ i \in 0 .. n /\ i - 1 \in 0 .. n /\ i \in 1 .. Len(buffer)
        /\ gap \in Nat
    BY <1>1, <1>2
  <2>2. /\ f[i] \in Nat /\ f[i - 1] \in Nat /\ f[i] = f[i - 1] + gap
        /\ IsFiniteSet(U(i - 1)) /\ Cardinality(U(i - 1)) \in Nat
        /\ IsFiniteSet(U(i)) /\ Cardinality(U(i)) \in Nat
    <3> HIDE DEF U, gap
    <3>1. f[i] = f[i - 1] + gap
      BY <1>3 DEF gap
    <3>2. QED
      BY <1>3, <1>4, <2>1, <3>1
  <2>3. Cardinality(U(i - 1)) <= lost + f[i - 1]
    <3> HIDE DEF U
    <3>1. QED
      BY <1>6
  <2>4. Leads(buffer, i) = Leads(buffer, i - 1) \cup {buffer[i]}
    BY <2>1, LeadsGrow
  <2>5. CASE i = 1 /\ ~started
    <3>1. Left = {} /\ origin' = buffer[1] /\ Leads(buffer, 1) = {buffer[1]}
      BY <1>1, <2>5 DEF StateInv, TrackerInv, Shape, Leads
    <3>2. U(1) = {}
      BY <1>1, <2>1, <2>5, <3>1 DEF Skipped
    <3>3. Cardinality(U(i)) = 0
      BY <2>5, <3>2, FS_EmptySet
    <3>4. QED
      <4> HIDE DEF U, gap
      <4>1. QED
        BY <1>1, <2>1, <2>2, <3>3
  <2>6. CASE i > 1 \/ started
    <3>1. PICK last \in Left \cup Leads(buffer, i - 1) : Before(buffer, i) = SeqOf(last)
      BY <2>6, BeforeIsLast
    <3>2. last \in 1 .. Len(time) /\ buffer[i] \in 1 .. Len(time)
      <4>1. Left \subseteq 1 .. Len(time)
        BY DEF Left, StateInv, StreamInv
      <4>2. Leads(buffer, i - 1) \subseteq 1 .. Len(time)
        BY <1>1, <2>1 DEF Leads
      <4>3. QED
        BY <1>1, <2>1, <4>1, <4>2
    <3>3. SeqOf(last) = first + last /\ SeqOf(buffer[i]) = first + buffer[i]
      <4>1. SeqRange \in Nat /\ first \in Nat /\ first + Len(time) < SeqRange
        BY StreamAssumption DEF StreamAssumption, StateInv, StreamInv, NoSeqWrap
      <4>2. /\ last \in 1 .. SeqRange /\ first + last < SeqRange
            /\ buffer[i] \in 1 .. SeqRange /\ first + buffer[i] < SeqRange
        BY <1>1, <3>2, <4>1
      <4>3. QED
        BY <4>2, SeqOfValue DEF StateInv
    <3> DEFINE between == last + 1 .. buffer[i] - 1
    <3>4. IsFiniteSet(between) /\ Cardinality(between) = gap
      <4>1. first \in Nat
        BY DEF StateInv, StreamInv
      <4>2. gap = IF buffer[i] > last + 1 THEN buffer[i] - last - 1 ELSE 0
        BY <3>1, <3>2, <3>3, <4>1 DEF Gap
      <4>3. last \in Int /\ buffer[i] \in Int
        BY <3>2
      <4>4. QED
        BY <4>2, <4>3, BetweenIsFinite
    <3>5. U(i) \subseteq U(i - 1) \cup between
      <4> SUFFICES ASSUME NEW q \in U(i), q \notin U(i - 1) PROVE q \in between
        OBVIOUS
      <4>1. /\ q \in 1 .. Len(time) /\ q \notin Left \cup Leads(buffer, i) /\ origin' < q
            /\ \E r \in Left \cup Leads(buffer, i) : q < r
        BY DEF Skipped
      <4>2. ~ \E r \in Left \cup Leads(buffer, i - 1) : q < r
        BY <2>4, <4>1 DEF Skipped
      <4>3. q < buffer[i] /\ ~(q < last) /\ q # last
        BY <2>4, <4>1, <4>2
      <4>4. QED
        BY <3>2, <4>1, <4>3
    <3>6. Cardinality(U(i)) <= Cardinality(U(i - 1)) + gap
      <4> HIDE DEF U, gap, between
      <4>1. /\ IsFiniteSet(U(i - 1) \cup between)
            /\ Cardinality(U(i - 1) \cup between)
                = Cardinality(U(i - 1)) + gap - Cardinality(U(i - 1) \cap between)
        BY <2>2, <3>4, FS_Union
      <4>2. Cardinality(U(i)) <= Cardinality(U(i - 1) \cup between)
        BY <3>5, <4>1, FS_Subset
      <4>3. Cardinality(U(i - 1) \cap between) \in Nat
        BY <2>2, FS_Intersection, FS_CardinalityType
      <4>4. QED
        BY <2>1, <2>2, <4>1, <4>2, <4>3
    <3>7. QED
      <4> HIDE DEF U, gap, between
      <4>1. QED
        BY <1>1, <2>1, <2>2, <2>3, <3>6
  <2>7. QED
    BY <2>1, <2>5, <2>6
<1>7. n \in S
  <2> HIDE DEF S
  <2>1. \A i \in 1 .. n : i - 1 \in S => i \in S
    BY <1>6
  <2>2. 0 .. n \subseteq S
    BY <1>1, <1>5, <2>1, BoundedInduction
  <2>3. QED
    BY <1>1, <2>2
<1>8. Skipped(Left, origin)' = U(n)
  <2>1. time' = time /\ Left' = Left \cup Leads(buffer, n)
    BY DEF Shape
  <2>2. QED
    BY <2>1 DEF Skipped
<1>9. lost' = lost + f[n]
  BY <1>3 DEF Shape
<1>10. QED
  <2> HIDE DEF U
  <2>1. Cardinality(U(n)) <= lost + f[n]
    BY <1>7
  <2>2. QED
    BY <1>8, <1>9, <2>1

-----------------------------------------------------------------------------
(* What is counted has not come.                                           *)

\* A stream whose numbers wrap at most once, with no packet late.
OneCycle == Len(time) <= SeqRange /\ NoTimeWrap /\ ~late

\* A packet from after the wrap.
Wrapped(p) == first + p >= SeqRange

\* What left the buffer was old.
Aged == \A q \in Left : \E r \in arrived : time[q] + BufferDuration < time[r]

\* What left the buffer comes before what it holds, but for packets from before the wrap.
Behind == \A q \in Left : \A h \in Held : q < h \/ (Wrapped(q) /\ ~Wrapped(h))

\* lastSeq is the number of the newest packet that left, origin the oldest.
LastIsNewest ==
    started => \E last \in Left :
                  lastSeq = SeqOf(last) /\ \A q \in Left : origin <= q /\ q <= last

CalmOrder == Aged /\ Behind /\ LastIsNewest

\* Numbers are in the order of the stream but for those after the wrap, which come first.
LEMMA SeqOrder ==
    ASSUME StateInv, Len(time) <= SeqRange,
           NEW p \in 1 .. Len(time), NEW q \in 1 .. Len(time), p # q
    PROVE  /\ SeqOf(p) <= SeqOf(q) => p < q \/ (Wrapped(p) /\ ~Wrapped(q))
           /\ p < q /\ SeqOf(p) <= SeqOf(q) =>
                (Wrapped(p) <=> Wrapped(q)) /\ SeqOf(q) - SeqOf(p) = q - p
           /\ p < q /\ Wrapped(p) => Wrapped(q)
           /\ Wrapped(p) /\ ~Wrapped(q) => SeqOf(p) < SeqOf(q)
<1>1. /\ SeqRange \in Nat \ {0} /\ first \in Nat /\ first < SeqRange /\ Len(time) \in Nat
      /\ p \in 1 .. SeqRange /\ q \in 1 .. SeqRange /\ p \in Nat /\ q \in Nat
  BY StreamAssumption, LenProperties DEF StreamAssumption, StateInv, StreamInv
<1>2. /\ SeqOf(p) = IF first + p < SeqRange THEN first + p ELSE first + p - SeqRange
      /\ SeqOf(q) = IF first + q < SeqRange THEN first + q ELSE first + q - SeqRange
  BY <1>1, SeqOfValue DEF StateInv
<1>3. QED
  BY <1>1, <1>2 DEF Wrapped

\* A packet that came in time is newer than all that have left.
LEMMA LeftBefore ==
    ASSUME StateInv, Aged, NEW p, NEW buffer, NEW n, Shape(p, buffer, n), ~late'
    PROVE  \A q \in Left : q < p
<1> SUFFICES ASSUME NEW q \in Left, ~(q < p) PROVE FALSE
  OBVIOUS
<1>1. p \in 1 .. Len(time) /\ q \in 1 .. Len(time) /\ Len(time) \in Nat
  BY LenProperties DEF Shape, StateInv, StreamInv, Left
<1>2. PICK r \in arrived : time[q] + BufferDuration < time[r]
  BY DEF Aged
<1>3. time[r] \in Nat /\ time[q] \in Nat /\ time[p] \in Nat /\ BufferDuration \in Nat
  BY <1>1, StreamAssumption, LenProperties DEF StreamAssumption, StateInv, StreamInv
<1>4. ~(time[r] > time[p] + BufferDuration)
  BY DEF Shape
<1>5. time[p] <= time[q]
  BY <1>1 DEF StateInv, StreamInv
<1>6. QED
  BY <1>2, <1>3, <1>4, <1>5

\* While a packet from before the wrap can leave, none has come from after it: the newest
\* packet does not leave the buffer, and its number is smaller.
LEMMA NewestStays ==
    ASSUME StateInv, OneCycle, Aged,
           NEW p, NEW buffer, NEW n, Shape(p, buffer, n),
           NEW i \in 1 .. n, NEW q \in arrived', Wrapped(q)
    PROVE  Wrapped(buffer[i])
<1> SUFFICES ASSUME ~Wrapped(buffer[i]) PROVE FALSE
  OBVIOUS
<1>1. /\ Len(time) \in Nat /\ p \in 1 .. Len(time)
      /\ Len(buffer) \in Nat /\ n \in 0 .. Len(buffer) /\ i \in 1 .. Len(buffer)
      /\ \A j \in 1 .. Len(buffer) : buffer[j] \in 1 .. Len(time)
      /\ arrived' \subseteq 1 .. Len(time) /\ p \in arrived' /\ arrived' = arrived \cup {p}
  BY ShapeTypes DEF Shape
<1>2. StateInv'
  BY ReceiveKeepsState
<1>3. PICK newest \in arrived' : \A r \in arrived' : r <= newest
  BY <1>1, <1>2 DEF StateInv, StreamInv
<1>4. newest \in 1 .. Len(time) /\ q \in 1 .. Len(time) /\ q <= newest /\ p <= newest
  BY <1>1, <1>3
<1>5. Wrapped(newest)
  BY <1>4, StreamAssumption DEF StreamAssumption, Wrapped, StateInv, StreamInv
<1>6. \A r \in arrived' : time[r] \in Nat /\ time[newest] \in Nat /\ time[r] <= time[newest]
  <2> TAKE r \in arrived'
  <2>1. r \in 1 .. Len(time) /\ r <= newest
    BY <1>1, <1>3
  <2>2. QED
    BY <1>4, <2>1, LenProperties DEF StateInv, StreamInv
<1>7. BufferDuration \in Nat
  BY StreamAssumption DEF StreamAssumption
<1>8. newest \notin Left
  BY <1>1, <1>6, <1>7 DEF Aged
<1>9. newest \in Held \cup {p}
  BY <1>1, <1>8 DEF Left
<1>10. PICK k \in 1 .. Len(buffer) : newest = buffer[k]
  BY <1>9 DEF Shape, Leads
<1>11. newest # buffer[i] /\ SeqOf(newest) < SeqOf(buffer[i])
  BY <1>1, <1>4, <1>5, SeqOrder DEF OneCycle
<1>12. SeqOf(newest) \in Int /\ SeqOf(buffer[i]) \in Int
  <2>1. newest \in Nat /\ buffer[i] \in Nat /\ SeqRange \in Nat
    BY <1>1, <1>4, StreamAssumption DEF StreamAssumption
  <2>2. QED
    BY <2>1, SeqOfInRange DEF StateInv
<1>13. ~(i < k)
  <2>1. i < k => SeqOf(buffer[i]) <= SeqOf(buffer[k])
    BY <1>1 DEF Shape, InOrder
  <2>2. QED
    BY <1>10, <1>11, <1>12, <2>1
<1>14. k \in 1 .. n
  BY <1>1, <1>10, <1>11, <1>13
<1>15. Timestamp(newest) < CutOff(p)
  BY <1>10, <1>14 DEF Shape, Leaving
<1>16. time[newest] < time[p] - BufferDuration
  BY <1>1, <1>4, <1>15, TimeValue DEF OneCycle, StateInv
<1>17. QED
  BY <1>1, <1>6, <1>7, <1>16

\* Packets leave the buffer in the order of the stream.
LEMMA LeavingOrder ==
    ASSUME StateInv, OneCycle, CalmOrder,
           NEW p, NEW buffer, NEW n, Shape(p, buffer, n), ~late',
           NEW i \in 1 .. n, NEW r \in Left \cup Leads(buffer, i - 1)
    PROVE  r < buffer[i]
<1>1. /\ Len(time) \in Nat /\ p \in 1 .. Len(time)
      /\ Len(buffer) \in Nat /\ n \in 0 .. Len(buffer) /\ i \in 1 .. Len(buffer)
      /\ \A j \in 1 .. Len(buffer) : buffer[j] \in 1 .. Len(time) /\ buffer[j] \in arrived'
      /\ arrived' \subseteq 1 .. Len(time) /\ arrived' = arrived \cup {p}
  BY ShapeTypes DEF Shape
<1>2. CASE r \in Left
  <2>1. r \in arrived'
    BY <1>1, <1>2 DEF Left
  <2>2. buffer[i] \in Held \cup {p}
    BY <1>1 DEF Shape, Leads
  <2>3. CASE buffer[i] = p
    BY <1>2, <2>3, LeftBefore DEF CalmOrder
  <2>4. CASE buffer[i] \in Held
    <3>1. r < buffer[i] \/ (Wrapped(r) /\ ~Wrapped(buffer[i]))
      BY <1>2, <2>4 DEF CalmOrder, Behind
    <3>2. QED
      BY <2>1, <3>1, NewestStays DEF CalmOrder
  <2>5. QED
    BY <2>2, <2>3, <2>4
<1>3. CASE r \in Leads(buffer, i - 1)
  <2>1. PICK j \in 1 .. i - 1 : r = buffer[j]
    BY <1>3 DEF Leads
  <2>2. j \in 1 .. Len(buffer) /\ j < i /\ j # i
    BY <1>1
  <2>3. r # buffer[i] /\ SeqOf(r) <= SeqOf(buffer[i])
    BY <1>1, <2>1, <2>2 DEF Shape, InOrder
  <2>4. r \in arrived' /\ r \in 1 .. Len(time) /\ buffer[i] \in 1 .. Len(time)
    BY <1>1, <2>1, <2>2
  <2>5. r < buffer[i] \/ (Wrapped(r) /\ ~Wrapped(buffer[i]))
    BY <2>3, <2>4, SeqOrder DEF OneCycle
  <2>6. QED
    BY <2>4, <2>5, NewestStays DEF CalmOrder
<1>4. QED
  BY <1>2, <1>3

\* A packet leaves when one has come that is newer by more than the buffer is long.
LEMMA ReceiveKeepsAged ==
    ASSUME StateInv, OneCycle, CalmOrder,
           NEW p, NEW buffer, NEW n, Shape(p, buffer, n)
    PROVE  Aged'
<1> SUFFICES ASSUME NEW q \in Left'
             PROVE  \E r \in arrived' : time[q] + BufferDuration < time[r]
  BY DEF Aged, Shape
<1>1. CASE q \in Left
  BY <1>1 DEF CalmOrder, Aged, Shape
<1>2. CASE q \in Leads(buffer, n)
  <2>1. PICK i \in 1 .. n : q = buffer[i]
    BY <1>2 DEF Leads
  <2>2. q \in 1 .. Len(time) /\ p \in 1 .. Len(time) /\ p \in arrived'
    BY <2>1, ShapeTypes DEF Shape
  <2>3. Timestamp(q) < CutOff(p)
    BY <2>1 DEF Shape, Leaving
  <2>4. /\ time[q] < time[p] - BufferDuration
        /\ time[q] \in Nat /\ time[p] \in Nat /\ BufferDuration \in Nat
    BY <2>2, <2>3, TimeValue, StreamAssumption DEF StreamAssumption, OneCycle, StateInv
  <2>5. QED
    BY <2>2, <2>4
<1>3. QED
  BY <1>1, <1>2 DEF Shape

\* What stays in the buffer is newer than what leaves, or from before the wrap.
LEMMA ReceiveKeepsBehind ==
    ASSUME StateInv, OneCycle, CalmOrder,
           NEW p, NEW buffer, NEW n, Shape(p, buffer, n), ~late'
    PROVE  Behind'
<1>1. /\ Len(buffer) \in Nat /\ n \in 0 .. Len(buffer)
      /\ \A j \in 1 .. Len(buffer) : buffer[j] \in 1 .. Len(time)
      /\ Held' = Stay(buffer, n) /\ Left' = Left \cup Leads(buffer, n) /\ first' = first
  BY ShapeTypes DEF Shape
<1> SUFFICES ASSUME NEW q \in Left', NEW h \in Held'
             PROVE  q < h \/ (Wrapped(q) /\ ~Wrapped(h))
  BY <1>1 DEF Behind, Wrapped
<1>2. PICK j \in n + 1 .. Len(buffer) : h = buffer[j]
  BY <1>1 DEF Stay
<1>3. j \in 1 .. Len(buffer)
  BY <1>1
<1>4. CASE q \in Left
  <2>1. h \in Held \cup {p}
    BY <1>2, <1>3 DEF Shape, Leads
  <2>2. QED
    BY <1>4, <2>1, LeftBefore DEF CalmOrder, Behind
<1>5. CASE q \in Leads(buffer, n)
  <2>1. PICK i \in 1 .. n : q = buffer[i]
    BY <1>5 DEF Leads
  <2>2. i \in 1 .. Len(buffer) /\ i < j /\ i # j
    BY <1>1
  <2>3. q # h /\ SeqOf(q) <= SeqOf(h)
    BY <1>2, <1>3, <2>1, <2>2 DEF Shape, InOrder
  <2>4. QED
    BY <1>1, <1>2, <1>3, <2>1, <2>2, <2>3, SeqOrder DEF OneCycle
<1>6. QED
  BY <1>1, <1>4, <1>5

\* Before the i-th packet of the loop, lastSeq is the number of the newest that has left.
LEMMA CalmBefore ==
    ASSUME StateInv, OneCycle, CalmOrder,
           NEW p, NEW buffer, NEW n, Shape(p, buffer, n), ~late',
           NEW i \in 1 .. n, i > 1 \/ started
    PROVE  \E last \in Left \cup Leads(buffer, i - 1) :
              /\ Before(buffer, i) = SeqOf(last)
              /\ \A r \in Left \cup Leads(buffer, i - 1) : r <= last
<1>1. /\ Len(buffer) \in Nat /\ n \in 0 .. Len(buffer)
      /\ \A j \in 1 .. Len(buffer) : buffer[j] \in 1 .. Len(time)
      /\ Left \subseteq 1 .. Len(time)
  BY ShapeTypes DEF StateInv, StreamInv, Left
<1>2. CASE i > 1
  <2>1. i - 1 \in 1 .. n /\ i - 1 \in Nat /\ i - 1 >= 1 /\ i - 1 \in 1 .. Len(buffer)
    BY <1>1, <1>2
  <2>2. Leads(buffer, i - 1) = Leads(buffer, (i - 1) - 1) \cup {buffer[i - 1]}
    BY <2>1, LeadsGrow
  <2>3. \A r \in Left \cup Leads(buffer, (i - 1) - 1) : r < buffer[i - 1]
    BY <2>1, LeavingOrder
  <2>4. Leads(buffer, (i - 1) - 1) \subseteq 1 .. Len(time)
    BY <1>1, <2>1 DEF Leads
  <2>5. \A r \in Left \cup Leads(buffer, i - 1) : r <= buffer[i - 1]
    <3> TAKE r \in Left \cup Leads(buffer, i - 1)
    <3>1. CASE r = buffer[i - 1]
      BY <1>1, <2>1, <3>1
    <3>2. CASE r # buffer[i - 1]
      <4>1. r \in Left \cup Leads(buffer, (i - 1) - 1)
        BY <2>2, <3>2
      <4>2. r < buffer[i - 1] /\ r \in Nat /\ buffer[i - 1] \in Nat
        BY <1>1, <2>1, <2>3, <2>4, <4>1
      <4>3. QED
        BY <4>2
    <3>3. QED
      BY <3>1, <3>2
  <2>6. QED
    BY <1>2, <2>2, <2>5 DEF Before
<1>3. CASE ~(i > 1)
  <2>1. i = 1 /\ started
    BY <1>1, <1>3
  <2>2. Leads(buffer, i - 1) = {}
    BY <2>1 DEF Leads
  <2>3. QED
    BY <2>1, <2>2 DEF Before, CalmOrder, LastIsNewest
<1>4. QED
  BY <1>2, <1>3

\* lastSeq stays the number of the newest packet to leave, origin the oldest.
LEMMA ReceiveKeepsLast ==
    ASSUME StateInv, OneCycle, CalmOrder,
           NEW p, NEW buffer, NEW n, Shape(p, buffer, n), ~late'
    PROVE  LastIsNewest'
<1>1. /\ Len(buffer) \in Nat /\ n \in 0 .. Len(buffer)
      /\ \A j \in 1 .. Len(buffer) : buffer[j] \in 1 .. Len(time)
      /\ Left \subseteq 1 .. Len(time)
      /\ Left' = Left \cup Leads(buffer, n)
      /\ \A q : SeqOf(q)' = SeqOf(q)
  BY ShapeTypes DEF StateInv, StreamInv, Left, Shape, SeqOf
<1>2. CASE n = 0
  <2>1. Leads(buffer, n) = {}
    BY <1>2 DEF Leads
  <2>2. Left' = Left /\ UNCHANGED <<started, lastSeq, origin>>
    BY <1>1, <1>2, <2>1 DEF Shape, StateInv, TrackerInv
  <2>3. QED
    BY <1>1, <2>2 DEF CalmOrder, LastIsNewest
<1>3. CASE n > 0
  <2>1. n \in 1 .. n /\ n \in Nat /\ n >= 1 /\ n \in 1 .. Len(buffer)
    BY <1>1, <1>3
  <2>2. Leads(buffer, n) = Leads(buffer, n - 1) \cup {buffer[n]}
    BY <2>1, LeadsGrow
  <2>3. \A i \in 1 .. n : \A r \in Left \cup Leads(buffer, i - 1) : r < buffer[i]
    BY LeavingOrder
  <2>4. Leads(buffer, n) \subseteq 1 .. Len(time)
    BY <1>1 DEF Leads
  <2>5. ASSUME NEW q \in Left' PROVE q <= buffer[n]
    <3>1. q \in Nat /\ buffer[n] \in Nat
      BY <1>1, <2>1, <2>4
    <3>2. q = buffer[n] \/ q < buffer[n]
      BY <1>1, <2>1, <2>2, <2>3
    <3>3. QED
      BY <3>1, <3>2
  <2>6. ASSUME NEW q \in Left' PROVE origin' <= q
    <3>1. CASE started
      <4>1. origin' = origin /\ origin \in Left /\ origin \in Nat /\ \A r \in Left : origin <= r
        <5>1. origin' = origin
          BY <3>1 DEF Shape
        <5>2. origin \in Left
          BY <3>1 DEF StateInv, TrackerInv
        <5>3. \A r \in Left : origin <= r
          BY <3>1 DEF CalmOrder, LastIsNewest
        <5>4. QED
          BY <1>1, <5>1, <5>2, <5>3
      <4>2. CASE q \in Left
        BY <4>1, <4>2
      <4>3. CASE q \in Leads(buffer, n)
        <5>1. PICK i \in 1 .. n : q = buffer[i]
          BY <4>3 DEF Leads
        <5>2. origin < q /\ q \in Nat
          BY <1>1, <2>3, <4>1, <5>1
        <5>3. QED
          BY <4>1, <5>2
      <4>4. QED
        BY <1>1, <4>2, <4>3
    <3>2. CASE ~started
      <4>1. Left = {} /\ origin' = buffer[1]
        BY <1>3, <3>2 DEF Shape, StateInv, TrackerInv
      <4>2. PICK i \in 1 .. n : q = buffer[i]
        BY <1>1, <4>1 DEF Leads
      <4>3. q \in Nat /\ buffer[1] \in Nat
        BY <1>1, <2>1, <4>2
      <4>4. CASE i = 1
        BY <4>1, <4>2, <4>3, <4>4
      <4>5. CASE i # 1
        <5>1. buffer[1] \in Leads(buffer, i - 1)
          BY <1>1, <4>5 DEF Leads
        <5>2. buffer[1] < q
          BY <2>3, <4>2, <5>1
        <5>3. QED
          BY <4>1, <4>3, <5>2
      <4>6. QED
        BY <4>4, <4>5
    <3>3. QED
      BY <3>1, <3>2
  <2>7. buffer[n] \in Left' /\ lastSeq' = SeqOf(buffer[n])'
    BY <1>1, <1>3, <2>2 DEF Shape
  <2>8. QED
    BY <2>5, <2>6, <2>7 DEF LastIsNewest
<1>4. QED
  BY <1>1, <1>2, <1>3

\* The packets of the buffer are packets of the stream.
LEMMA LeadsInStream ==
    ASSUME StateInv, NEW p, NEW buffer, NEW n, Shape(p, buffer, n), NEW i \in 0 .. n
    PROVE  Leads(buffer, i) \subseteq 1 .. Len(time)
<1>1. /\ Len(buffer) \in Nat /\ n \in 0 .. Len(buffer)
      /\ \A j \in 1 .. Len(buffer) : buffer[j] \in 1 .. Len(time)
  BY ShapeTypes
<1>2. \A j \in 1 .. i : j \in 1 .. Len(buffer)
  BY <1>1
<1>3. QED
  BY <1>1, <1>2 DEF Leads

\* The gap in front of a packet that leaves is of packets that have not come.
LEMMA GapIsMissing ==
    ASSUME StateInv, OneCycle, CalmOrder,
           NEW p, NEW buffer, NEW n, Shape(p, buffer, n), ~late',
           NEW i \in 1 .. n, NEW last \in Left \cup Leads(buffer, i - 1),
           \A r \in Left \cup Leads(buffer, i - 1) : r <= last,
           SeqOf(buffer[i]) > SeqOf(last) + 1
    PROVE  /\ last < buffer[i] /\ SeqOf(buffer[i]) - SeqOf(last) = buffer[i] - last
           /\ \A q \in arrived' : ~(last < q /\ q < buffer[i])
<1>1. /\ Len(time) \in Nat /\ Len(buffer) \in Nat /\ n \in 0 .. Len(buffer)
      /\ \A j \in 1 .. Len(buffer) : buffer[j] \in 1 .. Len(time)
      /\ i \in 1 .. Len(buffer) /\ arrived' \subseteq 1 .. Len(time)
      /\ Left \subseteq 1 .. Len(time)
  BY ShapeTypes DEF StateInv, StreamInv, Left
<1>2. last \in 1 .. Len(time) /\ buffer[i] \in 1 .. Len(time)
  BY <1>1 DEF Leads
<1>3. last < buffer[i]
  BY LeavingOrder
<1>4. \A q \in 1 .. Len(time) : SeqOf(q) \in Int
  BY <1>1, SeqOfInRange DEF StateInv
<1>5. SeqOf(last) <= SeqOf(buffer[i])
  BY <1>2, <1>4
<1>6. last # buffer[i]
  BY <1>2, <1>3
<1>7. /\ SeqOf(buffer[i]) - SeqOf(last) = buffer[i] - last
      /\ Wrapped(last) <=> Wrapped(buffer[i])
  BY <1>2, <1>3, <1>5, <1>6, SeqOrder DEF OneCycle
<1>8. ASSUME NEW q \in arrived', last < q, q < buffer[i] PROVE FALSE
  <2>1. q \in 1 .. Len(time) /\ ~(q <= last) /\ q # last /\ q # buffer[i]
    BY <1>1, <1>2, <1>8
  <2>2. q \notin Left \cup Leads(buffer, i - 1)
    BY <2>1
  <2>3. q \in Leads(buffer, Len(buffer))
    BY <2>2 DEF Shape, Left
  <2>4. PICK k \in 1 .. Len(buffer) : q = buffer[k]
    BY <2>3 DEF Leads
  <2>5. k > i
    <3>1. k \notin 1 .. i - 1
      BY <2>2, <2>4 DEF Leads
    <3>2. QED
      BY <1>1, <2>1, <2>4, <3>1
  <2>6. SeqOf(buffer[i]) <= SeqOf(q)
    BY <1>1, <2>4, <2>5 DEF Shape, InOrder
  <2>7. buffer[i] < q \/ (Wrapped(buffer[i]) /\ ~Wrapped(q))
    BY <1>2, <2>1, <2>6, SeqOrder DEF OneCycle
  <2>8. Wrapped(last) => Wrapped(q)
    BY <1>2, <1>8, <2>1, SeqOrder DEF OneCycle
  <2>9. QED
    BY <1>2, <1>7, <1>8, <2>1, <2>7, <2>8
<1>9. QED
  BY <1>3, <1>7, <1>8

\* A step of ReportPacket counts only packets that are missing, each once.
LEMMA ReceiveMakesUpNone ==
    ASSUME StateInv, OneCycle, CalmOrder, lost <= Cardinality(Missing),
           NEW p, NEW buffer, NEW n, Shape(p, buffer, n), ~late'
    PROVE  lost' <= Cardinality(Missing)'
<1>1. /\ Len(time) \in Nat
      /\ Len(buffer) \in Nat /\ n \in 0 .. Len(buffer) /\ n \in Nat
      /\ \A i \in 1 .. Len(buffer) : buffer[i] \in 1 .. Len(time)
      /\ lost \in Nat /\ p \in Nat
      /\ Left \subseteq 1 .. Len(time)
  <2>1. /\ Len(time) \in Nat /\ p \in 1 .. Len(time)
        /\ Len(buffer) \in Nat /\ n \in 0 .. Len(buffer)
        /\ \A i \in 1 .. Len(buffer) : buffer[i] \in 1 .. Len(time)
    BY ShapeTypes
  <2>2. lost \in Nat /\ Left \subseteq 1 .. Len(time)
    BY DEF StateInv, StreamInv, TrackerInv, Left
  <2>3. QED
    BY <2>1, <2>2
<1>2. \A i \in 1 .. n : Gap(Before(buffer, i), SeqOf(buffer[i])) \in Nat
  BY GapsAreNat
<1>3. PICK f \in [0 .. n -> Nat] :
        /\ f[0] = 0
        /\ \A i \in 1 .. n : f[i] = f[i - 1] + Gap(Before(buffer, i), SeqOf(buffer[i]))
        /\ Dropped(buffer, n) = f[n]
  BY <1>1, <1>2, DroppedIsSum
<1> DEFINE left(i) == Left \cup Leads(buffer, i)
<1> DEFINE M(i) == {q \in 1 .. Len(time) \ arrived' : \E s, r \in left(i) : s < q /\ q < r}
<1> DEFINE S == {i \in 0 .. n : lost + f[i] <= Cardinality(M(i))}
<1>4. \A i \in 0 .. n : IsFiniteSet(M(i)) /\ Cardinality(M(i)) \in Nat
  <2> TAKE i \in 0 .. n
  <2>1. M(i) \subseteq 1 .. Len(time)
    OBVIOUS
  <2>2. QED
    <3> HIDE DEF M
    <3>1. QED
      BY <2>1, StreamIsFinite
<1>5. 0 \in S
  <2>1. left(0) = Left
    BY DEF Leads
  <2>2. Missing = M(0)
    <3>1. \A q \in Missing : q # p
      <4> SUFFICES ASSUME p \in Missing PROVE FALSE
        OBVIOUS
      <4>1. \E r \in Left : p < r
        BY DEF Missing
      <4>2. QED
        BY <1>1, <4>1, LeftBefore DEF CalmOrder
    <3>2. arrived' = arrived \cup {p}
      BY DEF Shape
    <3> HIDE DEF left
    <3>3. QED
      BY <2>1, <3>1, <3>2 DEF Missing, Sent
  <2>3. lost <= Cardinality(M(0))
    BY <2>2
  <2>4. QED
    <3> HIDE DEF M
    <3>1. QED
      BY <1>1, <1>3, <2>3
<1>6. ASSUME NEW i \in 1 .. n, i - 1 \in S
      PROVE  i \in S
  <2> DEFINE gap == Gap(Before(buffer, i), SeqOf(buffer[i]))
  <2>1. /\ i \in Nat /\ i >= 1 /\ i \in 0 .. n /\ i - 1 \in 0 .. n /\ i \in 1 .. Len(buffer)
        /\ gap \in Nat
    BY <1>1, <1>2
  <2>2. /\ f[i] \in Nat /\ f[i - 1] \in Nat /\ f[i] = f[i - 1] + gap
        /\ IsFiniteSet(M(i - 1)) /\ Cardinality(M(i - 1)) \in Nat
        /\ IsFiniteSet(M(i)) /\ Cardinality(M(i)) \in Nat
    <3> HIDE DEF M, gap
    <3>1. f[i] = f[i - 1] + gap
      BY <1>3 DEF gap
    <3>2. QED
      BY <1>3, <1>4, <2>1, <3>1
  <2>3. lost + f[i - 1] <= Cardinality(M(i - 1))
    <3> HIDE DEF M
    <3>1. QED
      BY <1>6
  <2>4. left(i) = left(i - 1) \cup {buffer[i]}
    BY <2>1, LeadsGrow
  <2>5. M(i - 1) \subseteq M(i)
    <3> HIDE DEF left
    <3>1. QED
      BY <2>4
  <2>6. CASE gap = 0
    <3> HIDE DEF M, gap
    <3>1. Cardinality(M(i - 1)) <= Cardinality(M(i))
      BY <2>2, <2>5, FS_Subset
    <3>2. lost \in Nat /\ f[i] = f[i - 1]
      <4>1. lost \in Nat
        BY <1>1
      <4>2. QED
        BY <2>2, <2>6, <4>1
    <3>3. lost + f[i] <= Cardinality(M(i))
      BY <2>2, <2>3, <3>1, <3>2
    <3>4. i \in 0 .. n
      BY <2>1
    <3>5. QED
      BY <3>3, <3>4
  <2>7. CASE gap # 0
    <3>1. \A q \in 1 .. Len(time) : SeqOf(q) \in Int
      BY SeqOfInRange, <1>1 DEF StateInv
    <3>2. i > 1 \/ started
      <4> SUFFICES ASSUME ~(i > 1), ~started PROVE gap = 0
        BY <2>7
      <4>1. i = 1 /\ Before(buffer, i) = SeqOf(buffer[1]) /\ SeqOf(buffer[1]) \in Int
        BY <1>1, <2>1, <3>1 DEF Before
      <4>2. QED
        BY <4>1 DEF Gap
    <3>3. PICK last \in left(i - 1) :
            Before(buffer, i) = SeqOf(last) /\ \A r \in left(i - 1) : r <= last
      BY <3>2, CalmBefore
    <3>4. SeqOf(buffer[i]) > SeqOf(last) + 1 /\ gap = SeqOf(buffer[i]) - SeqOf(last) - 1
      BY <2>7, <3>3 DEF Gap
    <3>5. /\ last < buffer[i] /\ SeqOf(buffer[i]) - SeqOf(last) = buffer[i] - last
          /\ \A q \in arrived' : ~(last < q /\ q < buffer[i])
      BY <3>3, <3>4, GapIsMissing
    <3> DEFINE between == last + 1 .. buffer[i] - 1
    <3>6. last \in 1 .. Len(time) /\ buffer[i] \in 1 .. Len(time)
      <4>1. Leads(buffer, i - 1) \subseteq 1 .. Len(time)
        BY <2>1, LeadsInStream
      <4>2. QED
        BY <1>1, <2>1, <4>1
    <3>7. IsFiniteSet(between) /\ Cardinality(between) = gap
      <4>1. last \in Int /\ buffer[i] \in Int /\ gap = buffer[i] - last - 1
        BY <3>1, <3>4, <3>5, <3>6
      <4>2. /\ IsFiniteSet(between)
            /\ Cardinality(between) = IF buffer[i] > last + 1 THEN buffer[i] - last - 1 ELSE 0
        BY <4>1, BetweenIsFinite
      <4>3. QED
        BY <2>1, <2>7, <4>1, <4>2
    <3>8. between \subseteq M(i)
      <4> SUFFICES ASSUME NEW q \in between PROVE q \in M(i)
        OBVIOUS
      <4>1. q \in 1 .. Len(time) /\ last < q /\ q < buffer[i]
        BY <1>1, <3>6
      <4>2. last \in left(i) /\ buffer[i] \in left(i)
        BY <2>4
      <4> HIDE DEF left
      <4>3. QED
        BY <3>5, <4>1, <4>2
    <3>9. M(i - 1) \cap between = {}
      <4> SUFFICES ASSUME NEW q \in M(i - 1), q \in between PROVE FALSE
        OBVIOUS
      <4>1. PICK r \in left(i - 1) : q < r
        OBVIOUS
      <4>2. r <= last /\ last < q
        BY <3>3, <3>6
      <4>3. r \in Nat /\ q \in Nat /\ last \in Nat
        <5>1. Leads(buffer, i - 1) \subseteq 1 .. Len(time)
          BY <2>1, LeadsInStream
        <5>2. QED
          BY <1>1, <3>6, <5>1
      <4>4. QED
        BY <4>1, <4>2, <4>3
    <3>10. Cardinality(M(i - 1)) + gap <= Cardinality(M(i))
      <4> HIDE DEF M, gap, between
      <4>1. /\ IsFiniteSet(M(i - 1) \cup between)
            /\ Cardinality(M(i - 1) \cup between)
                = Cardinality(M(i - 1)) + gap - Cardinality(M(i - 1) \cap between)
        BY <2>2, <3>7, FS_Union
      <4>2. Cardinality(M(i - 1) \cap between) = 0
        BY <3>9, FS_EmptySet
      <4>3. Cardinality(M(i - 1) \cup between) <= Cardinality(M(i))
        BY <2>2, <2>5, <3>8, FS_Subset
      <4>4. QED
        BY <2>1, <2>2, <4>1, <4>2, <4>3
    <3>11. QED
      <4> HIDE DEF M, gap, between
      <4>1. lost \in Nat
        BY <1>1
      <4>2. gap \in Nat /\ i \in 0 .. n
        BY <2>1
      <4>3. lost + f[i - 1] + gap <= Cardinality(M(i))
        BY <2>2, <2>3, <3>10, <4>1, <4>2
      <4>4. lost + f[i] <= Cardinality(M(i))
        BY <2>2, <4>1, <4>2, <4>3
      <4>5. QED
        BY <4>2, <4>4
  <2>8. QED
    BY <2>6, <2>7
<1>7. n \in S
  <2> HIDE DEF S
  <2>1. \A i \in 1 .. n : i - 1 \in S => i \in S
    BY <1>6
  <2>2. 0 .. n \subseteq S
    BY <1>1, <1>5, <2>1, BoundedInduction
  <2>3. QED
    BY <1>1, <2>2
<1>8. Missing' = M(n)
  <2>1. time' = time /\ Left' = left(n)
    BY DEF Shape
  <2> HIDE DEF left
  <2>2. QED
    BY <2>1 DEF Missing, Sent
<1>9. lost' = lost + f[n]
  BY <1>3 DEF Shape
<1>10. QED
  <2> HIDE DEF M
  <2>1. lost + f[n] <= Cardinality(M(n))
    BY <1>7
  <2>2. QED
    BY <1>8, <1>9, <2>1

-----------------------------------------------------------------------------
(* Theorems.                                                               *)

\* No loss is made up.
CalmInv == OneCycle => CalmOrder /\ lost <= Cardinality(Missing)

LossInv == StateInv /\ SkippedCounted /\ CalmInv /\ HeldBriefly

\* What stays in the buffer is no older than the cut-off.
LEMMA ReceiveHoldsBriefly ==
    ASSUME StateInv, HeldBriefly,
           NEW p, NEW buffer, NEW n, Shape(p, buffer, n)
    PROVE  HeldBriefly'
<1> SUFFICES ASSUME NoSeqWrap', NoTimeWrap', ~late',
                    NEW h \in Held', NEW q \in arrived'
             PROVE  time[q] <= time[h] + BufferDuration
  BY DEF HeldBriefly, Shape
<1>1. /\ Len(time) \in Nat /\ p \in 1 .. Len(time)
      /\ Len(buffer) \in Nat /\ n \in 0 .. Len(buffer)
      /\ \A j \in 1 .. Len(buffer) : buffer[j] \in 1 .. Len(time)
      /\ arrived' \subseteq 1 .. Len(time)
  BY ShapeTypes
<1>2. /\ UNCHANGED <<first, time>> /\ arrived' = arrived \cup {p} /\ Held' = Stay(buffer, n)
      /\ NoSeqWrap /\ NoTimeWrap /\ ~late
      /\ \A r \in arrived : ~(time[r] > time[p] + BufferDuration)
  BY DEF Shape, NoSeqWrap, NoTimeWrap
<1>3. BufferDuration \in Nat /\ \A r \in 1 .. Len(time) : time[r] \in Nat
  BY StreamAssumption, LenProperties DEF StreamAssumption, StateInv, StreamInv
<1>4. PICK j \in n + 1 .. Len(buffer) : h = buffer[j]
  BY <1>2 DEF Stay
<1>5. j \in 1 .. Len(buffer) /\ n + 1 \in 1 .. Len(buffer) /\ n < Len(buffer)
  BY <1>1
<1>6. CASE q = p
  <2>1. time[buffer[n + 1]] >= time[p] - BufferDuration
    <3>1. Timestamp(buffer[n + 1]) >= CutOff(p)
      BY <1>5 DEF Shape, Leaving
    <3>2. QED
      BY <1>1, <1>2, <1>5, <3>1, TimeValue DEF StateInv
  <2>2. time[buffer[n + 1]] <= time[h]
    <3>1. buffer[n + 1] \in 1 .. Len(time) /\ h \in 1 .. Len(time)
      BY <1>1, <1>4, <1>5
    <3>2. CASE buffer[n + 1] = h
      BY <1>3, <3>1, <3>2
    <3>3. CASE buffer[n + 1] # h
      <4>1. n + 1 < j
        BY <1>1, <1>4, <3>3
      <4>2. SeqOf(buffer[n + 1]) <= SeqOf(h)
        BY <1>4, <1>5, <4>1 DEF Shape, InOrder
      <4>3. Len(time) <= SeqRange /\ ~Wrapped(buffer[n + 1])
        <5>1. first \in Nat /\ SeqRange \in Nat /\ first + Len(time) < SeqRange
          BY <1>2, StreamAssumption DEF StreamAssumption, NoSeqWrap, StateInv, StreamInv
        <5>2. QED
          BY <1>1, <3>1, <5>1 DEF Wrapped
      <4>4. buffer[n + 1] < h
        BY <3>1, <3>3, <4>2, <4>3, SeqOrder
      <4>5. QED
        BY <3>1, <4>4 DEF StateInv, StreamInv
    <3>4. QED
      BY <3>2, <3>3
  <2>3. time[buffer[n + 1]] \in Nat /\ time[h] \in Nat /\ time[p] \in Nat
    BY <1>1, <1>3, <1>4, <1>5
  <2>4. QED
    BY <1>3, <1>6, <2>1, <2>2, <2>3
<1>7. CASE q \in arrived
  <2>1. h \in Held \cup {p}
    BY <1>4, <1>5 DEF Shape, Leads
  <2>2. CASE h = p
    <3>1. time[q] \in Nat /\ time[p] \in Nat
      BY <1>1, <1>3
    <3>2. QED
      BY <1>2, <1>3, <1>7, <2>2, <3>1
  <2>3. CASE h \in Held
    BY <1>2, <1>7, <2>3 DEF HeldBriefly
  <2>4. QED
    BY <2>1, <2>2, <2>3
<1>8. QED
  BY <1>2, <1>6, <1>7

\* The invariant is kept by a packet that arrives.
LEMMA ReceiveKeepsLosses ==
    ASSUME LossInv, NEW p \in 1 .. MaxSent, Receive(p)
    PROVE  LossInv'
<1>1. StateInv /\ SkippedCounted /\ CalmInv /\ HeldBriefly
  BY DEF LossInv
<1>2. PICK buffer, n : Shape(p, buffer, n)
  BY <1>1, ReceiveShape
<1>3. StateInv'
  BY <1>1, <1>2, ReceiveKeepsState
<1>4. UNCHANGED <<first, time>> /\ (~late' => ~late)
  BY <1>2 DEF Shape
<1>5. SkippedCounted'
  <2>1. NoSeqWrap' => NoSeqWrap
    BY <1>4 DEF NoSeqWrap
  <2>2. QED
    BY <1>1, <1>2, <2>1, ReceiveCountsSkipped DEF SkippedCounted
<1>6. CalmInv'
  <2> SUFFICES ASSUME OneCycle' PROVE CalmOrder' /\ lost' <= Cardinality(Missing)'
    BY DEF CalmInv
  <2>1. ~late' /\ OneCycle
    BY <1>4 DEF OneCycle, NoTimeWrap
  <2>2. CalmOrder /\ lost <= Cardinality(Missing)
    BY <1>1, <2>1 DEF CalmInv
  <2>3. Aged' /\ Behind' /\ LastIsNewest'
    BY <1>1, <1>2, <2>1, <2>2, ReceiveKeepsAged, ReceiveKeepsBehind, ReceiveKeepsLast
  <2>4. QED
    BY <1>1, <1>2, <2>1, <2>2, <2>3, ReceiveMakesUpNone DEF CalmOrder
<1>7. HeldBriefly'
  BY <1>1, <1>2, ReceiveHoldsBriefly
<1>8. QED
  BY <1>3, <1>5, <1>6, <1>7 DEF LossInv

\* The invariant is kept by a packet that is sent.
LEMMA SendKeepsLosses ==
    ASSUME LossInv, NEW gap \in Gaps, Send(gap)
    PROVE  LossInv'
<1>1. /\ time' = Append(time, time[Len(time)] + gap)
      /\ UNCHANGED <<first, arrived, late, origin, packets, started, lastSeq, lost>>
  BY DEF Send, trackerVars
<1>2. StateInv /\ StreamInv /\ SkippedCounted /\ CalmInv /\ HeldBriefly
  BY DEF LossInv, StateInv
<1>3. /\ Len(time) \in Nat /\ Len(time) \in 1 .. Len(time) /\ gap \in Nat
      /\ 1 \in 1 .. Len(time)
      /\ \A i \in 1 .. Len(time) : time[i] \in Nat
      /\ arrived \subseteq 1 .. Len(time)
  BY <1>2, StreamAssumption, LenProperties, EmptySeq DEF StreamAssumption, StreamInv
<1>4. /\ time' \in Seq(Nat) /\ Len(time') = Len(time) + 1 /\ time' # <<>>
      /\ \A i \in 1 .. Len(time) : time'[i] = time[i]
      /\ time'[Len(time')] = time[Len(time)] + gap
  <2>1. time[Len(time)] + gap \in Nat /\ time \in Seq(Nat)
    BY <1>2, <1>3 DEF StreamInv
  <2>2. QED
    BY <1>1, <1>3, <2>1, AppendProperties, EmptySeq
<1>5. Held' = Held /\ Left' = Left /\ Left \subseteq arrived /\ Held \subseteq arrived
  <2>1. Held \subseteq arrived
    BY <1>2, LenProperties DEF StateInv, BufferInv, Held
  <2>2. QED
    BY <1>1, <2>1 DEF Held, Left
<1>6. \A q : SeqOf(q)' = SeqOf(q) /\ Wrapped(q)' = Wrapped(q)
  BY <1>1 DEF SeqOf, Wrapped
<1>7. StateInv'
  <2>1. ASSUME NEW i \in 1 .. Len(time'), NEW j \in 1 .. Len(time'), i <= j
        PROVE  time'[i] <= time'[j]
    <3>1. CASE j <= Len(time)
      <4>1. i \in 1 .. Len(time) /\ j \in 1 .. Len(time)
        BY <1>3, <1>4, <2>1, <3>1
      <4>2. QED
        BY <1>2, <1>4, <2>1, <4>1 DEF StreamInv
    <3>2. CASE ~(j <= Len(time))
      <4>1. j = Len(time')
        BY <1>3, <1>4, <3>2
      <4>2. CASE i = j
        <5>1. time'[i] \in Nat
          BY <1>3, <1>4, <4>1, <4>2
        <5>2. QED
          BY <4>2, <5>1
      <4>3. CASE i # j
        <5>1. i \in 1 .. Len(time) /\ i <= Len(time)
          BY <1>3, <1>4, <4>1, <4>3
        <5>2. time[i] <= time[Len(time)] /\ time'[i] = time[i]
          BY <1>2, <1>3, <1>4, <5>1 DEF StreamInv
        <5>3. time'[j] = time[Len(time)] + gap /\ time[Len(time)] \in Nat /\ gap \in Nat
          BY <1>3, <1>4, <4>1
        <5>4. time[i] \in Nat
          BY <1>3, <5>1
        <5>5. QED
          BY <5>2, <5>3, <5>4
      <4>4. QED
        BY <4>2, <4>3
    <3>3. QED
      BY <3>1, <3>2
  <2>2. arrived' \subseteq 1 .. Len(time')
    BY <1>1, <1>3, <1>4
  <2>3. StreamInv'
    BY <1>1, <1>2, <1>4, <2>1, <2>2 DEF StreamInv
  <2>4. BufferInv'
    BY <1>1, <1>2 DEF StateInv, BufferInv, Sorted, SeqOf
  <2>5. TrackerInv'
    BY <1>1, <1>2, <1>5, <1>6 DEF StateInv, TrackerInv
  <2>6. QED
    BY <2>3, <2>4, <2>5 DEF StateInv
<1>8. NoSeqWrap' => NoSeqWrap
  BY <1>1, <1>2, <1>3, <1>4, StreamAssumption DEF NoSeqWrap, StreamAssumption, StreamInv
<1>9. NoTimeWrap' => NoTimeWrap
  <2>1. time'[1] = time[1]
    BY <1>3, <1>4
  <2>2. TimeRange \in Nat /\ time[Len(time)] \in Nat
    BY <1>3, StreamAssumption DEF StreamAssumption
  <2>3. QED
    BY <1>3, <1>4, <2>1, <2>2 DEF NoTimeWrap
<1>10. SkippedCounted'
  <2>1. Skipped(Left, origin)' = Skipped(Left, origin)
    <3>1. \A r \in Left : r \in 1 .. Len(time)
      BY <1>3, <1>5
    <3>2. \A q \in 1 .. Len(time') : (\E r \in Left : q < r) => q \in 1 .. Len(time)
      BY <1>3, <1>4, <3>1
    <3>3. \A q \in 1 .. Len(time) : q \in 1 .. Len(time')
      BY <1>3, <1>4
    <3>4. QED
      BY <1>1, <1>5, <3>2, <3>3 DEF Skipped
  <2>2. QED
    BY <1>1, <1>2, <1>8, <2>1 DEF SkippedCounted
<1>11. CalmInv'
  <2> SUFFICES ASSUME OneCycle' PROVE CalmOrder' /\ lost' <= Cardinality(Missing)'
    BY DEF CalmInv
  <2>1. OneCycle
    BY <1>1, <1>3, <1>4, <1>9, StreamAssumption DEF OneCycle, StreamAssumption
  <2>2. CalmOrder /\ lost <= Cardinality(Missing)
    BY <1>2, <2>1 DEF CalmInv
  <2>3. Missing' = Missing
    <3>1. \A r \in Left : r \in 1 .. Len(time)
      BY <1>3, <1>5
    <3>2. \A q \in 1 .. Len(time') : (\E r \in Left : q < r) => q \in 1 .. Len(time)
      BY <1>3, <1>4, <3>1
    <3>3. \A q \in 1 .. Len(time) : q \in 1 .. Len(time')
      BY <1>3, <1>4
    <3>4. QED
      BY <1>1, <1>5, <3>2, <3>3 DEF Missing, Sent
  <2>4. Aged'
    <3>1. \A r \in arrived : time'[r] = time[r]
      BY <1>3, <1>4
    <3>2. QED
      BY <1>1, <1>5, <2>2, <3>1 DEF CalmOrder, Aged
  <2>5. Behind' /\ LastIsNewest'
    BY <1>1, <1>5, <1>6, <2>2 DEF CalmOrder, Behind, LastIsNewest
  <2>6. QED
    BY <1>1, <2>2, <2>3, <2>4, <2>5 DEF CalmOrder
<1>12. HeldBriefly'
  <2>1. \A r \in arrived : time'[r] = time[r]
    BY <1>3, <1>4
  <2>2. QED
    BY <1>1, <1>2, <1>5, <1>8, <1>9, <2>1 DEF HeldBriefly
<1>13. QED
  BY <1>7, <1>10, <1>11, <1>12 DEF LossInv

\* The invariant holds of an empty buffer.
LEMMA LossInit == Init => LossInv
<1> SUFFICES ASSUME Init PROVE LossInv
  OBVIOUS
<1>1. /\ first \in 0 .. SeqRange - 1 /\ arrived = {} /\ packets = <<>> /\ started = FALSE
      /\ lastSeq = 0 /\ lost = 0
  BY StreamAssumption DEF StreamAssumption, Init
<1>2. PICK t \in Nat : time = <<t>>
  BY StreamAssumption DEF StreamAssumption, Init
<1>3. Held = {} /\ Left = {}
  BY <1>1 DEF Held, Left
<1>4. Skipped(Left, origin) = {} /\ Missing = {}
  BY <1>3 DEF Skipped, Missing
<1>5. Cardinality(Skipped(Left, origin)) = 0 /\ Cardinality(Missing) = 0
  BY <1>4, FS_EmptySet
<1>6. StateInv
  <2>1. time \in Seq(Nat) /\ Len(time) = 1 /\ time # <<>> /\ time[1] = t
    BY <1>2
  <2>2. StreamInv
    <3>1. \A i, j \in 1 .. Len(time) : time[i] <= time[j]
      BY <1>2, <2>1
    <3>2. QED
      BY <1>1, <2>1, <3>1 DEF StreamInv
  <2>3. packets \in Seq(arrived) /\ Len(packets) = 0
    BY <1>1, EmptySeq
  <2>4. BufferInv
    BY <2>3 DEF BufferInv, Sorted
  <2>5. TrackerInv
    <3>1. 0 \in 0 .. SeqRange - 1
      BY StreamAssumption DEF StreamAssumption
    <3>2. QED
      BY <1>1, <1>3, <3>1 DEF TrackerInv
  <2>6. QED
    BY <2>2, <2>4, <2>5 DEF StateInv
<1>7. SkippedCounted /\ CalmInv /\ HeldBriefly
  BY <1>1, <1>3, <1>5
     DEF SkippedCounted, CalmInv, CalmOrder, Aged, Behind, LastIsNewest, HeldBriefly
<1>8. QED
  BY <1>6, <1>7 DEF LossInv

\* The invariant is inductive.
LEMMA LossStep == LossInv /\ [Next]_vars => LossInv'
<1> SUFFICES ASSUME LossInv, [Next]_vars PROVE LossInv'
  OBVIOUS
<1>1. CASE UNCHANGED vars
  BY <1>1 DEF vars, streamVars, trackerVars, LossInv, StateInv, StreamInv, BufferInv, TrackerInv,
     Sorted, SeqOf, Held, Left, SkippedCounted, Skipped, NoSeqWrap, NoTimeWrap, CalmInv, OneCycle,
     CalmOrder, Aged, Behind, Wrapped, LastIsNewest, Missing, Sent, HeldBriefly
<1>2. QED
  BY <1>1, SendKeepsLosses, ReceiveKeepsLosses DEF Next

\* The invariant of the tracker.
LEMMA LossHolds == Spec => []LossInv
<1>1. QED
  BY LossInit, LossStep, PTL DEF Spec

\* The buffer holds packets of the stream, and the count of the losses is a number.
THEOREM LostTypes == Spec => []TypeOK
<1>1. ASSUME LossInv PROVE TypeOK
  <2>1. packets \in Seq(arrived) /\ arrived \subseteq 1 .. MaxSent
    BY <1>1 DEF LossInv, StateInv, StreamInv, BufferInv
  <2>2. packets \in Seq(1 .. MaxSent)
    BY <2>1, SeqWidens
  <2>3. QED
    BY <1>1, <2>2 DEF LossInv, StateInv, TrackerInv, TypeOK
<1>2. QED
  BY <1>1, LossHolds, PTL

\* While no packet is late and no number wraps, a packet leaves the buffer as soon as one has
\* come that is newer by more than the buffer is long.
THEOREM PacketsHeldBriefly == Spec => []HeldBriefly
<1>1. LossInv => HeldBriefly
  BY DEF LossInv
<1>2. QED
  BY <1>1, LossHolds, PTL

\* In a stream whose sequence numbers wrap at most once, and whose timestamps do not, no losses
\* are made up while no packet is late.
THEOREM NoLossMadeUp == Spec => []NoSpuriousLoss
<1>1. LossInv => NoSpuriousLoss
  BY DEF LossInv, CalmInv, OneCycle, NoSpuriousLoss
<1>2. QED
  BY <1>1, LossHolds, PTL

\* While no sequence number wraps, the losses are no fewer than the packets missing after the
\* first to leave, however late packets are and whatever their timestamps.
THEOREM NoLossMissed == Spec => []LossesNotMissed
<1>1. ASSUME LossInv PROVE LossesNotMissed
  <2> DEFINE after == {p \in Missing : p > origin}
  <2> SUFFICES ASSUME NoSeqWrap PROVE lost >= Cardinality(after)
    BY DEF LossesNotMissed
  <2>1. StateInv /\ Cardinality(Skipped(Left, origin)) <= lost /\ lost \in Nat
    BY <1>1 DEF LossInv, SkippedCounted, StateInv, TrackerInv
  <2>2. after \subseteq Skipped(Left, origin)
    <3> SUFFICES ASSUME NEW p \in after PROVE p \in Skipped(Left, origin)
      OBVIOUS
    <3>1. /\ p \in 1 .. Len(time) /\ p \notin arrived /\ p > origin
          /\ \E r \in Left : p < r
      BY DEF Missing, Sent
    <3>2. p \notin Left
      BY <3>1 DEF Left
    <3>3. origin \in Nat
      <4>1. started
        BY <2>1, <3>1 DEF StateInv, TrackerInv
      <4>2. origin \in Left
        BY <2>1, <4>1 DEF StateInv, TrackerInv
      <4>3. QED
        BY <2>1, <4>2 DEF StateInv, StreamInv, Left
    <3>4. QED
      BY <3>1, <3>2, <3>3 DEF Skipped
  <2>3. IsFiniteSet(Skipped(Left, origin)) /\ Cardinality(Skipped(Left, origin)) \in Nat
    <3>1. Skipped(Left, origin) \subseteq 1 .. Len(time)
      BY DEF Skipped
    <3>2. QED
      BY <2>1, <3>1, StreamIsFinite
  <2> HIDE DEF after
  <2>4. Cardinality(after) <= Cardinality(Skipped(Left, origin)) /\ Cardinality(after) \in Nat
    BY <2>2, <2>3, FS_Subset, FS_CardinalityType
  <2>5. QED
    BY <2>1, <2>3, <2>4
<1>2. QED
  BY <1>1, LossHolds, PTL

\* While no packet is late and no number wraps, the losses are exactly the packets missing
\* between those that have left the buffer.
THEOREM LossesAreExact == Spec => []LossesExact
<1>1. ASSUME LossInv PROVE LossesExact
  <2> SUFFICES ASSUME NoSeqWrap, NoTimeWrap, ~late PROVE lost = Cardinality(Missing)
    BY DEF LossesExact
  <2>1. StateInv /\ Cardinality(Skipped(Left, origin)) <= lost /\ lost \in Nat
    BY <1>1 DEF LossInv, SkippedCounted, StateInv, TrackerInv
  <2>2. OneCycle
    BY <2>1, StreamAssumption, LenProperties
       DEF OneCycle, NoSeqWrap, StreamAssumption, StateInv, StreamInv
  <2>3. CalmOrder /\ lost <= Cardinality(Missing)
    BY <1>1, <2>2 DEF LossInv, CalmInv
  <2>4. Missing \subseteq Skipped(Left, origin)
    <3> SUFFICES ASSUME NEW p \in Missing PROVE p \in Skipped(Left, origin)
      OBVIOUS
    <3>1. p \in 1 .. Len(time) /\ p \notin arrived /\ p \notin Left
      BY DEF Missing, Sent, Left
    <3>2. PICK q, r \in Left : q < p /\ p < r
      BY DEF Missing
    <3>3. started
      BY <2>1, <3>2 DEF StateInv, TrackerInv
    <3>4. origin <= q /\ origin \in Left
      BY <2>1, <2>3, <3>2, <3>3 DEF CalmOrder, LastIsNewest, StateInv, TrackerInv
    <3>5. origin \in Nat /\ q \in Nat /\ p \in Nat
      BY <2>1, <3>1, <3>2, <3>4 DEF StateInv, StreamInv, Left
    <3>6. origin < p
      BY <3>2, <3>4, <3>5
    <3>7. QED
      BY <3>1, <3>2, <3>6 DEF Skipped
  <2>5. IsFiniteSet(Skipped(Left, origin)) /\ Cardinality(Skipped(Left, origin)) \in Nat
    <3>1. Skipped(Left, origin) \subseteq 1 .. Len(time)
      BY DEF Skipped
    <3>2. QED
      BY <2>1, <3>1, StreamIsFinite
  <2>6. Cardinality(Missing) <= Cardinality(Skipped(Left, origin)) /\ Cardinality(Missing) \in Nat
    BY <2>4, <2>5, FS_Subset, FS_CardinalityType
  <2>7. QED
    BY <2>1, <2>3, <2>5, <2>6
<1>2. QED
  BY <1>1, LossHolds, PTL

\* Whatever is lost, late or wrapped, the buffer stays sorted by sequence number, as
\* SearchInts needs it to be to find a place in it.
THEOREM BufferSorted == Spec => []Sorted
<1>1. LossInv => Sorted
  BY DEF LossInv, StateInv, BufferInv
<1>2. QED
  BY <1>1, LossHolds, PTL
=============================================================================
