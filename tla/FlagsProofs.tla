----------------------------- MODULE FlagsProofs -----------------------------
(***************************************************************************)
(* Theorems about Flags, for every text, every duration and any width of   *)
(* uint.                                                                   *)
(***************************************************************************)
EXTENDS Flags, InductionLemmas, SequenceTheorems, TLAPS

\* What has been set of config when Parse is at each flag.
AfterURL == Phases \ {"args", "helped", "refused"}
AfterConnections == AfterURL \ {"connections", "number"}
AfterDuration == AfterConnections \ {"relay", "runup", "duration"}
AfterBuffer == AfterDuration \ {"buffer"}

\* The fields of config that have been set in a phase fit what the runner needs.
Progress ==
    /\ phase \in AfterURL => config.whip \in Schemed
    /\ phase \in AfterConnections => config.connections > 0
    /\ phase \in AfterDuration => config.duration > 0
    /\ phase \in AfterBuffer => config.bufferDuration > MinBuffer
    /\ config.targetResolution >= 0

IInv == TypeOK /\ Progress

\* The error of a number is less than its thousands.
LEMMA ErrorIsSmall ==
    ASSUME NEW n \in Nat, n >= 1
    PROVE  Error(n) \in Nat /\ Error(n) + 1 <= 1000 * n
<1> DEFINE e == (4000 * n) \div Precision
<1>1. Precision \in Nat /\ Precision >= 5
  BY FlagsAssumption DEF FlagsAssumption
<1>2. e \in Nat /\ Precision * e <= 4000 * n
  <2> DEFINE b == 4000 * n
  <2>1. b \in Nat
    OBVIOUS
  <2> HIDE DEF b
  <2>2. b \div Precision \in Nat /\ Precision * (b \div Precision) <= b
    BY <1>1, <2>1
  <2>3. QED
    BY <2>2 DEF b
<1>3. 5 * e <= Precision * e
  BY <1>1, <1>2
<1>4. Precision * e \in Nat
  BY <1>1, <1>2
<1> HIDE DEF e
<1>5. QED
  BY <1>2, <1>3, <1>4 DEF Error, e

\* The thousands of a uint are a uint.
LEMMA ThousandfoldType ==
    ASSUME TypeOK, NEW scale \in Scales
    PROVE  Thousandfold(scale) \subseteq 0 .. UintRange - 1
<1> DEFINE number == cons * scale + dec
<1>1. UintRange \in Nat /\ UintRange > 1 /\ scale \in Nat /\ scale >= 10
  BY FlagsAssumption DEF FlagsAssumption, Scales
<1>2. cons \in Nat /\ dec \in Nat
  BY <1>1 DEF TypeOK, NumberTypes
<1>3. number \in Nat
  BY <1>1, <1>2
<1>4. number = 0 => cons = 0 /\ dec = 0
  <2>1. cons > 0 => cons * scale > 0
    BY <1>1, <1>2
  <2>2. cons * scale \in Nat
    BY <1>1, <1>2
  <2>3. QED
    BY <1>2, <2>1, <2>2
<1>5. UintRange \div 2 \in 0 .. UintRange - 1
  BY <1>1
<1>6. ASSUME NEW n \in Products(scale)
      PROVE  n \in Nat
  <2>1. CASE dec = 0 /\ 125 * cons <= Precision
    BY <1>2, <2>1 DEF Products
  <2>2. CASE ~(dec = 0 /\ 125 * cons <= Precision)
    <3>1. number >= 1
      <4>1. Precision \in Nat
        BY FlagsAssumption DEF FlagsAssumption
      <4>2. QED
        BY <1>2, <1>3, <1>4, <2>2, <4>1
    <3>2. Error(number) \in Nat /\ Error(number) + 1 <= 1000 * number
      BY <1>3, <3>1, ErrorIsSmall
    <3>3. n \in (1000 * number - Error(number) - 1) \div scale
                     .. (1000 * number + Error(number)) \div scale
      BY <2>2 DEF Products
    <3> HIDE DEF number
    <3>4. 1000 * number - Error(number) - 1 \in Nat /\ 1000 * number + Error(number) \in Nat
      BY <1>3, <3>2
    <3>5. QED
      BY <1>1, <3>3, <3>4
  <2>3. QED
    BY <2>1, <2>2
<1>7. QED
  BY <1>1, <1>5, <1>6 DEF Thousandfold

\* Reading the number keeps the types, and nothing has been set meanwhile.
LEMMA NumberKeeps ==
    ASSUME IInv, ReadDot \/ ReadDigit \/ ReadSeparator \/ ReadKilo
    PROVE  IInv'
<1>1. /\ phase' = phase /\ phase = "number" /\ text' = text /\ config' = config
      /\ pos' = pos + 1 /\ pos < Len(text)
  BY DEF ReadDot, ReadDigit, ReadSeparator, ReadKilo, Reads
<1>2. pos' \in 0 .. Len(text)'
  <2>1. text \in Seq(Nat) /\ pos \in 0 .. Len(text)
    BY DEF IInv, TypeOK, NumberTypes
  <2>2. QED
    BY <1>1, <2>1, LenProperties
<1>3. UintRange \in Nat /\ UintRange > 1
  BY FlagsAssumption DEF FlagsAssumption
<1>4. cons' \in 0 .. UintRange - 1 /\ dec' \in 0 .. UintRange - 1 /\ hasDot' \in BOOLEAN
  <2>1. cons \in 0 .. UintRange - 1 /\ dec \in 0 .. UintRange - 1 /\ hasDot \in BOOLEAN
    BY DEF IInv, TypeOK, NumberTypes
  <2>2. CASE ReadDot \/ ReadSeparator
    BY <2>1, <2>2 DEF ReadDot, ReadSeparator
  <2>3. CASE ReadDigit
    <3>1. Char \in 0 .. 9
      BY <2>3 DEF ReadDigit, Digits
    <3>2. Appended(cons) \in 0 .. UintRange - 1 /\ Appended(dec) \in 0 .. UintRange - 1
      BY <1>3, <2>1, <3>1 DEF Appended
    <3>3. QED
      BY <2>1, <2>3, <3>2 DEF ReadDigit
  <2>4. CASE ReadKilo
    BY <2>1, <2>4, ThousandfoldType DEF ReadKilo, IInv
  <2>5. QED
    BY <2>2, <2>3, <2>4
<1>5. TypeOK'
  BY <1>1, <1>2, <1>4 DEF IInv, TypeOK, NumberTypes
<1>6. QED
  BY <1>1, <1>5 DEF IInv, Progress

\* Exit keeps everything but the phase, and ends in one that asks for what was set.
LEMMA ExitKeeps ==
    ASSUME IInv, NEW code \in {"helped", "refused", "running"}, Exit(code),
           code = "running" => phase = "parsed"
    PROVE  IInv'
<1>1. phase' = code /\ UNCHANGED <<text, pos, cons, dec, hasDot, config>>
  BY DEF Exit, numberVars
<1>2. TypeOK'
  BY <1>1 DEF IInv, TypeOK, NumberTypes, Phases
<1>3. Progress'
  BY <1>1 DEF IInv, Progress, AfterURL, AfterConnections, AfterDuration, AfterBuffer, Phases
<1>4. QED
  BY <1>2, <1>3 DEF IInv

\* An action that sets one field to a value of its type keeps the types.
LEMMA SetTypes ==
    ASSUME IInv, NEW next \in Phases, NEW value,
           \/ Set("whip", value, next) /\ value \in Endpoints
           \/ Set("relayMode", value, next) /\ value \in RelayModes
           \/ Set("runup", value, next) /\ value \in Int
           \/ Set("duration", value, next) /\ value \in Int
           \/ Set("bufferDuration", value, next) /\ value \in Int
           \/ Set("targetResolution", value, next) /\ value \in Int
           \/ Set("targetCodec", value, next) /\ value \in {"", "H264", "VP8"}
    PROVE  TypeOK'
<1>1. config \in Configs
  BY DEF IInv, TypeOK
<1>2. config' \in Configs /\ phase' = next /\ UNCHANGED numberVars
  BY <1>1 DEF Set, Configs
<1>3. QED
  BY <1>2 DEF IInv, TypeOK, NumberTypes, numberVars

\* What the variables of the number parser are cleared to has their types.
LEMMA ClearedTypes ==
    /\ 0 \in 0 .. UintRange - 1
    /\ <<>> \in Seq(Nat) /\ 0 \in 0 .. Len(<<>>)
<1>1. UintRange \in Nat /\ UintRange > 1
  BY FlagsAssumption DEF FlagsAssumption
<1>2. 0 \in 0 .. UintRange - 1
  BY <1>1
<1>3. QED
  BY <1>2

\* A step of a flag that is read after the number.
LEMMA FlagKeeps ==
    ASSUME IInv, ~Exit("refused"),
           \/ ParseWhipURL \/ ParseRelayMode \/ ParseRunup \/ ParseDuration
           \/ ParseBufferDuration \/ ParseTargetResolution \/ ParseTargetCodec
    PROVE  IInv'
<1> USE DEF IInv
<1> USE FlagsAssumption DEF FlagsAssumption
<1>1. CASE ParseWhipURL /\ ~Exit("refused")
  <2>1. PICK value, next : value \in Schemed /\ next = "connections" /\ Set("whip", value, next)
    BY <1>1 DEF ParseWhipURL
  <2>2. TypeOK'
    BY <2>1, SetTypes DEF Schemed, Endpoints, Phases
  <2>3. Progress'
    BY <1>1, <2>1, <2>2 DEF ParseWhipURL, Set, Configs, TypeOK, Progress,
           AfterURL, AfterConnections, AfterDuration, AfterBuffer, Phases
  <2>4. QED
    BY <2>2, <2>3
<1>2. CASE ParseRelayMode /\ ~Exit("refused")
  <2>1. PICK value, next : value \in RelayModes /\ next = "runup" /\ Set("relayMode", value, next)
    BY <1>2 DEF ParseRelayMode
  <2>2. TypeOK'
    BY <2>1, SetTypes DEF Phases
  <2>3. Progress'
    BY <1>2, <2>1, <2>2 DEF ParseRelayMode, Set, Configs, TypeOK, Progress,
           AfterURL, AfterConnections, AfterDuration, AfterBuffer, Phases
  <2>4. QED
    BY <2>2, <2>3
<1>3. CASE ParseRunup /\ ~Exit("refused")
  <2>1. PICK value, next : value \in Durations /\ next = "duration" /\ Set("runup", value, next)
    BY <1>3 DEF ParseRunup
  <2>2. TypeOK'
    BY <2>1, SetTypes DEF Phases
  <2>3. Progress'
    BY <1>3, <2>1, <2>2 DEF ParseRunup, Set, Configs, TypeOK, Progress,
           AfterURL, AfterConnections, AfterDuration, AfterBuffer, Phases
  <2>4. QED
    BY <2>2, <2>3
<1>4. CASE ParseDuration /\ ~Exit("refused")
  <2>1. PICK value, next : value \in Durations /\ value > 0 /\ next = "buffer"
                            /\ Set("duration", value, next)
    BY <1>4 DEF ParseDuration
  <2>2. TypeOK'
    BY <2>1, SetTypes DEF Phases
  <2>3. Progress'
    BY <1>4, <2>1, <2>2 DEF ParseDuration, Set, Configs, TypeOK, Progress,
           AfterURL, AfterConnections, AfterDuration, AfterBuffer, Phases
  <2>4. QED
    BY <2>2, <2>3
<1>5. CASE ParseBufferDuration /\ ~Exit("refused")
  <2>1. PICK value, next : value \in Durations /\ value > MinBuffer /\ next = "resolution"
                            /\ Set("bufferDuration", value, next)
    BY <1>5 DEF ParseBufferDuration
  <2>2. TypeOK'
    BY <2>1, SetTypes DEF Phases
  <2>3. Progress'
    BY <1>5, <2>1, <2>2 DEF ParseBufferDuration, Set, Configs, TypeOK, Progress,
           AfterURL, AfterConnections, AfterDuration, AfterBuffer, Phases
  <2>4. QED
    BY <2>2, <2>3
<1>6. CASE ParseTargetResolution /\ ~Exit("refused")
  <2>1. PICK value, next : value \in Int /\ value >= 0 /\ phase = "resolution"
                            /\ next = "codec" /\ Set("targetResolution", value, next)
    BY <1>6 DEF ParseTargetResolution, NamedHeights
  <2>2. TypeOK'
    BY <2>1, SetTypes DEF Phases
  <2>3. Progress'
    BY <2>1, <2>2 DEF Set, Configs, TypeOK, Progress,
           AfterURL, AfterConnections, AfterDuration, AfterBuffer, Phases
  <2>4. QED
    BY <2>2, <2>3
<1>7. CASE ParseTargetCodec /\ ~Exit("refused")
  <2>1. PICK value, next : value \in {"", "H264", "VP8"} /\ next = "parsed"
                            /\ Set("targetCodec", value, next)
    BY <1>7 DEF ParseTargetCodec
  <2>2. TypeOK'
    BY <2>1, SetTypes DEF Phases
  <2>3. Progress'
    BY <1>7, <2>1, <2>2 DEF ParseTargetCodec, Set, Configs, TypeOK, Progress,
           AfterURL, AfterConnections, AfterDuration, AfterBuffer, Phases
  <2>4. QED
    BY <2>2, <2>3
<1>8. QED
  BY <1>1, <1>2, <1>3, <1>4, <1>5, <1>6, <1>7

\* Every step keeps the inductive invariant, one case per flag.
LEMMA NextKeeps ==
    ASSUME IInv, [Next]_vars
    PROVE  IInv'
<1>1. CASE UNCHANGED vars \/ Ended
  BY <1>1 DEF Ended, vars, numberVars, IInv, TypeOK, NumberTypes, Progress
<1>2. CASE Exit("refused")
  BY <1>2, ExitKeeps
<1>3. CASE Help \/ ParseFails \/ NewRunner \/ ReadUnexpected
  BY <1>3, ExitKeeps DEF Help, ParseFails, NewRunner, ReadUnexpected
<1>4. CASE PraseConnections /\ ~Exit("refused")
  <2>1. PICK t \in Texts :
          /\ phase = "connections" /\ phase' = "number" /\ UNCHANGED config
          /\ text' = t /\ pos' = 0 /\ cons' = 0 /\ dec' = 0 /\ hasDot' = FALSE
    BY <1>4 DEF PraseConnections
  <2>2. t \in Seq(Nat) /\ UintRange \in Nat \ {0}
    BY FlagsAssumption DEF FlagsAssumption
  <2>3. 0 \in 0 .. Len(t) /\ 0 \in 0 .. UintRange - 1
    BY <2>2, LenProperties
  <2>4. TypeOK'
    BY <2>1, <2>2, <2>3 DEF IInv, TypeOK, NumberTypes, Phases
  <2>5. Progress'
    BY <2>1 DEF IInv, Progress, AfterURL, AfterConnections, AfterDuration, AfterBuffer, Phases
  <2>6. QED
    BY <2>4, <2>5 DEF IInv
<1>5. CASE ReadDot \/ ReadDigit \/ ReadSeparator \/ ReadKilo
  BY <1>5, NumberKeeps
<1>6. CASE ConnectionsParsed /\ ~Exit("refused")
  <2>1. /\ phase = "number" /\ phase' = "relay" /\ config' = [config EXCEPT !.connections = cons]
        /\ text' = <<>> /\ pos' = 0 /\ cons' = 0 /\ dec' = 0 /\ hasDot' = FALSE /\ cons # 0
    BY <1>6 DEF ConnectionsParsed, Parsed
  <2>2. config \in Configs /\ cons \in 0 .. UintRange - 1 /\ UintRange \in Nat \ {0}
    BY FlagsAssumption DEF IInv, TypeOK, NumberTypes, FlagsAssumption
  <2>3. cons > 0
    BY <2>1, <2>2
  <2>4. config' \in Configs
    BY <2>1, <2>2 DEF Configs
  <2>5. NumberTypes'
    <3>1. text' \in Seq(Nat) /\ pos' \in 0 .. Len(text')
      BY <2>1, ClearedTypes
    <3>2. QED
      BY <2>1, <3>1, ClearedTypes DEF NumberTypes
  <2>6. TypeOK'
    BY <2>1, <2>4, <2>5 DEF TypeOK, Phases
  <2>7. Progress'
    BY <2>1, <2>2, <2>3 DEF IInv, Progress, Configs,
           AfterURL, AfterConnections, AfterDuration, AfterBuffer, Phases
  <2>8. QED
    BY <2>6, <2>7 DEF IInv
<1>7. CASE /\ ~Exit("refused")
           /\ \/ ParseWhipURL \/ ParseRelayMode \/ ParseRunup \/ ParseDuration
              \/ ParseBufferDuration \/ ParseTargetResolution \/ ParseTargetCodec
  BY <1>7, FlagKeeps
<1>8. QED
  BY <1>1, <1>2, <1>3, <1>4, <1>5, <1>6, <1>7 DEF Next, ParseNumber

\* Init and every step keep the inductive invariant.
LEMMA Inductive == Spec => []IInv
<1>1. ASSUME Init PROVE IInv
  <2>1. UintRange \in Nat \ {0} /\ <<>> \in Seq(Nat) /\ 0 \in 0 .. Len(<<>>)
    BY FlagsAssumption DEF FlagsAssumption
  <2>2. Unset \in Configs /\ Unset.targetResolution >= 0
    BY <2>1 DEF Unset, Configs, Endpoints, RelayModes
  <2>3. NumberTypes
    <3>1. text \in Seq(Nat) /\ pos \in 0 .. Len(text)
      BY <1>1, ClearedTypes DEF Init
    <3>2. QED
      BY <1>1, <3>1, ClearedTypes DEF Init, NumberTypes
  <2>4. TypeOK
    BY <1>1, <2>2, <2>3 DEF Init, TypeOK, Phases
  <2>5. QED
    BY <1>1, <2>2, <2>4 DEF Init, IInv, Progress,
           AfterURL, AfterConnections, AfterDuration, AfterBuffer
<1>2. IInv /\ [Next]_vars => IInv'
  BY NextKeeps
<1>3. QED
  BY <1>1, <1>2, PTL DEF Spec

\* Whatever the command line, what Parse keeps has the types of the fields of flags, and
\* the number it has read so far is one of uint.
THEOREM TypesKept == Spec => []TypeOK
BY Inductive, PTL DEF IInv

\* Whatever the command line, a runner is started only with a configuration that the rest
\* of the program can work with.
THEOREM OnlyFittingConfigs == Spec => []StartedFits
<1>1. IInv => StartedFits
  <2>1. "running" \in AfterBuffer /\ "running" \in AfterDuration
        /\ "running" \in AfterConnections /\ "running" \in AfterURL
    BY DEF AfterURL, AfterConnections, AfterDuration, AfterBuffer, Phases
  <2>2. config \in Configs => config.targetResolution \in Int
    BY DEF Configs
  <2>3. QED
    BY <2>1, <2>2 DEF IInv, TypeOK, Progress, StartedFits
<1>2. QED
  BY <1>1, Inductive, PTL

-----------------------------------------------------------------------------
(* The texts taken for a number.                                           *)

\* What has been read of the text is well-formed, a dot has been seen if there is one,
\* and a k can only have been the last character.
PrefixFits ==
    /\ \A i \in 1 .. pos : text[i] <= Kilo /\ (text[i] = Kilo => i = Len(text))
    /\ \A i, j \in 1 .. pos : text[i] = Dot /\ text[j] = Dot => i = j
    /\ hasDot <=> \E i \in 1 .. pos : text[i] = Dot

PrefixInv == phase = "number" => PrefixFits

\* Reading one more character keeps it: the parser refuses a second dot, a k before the end
\* and what it does not expect.
LEMMA ReadingKeepsPrefix ==
    ASSUME TypeOK, PrefixInv, ReadDot \/ ReadDigit \/ ReadSeparator \/ ReadKilo
    PROVE  PrefixInv'
<1>1. /\ phase = "number" /\ pos < Len(text) /\ pos' = pos + 1 /\ text' = text
      /\ hasDot' = (hasDot \/ ReadDot)
      /\ \/ Char = Dot /\ ReadDot /\ ~hasDot
         \/ Char < Dot
         \/ Char = Separator
         \/ Char = Kilo /\ pos + 1 = Len(text)
  <2>1. /\ phase = "number" /\ pos < Len(text) /\ pos' = pos + 1 /\ text' = text
    BY DEF ReadDot, ReadDigit, ReadSeparator, ReadKilo, Reads
  <2>2. pos \in Nat /\ Len(text) \in Nat /\ hasDot \in BOOLEAN
    BY LenProperties DEF TypeOK, NumberTypes
  <2>3. CASE ReadDot
    BY <2>1, <2>2, <2>3 DEF ReadDot, Reads
  <2>4. CASE ReadDigit
    BY <2>1, <2>2, <2>4 DEF ReadDigit, ReadDot, Reads, Digits, Dot
  <2>5. CASE ReadSeparator
    BY <2>1, <2>2, <2>5 DEF ReadSeparator, ReadDot, Reads, Dot, Separator
  <2>6. CASE ReadKilo
    BY <2>1, <2>2, <2>6 DEF ReadKilo, ReadDot, Reads, Dot, Kilo
  <2>7. QED
    BY <2>3, <2>4, <2>5, <2>6
<1>2. pos \in Nat /\ Len(text) \in Nat /\ \A i \in 1 .. Len(text) : text[i] \in Nat
  BY LenProperties, ElementOfSeq DEF TypeOK, NumberTypes
<1>3. PrefixFits
  BY <1>1 DEF PrefixInv
<1>4. \A i \in 1 .. pos + 1 : i \in 1 .. pos \/ (i = pos + 1 /\ text[i] = Char)
  BY <1>2 DEF Char
<1>5. \A i \in 1 .. pos + 1 : text[i] <= Kilo /\ (text[i] = Kilo => i = Len(text))
  BY <1>1, <1>2, <1>3, <1>4 DEF PrefixFits, Dot, Separator, Kilo
<1>6. Char = Dot => ReadDot /\ ~hasDot
  BY <1>1, <1>2 DEF Dot, Separator, Kilo
<1>7. \A i, j \in 1 .. pos + 1 : text[i] = Dot /\ text[j] = Dot => i = j
  BY <1>2, <1>3, <1>4, <1>6 DEF PrefixFits
<1>8. hasDot' <=> \E i \in 1 .. pos + 1 : text[i] = Dot
  <2>1. hasDot' => Char = Dot \/ hasDot
    BY <1>1 DEF ReadDot
  <2>2. pos + 1 \in 1 .. pos + 1 /\ 1 .. pos \subseteq 1 .. pos + 1
    BY <1>2
  <2>3. hasDot' => \E i \in 1 .. pos + 1 : text[i] = Dot
    BY <1>3, <2>1, <2>2 DEF PrefixFits, Char
  <2>4. (\E i \in 1 .. pos + 1 : text[i] = Dot) => hasDot'
    BY <1>1, <1>2, <1>3, <1>4, <1>6 DEF PrefixFits
  <2>5. hasDot' \in BOOLEAN
    BY <1>1
  <2>6. QED
    BY <2>3, <2>4, <2>5
<1>9. QED
  BY <1>1, <1>5, <1>7, <1>8 DEF PrefixInv, PrefixFits

\* So does every step.
LEMMA PrefixHolds == Spec => []PrefixInv
<1>1. Init => PrefixInv
  BY DEF Init, PrefixInv
<1>2. ASSUME TypeOK, PrefixInv, [Next]_vars PROVE PrefixInv'
  <2>1. CASE ReadDot \/ ReadDigit \/ ReadSeparator \/ ReadKilo
    BY <1>2, <2>1, ReadingKeepsPrefix
  <2>2. CASE PraseConnections
    <3>1. CASE phase' = "refused"
      BY <3>1 DEF PrefixInv
    <3>2. CASE phase' # "refused"
      <4>1. pos' = 0 /\ hasDot' = FALSE
        BY <2>2, <3>2 DEF PraseConnections, Exit
      <4>2. QED
        BY <4>1 DEF PrefixInv, PrefixFits
    <3>3. QED
      BY <3>1, <3>2
  <2>3. CASE UNCHANGED vars
    BY <1>2, <2>3 DEF vars, numberVars, PrefixInv, PrefixFits
  <2>4. CASE phase' # "number"
    BY <2>4 DEF PrefixInv
  <2>5. QED
    BY <1>2, <2>1, <2>2, <2>3, <2>4 DEF Next, ParseNumber, Help, ParseFails, ParseWhipURL,
           ReadUnexpected, ConnectionsParsed, ParseRelayMode, ParseRunup, ParseDuration,
           ParseBufferDuration, ParseTargetResolution, ParseTargetCodec, NewRunner, Ended,
           Set, Exit
<1>3. QED
  BY <1>1, <1>2, TypesKept, PTL DEF Spec

-----------------------------------------------------------------------------
(* Writing digits after one another.                                       *)

\* Writing digits is a sum of steps, one for each character.
IsWriting(f, n, places, digits) ==
    /\ f \in [0 .. Len(text) -> Nat] /\ f[0] = n
    /\ \A i \in 1 .. Len(text) :
           f[i] = IF i \in places THEN 10 * f[i - 1] + digits[i] ELSE f[i - 1]

\* There is such a function, and Writing is its last value.
LEMMA WritingUnfolds ==
    ASSUME Len(text) \in Nat, NEW n \in Nat, NEW places, NEW digits,
           \A i \in 1 .. Len(text) : i \in places => digits[i] \in Nat
    PROVE  \E f : IsWriting(f, n, places, digits) /\ Writing(n, places, digits) = f[Len(text)]
<1> DEFINE N == Len(text)
<1> DEFINE next(i, k) == IF i \in places THEN 10 * k + digits[i] ELSE k
<1> DEFINE Counts(f, m) == f = [i \in 0 .. m |-> IF i = 0 THEN n ELSE next(i, f[i - 1])]
<1> DEFINE S == {m \in 0 .. N : \E f : Counts(f, m)}
<1>0. N \in Nat
  OBVIOUS
<1>1. 0 \in S
  <2> DEFINE f == [i \in 0 .. 0 |-> n]
  <2> HIDE DEF next
  <2>1. \A i \in 0 .. 0 : n = IF i = 0 THEN n ELSE next(i, f[i - 1])
    OBVIOUS
  <2>2. Counts(f, 0)
    BY <2>1
  <2> HIDE DEF Counts, f, N
  <2>3. QED
    BY <1>0, <2>2
<1>2. \A m \in 1 .. N : m - 1 \in S => m \in S
  <2> HIDE DEF N
  <2> TAKE m \in 1 .. N
  <2> HAVE m - 1 \in S
  <2>0. PICK g : Counts(g, m - 1)
    <3> HIDE DEF Counts
    <3>1. QED
      OBVIOUS
  <2> DEFINE f == [i \in 0 .. m |-> IF i = m THEN next(m, g[m - 1]) ELSE g[i]]
  <2> HIDE DEF next
  <2>1. \A i \in 0 .. m - 1 : g[i] = IF i = 0 THEN n ELSE next(i, g[i - 1])
    BY <2>0
  <2>2. ASSUME NEW i \in 0 .. m
        PROVE  f[i] = IF i = 0 THEN n ELSE next(i, f[i - 1])
    <3>1. CASE i = m
      BY <1>0, <3>1 DEF N
    <3>2. CASE i # m
      BY <1>0, <2>1, <3>2 DEF N
    <3>3. QED
      BY <3>1, <3>2
  <2>3. f = [i \in 0 .. m |-> f[i]]
    OBVIOUS
  <2>4. Counts(f, m)
    <3> HIDE DEF f
    <3>1. QED
      BY <2>2, <2>3
  <2> HIDE DEF Counts, f
  <2>5. QED
    BY <2>4
<1>3. N \in S
  <2> HIDE DEF S, N
  <2>1. 0 .. N \subseteq S
    BY <1>0, <1>1, <1>2, BoundedInduction
  <2>2. QED
    BY <1>0, <2>1
<1> DEFINE number == CHOOSE f : Counts(f, N)
<1>4. Counts(number, N)
  <2>1. \E f : Counts(f, N)
    BY <1>3
  <2> HIDE DEF Counts
  <2>2. QED
    BY <2>1
<1>5. Writing(n, places, digits) = number[N]
  BY DEF Writing
<1> HIDE DEF number
<1>6. \A i \in 0 .. N : number[i] = IF i = 0 THEN n ELSE next(i, number[i - 1])
  <2> HIDE DEF next
  <2>1. QED
    BY <1>4
<1>7. \A i \in 0 .. N : number[i] \in Nat
  <2> DEFINE M == {i \in 0 .. N : number[i] \in Nat}
  <2>1. 0 \in M
    BY <1>6
  <2>2. \A i \in 1 .. N : i - 1 \in M => i \in M
    <3>1. \A i \in 1 .. N, k \in Nat : next(i, k) \in Nat
      OBVIOUS
    <3> HIDE DEF next, N
    <3>2. \A i \in 1 .. N : number[i] = next(i, number[i - 1])
      BY <1>0, <1>6
    <3>3. ASSUME NEW i \in 1 .. N, number[i - 1] \in Nat PROVE number[i] \in Nat
      BY <3>1, <3>2, <3>3
    <3>4. 1 .. N \subseteq 0 .. N
      BY <1>0
    <3>5. QED
      BY <3>3, <3>4
  <2> HIDE DEF M, N
  <2>3. 0 .. N \subseteq M
    BY <1>0, <2>1, <2>2, BoundedInduction
  <2>4. QED
    BY <2>3 DEF M
<1>8. number = [i \in 0 .. N |-> number[i]]
  <2> HIDE DEF next, N
  <2> DEFINE F == [i \in 0 .. N |-> IF i = 0 THEN n ELSE next(i, number[i - 1])]
  <2>1. number = F
    BY <1>4
  <2>2. QED
    BY <2>1
<1>9. IsWriting(number, n, places, digits)
  <2>1. \A i \in 1 .. N : number[i] = next(i, number[i - 1])
    <3> HIDE DEF next, N
    <3>1. QED
      BY <1>0, <1>6
  <2>2. number[0] = n
    BY <1>0, <1>6
  <2>3. number \in [0 .. N -> Nat]
    BY <1>7, <1>8
  <2>4. QED
    BY <2>1, <2>2, <2>3 DEF IsWriting
<1>10. QED
  BY <1>5, <1>9

-----------------------------------------------------------------------------
(* What the digits written before and after the dot make together.         *)

\* The numbers that the whole digits, the decimals and all digits make, and the power of
\* ten that has as many zeros as there are decimals.
AllWritings(w, d, a, t) ==
    /\ IsWriting(w, 0, WholeAt, text)
    /\ IsWriting(d, 0, DecimalsAt, text)
    /\ IsWriting(a, 0, DigitsAt, text)
    /\ IsWriting(t, 1, DecimalsAt, [i \in DecimalsAt |-> 0])

NoneUpTo(i) == \A j \in 1 .. i : j \notin DecimalsAt

\* All digits are the whole ones with the decimals after them.
Together(w, d, a, t, i) ==
    /\ a[i] = w[i] * t[i] + d[i]
    /\ t[i] >= 1 /\ d[i] < t[i]
    /\ NoneUpTo(i) => t[i] = 1 /\ d[i] = 0
    /\ ~NoneUpTo(i) /\ ~LeadingZero => t[i] <= 10 * d[i]

\* One more decimal.
Appends(w, d, a, t, c) ==
    /\ 10 * a + c = w * (10 * t) + (10 * d + c)
    /\ 10 * t >= 1 /\ 10 * d + c < 10 * t
    /\ t <= 10 * d => 10 * t <= 10 * (10 * d + c)

\* It is written after the others.
LEMMA DigitAppended ==
    ASSUME NEW w \in Nat, NEW d \in Nat, NEW a \in Nat, NEW t \in Nat, NEW c \in 0 .. 9,
           a = w * t + d, t >= 1, d < t
    PROVE  Appends(w, d, a, t, c)
<1>1. 10 * (w * t) = w * (10 * t) /\ w * t \in Nat
  OBVIOUS
<1>2. 10 * a + c = 10 * (w * t) + (10 * d + c)
  BY <1>1
<1>3. QED
  BY <1>1, <1>2 DEF Appends

\* So they are after each character.
LEMMA DigitsTogether ==
    ASSUME text \in Seq(Nat), NEW w, NEW d, NEW a, NEW t, AllWritings(w, d, a, t)
    PROVE  \A i \in 0 .. Len(text) : Together(w, d, a, t, i)
<1> DEFINE N == Len(text)
<1> DEFINE S == {i \in 0 .. N : Together(w, d, a, t, i)}
<1>0. /\ N \in Nat /\ \A i \in 1 .. N : text[i] \in Nat
      /\ w \in [0 .. N -> Nat] /\ d \in [0 .. N -> Nat]
      /\ a \in [0 .. N -> Nat] /\ t \in [0 .. N -> Nat]
  BY LenProperties, ElementOfSeq DEF AllWritings, IsWriting
<1>1. 0 \in S
  <2>1. a[0] = 0 /\ w[0] = 0 /\ d[0] = 0 /\ t[0] = 1 /\ NoneUpTo(0)
    BY DEF AllWritings, IsWriting, NoneUpTo
  <2> HIDE DEF N
  <2>2. QED
    BY <1>0, <2>1 DEF Together
<1>2. ASSUME NEW i \in 1 .. N, i - 1 \in S PROVE Together(w, d, a, t, i)
  <2>0. Together(w, d, a, t, i - 1)
    BY <1>2
  <2>1. /\ w[i] = IF i \in WholeAt THEN 10 * w[i - 1] + text[i] ELSE w[i - 1]
        /\ d[i] = IF i \in DecimalsAt THEN 10 * d[i - 1] + text[i] ELSE d[i - 1]
        /\ a[i] = IF i \in DigitsAt THEN 10 * a[i - 1] + text[i] ELSE a[i - 1]
    BY <1>2 DEF AllWritings, IsWriting
  <2>2. t[i] = IF i \in DecimalsAt THEN 10 * t[i - 1] ELSE t[i - 1]
    <3>1. t[i] = IF i \in DecimalsAt THEN 10 * t[i - 1] + [j \in DecimalsAt |-> 0][i]
                 ELSE t[i - 1]
      BY <1>2 DEF AllWritings, IsWriting
    <3>2. t[i - 1] \in Nat
      BY <1>0, <1>2
    <3>3. QED
      BY <3>1, <3>2
  <2>3. /\ w[i - 1] \in Nat /\ d[i - 1] \in Nat /\ a[i - 1] \in Nat /\ t[i - 1] \in Nat
        /\ text[i] \in Nat /\ i - 1 \in 0 .. N /\ i \in Nat /\ i - 1 \in Nat
    <3> HIDE DEF N
    <3>1. i - 1 \in 0 .. N /\ i \in Nat /\ i - 1 \in Nat
      BY <1>0, <1>2
    <3>2. QED
      BY <1>0, <1>2, <3>1
  <2>4. CASE i \notin DigitsAt
    <3>1. i \notin WholeAt /\ i \notin DecimalsAt
      BY <2>4 DEF WholeAt, DecimalsAt
    <3>2. NoneUpTo(i) <=> NoneUpTo(i - 1)
      BY <2>3, <3>1 DEF NoneUpTo
    <3>3. QED
      BY <2>0, <2>1, <2>2, <2>4, <3>1, <3>2 DEF Together
  <2>5. CASE i \in WholeAt
    <3>1. i \in DigitsAt /\ i \notin DecimalsAt
      BY <2>5 DEF WholeAt, DecimalsAt
    <3>2. \A j \in 1 .. i : j \notin DecimalsAt
      <4> SUFFICES ASSUME NEW j \in 1 .. i, j \in DecimalsAt PROVE FALSE
        OBVIOUS
      <4>1. \A k \in 1 .. j : text[k] # Dot
        BY <2>3, <2>5 DEF WholeAt
      <4>2. QED
        BY <4>1 DEF DecimalsAt, WholeAt
    <3>3. NoneUpTo(i) /\ NoneUpTo(i - 1)
      BY <2>3, <3>2 DEF NoneUpTo
    <3>4. t[i - 1] = 1 /\ d[i - 1] = 0 /\ a[i - 1] = w[i - 1] * t[i - 1] + d[i - 1]
      BY <2>0, <3>3 DEF Together
    <3>5. a[i] = w[i] /\ t[i] = 1 /\ d[i] = 0
      BY <2>1, <2>2, <2>3, <2>5, <3>1, <3>4
    <3>6. w[i] \in Nat
      BY <1>0, <1>2
    <3>7. QED
      BY <3>3, <3>5, <3>6 DEF Together
  <2>6. CASE i \in DecimalsAt
    <3>1. i \in DigitsAt /\ i \notin WholeAt
      BY <2>6 DEF DecimalsAt
    <3>2. /\ w[i] = w[i - 1] /\ d[i] = 10 * d[i - 1] + text[i] /\ a[i] = 10 * a[i - 1] + text[i]
          /\ t[i] = 10 * t[i - 1] /\ text[i] \in 0 .. 9
      BY <2>1, <2>2, <2>6, <3>1 DEF DigitsAt, Digits
    <3>3. a[i - 1] = w[i - 1] * t[i - 1] + d[i - 1] /\ t[i - 1] >= 1 /\ d[i - 1] < t[i - 1]
      BY <2>0 DEF Together
    <3>4. Appends(w[i - 1], d[i - 1], a[i - 1], t[i - 1], text[i])
      <4>1. text[i] \in 0 .. 9
        BY <3>2
      <4>2. QED
        BY <2>3, <3>3, <4>1, DigitAppended
    <3>5. a[i] = w[i] * t[i] + d[i] /\ t[i] >= 1 /\ d[i] < t[i]
      BY <3>2, <3>4 DEF Appends
    <3>6. ~NoneUpTo(i)
      BY <2>3, <2>6 DEF NoneUpTo
    <3>7. ASSUME ~LeadingZero PROVE t[i] <= 10 * d[i]
      <4>1. CASE NoneUpTo(i - 1)
        <5>1. \A j \in DecimalsAt : i <= j
          <6> SUFFICES ASSUME NEW j \in DecimalsAt, j < i PROVE FALSE
            BY <2>3 DEF DecimalsAt, DigitsAt
          <6>1. j \in 1 .. i - 1
            BY <2>3 DEF DecimalsAt, DigitsAt
          <6>2. QED
            BY <4>1, <6>1 DEF NoneUpTo
        <5>2. text[i] # 0
          BY <2>6, <3>7, <5>1 DEF LeadingZero
        <5>3. t[i - 1] = 1 /\ d[i - 1] = 0
          BY <2>0, <4>1 DEF Together
        <5>4. QED
          BY <2>3, <3>2, <5>2, <5>3
      <4>2. CASE ~NoneUpTo(i - 1)
        <5>1. t[i - 1] <= 10 * d[i - 1]
          BY <2>0, <3>7, <4>2 DEF Together
        <5>2. QED
          BY <3>2, <3>4, <5>1 DEF Appends
      <4>3. QED
        BY <4>1, <4>2
    <3>8. QED
      BY <3>5, <3>6, <3>7 DEF Together
  <2>7. QED
    BY <2>4, <2>5, <2>6 DEF DecimalsAt
<1>3. \A i \in 1 .. N : i - 1 \in S => i \in S
  <2> HIDE DEF N
  <2>1. \A i \in 1 .. N : i - 1 \in S => Together(w, d, a, t, i)
    BY <1>2
  <2>2. 1 .. N \subseteq 0 .. N
    BY <1>0
  <2>3. QED
    BY <2>1, <2>2
<1>4. 0 .. N \subseteq S
  <2> HIDE DEF S, N
  <2>1. QED
    BY <1>0, <1>1, <1>3, BoundedInduction
<1>5. QED
  BY <1>4

-----------------------------------------------------------------------------
(* The power of ten that Scales finds.                                     *)

\* The powers of ten are tenfold apart, Power's among them.
Apart(p, m) ==
    /\ m < 10 * p => m <= p
    /\ m < p => 10 * m <= p
    /\ p < m => 10 * p <= m

\* Each decimal makes the power ten times as large, and all stay in step with PowersOfTen.
LEMMA PowersApart ==
    ASSUME text \in Seq(Nat), NEW t, IsWriting(t, 1, DecimalsAt, [i \in DecimalsAt |-> 0])
    PROVE  \A i \in 0 .. Len(text), m \in PowersOfTen : Apart(t[i], m)
<1> DEFINE N == Len(text)
<1> DEFINE S == {i \in 0 .. N : t[i] >= 1 /\ \A m \in PowersOfTen : Apart(t[i], m)}
<1>0. N \in Nat /\ t \in [0 .. N -> Nat] /\ PowersOfTen \subseteq Nat \ (0 .. 9)
  BY LenProperties, FlagsAssumption DEF IsWriting, FlagsAssumption
<1>1. 0 \in S
  <2>1. t[0] = 1
    BY DEF IsWriting
  <2>2. \A m \in PowersOfTen : Apart(1, m)
    BY <1>0 DEF Apart
  <2> HIDE DEF N
  <2>3. QED
    BY <1>0, <2>1, <2>2
<1>2. ASSUME NEW i \in 1 .. N, i - 1 \in S
      PROVE  t[i] >= 1 /\ \A m \in PowersOfTen : Apart(t[i], m)
  <2>1. t[i - 1] \in Nat /\ t[i - 1] >= 1 /\ \A m \in PowersOfTen : Apart(t[i - 1], m)
    BY <1>0, <1>2
  <2>2. t[i] = IF i \in DecimalsAt THEN 10 * t[i - 1] ELSE t[i - 1]
    <3>1. t[i] = IF i \in DecimalsAt THEN 10 * t[i - 1] + [j \in DecimalsAt |-> 0][i]
                 ELSE t[i - 1]
      BY <1>2 DEF IsWriting
    <3>2. QED
      BY <2>1, <3>1
  <2>3. ASSUME NEW p \in Nat, p >= 1, \A m \in PowersOfTen : Apart(p, m), NEW m \in PowersOfTen
        PROVE  Apart(10 * p, m)
    <3>1. m \in Nat
      BY <1>0
    <3>2. CASE m = 10
      BY <2>3, <3>2 DEF Apart
    <3>3. CASE m # 10
      <4>1. PICK k \in PowersOfTen : m = 10 * k
        BY <3>3, FlagsAssumption DEF FlagsAssumption
      <4>2. Apart(p, k) /\ k \in Nat
        BY <1>0, <2>3
      <4>3. QED
        BY <2>3, <4>1, <4>2 DEF Apart
    <3>4. QED
      BY <3>2, <3>3
  <2>4. CASE i \in DecimalsAt
    <3>1. \A m \in PowersOfTen : Apart(10 * t[i - 1], m)
      BY <2>1, <2>3
    <3>2. QED
      BY <2>1, <2>2, <2>4, <3>1
  <2>5. QED
    BY <2>1, <2>2, <2>4
<1>3. \A i \in 1 .. N : i - 1 \in S => i \in S
  <2> HIDE DEF N
  <2>1. \A i \in 1 .. N : i - 1 \in S => t[i] >= 1 /\ \A m \in PowersOfTen : Apart(t[i], m)
    BY <1>2
  <2>2. 1 .. N \subseteq 0 .. N
    BY <1>0
  <2>3. QED
    BY <2>1, <2>2
<1>4. 0 .. N \subseteq S
  <2> HIDE DEF S, N
  <2>1. QED
    BY <1>0, <1>1, <1>3, BoundedInduction
<1>5. QED
  BY <1>4

\* Whole multiples of the divisor leave the quotient by themselves.
Splits(a, b, t) == (a * t + b) \div t = a + b \div t

\* They do, for every divisor.
LEMMA QuotientSplits ==
    ASSUME NEW a \in Int, NEW b \in Nat, NEW t \in Nat, t >= 1
    PROVE  Splits(a, b, t)
<1> DEFINE q == b \div t
<1> DEFINE r == b % t
<1>1. q \in Nat /\ r \in 0 .. t - 1 /\ b = q * t + r
  OBVIOUS
<1> HIDE DEF q, r
<1>2. a * t + b = (a + q) * t + r
  BY <1>1
<1>3. ASSUME NEW k \in Int PROVE (k * t + r) \div t = k
  BY <1>1
<1>4. (a + q) \in Int
  BY <1>1
<1>5. (a * t + b) \div t = a + q
  BY <1>2, <1>3, <1>4
<1>6. QED
  BY <1>5 DEF Splits, q

\* Where a float64 is right to less than one, rounding crosses one whole number at most.
LEMMA RoundedByOne ==
    ASSUME NEW a \in Nat, NEW t \in Nat, t >= 1,
           4 * ((1000 * a) \div t + 1) <= Precision,
           NEW c \in (1000 * a - Error(a) - 1) \div t .. (1000 * a + Error(a)) \div t
    PROVE  c \in (1000 * a) \div t - 1 .. (1000 * a) \div t + 1
<1> DEFINE b == 1000 * a
<1> DEFINE w == b \div t
<1> DEFINE e == Error(a)
<1>1. b \in Nat /\ 4000 * a = 4 * b /\ Precision \in Nat /\ Precision >= 5
  BY FlagsAssumption DEF FlagsAssumption
<1>2. e = (4 * b) \div Precision
  BY <1>1 DEF Error
<1> HIDE DEF b, e
<1>3. w \in Nat /\ b < (w + 1) * t
  <2>1. w \in Nat /\ b = w * t + (b % t) /\ b % t \in 0 .. t - 1
    BY <1>1
  <2>2. (w + 1) * t = w * t + t /\ w * t \in Nat
    BY <2>1
  <2>3. QED
    BY <1>1, <2>1, <2>2
<1>4. 4 * (w + 1) <= Precision
  BY DEF b
<1> HIDE DEF w
<1>5. 4 * b < Precision * t
  <2>1. (4 * (w + 1)) * t <= Precision * t
    <3> DEFINE k == 4 * (w + 1)
    <3>1. k \in Nat /\ k <= Precision
      BY <1>3, <1>4
    <3> HIDE DEF k
    <3>2. k * t <= Precision * t
      BY <1>1, <3>1
    <3>3. QED
      BY <3>2 DEF k
  <2>2. (4 * (w + 1)) * t = 4 * ((w + 1) * t) /\ (w + 1) * t \in Nat
    BY <1>3
  <2>3. Precision * t \in Nat
    BY <1>1
  <2>4. QED
    BY <1>1, <1>3, <2>1, <2>2, <2>3
<1>6. e \in Nat /\ e + 1 <= t
  <2> DEFINE f == 4 * b
  <2>1. f \in Nat /\ f < Precision * t /\ e = f \div Precision
    BY <1>1, <1>2, <1>5
  <2> HIDE DEF f
  <2>2. e \in Nat /\ Precision * e <= f
    BY <1>1, <2>1
  <2>3. Precision * e < Precision * t
    BY <1>1, <2>1, <2>2
  <2>4. ~(e >= t)
    BY <1>1, <2>2, <2>3
  <2>5. QED
    BY <2>2, <2>4
<1>7. /\ (b + t) \div t = w + 1 /\ (b - t) \div t = w - 1
  <2>1. Splits(1, b, t) /\ Splits(-1, b, t)
    BY <1>1, QuotientSplits
  <2>2. 1 * t + b = b + t /\ (-1) * t + b = b - t
    BY <1>1
  <2>3. QED
    BY <1>1, <1>3, <2>1, <2>2 DEF w, Splits
<1>8. /\ (b - t) \div t <= (b - e - 1) \div t
      /\ (b + e) \div t <= (b + t) \div t
  <2>1. \A x, y \in Int : x <= y => x \div t <= y \div t
    OBVIOUS
  <2>2. b - t <= b - e - 1 /\ b + e <= b + t
    BY <1>1, <1>6
  <2>3. QED
    BY <1>1, <1>6, <2>1, <2>2
<1>9. c \in (b - e - 1) \div t .. (b + e) \div t
  BY DEF b, e
<1>10. (b - e - 1) \div t \in Int /\ (b + e) \div t \in Int
  BY <1>1, <1>6
<1>11. c \in w - 1 .. w + 1
  BY <1>3, <1>7, <1>8, <1>9, <1>10
<1>12. QED
  BY <1>11 DEF w, b

\* The number that is written, or with decimals one next to it.
AsWritten(n) == n = Written \/ (DecimalsAt # {} /\ n \in {Written - 1, Written + 1})

\* Unless the decimals begin with a zero the scale is the power of ten they need, and the
\* thousands are the number that is written, or next to it.
LEMMA ThousandsAsWritten ==
    ASSUME text \in Seq(Nat), InThousands, InRange, ~LeadingZero, Precise,
           NEW w, NEW d, NEW a, NEW t, AllWritings(w, d, a, t),
           Number(DigitsAt) = a[Len(text)], Power(DecimalsAt) = t[Len(text)],
           cons = w[Len(text)], dec = d[Len(text)],
           NEW scale \in Scales, NEW c \in Thousandfold(scale)
    PROVE  AsWritten(c)
<1> DEFINE N == Len(text)
<1>1. /\ N \in Nat /\ w[N] \in Nat /\ d[N] \in Nat /\ a[N] \in Nat /\ t[N] \in Nat
      /\ Together(w, d, a, t, N)
      /\ \A m \in PowersOfTen : Apart(t[N], m)
  <2>1. N \in Nat /\ N \in 0 .. N
    BY LenProperties
  <2>2. /\ w \in [0 .. N -> Nat] /\ d \in [0 .. N -> Nat]
        /\ a \in [0 .. N -> Nat] /\ t \in [0 .. N -> Nat]
    BY DEF AllWritings, IsWriting
  <2>3. Together(w, d, a, t, N)
    BY <2>1, DigitsTogether
  <2>4. \A m \in PowersOfTen : Apart(t[N], m)
    <3>1. IsWriting(t, 1, DecimalsAt, [i \in DecimalsAt |-> 0])
      BY DEF AllWritings
    <3>2. QED
      BY <2>1, <3>1, PowersApart
  <2>5. QED
    BY <2>1, <2>2, <2>3, <2>4
<1>2. /\ scale \in PowersOfTen /\ d[N] < scale /\ (scale > 10 => scale <= 10 * d[N])
      /\ scale \in Nat /\ scale >= 10 /\ Apart(t[N], scale)
  BY <1>1, FlagsAssumption DEF Scales, FlagsAssumption
<1>3. t[N] >= 1 /\ d[N] < t[N] /\ a[N] = w[N] * t[N] + d[N]
  BY <1>1 DEF Together
<1>4. Written = (1000 * a[N]) \div t[N] /\ 4 * (Written + 1) <= Precision
  BY DEF Written, Precise
<1>5. /\ Written \in 0 .. UintRange - 1 /\ UintRange \in Nat
      /\ Precision \in Nat /\ Precision <= UintRange
  BY FlagsAssumption DEF InRange, FlagsAssumption
<1>6. ASSUME NEW n \in Products(scale)
      PROVE  AsWritten(n)
  <2>1. CASE NoneUpTo(N)
    <3>1. t[N] = 1 /\ dec = 0 /\ a[N] = cons /\ cons \in Nat
      BY <1>1, <1>3, <2>1 DEF Together
    <3>2. Written = 1000 * cons
      BY <1>1, <1>4, <3>1
    <3>3. 125 * cons <= Precision
      BY <1>4, <1>5, <3>1, <3>2
    <3>4. Products(scale) = {1000 * cons}
      BY <3>1, <3>3 DEF Products
    <3>5. QED
      BY <1>6, <3>2, <3>4 DEF AsWritten
  <2>2. CASE ~NoneUpTo(N)
    <3>1. t[N] <= 10 * d[N]
      BY <1>1, <2>2 DEF Together
    <3>2. scale = t[N]
      <4>1. ~(scale < t[N])
        BY <1>1, <1>2, <3>1 DEF Apart
      <4>2. ~(t[N] < scale)
        BY <1>1, <1>2, <1>3, <3>1 DEF Apart
      <4>3. QED
        BY <1>1, <1>2, <4>1, <4>2
    <3>3. dec # 0
      BY <1>1, <1>3, <3>1
    <3>4. cons * scale + dec = a[N]
      BY <1>3, <3>2
    <3>5. n \in (1000 * a[N] - Error(a[N]) - 1) \div t[N] .. (1000 * a[N] + Error(a[N])) \div t[N]
      BY <1>6, <3>2, <3>3, <3>4 DEF Products
    <3>6. n \in Written - 1 .. Written + 1
      <4> DEFINE x == a[N]
      <4> DEFINE y == t[N]
      <4>1. /\ x \in Nat /\ y \in Nat /\ y >= 1 /\ Written = (1000 * x) \div y
            /\ 4 * (Written + 1) <= Precision
            /\ n \in (1000 * x - Error(x) - 1) \div y .. (1000 * x + Error(x)) \div y
        BY <1>1, <1>3, <1>4, <3>5
      <4> HIDE DEF x, y
      <4>2. QED
        BY <4>1, RoundedByOne
    <3>7. DecimalsAt # {}
      BY <2>2 DEF NoneUpTo
    <3>8. QED
      BY <1>5, <3>6, <3>7 DEF AsWritten
  <2>3. QED
    BY <2>1, <2>2
<1>7. \A n \in Products(scale) : ~(n >= UintRange)
  BY <1>4, <1>5, <1>6 DEF AsWritten
<1>8. c \in Products(scale)
  BY <1>7 DEF Thousandfold
<1>9. QED
  BY <1>6, <1>8

-----------------------------------------------------------------------------
(* The number that has been read.                                          *)

\* So far what is before the dot and what is after it is in cons and in dec, unless it is
\* beyond uint; after the k the whole number is in cons.
WholeRead == \A w : IsWriting(w, 0, WholeAt, text) /\ w[pos] < UintRange => cons = w[pos]
DecimalsRead == \A d : IsWriting(d, 0, DecimalsAt, text) /\ d[pos] < UintRange => dec = d[pos]
ThousandsRead ==
    InRange /\ ~LeadingZero /\ Precise => AsWritten(cons)

KiloRead == pos > 0 /\ text[pos] = Kilo

ValueInv ==
    phase = "number" =>
        /\ text # <<>>
        /\ KiloRead => ThousandsRead
        /\ ~KiloRead => WholeRead /\ DecimalsRead

\* All four writings exist, and are what Number and Power make of the digits.
LEMMA WritingsExist ==
    ASSUME text \in Seq(Nat)
    PROVE  \E w, d, a, t :
              /\ AllWritings(w, d, a, t)
              /\ Number(WholeAt) = w[Len(text)] /\ Number(DecimalsAt) = d[Len(text)]
              /\ Number(DigitsAt) = a[Len(text)] /\ Power(DecimalsAt) = t[Len(text)]
<1>1. Len(text) \in Nat /\ \A i \in 1 .. Len(text) : text[i] \in Nat
  BY LenProperties, ElementOfSeq
<1>2. \A places : \E f : IsWriting(f, 0, places, text)
                         /\ Writing(0, places, text) = f[Len(text)]
  <2> TAKE places
  <2>1. QED
    BY <1>1, WritingUnfolds
<1>3. PICK w : IsWriting(w, 0, WholeAt, text) /\ Number(WholeAt) = w[Len(text)]
  BY <1>2 DEF Number
<1>4. PICK d : IsWriting(d, 0, DecimalsAt, text) /\ Number(DecimalsAt) = d[Len(text)]
  BY <1>2 DEF Number
<1>5. PICK a : IsWriting(a, 0, DigitsAt, text) /\ Number(DigitsAt) = a[Len(text)]
  BY <1>2 DEF Number
<1>6. PICK t : /\ IsWriting(t, 1, DecimalsAt, [i \in DecimalsAt |-> 0])
               /\ Power(DecimalsAt) = t[Len(text)]
  <2> DEFINE zeros == [i \in DecimalsAt |-> 0]
  <2>1. \A i \in 1 .. Len(text) : i \in DecimalsAt => zeros[i] \in Nat
    OBVIOUS
  <2>2. \E f : IsWriting(f, 1, DecimalsAt, zeros) /\ Writing(1, DecimalsAt, zeros) = f[Len(text)]
    <3> HIDE DEF zeros
    <3>1. QED
      BY <1>1, <2>1, WritingUnfolds
  <2>3. QED
    BY <2>2 DEF Power
<1>7. QED
  BY <1>3, <1>4, <1>5, <1>6 DEF AllWritings

\* What the text says does not change while it is read.
SameText ==
    /\ DigitsAt' = DigitsAt /\ WholeAt' = WholeAt /\ DecimalsAt' = DecimalsAt
    /\ InRange' = InRange /\ LeadingZero' = LeadingZero /\ Written' = Written
    /\ Precise' = Precise
    /\ \A f, n, places : IsWriting(f, n, places, text)' <=> IsWriting(f, n, places, text)

\* All of it depends on the text alone.
LEMMA TextStays ==
    ASSUME text' = text
    PROVE  SameText
<1>1. DigitsAt' = DigitsAt /\ WholeAt' = WholeAt /\ DecimalsAt' = DecimalsAt
  BY DEF DigitsAt, WholeAt, DecimalsAt
<1>2. \A n, places, digits : Writing(n, places, digits)' = Writing(n, places, digits)
  BY DEF Writing
<1>3. /\ Number(DigitsAt)' = Number(DigitsAt) /\ Number(WholeAt)' = Number(WholeAt)
      /\ Number(DecimalsAt)' = Number(DecimalsAt) /\ Power(DecimalsAt)' = Power(DecimalsAt)
  BY <1>1 DEF Number, Power, Writing
<1>4. Written' = Written
  BY <1>3 DEF Written, InThousands
<1>5. InRange' = InRange
  BY <1>3, <1>4 DEF InRange
<1>6. LeadingZero' = LeadingZero
  BY <1>1 DEF LeadingZero
<1>7. \A f, n, places : IsWriting(f, n, places, text)' <=> IsWriting(f, n, places, text)
  BY DEF IsWriting
<1>8. Precise' = Precise
  BY <1>4 DEF Precise, InThousands
<1>9. QED
  BY <1>1, <1>4, <1>5, <1>6, <1>7, <1>8 DEF SameText

\* One more character is read before the k: a digit is written after those on its side of the
\* dot.
LEMMA ReadingKeepsValue ==
    ASSUME TypeOK, PrefixInv, ValueInv, ReadDot \/ ReadDigit \/ ReadSeparator
    PROVE  ValueInv'
<1>1. /\ phase = "number" /\ phase' = "number" /\ pos < Len(text) /\ pos' = pos + 1
      /\ text' = text /\ SameText
  BY TextStays DEF ReadDot, ReadDigit, ReadSeparator, Reads
<1>2. /\ pos \in Nat /\ Len(text) \in Nat /\ cons \in Nat /\ dec \in Nat
      /\ UintRange \in Nat /\ UintRange > 1 /\ hasDot \in BOOLEAN
      /\ pos + 1 \in 1 .. Len(text) /\ text[pos + 1] = Char /\ pos + 1 - 1 = pos
      /\ pos \in 0 .. Len(text) /\ pos + 1 \in 0 .. Len(text)
  BY <1>1, LenProperties, FlagsAssumption DEF TypeOK, NumberTypes, Char, FlagsAssumption
<1>3. ~KiloRead /\ PrefixFits
  BY <1>1, <1>2 DEF KiloRead, PrefixInv, PrefixFits
<1>4. text # <<>> /\ WholeRead /\ DecimalsRead
  BY <1>1, <1>3 DEF ValueInv
<1>5. ~KiloRead'
  <2>1. Char # Kilo
    BY DEF ReadDot, ReadDigit, ReadSeparator, Digits, Dot, Separator, Kilo
  <2>2. QED
    BY <1>1, <1>2, <2>1 DEF KiloRead
<1>6. \A f, places : IsWriting(f, 0, places, text) =>
          /\ f[pos + 1] = IF pos + 1 \in places THEN 10 * f[pos] + Char ELSE f[pos]
          /\ f[pos] \in Nat
  BY <1>2 DEF IsWriting
<1>7. CASE ReadDot \/ ReadSeparator
  <2>1. pos + 1 \notin DigitsAt
    BY <1>2, <1>7 DEF ReadDot, ReadSeparator, DigitsAt, Digits, Dot, Separator
  <2>2. pos + 1 \notin WholeAt /\ pos + 1 \notin DecimalsAt
    BY <2>1 DEF WholeAt, DecimalsAt
  <2>3. cons' = cons /\ dec' = dec
    BY <1>7 DEF ReadDot, ReadSeparator
  <2>4. WholeRead' /\ DecimalsRead'
    BY <1>1, <1>4, <1>6, <2>2, <2>3 DEF WholeRead, DecimalsRead, SameText
  <2>5. QED
    BY <1>1, <1>4, <1>5, <2>4 DEF ValueInv
<1>8. CASE ReadDigit
  <2>1. pos + 1 \in DigitsAt /\ Char \in 0 .. 9 /\ Char # Dot
    BY <1>2, <1>8 DEF ReadDigit, DigitsAt, Digits, Dot
  <2>2. pos + 1 \in WholeAt <=> ~hasDot
    <3>1. \A i \in 1 .. pos + 1 : i \in 1 .. pos \/ i = pos + 1
      BY <1>2
    <3>2. 1 .. pos \subseteq 1 .. pos + 1
      BY <1>2
    <3>3. hasDot <=> \E i \in 1 .. pos : text[i] = Dot
      BY <1>3 DEF PrefixFits
    <3>4. QED
      BY <1>2, <2>1, <3>1, <3>2, <3>3 DEF WholeAt
  <2>3. pos + 1 \in DecimalsAt <=> hasDot
    BY <1>2, <2>1, <2>2 DEF DecimalsAt
  <2>4. ASSUME NEW n \in Nat, 10 * n + Char < UintRange
        PROVE  Appended(n) = 10 * n + Char /\ n < UintRange
    <3>1. n < UintRange
      BY <1>2, <2>1, <2>4
    <3>2. \A k \in Nat : k < UintRange => k % UintRange = k
      BY <1>2
    <3>3. 10 * n + Char \in Nat
      BY <2>1
    <3>4. QED
      BY <2>4, <3>1, <3>2, <3>3 DEF Appended
  <2>5. CASE hasDot
    <3>1. cons' = cons /\ dec' = Appended(dec)
      BY <1>8, <2>5 DEF ReadDigit
    <3>2. WholeRead'
      BY <1>1, <1>4, <1>6, <2>2, <2>5, <3>1 DEF WholeRead, SameText
    <3>3. ASSUME NEW d, IsWriting(d, 0, DecimalsAt, text), d[pos + 1] < UintRange
          PROVE  dec' = d[pos + 1]
      <4>1. d[pos + 1] = 10 * d[pos] + Char /\ d[pos] \in Nat
        BY <1>6, <2>3, <2>5, <3>3
      <4>2. Appended(d[pos]) = 10 * d[pos] + Char /\ d[pos] < UintRange
        BY <2>4, <3>3, <4>1
      <4>3. dec = d[pos]
        BY <1>4, <3>3, <4>2 DEF DecimalsRead
      <4>4. QED
        BY <3>1, <4>1, <4>2, <4>3
    <3>4. DecimalsRead'
      BY <1>1, <3>3 DEF DecimalsRead, SameText
    <3>5. QED
      BY <1>1, <1>4, <1>5, <3>2, <3>4 DEF ValueInv
  <2>6. CASE ~hasDot
    <3>1. dec' = dec /\ cons' = Appended(cons)
      BY <1>8, <2>6 DEF ReadDigit
    <3>2. DecimalsRead'
      BY <1>1, <1>4, <1>6, <2>3, <2>6, <3>1 DEF DecimalsRead, SameText
    <3>3. ASSUME NEW w, IsWriting(w, 0, WholeAt, text), w[pos + 1] < UintRange
          PROVE  cons' = w[pos + 1]
      <4>1. w[pos + 1] = 10 * w[pos] + Char /\ w[pos] \in Nat
        BY <1>6, <2>2, <2>6, <3>3
      <4>2. Appended(w[pos]) = 10 * w[pos] + Char /\ w[pos] < UintRange
        BY <2>4, <3>3, <4>1
      <4>3. cons = w[pos]
        BY <1>4, <3>3, <4>2 DEF WholeRead
      <4>4. QED
        BY <3>1, <4>1, <4>2, <4>3
    <3>4. WholeRead'
      BY <1>1, <3>3 DEF WholeRead, SameText
    <3>5. QED
      BY <1>1, <1>4, <1>5, <3>2, <3>4 DEF ValueInv
  <2>7. QED
    BY <2>5, <2>6
<1>9. QED
  BY <1>7, <1>8

\* At the k what has been read becomes thousands of it.
LEMMA KiloKeepsValue ==
    ASSUME TypeOK, PrefixInv, ValueInv, ReadKilo
    PROVE  ValueInv'
<1>1. /\ phase = "number" /\ phase' = "number" /\ pos < Len(text) /\ pos' = pos + 1
      /\ text' = text /\ SameText /\ Char = Kilo /\ pos = Len(text) - 1
  BY TextStays DEF ReadKilo, Reads
<1>2. /\ pos \in Nat /\ Len(text) \in Nat /\ text \in Seq(Nat)
      /\ pos + 1 = Len(text) /\ text[Len(text)] = Kilo /\ Len(text) - 1 = pos
      /\ Len(text) \in 1 .. Len(text) /\ pos \in 0 .. Len(text)
      /\ UintRange \in Nat
  BY <1>1, LenProperties, FlagsAssumption DEF TypeOK, NumberTypes, Char, FlagsAssumption
<1>3. text # <<>> /\ WholeRead /\ DecimalsRead
  <2>1. ~KiloRead
    BY <1>1, <1>2 DEF KiloRead, PrefixInv, PrefixFits
  <2>2. QED
    BY <1>1, <2>1 DEF ValueInv
<1>4. KiloRead'
  BY <1>1, <1>2 DEF KiloRead
<1>5. ASSUME InRange, ~LeadingZero, Precise
      PROVE  AsWritten(cons')
  <2>1. PICK w, d, a, t :
              /\ AllWritings(w, d, a, t)
              /\ Number(WholeAt) = w[Len(text)] /\ Number(DecimalsAt) = d[Len(text)]
              /\ Number(DigitsAt) = a[Len(text)] /\ Power(DecimalsAt) = t[Len(text)]
    BY <1>2, WritingsExist
  <2>2. IsWriting(w, 0, WholeAt, text) /\ IsWriting(d, 0, DecimalsAt, text)
    BY <2>1 DEF AllWritings
  <2>3. Len(text) \notin DigitsAt /\ Len(text) \notin WholeAt /\ Len(text) \notin DecimalsAt
    BY <1>2 DEF DigitsAt, WholeAt, DecimalsAt, Digits, Kilo
  <2>4. w[Len(text)] = w[pos] /\ d[Len(text)] = d[pos]
    BY <1>2, <2>2, <2>3 DEF IsWriting
  <2>5. w[pos] < UintRange /\ d[pos] < UintRange
    BY <1>2, <1>5, <2>1, <2>4 DEF InRange
  <2>6. cons = w[Len(text)] /\ dec = d[Len(text)]
    BY <1>3, <2>2, <2>4, <2>5 DEF WholeRead, DecimalsRead
  <2>7. PICK scale \in Scales : cons' \in Thousandfold(scale)
    BY DEF ReadKilo
  <2>8. InThousands
    BY <1>2 DEF InThousands
  <2>9. QED
    BY <1>2, <1>5, <2>1, <2>6, <2>7, <2>8, ThousandsAsWritten
<1>6. ThousandsRead'
  BY <1>1, <1>5 DEF ThousandsRead, AsWritten, SameText
<1>7. QED
  BY <1>1, <1>3, <1>4, <1>6 DEF ValueInv

\* The number of connections is the one that is written, with the exceptions that
\* NumberAsWritten names, for every text, every width of uint and every precision of the
\* product: no digit is lost or misplaced on the way through cons, dec and the power of ten
\* for the decimals, and rounding crosses one whole number at most.
THEOREM NumberIsAsWritten == Spec => []NumberAsWritten
<1>1. Init => ValueInv
  BY DEF Init, ValueInv
<1>2. ASSUME TypeOK, PrefixInv, ValueInv, [Next]_vars PROVE ValueInv'
  <2>1. CASE ReadDot \/ ReadDigit \/ ReadSeparator
    BY <1>2, <2>1, ReadingKeepsValue
  <2>2. CASE ReadKilo
    BY <1>2, <2>2, KiloKeepsValue
  <2>3. CASE PraseConnections
    <3>1. CASE phase' = "refused"
      BY <3>1 DEF ValueInv
    <3>2. CASE phase' # "refused"
      <4>1. text' # <<>> /\ pos' = 0 /\ cons' = 0 /\ dec' = 0
        BY <2>3, <3>2 DEF PraseConnections, Exit
      <4>2. QED
        BY <4>1 DEF ValueInv, KiloRead, WholeRead, DecimalsRead, IsWriting
    <3>3. QED
      BY <3>1, <3>2
  <2>4. CASE UNCHANGED vars
    <3>1. SameText
      BY <2>4, TextStays DEF vars, numberVars
    <3>2. QED
      BY <1>2, <2>4, <3>1 DEF vars, numberVars, ValueInv, KiloRead, WholeRead, DecimalsRead,
             ThousandsRead, AsWritten, SameText
  <2>5. CASE phase' # "number"
    BY <2>5 DEF ValueInv
  <2>6. QED
    BY <1>2, <2>1, <2>2, <2>3, <2>4, <2>5 DEF Next, ParseNumber, Help, ParseFails, ParseWhipURL,
           ReadUnexpected, ConnectionsParsed, ParseRelayMode, ParseRunup, ParseDuration,
           ParseBufferDuration, ParseTargetResolution, ParseTargetCodec, NewRunner, Ended,
           Set, Exit
<1>3. ASSUME TypeOK, PrefixInv, ValueInv, Parsed PROVE InRange /\ ~LeadingZero /\ Precise =>
               \/ cons = Written
               \/ InThousands /\ DecimalsAt # {} /\ cons \in {Written - 1, Written + 1}
  <2>1. /\ phase = "number" /\ pos = Len(text) /\ text \in Seq(Nat) /\ Len(text) \in Nat
        /\ UintRange \in Nat
    BY <1>3, LenProperties, FlagsAssumption DEF Parsed, TypeOK, NumberTypes, FlagsAssumption
  <2>2. text # <<>> /\ Len(text) > 0
    <3>1. text # <<>>
      BY <1>3, <2>1 DEF ValueInv
    <3>2. QED
      BY <2>1, <3>1, EmptySeq
  <2>3. CASE InThousands
    <3>1. ThousandsRead
      BY <1>3, <2>1, <2>2, <2>3 DEF ValueInv, KiloRead, InThousands
    <3>2. QED
      BY <2>3, <3>1 DEF ThousandsRead, AsWritten
  <2>4. CASE ~InThousands
    <3>1. WholeRead
      BY <1>3, <2>1, <2>4 DEF ValueInv, KiloRead, InThousands
    <3>2. PICK w, d, a, t : AllWritings(w, d, a, t) /\ Number(WholeAt) = w[Len(text)]
      BY <2>1, WritingsExist
    <3>3. Written = w[Len(text)]
      BY <2>4, <3>2 DEF Written
    <3>4. InRange => w[Len(text)] < UintRange
      BY <2>1, <3>2 DEF InRange
    <3>5. QED
      BY <2>1, <3>1, <3>2, <3>3, <3>4 DEF WholeRead, AllWritings
  <2>5. QED
    BY <2>3, <2>4
<1>4. ASSUME TypeOK, PrefixInv, ValueInv PROVE NumberAsWritten
  <2>1. Parsed => WellFormed
    BY <1>4 DEF PrefixInv, PrefixFits, Parsed, WellFormed
  <2>2. QED
    BY <1>3, <1>4, <2>1 DEF NumberAsWritten
<1>5. QED
  BY <1>1, <1>2, <1>4, TypesKept, PrefixHolds, PTL DEF Spec
=============================================================================
