-------------------------------- MODULE Flags --------------------------------
(***************************************************************************)
(* main from the command line to the runner: help, Parse with its checks   *)
(* in order, and the number parser character by character.                 *)
(* What is started here is what the other modules assume of their          *)
(* constants.                                                              *)
(*                                                                         *)
(* pflag has given every flag a value of its type; each is chosen where    *)
(* Parse reads it.  Durations are numbers of some unit; -lite is only      *)
(* passed on.                                                              *)
(***************************************************************************)
EXTENDS Integers, Sequences

CONSTANTS
    Texts,            \* the values of -connections: sequences of characters
    Durations,        \* the values of -duration, -runup and -bufferduration
    MinBuffer,        \* ten milliseconds
    NumericHeights,   \* what Sscanf reads where -targetresolution is no name
    PowersOfTen,      \* from 10, as many as a uint has decimal places
    UintRange,        \* 2^64, the range of uint
    Precision         \* 2^53: up to here a float64 holds every whole number

\* The characters that are no digit; whatever is larger is not expected.
Dot == 10
Separator == 11
Kilo == 12
Digits == 0 .. 9

ASSUME FlagsAssumption ==
    /\ Texts \subseteq Seq(Nat)
    /\ Durations \subseteq Int /\ MinBuffer \in Nat
    /\ NumericHeights \subseteq Int
    /\ PowersOfTen \subseteq Nat \ (0 .. 9)
    /\ \A m \in PowersOfTen : m = 10 \/ \E k \in PowersOfTen : m = 10 * k
    /\ UintRange \in Nat /\ UintRange > 1
    /\ Precision \in 5 .. UintRange

VARIABLES
    phase,                  \* of main and of Parse
    text, pos,              \* -connections and how much of it has been read
    cons, dec, hasDot,      \* of parseHumanReadableNumber
    config                  \* the fields of flags

numberVars == <<text, pos, cons, dec, hasDot>>
vars == <<phase, numberVars, config>>

Unset == [whip |-> "", connections |-> 0, relayMode |-> "auto", runup |-> 0, duration |-> 0,
          bufferDuration |-> 0, targetResolution |-> 0, targetCodec |-> ""]

Init ==
    /\ phase = "args"
    /\ text = <<>> /\ pos = 0 /\ cons = 0 /\ dec = 0 /\ hasDot = FALSE
    /\ config = Unset

\* os.Exit(0) after help, os.Exit(1) after an error.
Exit(code) == phase' = code /\ UNCHANGED <<numberVars, config>>

\* One field of flags is set, and Parse goes on.
Set(field, value, next) ==
    /\ config' = [config EXCEPT ![field] = value]
    /\ phase' = next
    /\ UNCHANGED numberVars

\* No argument, -h or --help; a flag pflag does not know or cannot parse.
Help == phase = "args" /\ Exit("helped")
ParseFails == phase = "args" /\ Exit("refused")

\* The kinds of address: one without a host passes, like a relative opaque URL.
Endpoints == {"", "malformed", "ftp://host", "https:", "https://host", "wss://host"}
Schemed == {"https:", "https://host", "wss://host"}

ParseWhipURL ==
    /\ phase = "args"
    /\ \E whip \in Endpoints :
        IF whip \in Schemed THEN Set("whip", whip, "connections") ELSE Exit("refused")

-----------------------------------------------------------------------------
(* The number of connections.                                              *)

\* An empty value is refused.
PraseConnections ==
    /\ phase = "connections"
    /\ \E t \in Texts :
        IF t = <<>> THEN Exit("refused")
        ELSE /\ text' = t /\ pos' = 0
             /\ cons' = 0 /\ dec' = 0 /\ hasDot' = FALSE
             /\ phase' = "number"
             /\ UNCHANGED config

Char == text[pos + 1]

Reads ==
    /\ phase = "number" /\ pos < Len(text)
    /\ pos' = pos + 1
    /\ UNCHANGED <<phase, text, config>>

ReadDot ==
    /\ Reads /\ Char = Dot /\ ~hasDot
    /\ hasDot' = TRUE
    /\ UNCHANGED <<cons, dec>>

\* Mutation: the digit comes first.
AppendedLow(n) == (n + 10 * Char) % UintRange

Appended(n) == (10 * n + Char) % UintRange

ReadDigit ==
    /\ Reads /\ Char \in Digits
    /\ IF hasDot THEN dec' = Appended(dec) /\ UNCHANGED cons
                 ELSE cons' = Appended(cons) /\ UNCHANGED dec
    /\ UNCHANGED hasDot

ReadSeparator == Reads /\ Char = Separator /\ UNCHANGED <<cons, dec, hasDot>>

\* 10 to the power of len(fmt.Sprint(dec)): zeros in front have no place.
Scales == {m \in PowersOfTen : dec < m /\ (m > 10 => m <= 10 * dec)}

\* 1000 * (cons + dec / scale) in float64, cut off.  Four of its operations round, by
\* 1 / Precision at most each, so that the product may cross a whole number either way;
\* all are exact if there are no decimals and cons is small (1000 is 8 * 125).
Error(number) == (4000 * number) \div Precision
Products(scale) ==
    LET number == cons * scale + dec
    IN  IF dec = 0 /\ 125 * cons <= Precision THEN {1000 * cons}
        ELSE (1000 * number - Error(number) - 1) \div scale
                 .. (1000 * number + Error(number)) \div scale

\* A product beyond the range gives a number that depends on the processor.
Thousandfold(scale) ==
    {n \in Products(scale) : n < UintRange}
        \cup (IF \E n \in Products(scale) : n >= UintRange
              THEN {UintRange \div 2, UintRange - 1} ELSE {})

\* Nothing may follow the k.
ReadKilo ==
    /\ Reads /\ Char = Kilo
    /\ pos = Len(text) - 1
    /\ \E scale \in Scales : cons' \in Thousandfold(scale)
    /\ UNCHANGED <<dec, hasDot>>

\* A second dot, something after the k, a character that is not expected.
Unexpected ==
    \/ Char = Dot /\ hasDot
    \/ Char = Kilo /\ pos # Len(text) - 1
    \/ Char > Kilo

ReadUnexpected == phase = "number" /\ pos < Len(text) /\ Unexpected /\ Exit("refused")

Parsed == phase = "number" /\ pos = Len(text)

\* Mutation: zero is taken.
ConnectionsTaken == Parsed /\ Set("connections", cons, "relay")

ConnectionsParsed ==
    /\ Parsed
    /\ IF cons = 0 THEN Exit("refused")
       ELSE /\ config' = [config EXCEPT !.connections = cons]
            /\ phase' = "relay"
            /\ text' = <<>> /\ pos' = 0 /\ cons' = 0 /\ dec' = 0 /\ hasDot' = FALSE

ParseNumber ==
    \/ ReadDot \/ ReadDigit \/ ReadSeparator \/ ReadKilo \/ ReadUnexpected
    \/ ConnectionsParsed

-----------------------------------------------------------------------------
(* The other flags.                                                        *)

RelayModes == {"auto", "no", "only"}

ParseRelayMode ==
    /\ phase = "relay"
    /\ \/ \E relay \in RelayModes : Set("relayMode", relay, "runup")
       \/ Exit("refused")

ParseRunup == phase = "runup" /\ \E d \in Durations : Set("runup", d, "duration")

ParseDuration ==
    /\ phase = "duration"
    /\ \E d \in Durations :
        IF d <= 0 THEN Exit("refused") ELSE Set("duration", d, "buffer")

ParseBufferDuration ==
    /\ phase = "buffer"
    /\ \E d \in Durations :
        IF d <= MinBuffer THEN Exit("refused") ELSE Set("bufferDuration", d, "resolution")

\* parseResolutionName.
NamedHeights == {2160, 1440, 1080, 720, 480, 360, 240}

\* An empty value turns the switching off; what is no name is scanned for a number in
\* front, whatever follows it.
ParseTargetResolution ==
    /\ phase = "resolution"
    /\ \/ Set("targetResolution", 0, "codec")
       \/ \E height \in NamedHeights : Set("targetResolution", height, "codec")
       \/ \E height \in NumericHeights :
            IF height <= 0 THEN Exit("refused") ELSE Set("targetResolution", height, "codec")
       \/ Exit("refused")

\* Mutation: the value is kept as it was given.
ParseTargetCodecAsGiven == phase = "codec" /\ Set("targetCodec", "h264", "parsed")

ParseTargetCodec ==
    /\ phase = "codec"
    /\ \/ \E codec \in {"", "H264", "VP8"} : Set("targetCodec", codec, "parsed")
       \/ Exit("refused")

-----------------------------------------------------------------------------
(* The runner.                                                             *)

\* runner.New, which fails if pion's media engine or interceptors cannot be set up.
NewRunner ==
    /\ phase = "parsed"
    /\ Exit("running") \/ Exit("refused")

Ended == phase \in {"helped", "refused", "running"} /\ UNCHANGED vars

Next ==
    \/ Help \/ ParseFails \/ ParseWhipURL
    \/ PraseConnections \/ ParseNumber
    \/ ParseRelayMode \/ ParseRunup \/ ParseDuration \/ ParseBufferDuration
    \/ ParseTargetResolution \/ ParseTargetCodec
    \/ NewRunner \/ Ended

Spec == Init /\ [][Next]_vars

-----------------------------------------------------------------------------
(* Properties.                                                             *)

Phases == {"args", "connections", "number", "relay", "runup", "duration", "buffer",
           "resolution", "codec", "parsed", "helped", "refused", "running"}

NumberTypes ==
    /\ text \in Seq(Nat) /\ pos \in 0 .. Len(text)
    /\ cons \in 0 .. UintRange - 1 /\ dec \in 0 .. UintRange - 1
    /\ hasDot \in BOOLEAN

Configs ==
    [whip : Endpoints, connections : 0 .. UintRange - 1, relayMode : RelayModes,
     runup : Int, duration : Int, bufferDuration : Int,
     targetResolution : Int, targetCodec : {"", "H264", "VP8"}]

TypeOK == phase \in Phases /\ NumberTypes /\ config \in Configs

\* What the runner is started with is what the other modules assume: connections to make
\* and a time to make them in, a buffer of more than ten milliseconds, a height that is not
\* negative, and an address with a scheme that signaling can tell apart.
StartedFits ==
    phase = "running" =>
        /\ config.connections > 0
        /\ config.duration > 0
        /\ config.bufferDuration > MinBuffer
        /\ config.targetResolution \in Nat
        /\ config.whip \in Schemed

\* At most one dot, and one k at the end.
WellFormed ==
    /\ \A i \in 1 .. Len(text) :
           text[i] <= Kilo /\ (text[i] = Kilo => i = Len(text))
    /\ \A i, j \in 1 .. Len(text) : text[i] = Dot /\ text[j] = Dot => i = j

\* What the text says: the digits before its dot and after it, its thousands cut off.
DigitsAt == {i \in 1 .. Len(text) : text[i] \in Digits}
WholeAt == {i \in DigitsAt : \A j \in 1 .. i : text[j] # Dot}
DecimalsAt == DigitsAt \ WholeAt

\* The number that n becomes as the digits at some places are written after it.
Writing(n, places, digits) ==
    LET number[i \in 0 .. Len(text)] ==
            IF i = 0 THEN n
            ELSE IF i \in places THEN 10 * number[i - 1] + digits[i]
            ELSE number[i - 1]
    IN  number[Len(text)]

Number(places) == Writing(0, places, text)
Power(places) == Writing(1, places, [i \in places |-> 0])

InThousands == text[Len(text)] = Kilo
Written ==
    IF InThousands THEN (1000 * Number(DigitsAt)) \div Power(DecimalsAt)
    ELSE Number(WholeAt)

InRange == {Number(WholeAt), Number(DecimalsAt), Written} \subseteq 0 .. UintRange - 1
LeadingZero == \E i \in DecimalsAt : text[i] = 0 /\ \A j \in DecimalsAt : i <= j

\* The product of a float64 is right to less than one.
Precise == InThousands => 4 * (Written + 1) <= Precision

\* Only a well-formed text is taken for a number, and the number is the one written, but
\* for thousands with decimals, which may come out one short or one over; excepted are
\* decimals that begin with a zero, which are taken to be ten times as large or more,
\* thousands that a float64 cannot tell apart, and numbers beyond the range of uint.
NumberAsWritten ==
    Parsed =>
        /\ WellFormed
        /\ InRange /\ ~LeadingZero /\ Precise =>
               \/ cons = Written
               \/ InThousands /\ DecimalsAt # {} /\ cons \in {Written - 1, Written + 1}
=============================================================================
