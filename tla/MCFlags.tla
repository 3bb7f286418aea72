------------------------------- MODULE MCFlags -------------------------------
(***************************************************************************)
(* Instance of Flags for TLC: every text of up to MaxLength characters,    *)
(* with two digits and a character that is not expected, and the longer    *)
(* texts of nines that a float64 rounds up or that leave the range of uint *)
(* (thousands of five digits are beyond TLC's own integers).               *)
(***************************************************************************)
EXTENDS Flags, Functions

CONSTANT MaxLength  \* bound

MCHeights == {-5, 8, 720}
Nines == {t \in [1 .. MaxLength + 1 -> {9, Dot, Kilo}] : t[1] = Dot \/ Kilo \notin Range(t)}
MCTexts ==
    UNION {[1 .. n -> {0, 4, Dot, Separator, Kilo, Kilo + 1}] : n \in 0 .. MaxLength} \cup Nines
=============================================================================
