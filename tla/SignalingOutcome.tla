--------------------------- MODULE SignalingOutcome ---------------------------
(***************************************************************************)
(* What signaling promises NewPeerConnection, whatever it goes through: it *)
(* settles once, an answer comes with the sockets and a function to close  *)
(* them, and a failure leaves no socket open.  This is what                *)
(* ConnectionLifecycle assumes of its SignalSucceeds and SignalFails.      *)
(***************************************************************************)
CONSTANT Sockets

VARIABLES
    outcome,  \* of the attempt
    held      \* the sockets that are not closed

outcomeVars == <<outcome, held>>

OutcomeInit == outcome = "pending" /\ held = {}

Open(s) ==
    /\ outcome = "pending"
    /\ held' = held \cup {s}
    /\ UNCHANGED outcome

Close(s) ==
    /\ held' = held \ {s}
    /\ UNCHANGED outcome

\* Over HTTP there is no socket to hold.
Succeed ==
    /\ outcome = "pending"
    /\ outcome' = "answered"
    /\ UNCHANGED held

Fail ==
    /\ outcome = "pending"
    /\ outcome' = "failed"
    /\ held' = {}

OutcomeNext == Succeed \/ Fail \/ \E s \in Sockets : Open(s) \/ Close(s)

OutcomeSpec == OutcomeInit /\ [][OutcomeNext]_outcomeVars
=============================================================================
