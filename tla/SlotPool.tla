------------------------------ MODULE SlotPool ------------------------------
(***************************************************************************)
(* What the life of connections promises the runner: an attempt takes one  *)
(* slot of the semaphore; each time its peer enters the registry the peer  *)
(* is counted in, and each time it leaves it is counted out and one slot   *)
(* is given back.  A peer may enter and leave more than once, so that more *)
(* slots may be given back than were taken, of which the process dies; and *)
(* an attempt may keep its slot for ever.                                  *)
(*                                                                         *)
(* ConnectionLifecycle implements this specification.                      *)
(***************************************************************************)
EXTENDS Integers, FiniteSets

CONSTANTS
    Peers,        \* the connection attempts of a run
    Connections,  \* the size of the semaphore
    MaxReturns    \* bound: times one peer leaves the registry

ASSUME PoolAssumption ==
    /\ IsFiniteSet(Peers)
    /\ Connections \in Nat \ {0}
    /\ MaxReturns \in Nat

VARIABLES
    taken,      \* the attempts that took a slot
    live,       \* the registry: callbacks.connectionsState
    left,       \* how often a peer left the registry
    joining,    \* peers entered, not counted in yet
    leaving,    \* peers left, not counted out yet
    due,        \* peers counted out whose slot is not given back yet
    available,  \* slots that can be taken
    current,    \* CurrentConnections
    panicked    \* "semaphore: released more than held"

poolVars == <<taken, live, left, joining, leaving, due, available, current, panicked>>

PoolInit ==
    /\ taken = {}
    /\ live = {}
    /\ left = [p \in Peers |-> 0]
    /\ joining = 0
    /\ leaving = 0
    /\ due = 0
    /\ available = Connections
    /\ current = 0
    /\ panicked = FALSE

\* sem.Acquire in the loop of Run.
Take(p) ==
    /\ ~panicked
    /\ p \notin taken
    /\ available > 0
    /\ taken' = taken \cup {p}
    /\ available' = available - 1
    /\ UNCHANGED <<live, left, joining, leaving, due, current, panicked>>

\* swapPeerState finds no entry: the peer is new, or OnClosed has been called for it.
Register(p) ==
    /\ ~panicked
    /\ p \in taken \ live
    /\ left[p] < MaxReturns
    /\ live' = live \cup {p}
    /\ joining' = joining + 1
    /\ UNCHANGED <<taken, left, leaving, due, available, current, panicked>>

CountIn ==
    /\ ~panicked
    /\ joining > 0
    /\ joining' = joining - 1
    /\ current' = current + 1
    /\ UNCHANGED <<taken, live, left, leaving, due, available, panicked>>

\* OnClosed finds an entry ...
Unregister(p) ==
    /\ ~panicked
    /\ p \in live
    /\ live' = live \ {p}
    /\ left' = [left EXCEPT ![p] = @ + 1]
    /\ leaving' = leaving + 1
    /\ UNCHANGED <<taken, joining, due, available, current, panicked>>

\* ... counts the connection out, which may be before it was counted in ...
CountOut ==
    /\ ~panicked
    /\ leaving > 0
    /\ leaving' = leaving - 1
    /\ due' = due + 1
    /\ current' = current - 1
    /\ UNCHANGED <<taken, live, left, joining, available, panicked>>

\* Mutation: the slot is released twice.
ReturnTwice ==
    /\ ~panicked
    /\ due > 0
    /\ due' = due - 1
    /\ available' = available + 2
    /\ panicked' = (available = Connections)
    /\ UNCHANGED <<taken, live, left, joining, leaving, current>>

\* ... and calls connectionClosedCallback.
Return ==
    /\ ~panicked
    /\ due > 0
    /\ due' = due - 1
    /\ available' = available + 1
    /\ panicked' = (available = Connections)
    /\ UNCHANGED <<taken, live, left, joining, leaving, current>>

PoolNext ==
    \/ \E p \in Peers : Take(p) \/ Register(p) \/ Unregister(p)
    \/ CountIn \/ CountOut \/ Return

PoolSpec == PoolInit /\ [][PoolNext]_poolVars

-----------------------------------------------------------------------------
PoolTypeOK ==
    /\ taken \subseteq Peers
    /\ live \subseteq taken
    /\ left \in [Peers -> 0 .. MaxReturns]
    /\ joining \in Nat /\ leaving \in Nat /\ due \in Nat
    /\ available \in 0 .. Connections + 1
    /\ current \in Int
    /\ panicked \in BOOLEAN
    /\ panicked <=> available > Connections
=============================================================================
