------------------------- MODULE ConnectionLifecycle -------------------------
(***************************************************************************)
(* The life of the load tool's connections: the attempts the runner starts *)
(* (webrtcHandler.AddConnection, Client.NewPeerConnection), the state      *)
(* changes pion reports for each peer connection, and the callbacks those  *)
(* reports run, which keep the registry of connections, the two connection *)
(* counters and the runner's semaphore.                                    *)
(*                                                                         *)
(* Pion reports each change of state on a goroutine of its own ("go        *)
(* handler(state)"), and the code itself starts one for New, so the        *)
(* handlers of one peer run concurrently and in any order.  Each shared    *)
(* access of a handler (an atomic, a sync.Map operation, a semaphore call) *)
(* is one step here.                                                       *)
(***************************************************************************)
EXTENDS Integers, Sequences, FiniteSets

CONSTANTS
    Peers,        \* the connection attempts of a run (bounds their number)
    Connections,  \* Config.Connections, the size of the semaphore
    MaxEvents,    \* bound: state changes reported for one peer
    WebSocket     \* TRUE: ws(s):// signaling, which leaves two sockets open

ASSUME ConstantsAssumption ==
    /\ IsFiniteSet(Peers)
    /\ Connections \in Nat \ {0}
    /\ MaxEvents \in Nat /\ MaxEvents >= 2
    /\ WebSocket \in BOOLEAN

NoEntry == "NoEntry"

Statuses == {"New", "Connecting", "Connected", "Disconnected", "Closed"}

\* webrtc.PeerConnectionState, as pion reports it.
PionStates == {"new", "connecting", "connected", "disconnected", "failed", "closed"}

\* Where an attempt's goroutine is; "up" is its watcher waiting for the context.
Phases == {"idle", "init", "offer", "signal", "answer", "closer", "up", "down", "failed"}

\* Where a handler is.  It ends "released" if it gave a slot back.
Labels == {"start", "swap", "total", "current", "hangup",
           "delete", "uncount", "release", "released", "returned"}

\* Job <<p, i>> is the goroutine that handles the i-th state reported for p.
Job == Peers \X (1 .. MaxEvents)

VARIABLES
    phase,             \* the attempt's goroutine
    events,            \* the states reported for the peer; the last is pion's own
    at,                \* the handlers' control states
    status,            \* PeerConnection.state
    closer,            \* PeerConnection.signalingClose # nil
    sockets,           \* the signaling and metadata sockets are open
    connectionsState,  \* callbacks.connectionsState
    TotalConnections,
    CurrentConnections,
    held,              \* runnerImpl.sem: slots in use
    cancelled,         \* runnerCtx is done
    process            \* "panicked": it died of "semaphore: released more than held"

attemptVars  == <<phase, closer>>
pionVars     == <<events, sockets>>
registryVars == <<connectionsState, TotalConnections, CurrentConnections>>
processVars  == <<cancelled, process>>
vars == <<attemptVars, pionVars, at, status, registryVars, held, processVars>>

Last(s) == s[Len(s)]

PionClosed(p) == events[p] # <<>> /\ Last(events[p]) = "closed"

Init ==
    /\ phase = [p \in Peers |-> "idle"]
    /\ events = [p \in Peers |-> <<>>]
    /\ at = [j \in Job |-> "start"]
    /\ status = [p \in Peers |-> "New"]
    /\ closer = [p \in Peers |-> FALSE]
    /\ sockets = [p \in Peers |-> FALSE]
    /\ connectionsState = [p \in Peers |-> NoEntry]
    /\ TotalConnections = 0
    /\ CurrentConnections = 0
    /\ held = 0
    /\ cancelled = FALSE
    /\ process = "running"

-----------------------------------------------------------------------------
(* Attempts: the goroutine Run starts for each slot it takes.              *)

Goto(p, from, to) ==
    /\ process = "running"
    /\ phase[p] = from
    /\ phase' = [phase EXCEPT ![p] = to]

Report(p, state) == events' = [events EXCEPT ![p] = Append(@, state)]

\* PeerConnection.Close: the signaling closer if the caller sees one, then pion.
ClosePeer(p, seen) ==
    /\ sockets' = [sockets EXCEPT ![p] = @ /\ ~seen]
    /\ IF PionClosed(p) THEN UNCHANGED events ELSE Report(p, "closed")

\* The loop of Run takes a slot and starts an attempt with it.
Acquire(p) ==
    /\ ~cancelled
    /\ held < Connections
    /\ Goto(p, "idle", "init")
    /\ held' = held + 1
    /\ UNCHANGED <<closer, pionVars, at, status, registryVars, processVars>>

\* No peer connection, or no transceiver: the attempt ends before any handler.
InitFails(p) ==
    /\ Goto(p, "init", "failed")
    /\ UNCHANGED <<closer, pionVars, at, status, registryVars, held, processVars>>

\* go peer.handleConnectionStateChange(New)
InitPeer(p) ==
    /\ Goto(p, "init", "offer")
    /\ Report(p, "new")
    /\ UNCHANGED <<closer, sockets, at, status, registryVars, held, processVars>>

\* CreateOffer or SetLocalDescription fails: the peer is dropped, not closed.
OfferFails(p) ==
    /\ Goto(p, "offer", "failed")
    /\ UNCHANGED <<closer, pionVars, at, status, registryVars, held, processVars>>

\* wsSignal or httpSignal begins: with a context that is done it cannot get an answer.
Signal(p) ==
    /\ ~cancelled
    /\ Goto(p, "offer", "signal")
    /\ UNCHANGED <<closer, pionVars, at, status, registryVars, held, processVars>>

\* Mutation: the attempt gives its slot back itself, as well as through OnClosed.
SignalFailsReleases(p) ==
    /\ \/ Goto(p, "signal", "failed")
       \/ cancelled /\ Goto(p, "offer", "failed")
    /\ ClosePeer(p, FALSE)
    /\ held' = held - 1
    /\ UNCHANGED <<closer, at, status, registryVars, processVars>>

\* The sockets, if any, are closed by wsSignal; pion is closed here.
SignalFails(p) ==
    /\ \/ Goto(p, "signal", "failed")
       \/ cancelled /\ Goto(p, "offer", "failed")
    /\ ClosePeer(p, FALSE)
    /\ UNCHANGED <<closer, at, status, registryVars, held, processVars>>

SignalSucceeds(p) ==
    /\ Goto(p, "signal", "answer")
    /\ sockets' = [sockets EXCEPT ![p] = WebSocket]
    /\ UNCHANGED <<closer, events, at, status, registryVars, held, processVars>>

\* SetAnswer fails: neither pion nor the sockets are closed.
SetAnswerFails(p) ==
    /\ Goto(p, "answer", "failed")
    /\ UNCHANGED <<closer, pionVars, at, status, registryVars, held, processVars>>

\* The transports start, and pion reports changes from here on.
SetAnswer(p) ==
    /\ Goto(p, "answer", "closer")
    /\ UNCHANGED <<closer, pionVars, at, status, registryVars, held, processVars>>

\* NewPeerConnection stores the closer and returns; AddConnection starts the watcher.
SetSignalingCloser(p) ==
    /\ Goto(p, "closer", "up")
    /\ closer' = [closer EXCEPT ![p] = WebSocket]
    /\ UNCHANGED <<pionVars, at, status, registryVars, held, processVars>>

\* Mutation: the watcher closes pion's connection only.
WatcherClosesPion(p) ==
    /\ cancelled
    /\ Goto(p, "up", "down")
    /\ ClosePeer(p, FALSE)
    /\ UNCHANGED <<closer, at, status, registryVars, held, processVars>>

\* The watcher of AddConnection, which the write of the closer happens before.
Watcher(p) ==
    /\ cancelled
    /\ Goto(p, "up", "down")
    /\ ClosePeer(p, closer[p])
    /\ UNCHANGED <<closer, at, status, registryVars, held, processVars>>

Attempt(p) ==
    \/ InitFails(p)
    \/ InitPeer(p)
    \/ OfferFails(p)
    \/ Signal(p)
    \/ SignalFails(p)
    \/ SignalSucceeds(p)
    \/ SetAnswerFails(p)
    \/ SetAnswer(p)
    \/ SetSignalingCloser(p)

-----------------------------------------------------------------------------
(* Handlers: handleConnectionStateChange, changeCallback, the callbacks.    *)

\* The switch of handleConnectionStateChange.
StatusOf(state) ==
    CASE state = "new" -> "New"
      [] state = "connecting" -> "Connecting"
      [] state = "connected" -> "Connected"
      [] state = "disconnected" -> "Disconnected"
      [] state \in {"failed", "closed"} -> "Closed"

Change(p, i) == StatusOf(events[p][i])

Step(p, i, from, to) ==
    /\ process = "running"
    /\ i \in 1 .. Len(events[p])
    /\ at[<<p, i>>] = from
    /\ at' = [at EXCEPT ![<<p, i>>] = to]

\* Only the Disconnected case goes on after its swapPeerState.
AfterSwap(p, i) == IF Change(p, i) = "Disconnected" THEN "hangup" ELSE "returned"

Ended(j) == at[j] \in {"released", "returned"}

\* setStatus, then the switch of changeCallback.
Begin(p, i) ==
    /\ Step(p, i, "start", IF Change(p, i) = "Closed" THEN "delete" ELSE "swap")
    /\ status' = [status EXCEPT ![p] = Change(p, i)]
    /\ UNCHANGED <<attemptVars, pionVars, registryVars, held, processVars>>

\* All that a change of the registry leaves alone, and all that a change of
\* CurrentConnections does.
notRegistry == <<attemptVars, pionVars, status, TotalConnections, CurrentConnections,
                 held, processVars>>
notCurrent == <<attemptVars, pionVars, status, connectionsState, TotalConnections,
                held, processVars>>

\* Mutation: pion's state is stored, not the status.
SwapPionState(p, i) ==
    /\ Step(p, i, "swap", IF connectionsState[p] = NoEntry THEN "total" ELSE AfterSwap(p, i))
    /\ connectionsState' = [connectionsState EXCEPT ![p] = events[p][i]]
    /\ UNCHANGED notRegistry

\* Mutation: every report counts as a new connection.
SwapAlwaysCounts(p, i) ==
    /\ Step(p, i, "swap", "total")
    /\ connectionsState' = [connectionsState EXCEPT ![p] = Change(p, i)]
    /\ UNCHANGED notRegistry

\* connectionsState.Swap of swapPeerState.
Swap(p, i) ==
    /\ Step(p, i, "swap", IF connectionsState[p] = NoEntry THEN "total" ELSE AfterSwap(p, i))
    /\ connectionsState' = [connectionsState EXCEPT ![p] = Change(p, i)]
    /\ UNCHANGED notRegistry

CountTotal(p, i) ==
    /\ Step(p, i, "total", "current")
    /\ TotalConnections' = TotalConnections + 1
    /\ UNCHANGED <<attemptVars, pionVars, status, connectionsState, CurrentConnections,
                   held, processVars>>

\* Mutation: the counter is stored from the other one, not incremented.
StoreCurrent(p, i) ==
    /\ Step(p, i, "current", AfterSwap(p, i))
    /\ CurrentConnections' = TotalConnections
    /\ UNCHANGED notCurrent

CountCurrent(p, i) ==
    /\ Step(p, i, "current", AfterSwap(p, i))
    /\ CurrentConnections' = CurrentConnections + 1
    /\ UNCHANGED notCurrent

\* Mutation: the Disconnected case only gives up the connection, it does not close it.
HangupOpen(p, i) ==
    /\ Step(p, i, "hangup", "delete")
    /\ UNCHANGED <<attemptVars, pionVars, status, registryVars, held, processVars>>

\* peer.Close of the Disconnected case.  It reads signalingClose without the lock
\* under which it is written, so it may miss a closer that has been stored.
Hangup(p, i) ==
    /\ Step(p, i, "hangup", "delete")
    /\ \E seen \in {FALSE, closer[p]} : ClosePeer(p, seen)
    /\ UNCHANGED <<attemptVars, status, registryVars, held, processVars>>

\* connectionsState.LoadAndDelete of OnClosed.
LoadAndDelete(p, i) ==
    /\ Step(p, i, "delete", IF connectionsState[p] = NoEntry THEN "returned" ELSE "uncount")
    /\ connectionsState' = [connectionsState EXCEPT ![p] = NoEntry]
    /\ UNCHANGED notRegistry

\* Mutation: OnClosed does not call connectionClosedCallback.
UncountOnly(p, i) ==
    /\ Step(p, i, "uncount", "returned")
    /\ CurrentConnections' = CurrentConnections - 1
    /\ UNCHANGED notCurrent

Uncount(p, i) ==
    /\ Step(p, i, "uncount", "release")
    /\ CurrentConnections' = CurrentConnections - 1
    /\ UNCHANGED notCurrent

\* connectionClosedCallback: sem.Release panics below zero.
Release(p, i) ==
    /\ Step(p, i, "release", "released")
    /\ held' = held - 1
    /\ process' = IF held = 0 THEN "panicked" ELSE process
    /\ UNCHANGED <<attemptVars, pionVars, status, registryVars, cancelled>>

Handler(p, i) ==
    \/ Begin(p, i)
    \/ Swap(p, i)
    \/ CountTotal(p, i)
    \/ CountCurrent(p, i)
    \/ Hangup(p, i)
    \/ LoadAndDelete(p, i)
    \/ Uncount(p, i)
    \/ Release(p, i)

-----------------------------------------------------------------------------
(* The environment: pion's transports, the end of the run, the process.    *)

\* Changes of state pion makes by itself: closed after connected is a remote close,
\* and a transport that was disconnected may be connected again.
PionSteps ==
    {<<"new", "connecting">>, <<"connecting", "connected">>,
     <<"connecting", "disconnected">>, <<"connecting", "failed">>,
     <<"connected", "disconnected">>, <<"connected", "failed">>,
     <<"connected", "closed">>, <<"disconnected", "failed">>,
     <<"disconnected", "connected">>}

\* The bound leaves room for the closed that PeerConnection.Close reports.
PionReports(p, state) ==
    /\ process = "running"
    /\ phase[p] \in {"closer", "up", "down"}
    /\ <<Last(events[p]), state>> \in PionSteps
    /\ Len(events[p]) < MaxEvents - 1
    /\ Report(p, state)
    /\ UNCHANGED <<attemptVars, sockets, at, status, registryVars, held, processVars>>

\* The duration is over, or the user interrupts the run.
Cancel ==
    /\ process = "running" /\ ~cancelled
    /\ cancelled' = TRUE
    /\ UNCHANGED <<attemptVars, pionVars, at, status, registryVars, held, process>>

\* Run has returned, or a second interrupt: main ends the process, whatever runs.
Exit ==
    /\ process = "running" /\ cancelled
    /\ process' = "exited"
    /\ UNCHANGED <<attemptVars, pionVars, at, status, registryVars, held, cancelled>>

Spawned(p, i) == i <= Len(events[p])

\* Every goroutine has returned, or the process is gone.
Stopped ==
    /\ \/ process # "running"
       \/ /\ cancelled
          /\ \A p \in Peers : phase[p] \in {"idle", "down", "failed"}
          /\ \A j \in Job : Spawned(j[1], j[2]) => Ended(j)
    /\ UNCHANGED vars

Next ==
    \/ Cancel
    \/ Exit
    \/ Stopped
    \/ \E p \in Peers :
          \/ Acquire(p)
          \/ Attempt(p)
          \/ Watcher(p)
          \/ \E state \in PionStates : PionReports(p, state)
          \/ \E i \in 1 .. MaxEvents : Handler(p, i)

Spec == Init /\ [][Next]_vars

\* The Go scheduler runs every goroutine that can run, and signaling is bounded by
\* timeouts, so that an attempt goes on to its end.  Nothing is assumed of pion's
\* transports, of the runner's loop, of the end of the run or of the process.
Fairness ==
    \A p \in Peers :
        /\ WF_vars(Attempt(p))
        /\ WF_vars(Watcher(p))
        /\ \A i \in 1 .. MaxEvents : WF_vars(Handler(p, i))

FairSpec == Spec /\ Fairness

-----------------------------------------------------------------------------
(* Properties.                                                             *)

TypeOK ==
    /\ phase \in [Peers -> Phases]
    /\ events \in [Peers -> Seq(PionStates)]
    /\ at \in [Job -> Labels]
    /\ status \in [Peers -> Statuses]
    /\ closer \in [Peers -> BOOLEAN]
    /\ sockets \in [Peers -> BOOLEAN]
    /\ connectionsState \in [Peers -> Statuses \cup {NoEntry}]
    /\ TotalConnections \in Nat
    /\ CurrentConnections \in Int
    /\ held \in Int
    /\ cancelled \in BOOLEAN
    /\ process \in {"running", "panicked", "exited"}

Started    == {p \in Peers : phase[p] # "idle"}
Registered == {p \in Peers : connectionsState[p] # NoEntry}
At(label)  == {j \in Job : at[j] = label}

\* CurrentConnections is the size of the registry but for the handlers that are
\* between their change of the registry and their change of the counter
\* (swapPeerState and OnClosed), whatever order the handlers run in; the counter may
\* be negative on the way.
CounterTracksRegistry ==
    CurrentConnections = Cardinality(Registered) - Cardinality(At("total"))
                       - Cardinality(At("current")) + Cardinality(At("uncount"))

\* Every slot in use is owed to an attempt that has not given it back: the slots
\* given back are as many as the connections ever counted (TotalConnections) that
\* are no longer registered.  An attempt that never registers keeps its slot, and a
\* connection that registers again after OnClosed gives a second slot back.
SlotsConserved ==
    held = Cardinality(Started) + Cardinality(Registered) - TotalConnections
         - Cardinality(At("total"))
         + Cardinality(At("uncount")) + Cardinality(At("release"))

\* Attempts under way, and peers that pion has not seen fail or close.
Alive(p) ==
    /\ phase[p] # "idle"
    /\ events[p] # <<>> => Last(events[p]) \notin {"failed", "closed"}

Somewhere(p, labels) == \E i \in 1 .. MaxEvents : at[<<p, i>>] \in labels

\* OnClosed takes a peer out of the registry, and gives its slot to the next attempt,
\* only when pion has failed or closed the peer: the Disconnected handler, too, which
\* has only closed it itself, and whatever other handlers and pion do meanwhile.
SlotKeptWhileAlive ==
    \A p \in Peers : Somewhere(p, {"uncount", "release", "released"}) => ~Alive(p)

\* The releases of a peer after its first (finding: OneReleasePerPeer).
Givers == {p \in Peers : Somewhere(p, {"released"})}
SpareReleases == Cardinality(At("released")) - Cardinality(Givers)

\* Config.Connections is the most connections that exist at a time, and the semaphore
\* is never released below zero (which ends the process), but for the peers that gave
\* their slot back more than once: nothing else lets more connections in.
AtMostConnections ==
    /\ Cardinality({p \in Peers : Alive(p)}) <= Connections + SpareReleases
    /\ process = "panicked" => SpareReleases > 0

\* "protection against double close from pion side!" (OnClosed): however often a
\* peer is reported closed, its slot is given back once while the run lasts.
OneReleasePerPeer ==
    ~cancelled =>
        \A p \in Peers :
            Cardinality({i \in 1 .. MaxEvents : at[<<p, i>>] \in {"release", "released"}}) <= 1

HandlersDone(p) == \A i \in 1 .. Len(events[p]) : Ended(<<p, i>>)

\* What becomes of a peer that failed or was closed, in whatever order its handlers
\* run: its slot is given back, so that the loop of Run can replace it, or its entry
\* stays in the registry for good; it is never both kept and forgotten.
DeadPeerAccounted ==
    \A p \in Peers :
        (events[p] # <<>> /\ ~Alive(p)) ~>
            \/ process # "running"
            \/ Somewhere(p, {"released"})
            \/ connectionsState[p] # NoEntry /\ HandlersDone(p)

\* "OnClosed is called when a connection failed (final state)." (handlerCallbacks): it
\* is called for an attempt that fails after New was reported, though pion's connection
\* was not closed.
FailedAttemptClosed ==
    \A p \in Peers :
        (phase[p] = "failed" /\ events[p] # <<>> /\ ~PionClosed(p)) ~>
            \/ process # "running"
            \/ Somewhere(p, {"delete", "uncount", "release", "released"})

\* Once the context is done, every attempt under way, also one that took its slot just
\* before, fails or ends with its peer and its signaling sockets closed, whatever the
\* handlers did before - unless the process ends first, which main does not prevent:
\* it waits for Run only, and Run for none of them.
CancelClosesPeers ==
    \A p \in Peers :
        (cancelled /\ phase[p] \notin {"idle", "failed"}) ~>
            \/ process # "running"
            \/ phase[p] = "failed"
            \/ PionClosed(p) /\ ~sockets[p]

\* "Proactively close to trigger Closed state and cleanup sockets" (changeCallback):
\* while the run lasts, a Disconnected handler that is past its peer.Close leaves no
\* socket open.
HangupClosesSockets ==
    ~cancelled =>
        \A p \in Peers : \A i \in 1 .. Len(events[p]) :
            (Change(p, i) = "Disconnected" /\ at[<<p, i>>] \in {"delete", "returned", "released"})
                => ~sockets[p]

-----------------------------------------------------------------------------
\* What the runner sees of the connections.
Left(p) == {i \in 1 .. MaxEvents : at[<<p, i>>] \in {"uncount", "release", "released"}}

Slots == INSTANCE SlotPool WITH
    MaxReturns <- MaxEvents,
    taken <- Started,
    live <- Registered,
    left <- [p \in Peers |-> Cardinality(Left(p))],
    joining <- Cardinality(At("total")) + Cardinality(At("current")),
    leaving <- Cardinality(At("uncount")),
    due <- Cardinality(At("release")),
    available <- Connections - held,
    current <- CurrentConnections,
    panicked <- process = "panicked"

\* The connections implement the slots the runner counts on (SlotPool): CurrentConnections
\* and the semaphore change once for each time a peer enters and leaves the registry.
ImplementsSlotPool == Slots!PoolSpec
=============================================================================
