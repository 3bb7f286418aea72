# A TLA+ model of webrtc-load-tool

`webrtc-load-tool` opens a number of WebRTC connections to a WHIP or WebSocket
endpoint, keeps that number open for the duration of the run by replacing the
connections that die, and logs what their media tracks receive. This directory holds
TLA+ modules that model its core logic, the TLC configurations that check them on
small instances, and theorems about them that TLAPS checks for every value of the
constants.

Paths are relative to the repository; `runner.go` and `handler.go` are in
`internal/runner/`, `peerconnection.go`, `websocket.go` and `http.go` in
`internal/webrtcpeer/`.

## The system

| component | state | operations | model |
|---|---|---|---|
| Connection attempts and watchers (`handler.go` AddConnection; `peerconnection.go` NewPeerConnection, initPeerConnection, SetAnswer, Close) | the goroutine of each attempt, `signalingClose`, the signaling sockets | set a peer up, signal, set the answer, store the closer, wait for the context and close | `ConnectionLifecycle` |
| Connection state handlers and registry (`peerconnection.go` handleConnectionStateChange; `handler.go` changeCallback; `runner.go` OnNewConnection .. OnClosed, swapPeerState) | `PeerConnection.state`, `connectionsState`, `TotalConnections`, `CurrentConnections`, the semaphore | one handler goroutine per state that pion reports | `ConnectionLifecycle` |
| Slots (`runner.go`: the semaphore as the loop uses it) | slots available, who took one, who is registered, what is still to be counted and given back | take, register, count in, unregister, count out, return | `SlotPool` (abstract) |
| Run loop, duration, logger, main (`runner.go` Run, logger; `main.go`) | the loop, the sleeper, the logger, `finished`, the context, the interrupts | take a slot, start an attempt, wait for a tick, return; end the duration; log; interrupt, exit | `Runner` |
| Track registry and totals (`runner.go` OnTrack, GetTracksPacketsDelta; `peerconnection.go` newTrackInfo, handleTrack, closeAllTracks) | three atomic counters and a closed flag per track, the registry of last values, totals per kind | count a packet, register a track, close tracks, sum and forget | `TrackStats` |
| Lost packet tracker (`peerconnection.go` lostPacketsTracker) | a buffer sorted by sequence number, the last sequence number that left it | report a packet | `LostPackets` |
| WebSocket signaling (`websocket.go` wsSignal, connectWebSockets, readers, resolver, waitForAnswer, close) | two sockets, a promise, two reader goroutines, the calls of close | dial, offer, read, resolve once, take the answer, time out, close | `Signaling`, promise in `SignalingOutcome` |
| Resolution tracker (`websocket.go` updateTracks, findBestTrackIndex, triggerInitialTrackCheck) | available tracks, current index, time of the last switch | new metadata, initial timer, switch | `ResolutionTracker`, run by `Signaling` |
| HTTP signaling (`http.go`) | none | one request | `Signaling` |
| Command line (`flags.go`; `main.go` up to the runner) | the flags, the state of the number parser | parse each flag, refuse, configure, start | `Flags` |
| Media engine, logging, number formatting | none that changes | output and set-up only | not modelled |

How they interact. `Run` takes a slot of the semaphore and starts an attempt on a
goroutine. The attempt creates a peer connection, reports `New` on another goroutine,
signals, sets the answer, and leaves a watcher behind that closes the peer when the
run's context is done. Pion reports each change of state with `go handler(state)`;
the handlers change the registry, the counters and the tracks, and `OnClosed` gives
the slot back, which wakes the loop of `Run`. Tracks are counted by goroutines of
their own and read by the logger once a second. `main` waits for `Run` and for
interrupts.

What is hard here. The handlers of one peer run in any order and interleave at every
atomic operation, so that `Closed` may be handled before `New`; the registry
(`sync.Map`) and the counters are separate atomics; a handler that comes late may
register a peer again after its slot was given back; an attempt can fail at each of
six places, with different parts of it left open; `signalingClose` is read without
the lock it is written under; track counters are read twice on registration and once
before the closed flag; the run is ended by a timer and by interrupts that race; the
loop waits for ticks without looking at the context. Signaling fails at each of its
steps with more of it open each time, its answer races a timeout, and its close waits
for goroutines that may be in a read. Two goroutines switch tracks: what they read
under the tracker's lock is used after it, the timer's with a copy that may be old.
Packets come in any order and their numbers wrap. Numbers on the command line are
parsed by hand, with decimals that go through a float64. `PROJECT.json` lists these
hazards at their lines with the properties that cover them.

What makes each component correct: the counters agree with the registry up to the
handlers under way; a slot is given back for a dead peer only, and only a slot given
back twice lets in more than `Config.Connections` connections; a run ends when it
should and reports how it ended; its end closes every peer and its sockets, if the
process lasts that long; no packet is counted twice, and a closed track is uncounted
once and forgotten; without late packets and wraps the losses reported are the packets
that never came; signaling settles once, always ends and leaves nothing behind when it
fails; the last track asked for is in the end a best one for the target; and a runner
is started only with what its command line says and what the other parts assume. What
the code does not keep of this is listed under Findings.

## Modules

### ConnectionLifecycle

One record of state per attempt. `phase[p]` is the attempt's goroutine: `init`
(initPeerConnection), `offer` (a `New` handler has been started, the offer follows),
`signal` (wsSignal or httpSignal runs), `answer`, `closer` (the answer is set,
`signalingClose` is not), `up` (the watcher waits), `down`, or `failed`. `events[p]` is
the sequence of states reported for the peer (the last one is pion's own), and
`at[<<p, i>>]` the control state of the goroutine that handles the i-th of them. A
handler goes through

    start -> swap -> (total -> current)                     New, Connecting, Connected
    start -> swap -> (total -> current) -> hangup -> delete ...           Disconnected
    start -> delete -> uncount -> release -> released                           Closed

with one step per shared access: `setStatus`, the `Swap` of the registry, each atomic
addition (if there was no entry), `peer.Close()`, `LoadAndDelete`, `sem.Release` (if
there was one). Nothing orders the handlers of a peer: pion starts each with `go
handler(state)` and the code starts the one for New with `go`
(`peerconnection.go:278`), so that New may be handled after Closed. `Hangup` may or may
not see the closer that the attempt has stored: it is read without the mutex, so the
model chooses, whenever a closer has been stored.

`Signal` is the start of signaling, which needs a context that is not done; with one
that is done the dial or the request fails (`SignalFails`). Signaling that has begun
may still succeed after the context ends. A failed signaling closes pion's connection,
a refused answer or a missing offer does not, as in the code. A disconnected transport
may become connected again, as ICE's does.

`process` says whether the program is there: `Release` ends it if the semaphore is not
held, as `semaphore.Release` does, and once the context is done `main` may end it at
any time (`Exit`): it waits for Run, which waits for none of these goroutines.

### SlotPool and Runner

`SlotPool` is what the runner gets from the connections, and no more than the code
keeps: an attempt takes a slot once; its peer may enter the registry and leave it
again, more than once if a handler comes late; each entry is counted in, each exit is
counted out and gives a slot back, in steps of their own. More slots may come back than
were taken, of which the process dies (`panicked`), and an attempt may keep its slot
for ever. `ConnectionLifecycle` implements it (`Slots == INSTANCE SlotPool WITH ...`):
`taken` and `live` are the attempts under way and the registry, `left` counts the
handlers past their `LoadAndDelete`, and `joining`, `leaving` and `due` those between
the registry, the counter and the semaphore.

`Runner` extends it with the loop of `Run`, which takes a slot (`Acquire`) and starts
the attempt in a second step (`Go`), so that the context may end between the two; the
wait for a tick, which the context does not interrupt; the return; the sleeper
(`finished` is stored before the context is cancelled, two steps); the logger; the
interrupts and the exit of the process.

### TrackStats

Per track: the reader goroutine (`reader`, `count`), the goroutine in handleTrack and
OnTrack (`intro`, `baseline`), the flag `closed`, and the entry in `callbacks.tracks`.
The logger is a loop over the entries (`logger`, `due`, `current`, `seen`, `delta`).
A packet is one unit of packets and bytes; the losses it reports are any of `Losses`.
OnTrack adds the counters to the totals one at a time and reads them again for the
entry; the logger reads the counters, and after that the closed flag. `sync.Map.Range`
visits every entry there is at its start and may or may not visit one that is stored
meanwhile (`InRange`). Steps that are merged: bytes and losses of one packet, and their
reading by the logger, because no property compares one counter with another; the
appending to `PeerConnection.tracks` and the start of the reader, because closing the
tracks before the append is the same as not closing them yet.

### ResolutionTracker, Signaling, SignalingOutcome

`Signaling` is one attempt. `caller` is NewPeerConnection's goroutine: `start`, `dial`
(the signaling socket is open), `offer` (both are, and the readers run), `wait`,
`failing` (conns.close is waited for), `answered`, `failed`. `HTTPAnswer` and
`FailsAtOnce` are httpSignal. `closing[c]` is a call of close: by the caller when
wsSignal fails, or by one of `Closers`, the handlers and the watcher that hold the
returned function; the calls overlap. `promise` is the channel of capacity one:
`Send` blocks while it is full, so that the deferred fail of a reader could hang if
`resolved` did not hold it back.

The server is free: it breaks either socket at any time, answers, refuses or stays
silent, and messages still come out of the buffer of a socket that is closed. A write
fails if its socket is not open. Steps that are merged: dialing and the making of the
channel, tracker and readers, which touch nothing shared before the readers run; and
the parts of closeWS. Messages that change nothing are left out, and so are the
keepalives, which read nothing and whose pongs only move a read deadline that the model
lets expire at any time; two goroutines in a WriteJSON on one socket may panic
(`ConcurrentWrite`), which control frames never do.

`ResolutionTracker` holds the tracker's state and its two updaters, `metadata` and
`timer`. `at[u]` follows updateTracks through its critical sections: the first one and
the checks after it (`UpdateTracks`), the write (`write`, whose end `Signaling`
decides), and the second one (`store`). Tracks are sets; the order in which they come
out of the map is chosen anew at every message (`FoundIdxs`). Time is `cooling`: the
last switch is less than the cooldown ago. `playing`, `burst` and `raced` record what
happened, for the properties only.

`SignalingOutcome` is the promise: signaling settles once, and a failure leaves no
socket held. It is what `SignalSucceeds` and `SignalFails` of `ConnectionLifecycle`
take as one step; `Signaling!Outcome` maps one to the other.

### LostPackets

A packet is named by its place in the stream; `SeqOf` and `Timestamp` give what is on
the wire, wrapped. `Send` and the packets that are never received are the network.
`Receive` is one turn of the reader's loop, with `ReportPacket` whole: `AddPacket`
(the place that `sort.SearchInts` finds), `CutOff` (unsigned), and the loop, of which
`Leaving` says how far it goes and `Dropped` what it adds up. `late` and `origin`
record which packets came too late and which left first, for the properties only. A
replayed packet is dropped by SRTP and never received twice. The numbers start anywhere
in their range, and the stream may be longer than the range.

### Flags

`phase` follows main and Parse through their checks; the values pflag has parsed are
chosen where Parse reads them. parseHumanReadableNumber is one step per character
(`pos`, `cons`, `dec`, `hasDot`), with uint of `UintRange`. At the k the code computes
in float64: `Products` are the whole numbers the product may be cut off to, given that
four of its operations round by at most one part in `Precision` each. It may fall one
short (`1.36k` gives 1359), be one over, or be further off beyond the precision, and it
is exact for whole thousands that are small enough. A product beyond uint gives one of
two values, which Go leaves to the processor (`Thousandfold`). `10^len(fmt.Sprint(dec))`
is `Scales`: leading zeros of the decimals have no place in it, so `1.05k` is 1500.

## Runs

| run | instance | shows |
|---|---|---|
| `life` | 2 peers on 1 slot; 5 reports for one alone, 4 together if both start; any order | types; `CounterTracksRegistry`: the counter is the size of the registry up to the handlers under way; `SlotsConserved`: each slot in use is owed to an attempt; `SlotKeptWhileAlive`: a slot is given back for a dead peer only; `AtMostConnections`: only a slot given back twice lets in more connections than configured or makes the semaphore panic |
| `life_ends` | 1 peer, 4 reports, any order, fair | `CancelClosesPeers`: the end of the run closes every peer that did not fail, and its sockets, unless the process ends first; `DeadPeerAccounted`: a dead peer gives its slot back or stays in the registry; `ImplementsSlotPool` |
| `run` | 3 attempts on 2 slots with a runup, each entering and leaving the registry up to twice | types; `UninterruptedRunCompletes`; `RunEnds`; `SlotsRefilled`: free slots are filled while the run lasts |
| `tracks` | 1 audio and 1 video track, 1 packet each | types; `NoUnderflow`: unsigned differences never wrap; `NoOvercount`: nothing is counted twice; `CurrentTracksAgree`: closed tracks are uncounted once; `ClosedTracksForgotten` |
| `signaling` | 3 metadata messages, 2 holders of the closer | types; `FailureLeavesNothing`; `ImplementsOutcome`; `SignalingEnds`; `CloseReturns`: a close never hangs; `SwitchesToBest`: every switch asks for the best track of one message; `IndexAgrees`: the tracker knows what the server was sent; `CooldownOverrunOnce`; `SettlesOnBest`: with steady metadata the last track asked for is in the end a best one, but for a best track of index 0 |
| `lost` | 6 packets; sequence numbers of 8, timestamps of 12 | types; `Sorted`; `LossesExact`: without late packets and wraps the losses are the packets that never came; `LossesNotMissed`: without wraps of sequence numbers they are at least the packets missing after the first that left; `NoSpuriousLoss`: within one cycle of the sequence numbers, nor does their wrap make any up; `HeldBriefly`: no packet is held longer than the buffer |
| `flags` | every number of up to 5 characters over two digits, and longer ones of nines | types; `StartedFits`: what the runner is started with; `NumberAsWritten`: the number of connections is the one written, with the exceptions it names |
| `life_double_release` | 1 peer on 2 slots, 5 reports | *violated* `OneReleasePerPeer` |
| `life_failed_attempt` | 1 peer, fair | *violated* `FailedAttemptClosed` |
| `life_hangup_sockets` | 1 peer, WebSocket signaling | *violated* `HangupClosesSockets` |
| `run_stopped` | with a runup | *violated* `StoppedRunReportsStopped` |
| `tracks_last_count` | as `tracks` | *violated* `LastCountBeforeRemoval` |

Every property of a passing run has a mutant: a definition that changes one of the
code's steps as a plausible bug would (`SwapAlwaysCounts`, `HangupOpen`,
`WatcherClosesPion`, `StoreZero`, ...), which stands before the definition it changes
and makes TLC find the property violated.

Bounds. `Peers` bounds the attempts of a run: two peers on one slot are enough for one
to be replaced by the other, three on two for a slot to come back while another is in
use. `MaxEvents` bounds the states reported for a peer, the `closed` of
`PeerConnection.Close` included. Four allow New, Connecting, one of Connected,
Disconnected and Failed, and Closed; five allow Connected before Disconnected, or a
reconnection after a Disconnected (`life` and the violation runs that need it). Two
such peers are beyond TLC, so `FewReports` lets one peer have all five if the other does
not start, and both together four if it does: enough for a peer to be reported
Disconnected and Closed while the other waits for the slot or takes it. All properties
of `life` are invariants, so that the constraint hides nothing within those numbers; the
runs with liveness properties have none. `PeerSymmetry` is used in `life` only.
`MaxReturns = 2` lets a peer come back once.
`MaxPackets = 1` lets the packet arrive before, between and after each of OnTrack's
and the logger's reads; two tracks of different kinds are enough for one to be visited
while the other is being stored, and a second visit of the same track happens at the
next tick. `Losses = {1}`: a report of no loss leaves the counter alone. `interrupts`
counts to two because the second one ends the process.

`MCOffers`: one message whose best track is at the target and has index 0, which is
never asked for at first, with an audio track that must not count; one whose tracks of
the wanted codec are all above the target, two of them tied; and one without that codec:
the three ends of findBestTrackIndex. Two closers let calls of close overlap. `MaxSent =
6` with `BufferDuration = 2` and gaps of 0, 1 and 3 let several packets wait, leave
together and come late; sequence numbers that start at 5 of `SeqRange = 8`, and
timestamps of up to 17 with a `TimeRange` of 12, wrap within the stream, and
`FirstTimes` below the buffer's length make the cut-off underflow. `MaxLength = 5` has
room for digits, dot, separator, decimals and k; the digits are 0 and 4, whose products
a `Precision` of 32768 rounds down (`400k` may be 399951, within what its precision
leaves), and the texts of `Nines`, one character longer, are rounded up (`.9999k` may be
1000) or leave `UintRange = 524288`. The widths differ from the code's, the kinds of
wrap do not.

Deadlock is checked in `Signaling`, `Flags`, `ConnectionLifecycle` and `Runner`, whose
only way to stand still is stated (`Ended`; `Stopped`: the run is over and every
goroutine has ended, or the process has died; `Exited`). It is not in the two `tracks`
runs, where the logger and the readers end, nor in `lost`, where the stream does.

## Fairness

`ConnectionLifecycle!FairSpec`: every goroutine that can run does (weak fairness of
each attempt, watcher and handler). An attempt gets on because each of its steps has
a bound in the code: the HTTP client has a timeout, the WebSocket handshake and answer have
theirs. Nothing is assumed of the network, of pion's reports or of the end of the run,
nor that the process lasts: the liveness properties allow for its end.

`Runner!FairSpec`: the loop takes slots and starts attempts, the ticker ticks, the
sleeper cancels once it has woken, the logger and main notice what they wait for. That
the duration passes, that connections die and that the user interrupts is not assumed.

`TrackStats!FairSpec`: the logger's ticker fires until the logger ends, and Range
never blocks. Nothing is assumed of tracks and readers.

`Signaling!FairSpec`: the caller, each call of close, and the goroutines of the updaters
get on, because dials, writes and the wait for the answer have deadlines (20 and 5
seconds) and close waits only for the readers. A reader whose socket is not open comes
to the end of what was buffered; for the metadata reader, which the buffered messages
keep busy in between, that is strong fairness, since a buffer is finite. Nothing is
assumed of the server, nor of a reader whose socket is open. `SettlesOnBest` states
its own assumption: the same metadata keeps coming, and the sockets stay open.

## Findings

Each is a violation run; `PROJECT.json` quotes the comment or test it contradicts.

1. `life_double_release`: a handler delayed past `OnClosed` registers the peer again,
   and the next `Closed` gives a second slot back. The semaphore may then let in too
   many connections, or panic.
2. `life_failed_attempt`: an attempt whose answer is refused, or that makes no offer,
   after New was reported does not close its peer; `OnClosed` is never called for it, so
   its slot stays taken.
3. `life_hangup_sockets`: a Disconnected handler that closes the peer before the
   closer is stored leaves the signaling sockets open; while the run lasts nothing else
   closes them.
4. `run_stopped`: an interrupted run returns true if the duration ends while it winds
   down.
5. `tracks_last_count`: a packet that arrives between the logger's reading of the
   counters and its question whether the track is closed is in no total.

Behaviours of the model that contradict a line of the repository and have no run:

- the `New` handler is a goroutine of its own and may run after `Closed`
  (`peerconnection.go:278`). The status then changes, although `peerconnection.go:30`
  says of Closed "This is the final state of the PeerConnection."; and the registry gets
  an entry that nobody removes, which keeps `CurrentConnections` above zero and the
  logger going (`runner.go:396`). `DeadPeerAccounted` names this outcome, and it is one
  of the ways to `life_double_release`;
- a best track of index 0 is never asked for before another one was, because the
  current index starts at 0 (`websocket.go:133`), although `runner.go:49-50` and
  `flags.go:45-46` say that the client switches to the closest resolution;
  `SettlesOnBest` names the exception;
- `1.05k` is 1500 connections and `1.36k` is 1359, although `flags.go:217` promises
  simple decimals.

Behaviours that contradict no line:

- the logger ends at the first tick without a counted connection, also when attempts
  are only slow;
- two updates of the tracker that overlap may leave its index and the server's track
  different for good: `SettlesOnBest` and `IndexAgrees` hold only if none do; among
  tracks that tie for the best the tracker may go on switching;
- a late packet makes the packets after it count as lost again, which may hide one that
  was missed: `LossesNotMissed` compares sums;
- a packet from before a wrap of the sequence numbers stays in the buffer behind those
  from after it, until the numbers have come round to its own; then it leaves among the
  packets of the next cycle, and a packet that is only delayed can be reported as lost.
  `NoSpuriousLoss` is therefore stated of streams of at most one cycle (TLC finds the
  counterexample beyond it with `SeqRange = 4` and seven packets);
- decimals without a k are ignored, and a resolution of `8k` is a height of 8;
- a peer that failed is not closed before the end of the run, while its slot is used
  again (`handler.go:80`): sockets of dead peers pile up;
- an address without a host (`https:`) is accepted, and its relay is `turn::3478`
  (`flags.go:397-403`);
- a runup of fewer nanoseconds than connections is accepted, and ends in a panic of
  NewTicker.

## Proofs

All are safety properties, proved from the named assumptions on the constants only.
Every inductive invariant was an invariant of the component's run in TLC before it was
proved (`ValueInv`, which quantifies over functions, with the function put in).
`PROJECT.json` says of each theorem which property it proves.

`ConnectionLifecycleProofs` (`ConstantsAssumption`): `TypeCorrect`, `CounterCorrect`
and `SlotsCorrect`, for any number of attempts, slots and reported states, whatever order
the handlers run in. A plain "the counter is the size of the registry" is not inductive, since
a handler changes the two in different steps: `Counting`, the conjunction of
`CounterTracksRegistry` and `SlotsConserved`, accounts for every handler between two
such steps and is inductive given the types. Each step is reduced to how it changes the
cardinalities of the registry and of the handlers at each label, one lemma per kind of
change.

`ConnectionSlotsProofs` goes on from these. `SlotsOfTheDead` (`SlotKeptWhileAlive`) by
`DeparturesInv`, peer by peer: nothing is reported before the peer connection exists,
after failed or closed only closed is, and a handler is in OnClosed only of a peer that
is failed or closed, since the Disconnected handler closes it first.
`ConnectionsBounded` (`AtMostConnections`) adds `SemaphoreInv`: the slots held are the
attempts started less the releases, never more than there are, and negative exactly if
the process has panicked; and since a peer that has given its slot back is dead, the
living and the givers (`AliveOrGiver`) together are at most the attempts started.
`LifecycleImplementsPool` (`ImplementsSlotPool`): each step of a handler is mapped to
the step of the pool that its label stands for, and every other step leaves the pool
alone or takes a slot.

`RunnerProofs` (`PoolAssumption`, `RunupAssumption`): `UninterruptedCorrect` and
`ReturnCorrect` (Run returns only when its context is done and the logger has ended) by
`EndInv`, which says in which order flag, context and logger change; `RunTypeCorrect`
by `PoolInv`, which bounds how often a peer comes back and relates `panicked` to the
slots.

`TrackStatsProofs` (`TracksAssumption`): `UnderflowCorrect` by `LagInv`: entries,
baselines and what the logger has read are at most the counters; while the logger
visits a track its entry is there, is not due again, and no one else stores it (OnTrack
stores once, before the track can be visited); what was read is at least the entry.
`CurrentTracksCorrect` and `TrackTypeCorrect` add to `LagInv` that only CountTrack and
UncountTrack change the set of the tracks counted. `NothingCountedTwice`: a total alone
cannot be compared with the counters step by step, because what has been added to it is
remembered in each track's entry. `NoneTwice` says that the total, and what the logger
has summed but not yet added, are at most the sum of what the entries of that kind
stand for (`Summed`), including those the logger is about to renew and OnTrack is about
to store; every step is then a step of one summand.

`SignalingProofs` (`TrackerAssumption`, `ClosersAssumption`): `FailureIsClean` by
`SocketInv`, which says for every place of the caller which sockets may be open and
which readers may run, and for every call of close what it has closed already; from it
the step refinement `OutcomeImplemented`. `IndexKept` and `OverrunOnce` by `TrackerInv`:
while an updater is between the checks and the store, the other is not, or they have
raced; a cooldown that is overrun is overrun by the timer, which runs once. Both hold
for any metadata, any target and any number of closers. `BestIsChosen`, for any
metadata and every order of its tracks: `AtOrBelowFinds` and `LowestFinds` say what the
two loops of findBestTrackIndex return, `FindsBest` puts them together, and `Choice`
carries the index found through updateTracks to the switch. `TypesKept` needs the same
lemmas for the index found, and `PromiseTypes` for the channel.

`LostPacketsProofs` (`StreamAssumption`): for any stream, widths and length of the
buffer `BufferSorted` and `LostTypes`; `PacketsHeldBriefly`, `NoLossMadeUp` and
`LossesAreExact`, each under the absence of late packets and wraps that its property
names; and `NoLossMissed`, which needs only that no sequence number wraps. The inductive
invariant is `LossInv`: `StateInv` (the buffer is sorted and holds packets of the stream
once each, last number and origin are those of packets that left); `SkippedCounted`: the
numbers that the packets which left have passed over are in the count; and `CalmInv`:
while nothing is late, packets leave in the order of the stream, what is counted has not
come, and of a stream whose numbers wrap nothing leaves once a packet from after the
wrap has come (`NewestStays`). The count is the sum of a loop over the buffer;
`InsertionKeepsOrder` is the lemma about addPacket, `RestInOrder` and the lemmas of the
second section those about the loop. An earlier form of `NoSpuriousLoss` without the
bound of one cycle could not be proved and turned out to be false.

`FlagsProofs` (`FlagsAssumption`): `TypesKept`, for any texts and any width of uint;
`OnlyFittingConfigs` by `Progress`, which says for every phase what has been checked
before it. `NumberIsAsWritten` rests on `PrefixInv`, which says of the part of the text
already read what `WellFormed` says of all of it, and on `ValueInv`: `cons` and `dec`
are what the digits read on either side of the dot make, as long as that is below the
range of uint. At the k, `DigitsTogether` says that all digits make the whole ones times
a power of ten plus the decimals, and `PowersApart` that the scale the code derives from
the decimals is that power unless they begin with a zero; what is left is the quotient,
and `RoundedByOne` that rounding moves it by one at most where the product is right to
less than one (`Precise`). The reference, `Writing`, is a recursive function over the
text, in place of library operators whose definitions the provers do not know
(SelectSeq, `^`).

`InductionLemmas` holds what these need of the library. Its induction theorems take an
operator as a parameter, which the provers cannot instantiate; `SetInduction` and
`BoundedInduction` say the same of a set, by way of the least number that is not in
it. On them rest the lemmas about `SumFunctionOnSet` and about folds over sequences,
which unfold a step of the community modules' definitions (`SumUnfolds`, `FoldExists`).

Every safety property of a passing run is stated by a theorem. Only model-checked: the
liveness properties, since neither fairness nor ENABLED can be reasoned about here
(`CancelClosesPeers`, `DeadPeerAccounted`, `RunEnds`, `SlotsRefilled`,
`ClosedTracksForgotten`, `SignalingEnds`, `CloseReturns`, `SettlesOnBest`).

## Plan

Done: `ConnectionLifecycle`, `SlotPool`, `Runner`, `TrackStats`, `ResolutionTracker`,
`Signaling` with `SignalingOutcome`, `LostPackets`, `Flags`, and the proofs above.

Next, in this order:

1. The composition of `Runner` with `ConnectionLifecycle` in place of the abstract
   pool: which peers and sockets are still open when the process exits.
2. Keepalives, if a property needs them.

## Not modelled

Keepalives, whose only effect on the rest is to move deadlines that the model leaves
free; deriveWSURLs, which rewrites an address and keeps no state; the contents of SDP
and log lines; codecs and the media engine, which are set up once; ICEServers and
RunnerConfig, which turn the parsed flags into the configuration; the early return of `Run` for zero connections, which the flags refuse; panics other than the
semaphore's and the one of concurrent writes. Pion, the semaphore, `sync.Map`, the
WebSocket library, pflag and the network are modelled by what the code relies on.
