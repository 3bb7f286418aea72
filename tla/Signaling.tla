------------------------------ MODULE Signaling ------------------------------
(***************************************************************************)
(* One attempt's signaling: wsSignal with its two sockets, the goroutines  *)
(* that read them, the promise of an answer and close, or httpSignal with  *)
(* its one request.  The metadata reader runs the tracker of               *)
(* ResolutionTracker, whose writes share the signaling socket with the     *)
(* offer.                                                                  *)
(*                                                                         *)
(* The server is free: a socket may break at any time, messages may come   *)
(* in any order and at any time, also from the buffer of a socket that has *)
(* been closed.  Messages that change nothing are not modelled, nor are    *)
(* the keepalives, which do nothing but let a read last longer.            *)
(***************************************************************************)
EXTENDS ResolutionTracker

CONSTANT Closers  \* the calls of the function returned, by handlers and the watcher

Sockets == {"signaling", "metadata"}

\* The call of close when wsSignal fails.
Caller == "caller"
Closing == Closers \cup {Caller}

ASSUME ClosersAssumption == Caller \notin Closers

VARIABLES
    caller,    \* the goroutine in NewPeerConnection
    socket,    \* the two connections; a broken one has not been closed here
    reader,    \* the two reader goroutines, which conns.wg counts
    promise,   \* the channel of capacity one
    resolved,  \* resolver.once has run
    closing,   \* the calls of wsConnections.close
    panicked   \* the library has found two goroutines writing to one socket

promiseVars == <<promise, resolved>>
wsVars == <<socket, reader, promiseVars, closing>>
vars == <<caller, wsVars, panicked, trackerVars>>

Init ==
    /\ caller = "start"
    /\ socket = [s \in Sockets |-> "none"]
    /\ reader = [s \in Sockets |-> "none"]
    /\ promise = "empty"
    /\ resolved = FALSE
    /\ closing = [c \in Closing |-> "idle"]
    /\ panicked = FALSE
    /\ TrackerInit

-----------------------------------------------------------------------------
(* The caller.                                                             *)

Goto(from, to) == caller = from /\ caller' = to

\* httpSignal: any error, a response without 201, another content type or an empty body.
\* wsSignal: the offer is blank, or the first dial fails.
FailsAtOnce ==
    /\ Goto("start", "failed")
    /\ UNCHANGED <<wsVars, trackerVars>>

\* httpSignal: a response with status 201, application/sdp and a body.
HTTPAnswer ==
    /\ Goto("start", "answered")
    /\ UNCHANGED <<wsVars, trackerVars>>

Connect(s, from, to) ==
    /\ Goto(from, to)
    /\ socket' = [socket EXCEPT ![s] = "open"]

DialSignaling ==
    /\ Connect("signaling", "start", "dial")
    /\ UNCHANGED <<reader, promiseVars, closing, trackerVars>>

\* Mutation: the signaling socket is forgotten.
DialMetadataFailsOnly ==
    /\ Goto("dial", "failed")
    /\ UNCHANGED <<wsVars, trackerVars>>

DialMetadataFails ==
    /\ Goto("dial", "failed")
    /\ socket' = [socket EXCEPT !["signaling"] = "closed"]
    /\ UNCHANGED <<reader, promiseVars, closing, trackerVars>>

\* connectWebSockets returns; wsSignal makes the tracker and starts the readers.
DialMetadata ==
    /\ Connect("metadata", "dial", "offer")
    /\ reader' = [s \in Sockets |-> "read"]
    /\ UNCHANGED <<promiseVars, closing, trackerVars>>

StartClosing(c) ==
    /\ closing[c] = "idle"
    /\ closing' = [closing EXCEPT ![c] = "signaling"]

\* Mutation: the sockets are left to the garbage collector.
FailsUnclosed(from) ==
    /\ Goto(from, "failed")
    /\ UNCHANGED <<socket, reader, resolved, closing, trackerVars>>

\* conns.close, and then an error is returned.
Fails(from) ==
    /\ Goto(from, "failing")
    /\ StartClosing(Caller)
    /\ UNCHANGED <<socket, reader, resolved, trackerVars>>

OfferSent ==
    /\ socket["signaling"] = "open"
    /\ Goto("offer", "wait")
    /\ UNCHANGED <<wsVars, trackerVars>>

OfferFails ==
    /\ socket["signaling"] # "open"
    /\ Fails("offer")
    /\ UNCHANGED promise

\* waitForAnswer: either case of the select may win if both are ready.
TakeAnswer ==
    /\ promise = "answer"
    /\ Goto("wait", "answered")
    /\ promise' = "empty"
    /\ ArmTimer
    /\ UNCHANGED <<socket, reader, resolved, closing,
                   switchVars, copied, availableTracks, raced>>

TakeError ==
    /\ promise = "error"
    /\ promise' = "empty"
    /\ Fails("wait")

\* Mutation: there is no timeout.
AnswerNeverTimesOut == FALSE

\* Twenty seconds have passed, or the run is over.
AnswerTimeout == Fails("wait") /\ UNCHANGED promise

CallerStep ==
    \/ FailsAtOnce \/ HTTPAnswer
    \/ DialSignaling \/ DialMetadataFails \/ DialMetadata
    \/ OfferSent \/ OfferFails
    \/ TakeAnswer \/ TakeError \/ AnswerTimeout

-----------------------------------------------------------------------------
(* wsConnections.close.                                                    *)

\* NewPeerConnection has passed the closer on; each holder calls it once.
CallClose(c) ==
    /\ c \in Closers
    /\ caller = "answered"
    /\ socket["signaling"] # "none"
    /\ StartClosing(c)
    /\ UNCHANGED <<caller, socket, reader, promiseVars, trackerVars>>

\* closeWS, with what comes next.
CloseSocket(c, s, next) ==
    /\ closing[c] = s
    /\ closing' = [closing EXCEPT ![c] = next]
    /\ socket' = [socket EXCEPT ![s] = "closed"]
    /\ UNCHANGED <<caller, reader, promiseVars, trackerVars>>

\* wg.Wait returns.
ReadersDone(c) ==
    /\ closing[c] = "wait"
    /\ \A s \in Sockets : reader[s] = "done"
    /\ closing' = [closing EXCEPT ![c] = "done"]
    /\ caller' = IF c = Caller THEN "failed" ELSE caller
    /\ UNCHANGED <<socket, reader, promiseVars, trackerVars>>

\* Mutation: the metadata socket is left to its reader.
CloseSignalingOnly(c) == CloseSocket(c, "signaling", "wait") \/ ReadersDone(c)

CloseStep(c) ==
    \/ CloseSocket(c, "signaling", "metadata")
    \/ CloseSocket(c, "metadata", "wait")
    \/ ReadersDone(c)

-----------------------------------------------------------------------------
(* The readers.                                                            *)

Read(s, from, to) == reader[s] = from /\ reader' = [reader EXCEPT ![s] = to]

\* Sending blocks while the channel is full.
Send(result) == promise = "empty" /\ promise' = result

\* resolver.success and fail: the first call sends, the others do nothing.
Resolve(result) ==
    IF resolved THEN UNCHANGED promiseVars ELSE Send(result) /\ resolved' = TRUE

\* handleSignalingMessages leaves its loop: an answer; a refusal or one it cannot parse.
ReadAnswer ==
    /\ Read("signaling", "read", "deferred")
    /\ \E result \in {"answer", "error"} : Resolve(result)
    /\ UNCHANGED <<caller, socket, closing, trackerVars>>

\* The read fails: the socket is broken or closed, or was silent for a minute.
SignalingReadFails ==
    /\ Read("signaling", "read", "deferred")
    /\ Resolve("error")
    /\ UNCHANGED <<caller, socket, closing, trackerVars>>

\* The deferred fail.
SignalingReaderEnds ==
    /\ Read("signaling", "deferred", "done")
    /\ Resolve("error")
    /\ UNCHANGED <<caller, socket, closing, trackerVars>>

\* handleMetadataMessages, with a tracker.
ReadMetadata(offer) ==
    /\ TargetHeight > 0
    /\ reader["metadata"] = "read"
    /\ Metadata(offer)
    /\ UNCHANGED <<caller, wsVars>>

\* Between two messages, not while the tracker is being updated.
MetadataReadFails ==
    /\ at["metadata"] = "idle"
    /\ Read("metadata", "read", "done")
    /\ UNCHANGED <<caller, socket, promiseVars, closing, trackerVars>>

\* The write of updateTracks ends.
SwitchEnds(u) == IF socket["signaling"] = "open" THEN SwitchSent(u) ELSE SwitchFails(u)

UpdaterStep(u) == (SwitchEnds(u) \/ StoreSwitch(u)) /\ UNCHANGED <<caller, wsVars>>

TimerStep == (CopyTracks \/ ApplyCopy) /\ UNCHANGED <<caller, wsVars>>

-----------------------------------------------------------------------------
(* The environment.                                                        *)

\* The server or the network ends a connection, or a write runs into its deadline, after
\* which the library fails every other one.
Break(s) ==
    /\ socket[s] = "open"
    /\ socket' = [socket EXCEPT ![s] = "broken"]
    /\ UNCHANGED <<caller, reader, promiseVars, closing, trackerVars>>

CooldownPasses == CooldownEnds /\ UNCHANGED <<caller, wsVars>>

\* The goroutines in a WriteJSON on the signaling socket.
Writing ==
    {u \in Updaters : at[u] = "write"} \cup (IF caller = "offer" THEN {Caller} ELSE {})

\* The library panics if it notices; if it does not, the messages may both be sent.
ConcurrentWrite ==
    /\ ~panicked
    /\ Cardinality(Writing) > 1
    /\ panicked' = TRUE
    /\ UNCHANGED <<caller, wsVars, trackerVars>>

\* Nothing runs after a panic.
Running == ~panicked /\ UNCHANGED panicked

Step ==
    \/ CallerStep
    \/ \E c \in Closing : CallClose(c) \/ CloseStep(c)
    \/ ReadAnswer \/ SignalingReadFails \/ SignalingReaderEnds
    \/ \E offer \in Offers : ReadMetadata(offer)
    \/ MetadataReadFails
    \/ \E u \in Updaters : UpdaterStep(u)
    \/ TimerStep \/ CooldownPasses
    \/ \E s \in Sockets : Break(s)

\* Every goroutine has ended; after a panic, all at once.
Ended ==
    /\ \/ panicked
       \/ /\ caller \in {"answered", "failed"}
          /\ \A s \in Sockets : reader[s] \in {"none", "done"}
          /\ \A c \in Closing : closing[c] \in {"idle", "done"}
          /\ \A u \in Updaters : at[u] \in {"idle", "done"}
    /\ UNCHANGED vars

Next == (Running /\ Step) \/ ConcurrentWrite \/ Ended

Spec == Init /\ [][Next]_vars

\* A reader of a socket that is not open comes to the end of what was buffered.
DrainSignaling == socket["signaling"] # "open" /\ SignalingReadFails
DrainMetadata == socket["metadata"] # "open" /\ MetadataReadFails

\* Dialing, writing and waiting for the answer have deadlines, and close waits for the
\* readers only.  The strong fairness is that of a finite buffer, whose messages keep the
\* metadata reader busy in between.  Nothing is assumed of the server, or of a reader
\* whose socket is open.
FairSpec ==
    /\ Spec
    /\ WF_vars(Running /\ CallerStep)
    /\ \A c \in Closing : WF_vars(Running /\ CloseStep(c))
    /\ WF_vars(Running /\ (DrainSignaling \/ SignalingReaderEnds))
    /\ SF_vars(Running /\ DrainMetadata)
    /\ WF_vars(Running /\ UpdaterStep("metadata"))
    /\ WF_vars(Running /\ (TimerStep \/ UpdaterStep("timer")))
    /\ WF_vars(Running /\ CooldownPasses)

-----------------------------------------------------------------------------
(* Properties.                                                             *)

Types ==
    /\ caller \in {"start", "dial", "offer", "wait", "failing", "answered", "failed"}
    /\ socket \in [Sockets -> {"none", "open", "broken", "closed"}]
    /\ reader \in [Sockets -> {"none", "read", "deferred", "done"}]
    /\ promise \in {"empty", "answer", "error"}
    /\ closing \in [Closing -> {"idle", "signaling", "metadata", "wait", "done"}]
    /\ {resolved, panicked} \subseteq BOOLEAN

\* The types of signaling and of the tracker.
TypeOK == Types /\ TrackerTypeOK

\* When wsSignal returns an error no socket of it is open and no reader runs, whichever
\* of its steps has failed.
FailureLeavesNothing ==
    caller = "failed" =>
        \A s \in Sockets : socket[s] \in {"none", "closed"} /\ reader[s] \in {"none", "done"}

Outcome == INSTANCE SignalingOutcome WITH
    outcome <- IF caller \in {"answered", "failed"} THEN caller ELSE "pending",
    held <- {s \in Sockets : socket[s] \in {"open", "broken"}}

\* Signaling settles once, and a failure leaves no socket open: it implements what
\* ConnectionLifecycle takes it to do in one step.
ImplementsOutcome == Outcome!OutcomeSpec

\* Signaling comes to an end whatever the server does: the answer has a timeout, and the
\* close that follows it never waits for ever.
SignalingEnds == <>(caller \in {"answered", "failed"} \/ panicked)

\* A close returns, also while another one is under way: neither reader stays in a read,
\* nor in sending a result that nobody takes.
CloseReturns ==
    \A c \in Closing : closing[c] # "idle" ~> closing[c] = "done" \/ panicked

\* Metadata keeps offering the same tracks, the sockets stay open and no two updates
\* have overlapped.
Steady(offer) ==
    /\ <>[][\A other \in Offers \ {offer} : ~ReadMetadata(other)]_vars
    /\ WF_vars(Running /\ ReadMetadata(offer))
    /\ <>[](/\ socket["signaling"] = "open" /\ reader["metadata"] = "read"
            /\ ~raced /\ ~panicked)

\* While metadata is steady, the last track the server was asked for is in the end one of the
\* best: a switch that fell into a cooldown, or was undone by the timer's old copy, is
\* made later.  Excepted is a best track of index 0 while no switch was ever made: the
\* tracker takes it to be playing from the start and never asks for it, whatever the
\* server plays.  Among tracks that tie for the best it may go on switching.
SettlesOnBest ==
    \A offer \in {o \in Offers : BestIdxs(o) # {}} :
        Steady(offer) =>
            <>[](playing \in BestIdxs(offer) \/ (playing = NoIdx /\ 0 \in BestIdxs(offer)))
=============================================================================
