------------------------------- MODULE Runner -------------------------------
(***************************************************************************)
(* One test run: the loop of Runner.Run, the goroutine that ends the run   *)
(* after Config.Duration, the logger, and main, which waits for Run and    *)
(* for interrupts.  The connections are the slots of SlotPool.             *)
(***************************************************************************)
EXTENDS SlotPool

CONSTANT Runup  \* TRUE: Config.Runup > 0, the loop waits for a tick per attempt

ASSUME RunupAssumption == Runup \in BOOLEAN

VARIABLES
    loop,        \* the loop of Run, up to its return
    started,     \* the attempts whose goroutine was started
    sleeper,     \* the goroutine that sleeps for Config.Duration
    logger,      \* the goroutine of runnerImpl.logger; "done" has fed waitForLogs
    finished,    \* Run's finished flag
    cancelled,   \* runnerCtx is done
    interrupts,  \* interrupts main has handled
    exit         \* how main ended the process

runVars == <<loop, started, sleeper, logger, finished, cancelled, interrupts, exit>>
vars == <<poolVars, runVars>>

Init ==
    /\ PoolInit
    /\ loop = "acquire"
    /\ started = {}
    /\ sleeper = "sleep"
    /\ logger = "run"
    /\ finished = FALSE
    /\ cancelled = FALSE
    /\ interrupts = 0
    /\ exit = "none"

-----------------------------------------------------------------------------
(* The loop of Run.                                                        *)

\* The process is there.
Running == exit = "none" /\ ~panicked

\* sem.Acquire fails once the context is done, even if a slot is available.
Acquire(p) ==
    /\ Running
    /\ loop = "acquire"
    /\ ~cancelled
    /\ Take(p)
    /\ loop' = "go"
    /\ UNCHANGED <<started, sleeper, logger, finished, cancelled, interrupts, exit>>

\* go AddConnection, also if the context was done since sem.Acquire returned.
Go(p) ==
    /\ Running
    /\ loop = "go"
    /\ p \in taken \ started
    /\ started' = started \cup {p}
    /\ loop' = IF Runup THEN "tick" ELSE "acquire"
    /\ UNCHANGED <<poolVars, sleeper, logger, finished, cancelled, interrupts, exit>>

\* Mutation: the loop waits for ever if the context is done during a wait for a tick.
TickUnlessCancelled ==
    /\ Running
    /\ ~cancelled
    /\ loop = "tick"
    /\ loop' = "acquire"
    /\ UNCHANGED <<poolVars, started, sleeper, logger, finished, cancelled, interrupts, exit>>

\* <-ticker.C, which the context does not interrupt.
Tick ==
    /\ Running
    /\ loop = "tick"
    /\ loop' = "acquire"
    /\ UNCHANGED <<poolVars, started, sleeper, logger, finished, cancelled, interrupts, exit>>

\* Mutation: sem.TryAcquire, so that the loop ends when no slot is free.
LeaveLoopWhenFull ==
    /\ Running
    /\ loop = "acquire"
    /\ cancelled \/ available = 0
    /\ loop' = "logs"
    /\ UNCHANGED <<poolVars, started, sleeper, logger, finished, cancelled, interrupts, exit>>

LeaveLoop ==
    /\ Running
    /\ loop = "acquire"
    /\ cancelled
    /\ loop' = "logs"
    /\ UNCHANGED <<poolVars, started, sleeper, logger, finished, cancelled, interrupts, exit>>

\* <-waitForLogs, and return finished.Load().
ReturnFromRun ==
    /\ Running
    /\ loop = "logs"
    /\ logger = "done"
    /\ loop' = IF finished THEN "completed" ELSE "stopped"
    /\ UNCHANGED <<poolVars, started, sleeper, logger, finished, cancelled, interrupts, exit>>

-----------------------------------------------------------------------------
(* The goroutines Run starts.                                              *)

\* Mutation: the flag is not stored.
WakeWithoutFlag ==
    /\ Running
    /\ sleeper = "sleep"
    /\ sleeper' = "woken"
    /\ UNCHANGED <<poolVars, started, loop, logger, finished, cancelled, interrupts, exit>>

\* The duration is over: finished.Store(true) ...
Wake ==
    /\ Running
    /\ sleeper = "sleep"
    /\ sleeper' = "woken"
    /\ finished' = TRUE
    /\ UNCHANGED <<poolVars, started, loop, logger, cancelled, interrupts, exit>>

\* ... and then cancel().
EndDuration ==
    /\ Running
    /\ sleeper = "woken"
    /\ sleeper' = "done"
    /\ cancelled' = TRUE
    /\ UNCHANGED <<poolVars, started, loop, logger, finished, interrupts, exit>>

\* A tick of the logger: it only ends at a time no connection counts.
LoggerTick ==
    /\ Running
    /\ logger = "run"
    /\ current = 0
    /\ logger' = "done"
    /\ UNCHANGED <<poolVars, started, loop, sleeper, finished, cancelled, interrupts, exit>>

LoggerCancelled ==
    /\ Running
    /\ logger = "run"
    /\ cancelled
    /\ logger' = "done"
    /\ UNCHANGED <<poolVars, started, loop, sleeper, finished, cancelled, interrupts, exit>>

-----------------------------------------------------------------------------
(* main.                                                                   *)

\* The first interrupt cancels the run, the second ends the process.
Interrupt ==
    /\ Running
    /\ interrupts = 0
    /\ interrupts' = 1
    /\ cancelled' = TRUE
    /\ UNCHANGED <<poolVars, started, loop, sleeper, logger, finished, exit>>

InterruptAgain ==
    /\ Running
    /\ interrupts = 1
    /\ interrupts' = 2
    /\ exit' = "forced"
    /\ UNCHANGED <<poolVars, started, loop, sleeper, logger, finished, cancelled>>

\* Run has returned: os.Exit(0) or os.Exit(1).
ExitProcess ==
    /\ Running
    /\ loop \in {"completed", "stopped"}
    /\ exit' = loop
    /\ UNCHANGED <<poolVars, started, loop, sleeper, logger, finished, cancelled, interrupts>>

-----------------------------------------------------------------------------
\* The goroutines of the connections, as the runner sees them.
Connection ==
    /\ Running
    /\ \/ \E p \in started : Register(p) \/ Unregister(p)
       \/ CountIn \/ CountOut \/ Return
    /\ UNCHANGED runVars

Exited == ~Running /\ UNCHANGED vars

Next ==
    \/ \E p \in Peers : Acquire(p) \/ Go(p)
    \/ Connection
    \/ Tick \/ LeaveLoop \/ ReturnFromRun
    \/ Wake \/ EndDuration \/ LoggerTick \/ LoggerCancelled
    \/ Interrupt \/ InterruptAgain \/ ExitProcess
    \/ Exited

Spec == Init /\ [][Next]_vars

\* The Go scheduler runs every goroutine that can run, and tickers tick.  Nothing is
\* assumed of the connections, of the user, or of the length of the duration.
Fairness ==
    /\ \A p \in Peers : WF_vars(Acquire(p)) /\ WF_vars(Go(p))
    /\ WF_vars(Tick)
    /\ WF_vars(LeaveLoop)
    /\ WF_vars(ReturnFromRun)
    /\ WF_vars(EndDuration)
    /\ WF_vars(LoggerCancelled)
    /\ WF_vars(ExitProcess)

FairSpec == Spec /\ Fairness

-----------------------------------------------------------------------------
(* Properties.                                                             *)

TypeOK ==
    /\ PoolTypeOK
    /\ loop \in {"acquire", "go", "tick", "logs", "completed", "stopped"}
    /\ started \subseteq taken
    /\ sleeper \in {"sleep", "woken", "done"}
    /\ logger \in {"run", "done"}
    /\ finished \in BOOLEAN
    /\ cancelled \in BOOLEAN
    /\ interrupts \in 0 .. 2
    /\ exit \in {"none", "completed", "stopped", "forced"}

\* A run nobody interrupts ends as completed, never as stopped: the flag is stored
\* before the context is cancelled, and nothing else cancels the context.
UninterruptedRunCompletes == interrupts = 0 => exit # "stopped"

\* Run returns only when its context is over and the last totals have been logged,
\* although the logger may have ended long before the context.
ReturnsWhenOver == loop \in {"completed", "stopped"} => cancelled /\ logger = "done"

\* An interrupt or the end of the duration ends the run, also if every connection is
\* stuck, the loop waits for a tick and the logger ended long ago.
RunEnds == (interrupts > 0 \/ finished) ~> ~Running

\* While the run lasts, whatever became of the logger, the loop fills every slot that comes free.
SlotsRefilled ==
    (available > 0) ~> (available = 0 \/ cancelled \/ taken = Peers \/ ~Running)

\* "Returns true if the test run was run until the end, false if it was stopped."
\* (Runner.Run): a run interrupted before its duration is over does not complete.
StoppedRunReportsStopped ==
    [](interrupts > 0 /\ ~finished => [](exit # "completed"))
=============================================================================
