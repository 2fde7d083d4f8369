--------------------------- MODULE RuntimeSupervisor ---------------------------
(***************************************************************************)
(* The terminal client's owner of the Python child (runtime-supervisor.ts, *)
(* PythonRuntimeSupervisor).  Its methods and the callbacks of Node run    *)
(* one at a time, in any order the child, the pipes, the timers and the    *)
(* application produce: the child may fail to spawn, answer rightly or     *)
(* wrongly or never, exit at any moment, and ignore everything but         *)
(* SIGKILL; the outcome of a write may be known only after the close.      *)
(* A session is seen by its status alone; SessionLifecycleTs decides which *)
(* events a status admits.                                                 *)
(***************************************************************************)
EXTENDS Naturals

VARIABLES
  status,       \* #state.status
  started,      \* whether start() was called
  startSettled, \* #startSettled
  child,        \* the process: see TypeOK
  closed,       \* #didClose
  stopping,     \* #stopRequested
  failing,      \* #failureShutdownRequested
  timer,        \* whether the readiness timer is armed
  writes,       \* command lines whose write may still fail
  session,      \* status of #sessionValidationState
  stopper,      \* where stop() is
  signal        \* the strongest signal sent to the process group

vars == <<status, started, startSettled, child, closed, stopping, failing, timer,
          writes, session, stopper, signal>>

Failures == {"failed-to-start", "protocol-failed", "unexpectedly-exited"}
Ignoring == stopping \/ failing
HasStdout == child = "alive"

Init ==
  /\ status = "starting"
  /\ started = FALSE /\ startSettled = FALSE
  /\ child = "none" /\ closed = FALSE
  /\ stopping = FALSE /\ failing = FALSE
  /\ timer = FALSE
  /\ writes = {}
  /\ session = "idle"
  /\ stopper = "idle" /\ signal = "none"

-----------------------------------------------------------------------------
(* #transitionToProtocolFailure, and the other ways to fail and close the  *)
(* child's input (#requestFailureShutdown).                                *)
FailWith(failure) ==
  /\ status' = failure
  /\ failing' = TRUE /\ timer' = FALSE /\ startSettled' = TRUE

FailUnlessIgnoring(failure) ==
  IF Ignoring THEN UNCHANGED <<status, failing, timer, startSettled>>
  ELSE FailWith(failure)

Quiet == UNCHANGED <<status, failing, timer, startSettled>>

-----------------------------------------------------------------------------
(* start() *)

StartAfterStop ==
  /\ ~started /\ stopping
  /\ started' = TRUE /\ status' = "stopped"
  /\ UNCHANGED <<startSettled, child, closed, stopping, failing, timer, writes, session,
                 stopper, signal>>

(* Preparing the launch, or spawn itself, throws. *)
StartThrows ==
  /\ ~started /\ ~stopping
  /\ started' = TRUE /\ startSettled' = TRUE
  /\ status' = "failed-to-start" /\ closed' = TRUE
  /\ UNCHANGED <<child, stopping, failing, timer, writes, session, stopper, signal>>

Start ==
  /\ ~started /\ ~stopping
  /\ started' = TRUE /\ child' = "spawning"
  /\ UNCHANGED <<status, startSettled, closed, stopping, failing, timer, writes, session,
                 stopper, signal>>

(* 'spawn': the initialization is written and its answer awaited. *)
Spawned ==
  /\ child = "spawning"
  /\ child' = "alive"
  /\ IF stopping THEN startSettled' = TRUE /\ UNCHANGED <<timer, writes>>
     ELSE /\ timer' = TRUE /\ writes' = writes \cup {"initialize"}
          /\ UNCHANGED startSettled
  /\ UNCHANGED <<status, started, closed, stopping, failing, session, stopper, signal>>

(* 'error' before 'spawn'; 'close' follows. *)
SpawnFails ==
  /\ child = "spawning"
  /\ child' = "unspawned"
  /\ status' = IF stopping THEN status ELSE "failed-to-start"
  /\ startSettled' = TRUE
  /\ UNCHANGED <<started, closed, stopping, failing, timer, writes, session, stopper, signal>>

-----------------------------------------------------------------------------
(* What the child sends.  An answer that names the initialization proves   *)
(* that its write succeeded.                                               *)

EventStep ==
  UNCHANGED <<started, child, closed, stopping, writes, stopper, signal>>

(* slip: the deadline stays armed *)
ReadyArrivesTicking ==
  /\ HasStdout /\ ~Ignoring /\ "initialize" \notin writes
  /\ status = "starting"
  /\ status' = "running" /\ startSettled' = TRUE
  /\ EventStep /\ UNCHANGED <<failing, session, timer>>

ReadyArrives ==
  /\ HasStdout /\ ~Ignoring /\ "initialize" \notin writes
  /\ status = "starting"
  /\ status' = "running" /\ timer' = FALSE /\ startSettled' = TRUE
  /\ EventStep /\ UNCHANGED <<failing, session>>

InitializationRejected ==
  /\ HasStdout /\ ~Ignoring /\ "initialize" \notin writes
  /\ status = "starting"
  /\ FailWith("failed-to-start")
  /\ EventStep /\ UNCHANGED session

(* A line that is no event, an event out of place, an answer that does not *)
(* match, an unrecoverable error, a session event the reducer rejects.     *)
UnacceptableArrives ==
  /\ HasStdout /\ ~Ignoring
  /\ FailWith("protocol-failed")
  /\ EventStep /\ UNCHANGED session

(* A recoverable error is a warning, whatever the session waits for; a     *)
(* delta or assistant.completed moves nothing.                             *)
SessionEventArrives ==
  /\ HasStdout /\ ~Ignoring /\ status = "running"
  /\ \/ session = "starting" /\ session' = "running"
     \/ session \in {"running", "cancelling"} /\ session' \in {"completed", "failed"}
     \/ session = "cancelling" /\ session' = "cancelled"
  /\ EventStep /\ Quiet

WriteSucceeds(w) ==
  /\ w \in writes
  /\ writes' = writes \ {w}
  /\ Quiet
  /\ UNCHANGED <<started, child, closed, stopping, session, stopper, signal>>

(* The catch of each write; a shutdown's is ignored. *)
WriteFails(w) ==
  /\ w \in writes
  /\ writes' = writes \ {w}
  /\ CASE w = "initialize" -> FailUnlessIgnoring("failed-to-start")
       [] w \in {"start", "cancel"} -> FailUnlessIgnoring("protocol-failed")
       [] w = "shutdown" -> Quiet
  /\ UNCHANGED <<started, child, closed, stopping, session, stopper, signal>>

ReadinessTimeout ==
  /\ timer
  /\ FailUnlessIgnoring("protocol-failed")
  /\ UNCHANGED <<started, child, closed, stopping, writes, session, stopper, signal>>

(* slip: any close is taken for an unexpected one *)
ChildClosesUnexpectedly ==
  /\ child \in {"alive", "unspawned"} /\ ~closed
  /\ closed' = TRUE /\ child' = "gone"
  /\ timer' = FALSE /\ startSettled' = TRUE
  /\ status' = IF status = "starting" THEN "failed-to-start" ELSE "unexpectedly-exited"
  /\ UNCHANGED <<started, stopping, failing, writes, session, stopper, signal>>

(* 'close': every member of the process group is gone. *)
ChildCloses ==
  /\ child \in {"alive", "unspawned"} /\ ~closed
  /\ closed' = TRUE /\ child' = "gone"
  /\ timer' = FALSE /\ startSettled' = TRUE
  /\ status' = IF Ignoring THEN status
               ELSE IF status = "starting" THEN "failed-to-start"
               ELSE IF child = "alive" THEN "unexpectedly-exited"
               ELSE status
  /\ UNCHANGED <<started, stopping, failing, writes, session, stopper, signal>>

-----------------------------------------------------------------------------
(* What the application asks. *)

SubmitTask ==
  /\ status = "running" /\ session \notin {"starting", "running", "cancelling"}
  /\ session' = "starting"
  /\ writes' = writes \cup {"start"}
  /\ Quiet
  /\ UNCHANGED <<started, child, closed, stopping, stopper, signal>>

CancelSession ==
  /\ status = "running" /\ session = "running"
  /\ session' = "cancelling"
  /\ writes' = writes \cup {"cancel"}
  /\ Quiet
  /\ UNCHANGED <<started, child, closed, stopping, stopper, signal>>

Stop ==
  /\ ~stopping
  /\ stopping' = TRUE /\ timer' = FALSE /\ startSettled' = TRUE
  /\ IF child = "none" \/ closed
       THEN /\ closed' = TRUE /\ status' = "stopped" /\ stopper' = "done"
            /\ UNCHANGED writes
       ELSE /\ status' = "stopping" /\ stopper' = "grace"
            /\ writes' = IF failing THEN writes ELSE writes \cup {"shutdown"}
            /\ UNCHANGED closed
  /\ UNCHANGED <<started, child, failing, session, signal>>

StopStep ==
  UNCHANGED <<started, startSettled, child, closed, stopping, failing, timer, writes,
              session>>

GraceExpires ==
  /\ stopper = "grace" /\ ~closed
  /\ stopper' = "terminating" /\ signal' = "SIGTERM"
  /\ StopStep /\ UNCHANGED status

TerminationExpires ==
  /\ stopper = "terminating" /\ ~closed
  /\ stopper' = "killing" /\ signal' = "SIGKILL"
  /\ StopStep /\ UNCHANGED status

(* slip: only a child that closed in its grace is seen *)
StopReapsEarlyOnly ==
  /\ stopper = "grace" /\ closed
  /\ stopper' = "done" /\ status' = "stopped"
  /\ StopStep /\ UNCHANGED signal

StopReaps ==
  /\ stopper \in {"grace", "terminating", "killing"} /\ closed
  /\ stopper' = "done" /\ status' = "stopped"
  /\ StopStep /\ UNCHANGED signal

-----------------------------------------------------------------------------
SpawnSettles == Spawned \/ SpawnFails
Killed == child = "unspawned" \/ signal = "SIGKILL"
KilledChildCloses == Killed /\ ChildCloses
StopProgress == GraceExpires \/ TerminationExpires \/ StopReaps

Next ==
  \/ StartAfterStop \/ StartThrows \/ Start \/ SpawnSettles
  \/ ReadyArrives \/ InitializationRejected \/ UnacceptableArrives
  \/ SessionEventArrives
  \/ (\E w \in writes : WriteSucceeds(w) \/ WriteFails(w))
  \/ ReadinessTimeout \/ ChildCloses
  \/ SubmitTask \/ CancelSession \/ Stop \/ StopProgress

Spec == Init /\ [][Next]_vars

(* Timers fire, a spawn is answered, and a process that was never born or  *)
(* was killed closes.  Nothing else is asked of the child, and nothing of  *)
(* the application.                                                        *)
FairSpec ==
  /\ Spec
  /\ WF_vars(SpawnSettles) /\ WF_vars(KilledChildCloses)
  /\ WF_vars(ReadinessTimeout) /\ WF_vars(StopProgress)

-----------------------------------------------------------------------------
(* Properties *)

TypeOK ==
  /\ status \in Failures \cup {"starting", "running", "stopping", "stopped"}
  /\ child \in {"none", "spawning", "unspawned", "alive", "gone"}
  /\ {started, startSettled, closed, stopping, failing, timer} \subseteq BOOLEAN
  /\ writes \subseteq {"initialize", "start", "cancel", "shutdown"}
  /\ session \in {"idle", "starting", "running", "cancelling", "completed",
                  "cancelled", "failed"}
  /\ stopper \in {"idle", "grace", "terminating", "killing", "done"}
  /\ signal \in {"none", "SIGTERM", "SIGKILL"}

(* What the client is shown only moves on, whatever races it: a failure is *)
(* replaced by nothing but a stop, a stop by nothing at all (runtime-      *)
(* supervisor.ts:48-54).  The one exception is an exit whose cause, a      *)
(* failed write, becomes known after it.                                   *)
StatusMovesOn ==
  [][/\ status \in Failures => \/ status' \in {status, "stopping", "stopped"}
                               \/ /\ closed /\ status' = "protocol-failed"
                                  /\ writes' # writes
     /\ status = "running" => status' # "starting" /\ status' # "failed-to-start"
     /\ status = "stopping" => status' \in {"stopping", "stopped"}
     /\ status = "stopped" => status' = "stopped"]_vars

(* Nothing is left behind: a stopped client has reaped its child, and the  *)
(* readiness deadline ticks only while the answer is awaited from a child  *)
(* that can still give it.                                                 *)
NothingLeftBehind ==
  /\ status = "stopped" => child \in {"none", "gone"}
  /\ timer => status = "starting" /\ child = "alive" /\ ~closed /\ ~stopping

(* start() settles although the child never answers, and stop() although   *)
(* it ignores all but SIGKILL.                                             *)
StartAndStopSettle ==
  /\ started ~> startSettled
  /\ stopping ~> (status = "stopped")
=============================================================================
