------------------------ MODULE RuntimeSupervisorProofs ------------------------
(***************************************************************************)
(* What the supervisor's races cannot break, without a bound on tasks,     *)
(* events or writes.                                                       *)
(***************************************************************************)
EXTENDS RuntimeSupervisor, TLAPS

(* The child's life and the calls of start() and stop(). *)
LifeAgrees ==
  /\ closed => child \in {"none", "gone"}
  /\ child = "gone" => closed
  /\ ~started => child = "none" /\ ~failing /\ writes = {}
  /\ ~started /\ ~stopping => ~closed /\ status = "starting"
  /\ ~started /\ stopping => stopper = "done"
  /\ started /\ child = "none" => closed
  /\ stopping <=> stopper # "idle"
  /\ stopper = "done" => closed

(* The status tells how far the child and stop() are. *)
StatusAgrees ==
  /\ status \in {"stopping", "stopped"} <=> stopping
  /\ status = "stopped" <=> stopper = "done"
  /\ child = "spawning" /\ ~stopping => status = "starting" /\ ~failing
  /\ child = "unspawned" /\ ~stopping => status = "failed-to-start"
  /\ child = "alive" /\ ~Ignoring => status \in {"starting", "running"}
  /\ status = "starting" => child \in {"none", "spawning", "alive"} /\ ~failing /\ ~closed
  /\ status = "running" => child = "alive" /\ ~failing /\ "initialize" \notin writes
  /\ status = "protocol-failed" => failing
  /\ status = "unexpectedly-exited" => child = "gone" /\ "initialize" \notin writes

(* The readiness deadline and the writes belong to a child. *)
TimerAgrees ==
  /\ timer => status = "starting" /\ child = "alive"
  /\ writes # {} => stopping \/ child \in {"alive", "gone"}

Inv == TypeOK /\ LifeAgrees /\ StatusAgrees /\ TimerAgrees

LEMMA InitHolds == Init => Inv
BY DEF Init, Inv, TypeOK, LifeAgrees, StatusAgrees, TimerAgrees, Failures, Ignoring

(* start(), and what 'spawn' or 'error' make of it. *)
LEMMA StartKeeps ==
  ASSUME Inv, StartAfterStop \/ StartThrows \/ Start \/ SpawnSettles
  PROVE  Inv'
<1> USE DEF Inv, LifeAgrees, StatusAgrees, TimerAgrees, Ignoring
<1>1. CASE StartAfterStop
  BY <1>1 DEF StartAfterStop, TypeOK
<1>2. CASE StartThrows
  BY <1>2 DEF StartThrows, TypeOK, Failures
<1>3. CASE Start
  BY <1>3 DEF Start, TypeOK
<1>4. CASE Spawned
  BY <1>4 DEF Spawned, TypeOK
<1>5. CASE SpawnFails
  BY <1>5 DEF SpawnFails, TypeOK, Failures
<1> QED
  BY <1>1, <1>2, <1>3, <1>4, <1>5 DEF SpawnSettles

(* What the child, its pipes and the deadline report. *)
LEMMA EventsKeep ==
  ASSUME Inv,
         \/ ReadyArrives \/ InitializationRejected \/ UnacceptableArrives
         \/ SessionEventArrives \/ ReadinessTimeout \/ ChildCloses
  PROVE  Inv'
<1> USE DEF Inv, LifeAgrees, StatusAgrees, TimerAgrees, Ignoring, HasStdout, EventStep,
            FailWith, FailUnlessIgnoring, Quiet
<1>1. CASE ReadyArrives
  BY <1>1 DEF ReadyArrives, TypeOK
<1>2. CASE InitializationRejected
  BY <1>2 DEF InitializationRejected, TypeOK, Failures
<1>3. CASE UnacceptableArrives
  BY <1>3 DEF UnacceptableArrives, TypeOK, Failures
<1>4. CASE SessionEventArrives
  BY <1>4 DEF SessionEventArrives, TypeOK
<1>5. CASE ReadinessTimeout
  BY <1>5 DEF ReadinessTimeout, TypeOK, Failures
<1>6. CASE ChildCloses
  BY <1>6 DEF ChildCloses, TypeOK, Failures
<1> QED
  BY <1>1, <1>2, <1>3, <1>4, <1>5, <1>6

LEMMA WritesKeep ==
  ASSUME Inv, NEW w \in writes, WriteSucceeds(w) \/ WriteFails(w)
  PROVE  Inv'
<1> USE DEF Inv, LifeAgrees, StatusAgrees, TimerAgrees, Ignoring,
            FailWith, FailUnlessIgnoring, Quiet
<1>1. w \in {"initialize", "start", "cancel", "shutdown"}
  BY DEF TypeOK
<1>2. CASE WriteSucceeds(w)
  BY <1>2 DEF WriteSucceeds, TypeOK
<1>3. CASE WriteFails(w)
  <2>1. writes' \subseteq writes /\ w \notin writes'
    BY <1>3 DEF WriteFails
  <2>2. CASE Quiet
    BY <1>3, <2>1, <2>2 DEF WriteFails, TypeOK
  <2>3. CASE ~Ignoring /\ FailWith("failed-to-start") /\ w = "initialize"
    BY <1>3, <2>1, <2>3 DEF WriteFails, TypeOK, Failures
  <2>4. CASE ~Ignoring /\ FailWith("protocol-failed")
    BY <1>3, <2>1, <2>4 DEF WriteFails, TypeOK, Failures
  <2> QED
    BY <1>1, <1>3, <2>2, <2>3, <2>4 DEF WriteFails
<1> QED
  BY <1>2, <1>3

(* What the application asks for, and how stop() goes on. *)
LEMMA RequestsKeep ==
  ASSUME Inv, SubmitTask \/ CancelSession \/ Stop \/ StopProgress
  PROVE  Inv'
<1> USE DEF Inv, LifeAgrees, StatusAgrees, TimerAgrees, Ignoring, Quiet, StopStep
<1>1. CASE SubmitTask
  BY <1>1 DEF SubmitTask, TypeOK
<1>2. CASE CancelSession
  BY <1>2 DEF CancelSession, TypeOK
<1>3. CASE Stop
  BY <1>3 DEF Stop, TypeOK
<1>4. CASE GraceExpires
  BY <1>4 DEF GraceExpires, TypeOK
<1>5. CASE TerminationExpires
  BY <1>5 DEF TerminationExpires, TypeOK
<1>6. CASE StopReaps
  BY <1>6 DEF StopReaps, TypeOK
<1> QED
  BY <1>1, <1>2, <1>3, <1>4, <1>5, <1>6 DEF StopProgress

LEMMA NextKeeps == Inv /\ [Next]_vars => Inv'
<1> SUFFICES ASSUME Inv, [Next]_vars PROVE Inv'
  OBVIOUS
<1>1. CASE UNCHANGED vars
  BY <1>1 DEF vars, Inv, TypeOK, LifeAgrees, StatusAgrees, TimerAgrees, Ignoring
<1>2. CASE Next
  BY <1>2, StartKeeps, EventsKeep, WritesKeep, RequestsKeep DEF Next
<1> QED
  BY <1>1, <1>2

(* start(), stop(), the child's life and the status agree, in every order  *)
(* of callbacks.                                                           *)
THEOREM SupervisorInvariant == Spec => []Inv
BY InitHolds, NextKeeps, PTL DEF Spec

(* A stopped client has reaped its child, and no deadline outlives what it *)
(* waits for (runtime-supervisor.ts:566-609, 839-844).                     *)
THEOREM NothingIsLeftBehind == Spec => []NothingLeftBehind
<1>1. Inv => NothingLeftBehind
  BY DEF Inv, TypeOK, LifeAgrees, StatusAgrees, TimerAgrees, NothingLeftBehind
<1> QED
  BY <1>1, SupervisorInvariant, PTL

LEMMA StepsMoveOn ==
  ASSUME Inv, [Next]_vars
  PROVE  [/\ status \in Failures => \/ status' \in {status, "stopping", "stopped"}
                                    \/ /\ closed /\ status' = "protocol-failed"
                                       /\ writes' # writes
          /\ status = "running" => status' # "starting" /\ status' # "failed-to-start"
          /\ status = "stopping" => status' \in {"stopping", "stopped"}
          /\ status = "stopped" => status' = "stopped"]_vars
<1> USE DEF Inv, TypeOK, LifeAgrees, StatusAgrees, TimerAgrees, Ignoring, Failures,
            FailWith, FailUnlessIgnoring, Quiet, HasStdout, EventStep, StopStep
<1>1. CASE UNCHANGED vars
  BY <1>1
<1>2. CASE StartAfterStop \/ StartThrows \/ Start \/ SpawnSettles
  BY <1>2 DEF StartAfterStop, StartThrows, Start, SpawnSettles, Spawned, SpawnFails
<1>3. CASE \/ ReadyArrives \/ InitializationRejected \/ UnacceptableArrives
           \/ SessionEventArrives
  BY <1>3 DEF ReadyArrives, InitializationRejected, UnacceptableArrives,
              SessionEventArrives
<1>4. CASE ReadinessTimeout \/ ChildCloses
  BY <1>4 DEF ReadinessTimeout, ChildCloses
<1>5. CASE \E w \in writes : WriteSucceeds(w) \/ WriteFails(w)
  <2>1. PICK w \in writes : WriteSucceeds(w) \/ WriteFails(w)
    BY <1>5
  <2>2. w \in {"initialize", "start", "cancel", "shutdown"} /\ writes' = writes \ {w}
    BY <2>1 DEF WriteSucceeds, WriteFails
  <2>3. CASE WriteSucceeds(w)
    BY <2>3 DEF WriteSucceeds
  <2>4. CASE WriteFails(w)
    BY <2>2, <2>4 DEF WriteFails
  <2> QED
    BY <2>1, <2>3, <2>4
<1>6. CASE SubmitTask \/ CancelSession \/ Stop \/ StopProgress
  BY <1>6 DEF SubmitTask, CancelSession, Stop, StopProgress, GraceExpires,
              TerminationExpires, StopReaps
<1> QED
  BY <1>1, <1>2, <1>3, <1>4, <1>5, <1>6 DEF Next

(* What the client is shown only moves on (runtime-supervisor.ts:48-54,    *)
(* 538-559, 817-830).                                                      *)
THEOREM StatusOnlyMovesOn == Spec => StatusMovesOn
BY SupervisorInvariant, StepsMoveOn, PTL DEF Spec, StatusMovesOn
=============================================================================
