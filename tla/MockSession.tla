----------------------------- MODULE MockSession -----------------------------
(***************************************************************************)
(* The deterministic session of mock_session.py: it speaks a fixed tape of *)
(* deltas, waits at a checkpoint before each, and is cancelled             *)
(* cooperatively.  Its run() and any number of cancellation requests       *)
(* compete for the state lock; its task may also be cancelled from outside *)
(* (the runtime does so when its input closes).                            *)
(*                                                                         *)
(* Unlike ProviderSession it publishes from its own task: a cancellation   *)
(* of the task lets a write in progress finish and commit its sequence,    *)
(* but the reducer never sees the event.                                   *)
(***************************************************************************)
EXTENDS SessionLifecycle

CONSTANTS
  StartCommand,   \* the command that started the session
  SessionId,      \* the identity the runner allocated
  Tape,           \* MOCK_RESPONSE_DELTAS
  SinkFaults      \* whether a write may raise OSError

ASSUME MockAssumption ==
  /\ StartCommand \in Commands
  /\ SessionId \in Sessions
  /\ Tape \in Seq(Fragments) /\ Tape # << >>
  /\ SinkFaults \in BOOLEAN

Cancels == Commands \ {StartCommand}

VARIABLES
  lifecycle,      \* _lifecycle_state
  deferred,       \* command of _deferred_cancellation, or None
  sequence,       \* the writer's last committed sequence of this session
  lock,           \* which task holds _state_lock
  outcome,        \* _terminal_outcome, or "none"
  cancelCommand,  \* _cancel_command_id, or None
  run,            \* where run() is
  index,          \* how many deltas of the tape were emitted
  cancelReq,      \* where each request_cancellation is
  cancelResult    \* what it returned

vars == <<lifecycle, deferred, sequence, lock, outcome, cancelCommand, run, index,
          cancelReq, cancelResult>>

Init ==
  /\ lifecycle = After(InitialSessionState, TaskSubmitted(StartCommand))
  /\ deferred = None
  /\ sequence = 0
  /\ lock = "free"
  /\ outcome = "none"
  /\ cancelCommand = None
  /\ run = "created"
  /\ index = 0
  /\ cancelReq = [c \in Cancels |-> "idle"]
  /\ cancelResult = [c \in Cancels |-> "none"]

(* "failed": a write raised OSError.  "raised": an invariant error. *)
RunEnded == run \in {"returned", "cancelled", "failed", "raised"}
CancellationRequested == outcome = "cancelled"   \* the event is set with it

-----------------------------------------------------------------------------
(* The write a place of run() is at, the event it writes, and where run()  *)
(* goes when the reducer has accepted it.                                  *)

(* slip: one sequence number is skipped *)
EventSkipping(type, correlation, payload, n) ==
  WireEvent(type, correlation, SessionId, n + 1, payload, None)

Event(type, correlation, payload, n) ==
  WireEvent(type, correlation, SessionId, n, payload, None)

WritingPlaces == {"delta_writing", "sealing", "completing", "cancel_writing"}

EventAt(place) ==
  CASE place = "delta_writing" ->
         Event("assistant.delta", StartCommand, <<Tape[index + 1]>>, sequence + 1)
    [] place = "sealing" ->
         Event("assistant.completed", StartCommand, Tape, sequence + 1)
    [] place = "completing" ->
         Event("session.completed", StartCommand, << >>, sequence + 1)
    [] place = "cancel_writing" ->
         Event("session.cancelled", cancelCommand, << >>, sequence + 1)

NextPlace(place) ==
  CASE place = "delta_writing" ->
         IF index + 1 < Len(Tape) THEN "checkpoint" ELSE "complete"
    [] place = "sealing" -> "completing"
    [] OTHER -> "returned"

RunStep == UNCHANGED <<cancelCommand, cancelReq, cancelResult>>

Start ==
  /\ run = "created"
  /\ run' = "starting"
  /\ RunStep
  /\ UNCHANGED <<lifecycle, deferred, sequence, lock, outcome, index>>

(* session.started is written before the lock is taken ...                 *)
StartedWritten ==
  /\ run = "starting"
  /\ run' = "started"
  /\ sequence' = sequence + 1
  /\ RunStep
  /\ UNCHANGED <<lifecycle, deferred, lock, outcome, index>>

(* ... and reduced under it, then a cancellation that came too early is.   *)
StartedReduced ==
  /\ run = "started" /\ lock = "free"
  /\ LET e == Event("session.started", StartCommand, << >>, sequence)
     IN /\ lifecycle' = After(lifecycle, e)
        /\ IF ~Accepts(lifecycle, e) THEN run' = "raised" /\ UNCHANGED lock
           ELSE IF deferred # None THEN run' = "deferring" /\ lock' = "run"
           ELSE run' = "checkpoint" /\ UNCHANGED lock
  /\ RunStep
  /\ UNCHANGED <<deferred, sequence, outcome, index>>

DeferredReduced ==
  /\ run = "deferring"
  /\ LET u == CancelRequested(deferred, SessionId)
     IN /\ lifecycle' = After(lifecycle, u)
        /\ IF Accepts(lifecycle, u) THEN run' = "checkpoint" /\ deferred' = None
           ELSE run' = "raised" /\ UNCHANGED deferred
  /\ lock' = "free"
  /\ RunStep
  /\ UNCHANGED <<sequence, outcome, index>>

(* _wait_for_checkpoint: a cancellation wakes it early, and wins over a    *)
(* checkpoint that ended meanwhile.                                        *)
CheckpointPasses ==
  /\ run = "checkpoint"
  /\ run' = IF CancellationRequested THEN "cancel" ELSE "delta"
  /\ RunStep
  /\ UNCHANGED <<lifecycle, deferred, sequence, lock, outcome, index>>

(* _emit_delta and _emit_completion give way to a cancellation that won    *)
(* the lock first.                                                         *)
(* slip: the lock is taken without looking at the outcome *)
ClaimBlindly(from, to) ==
  /\ run = from /\ lock = "free"
  /\ run' = to /\ lock' = "run"
  /\ RunStep
  /\ UNCHANGED <<lifecycle, deferred, sequence, outcome, index>>

Claim(from, to) ==
  /\ run = from /\ lock = "free"
  /\ IF outcome # "none" THEN run' = "cancel" /\ UNCHANGED lock
     ELSE run' = to /\ lock' = "run"
  /\ RunStep
  /\ UNCHANGED <<lifecycle, deferred, sequence, outcome, index>>

ClaimDelta == Claim("delta", "delta_writing")
ClaimCompletion == Claim("complete", "sealing")

(* slip: a cancelled run returns without its terminal event *)
ClaimNothing ==
  /\ run = "cancel"
  /\ run' = "returned"
  /\ RunStep
  /\ UNCHANGED <<lifecycle, deferred, sequence, lock, outcome, index>>

(* _emit_selected_cancellation *)
ClaimCancellation ==
  /\ run = "cancel" /\ lock = "free"
  /\ IF outcome # "cancelled" THEN run' = "returned" /\ UNCHANGED lock
     ELSE IF cancelCommand = None THEN run' = "raised" /\ UNCHANGED lock
     ELSE run' = "cancel_writing" /\ lock' = "run"
  /\ RunStep
  /\ UNCHANGED <<lifecycle, deferred, sequence, outcome, index>>

(* A write under the lock succeeds and is reduced.  Completion becomes the *)
(* outcome between its two writes, and the lock is kept for the second.    *)
Written ==
  /\ run \in WritingPlaces
  /\ sequence' = sequence + 1
  /\ lifecycle' = After(lifecycle, EventAt(run))
  /\ IF ~Accepts(lifecycle, EventAt(run))
       THEN run' = "raised" /\ lock' = "free" /\ UNCHANGED <<outcome, index>>
       ELSE /\ run' = NextPlace(run)
            /\ lock' = IF run = "sealing" THEN lock ELSE "free"
            /\ outcome' = IF run = "sealing" THEN "completed" ELSE outcome
            /\ index' = IF run = "delta_writing" THEN index + 1 ELSE index
  /\ RunStep
  /\ UNCHANGED deferred

WriteFails ==
  /\ SinkFaults
  /\ run \in WritingPlaces \cup {"starting"}
  /\ run' = "failed"
  /\ lock' = IF lock = "run" THEN "free" ELSE lock
  /\ RunStep
  /\ UNCHANGED <<lifecycle, deferred, sequence, outcome, index>>

(* The task is cancelled at whatever it awaits.  A write in progress is    *)
(* allowed to finish, and commits its sequence; one that still waits for   *)
(* the writer's lock never begins.                                         *)
RunTaskCancelled ==
  /\ run # "created" /\ ~RunEnded
  /\ run' = "cancelled"
  /\ IF run \in WritingPlaces \cup {"starting"}
       THEN sequence' \in {sequence, sequence + 1}
       ELSE UNCHANGED sequence
  /\ lock' = IF lock = "run" THEN "free" ELSE lock
  /\ RunStep
  /\ UNCHANGED <<lifecycle, deferred, outcome, index>>

-----------------------------------------------------------------------------
(* request_cancellation *)

RequestStep == UNCHANGED <<sequence, run, index>>

RequestCancellation(c) ==
  /\ cancelReq[c] = "idle"
  /\ cancelReq' = [cancelReq EXCEPT ![c] = "waiting"]
  /\ RequestStep
  /\ UNCHANGED <<lifecycle, deferred, lock, outcome, cancelCommand, cancelResult>>

Answer(c, answer) ==
  /\ cancelReq' = [cancelReq EXCEPT ![c] = "returned"]
  /\ cancelResult' = [cancelResult EXCEPT ![c] = answer]

Win(c) == outcome' = "cancelled" /\ cancelCommand' = c /\ Answer(c, "accepted")

CancelRefused(c) ==
  /\ cancelReq[c] = "waiting" /\ lock = "free"
  /\ \/ cancelCommand # None /\ Answer(c, "already_requested")
     \/ cancelCommand = None /\ outcome # "none" /\ Answer(c, "terminal")
  /\ RequestStep
  /\ UNCHANGED <<lifecycle, deferred, lock, outcome, cancelCommand>>

CancelEarly(c) ==
  /\ cancelReq[c] = "waiting" /\ lock = "free" /\ outcome = "none"
  /\ lifecycle.status = "starting"
  /\ deferred' = c
  /\ Win(c)
  /\ RequestStep
  /\ UNCHANGED <<lifecycle, lock>>

(* The cancellation is reduced, and observed under the lock, before it     *)
(* becomes the outcome.                                                    *)
CancelReduced(c) ==
  /\ cancelReq[c] = "waiting" /\ lock = "free" /\ outcome = "none"
  /\ lifecycle.status # "starting"
  /\ LET u == CancelRequested(c, SessionId)
     IN IF Accepts(lifecycle, u)
          THEN /\ lifecycle' = After(lifecycle, u)
               /\ cancelReq' = [cancelReq EXCEPT ![c] = "observing"]
               /\ lock' = "cancel"
          ELSE /\ cancelReq' = [cancelReq EXCEPT ![c] = "rejected"]
               /\ UNCHANGED <<lifecycle, lock>>
  /\ RequestStep
  /\ UNCHANGED <<deferred, outcome, cancelCommand, cancelResult>>

CancelWins(c) ==
  /\ cancelReq[c] = "observing"
  /\ Win(c)
  /\ lock' = "free"
  /\ RequestStep
  /\ UNCHANGED <<lifecycle, deferred>>

RunProgress ==
  \/ Start \/ StartedWritten \/ StartedReduced \/ DeferredReduced
  \/ CheckpointPasses \/ ClaimDelta \/ ClaimCompletion \/ ClaimCancellation
  \/ Written

RequestProgress(c) ==
  CancelRefused(c) \/ CancelEarly(c) \/ CancelReduced(c) \/ CancelWins(c)

Next ==
  \/ RunProgress \/ WriteFails \/ RunTaskCancelled
  \/ \E c \in Cancels : RequestCancellation(c) \/ RequestProgress(c)

Spec == Init /\ [][Next]_vars

(* Writes settle, the checkpoint's sleep ends and the loop runs ready      *)
(* tasks.  Nobody needs to request or cancel anything.                     *)
Fairness ==
  WF_vars(RunProgress) /\ \A c \in Cancels : WF_vars(RequestProgress(c))
FairSpec == Spec /\ Fairness

-----------------------------------------------------------------------------
(* Properties *)

TypeOK ==
  /\ lifecycle \in SessionState
  /\ deferred \in Cancels \cup {None}
  /\ sequence \in Nat
  /\ lock \in {"free", "run", "cancel"}
  /\ outcome \in {"none", "completed", "cancelled"}
  /\ cancelCommand \in Cancels \cup {None}
  /\ run \in WritingPlaces \cup
       {"created", "starting", "started", "deferring", "checkpoint", "delta",
        "complete", "cancel", "returned", "cancelled", "failed", "raised"}
  /\ index \in 0 .. Len(Tape)
  /\ cancelReq \in [Cancels -> {"idle", "waiting", "observing", "returned", "rejected"}]
  /\ cancelResult \in [Cancels -> {"none", "accepted", "already_requested", "terminal"}]

(* No event this session writes, nor a cancellation it accepts, is ever    *)
(* refused by its own reducer, and the projection lags the wire only       *)
(* between the start's write and its reduction, or for good by the one     *)
(* event whose write outlived the cancelled task.                          *)
ProjectionFollowsWire ==
  /\ run # "raised"
  /\ \A c \in Cancels : cancelReq[c] # "rejected"
  /\ CASE run = "started" -> sequence = lifecycle.last_sequence + 1
       [] run = "cancelled" -> sequence - lifecycle.last_sequence \in {0, 1}
       [] OTHER -> sequence = lifecycle.last_sequence

(* A request that was told it won is the one whose cancellation ends a     *)
(* session that returns; one told "terminal" met a completion.             *)
RequestsAnsweredTruly ==
  \A c \in Cancels :
    /\ cancelResult[c] = "accepted" =>
         /\ cancelCommand = c /\ outcome = "cancelled"
         /\ run = "returned" =>
              lifecycle.status = "cancelled" /\ lifecycle.cancel_command_id = c
    /\ cancelResult[c] = "already_requested" =>
         \E d \in Cancels \ {c} : cancelResult[d] = "accepted"
    /\ cancelResult[c] = "terminal" => outcome = "completed"

(* run() ends, and a session left to end by itself shows one terminal.     *)
SessionEnds ==
  (run # "created") ~>
    (RunEnded /\ (run = "returned" => lifecycle.status \in {"completed", "cancelled"}))

(* The mock implements the same contract as the provider-backed session.   *)
Contract == INSTANCE SessionContract
  WITH status <- lifecycle.status,
       said <- lifecycle.assistant_text,
       sealed <- lifecycle.assistant_completed
KeepsContract == Contract!Spec
=============================================================================
