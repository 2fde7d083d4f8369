--------------------------- MODULE ProviderSession ---------------------------
(***************************************************************************)
(* One provider-backed session (class ProviderSession of                   *)
(* provider_session.py): the tasks that compete to decide how the session  *)
(* ends, and the one finalizer that carries the decision out.              *)
(*                                                                         *)
(* The tasks share an event loop, so a step of the model is what one task  *)
(* does from one suspension point to the next:                             *)
(*   runner       the task of run()                                        *)
(*   txn          the owned transaction run() shields: publishing the      *)
(*                start, accepting an observation, selecting a rejection   *)
(*                or a teardown.  At most one exists at a time             *)
(*   watcher      _watch_provider_deadline                                 *)
(*   read         the pending read of the provider's event iterator        *)
(*   cleanup      _supervise_provider_cleanup                              *)
(*   finalizer    _finalize                                                *)
(*   cancelReq[c] request_cancellation(c);  teardownReq  request_teardown  *)
(*                                                                         *)
(* The deadline-state lock is not modelled: no critical section under it   *)
(* awaits, so no task ever finds it taken.  The decision lock is held      *)
(* across awaits and is modelled.  A lifecycle observer runs under the     *)
(* decision lock and writes to the transcript only; its await is part of   *)
(* the step before it, except where a decision is still to be taken after  *)
(* it (a cancellation, a usage report, a deferred cancellation).           *)
(*                                                                         *)
(* The provider, the output sink and the clock are the environment: the    *)
(* provider may answer anything or nothing, a write may fail, time passes. *)
(*                                                                         *)
(* A definition whose comment begins with "slip" is no part of the model:  *)
(* it is a way to get its successor wrong, and PROJECT.json names the      *)
(* property that notices.                                                  *)
(***************************************************************************)
EXTENDS SessionLifecycle, LoopLimits

CONSTANTS
  StartCommand,      \* the command that started the session
  SessionId,         \* the identity the runner allocated
  FragmentBytes,     \* UTF-8 length of each fragment
  Seeds,             \* the trackers the constructor may be given
  SinkFaults,        \* whether a write to the protocol sink may raise OSError
  MaxOuterCancels    \* bound on cancellations of the task of run()

(* The failure codes a session reports.  Every code a provider can put in  *)
(* ProviderFailed is prefixed with "provider_"; one stands for them all.   *)
InvalidResponse == "provider_invalid_response"
ToolUnavailable == "tool_unavailable"
ProviderError == "provider_unavailable"
SessionCodes ==
  {InvalidResponse, ToolUnavailable, ProviderError} \cup LimitFailureCodes

ASSUME SessionAssumption ==
  /\ StartCommand \in Commands
  /\ SessionId \in Sessions
  /\ SessionCodes \subseteq Codes
  /\ FragmentBytes \in [Fragments -> Nat \ {0}]
  /\ \A t \in Seeds : t \in Trackers /\ ~Spent(t) /\ ValidEvidence(t)
  /\ None \notin Trackers
  /\ SinkFaults \in BOOLEAN
  /\ MaxOuterCancels \in Nat

Cancels == Commands \ {StartCommand}

VARIABLES
  lifecycle,          \* _lifecycle_state
  deferred,           \* command of _deferred_cancellation, or None
  sequence,           \* the writer's last committed sequence of this session
  decisionLock,       \* which task holds _decision_lock
  selection,          \* _selection
  finalizer,          \* where _finalization_task is
  startSettled,       \* _session_start_settled
  startedOk,          \* _session_started_successfully
  due,                \* the clock has reached _provider_work_deadline
  latched,            \* _deadline_latched
  watcher,            \* where _deadline_watcher_task is
  tracker,            \* _limit_tracker
  operation,          \* _operation exists
  cleanup,            \* where _cleanup_task is, and what it returned
  cleanupMode,        \* _cleanup_mode
  read,               \* where _pending_event_task is
  result,             \* what it produced; the observation being accepted
  readCleanupFailed,  \* _pending_event_cleanup_failed
  text,               \* _accepted_text
  completedText,      \* _completed_text, or None
  usageObserved,      \* _usage_observed
  evidence,           \* the limits snapshot handed to the observer, or None
  diagnosed,          \* the cleanup diagnostic was written
  runner,             \* where run() is
  txn,                \* where the transaction run() waits for is
  outerCancel,        \* run()'s task has a cancellation it has not yet seen
  outerCancels,       \* how many cancellations it was sent
  cancelReq,          \* where each request_cancellation is
  cancelResult,       \* what it decided
  teardownReq,        \* where request_teardown is
  teardownResult      \* what it decided

decisionVars == <<selection, finalizer, latched, tracker, cleanup, cleanupMode>>
publishVars == <<lifecycle, sequence>>
startVars == <<startSettled, startedOk, deferred>>
readVars == <<read, result, readCleanupFailed>>
acceptVars == <<text, completedText, usageObserved>>
reportVars == <<evidence, diagnosed>>
runVars == <<runner, txn, outerCancel>>
requestVars == <<cancelReq, cancelResult, teardownReq, teardownResult>>

vars == <<decisionVars, publishVars, startVars, readVars, acceptVars, reportVars,
          runVars, requestVars, decisionLock, due, watcher, operation, outerCancels>>

-----------------------------------------------------------------------------
(* Outcomes *)

CleanupModes == {"wait_closed", "cancel"}
Outcome(kind, mode, code, correlation) ==
  [kind |-> kind, mode |-> mode, code |-> code, correlation |-> correlation]
NoSelection == Outcome("none", "none", None, None)

Completed == Outcome("completed", "wait_closed", None, StartCommand)
ProviderReported == Outcome("failed", "wait_closed", ProviderError, StartCommand)
FailedWith(code) == Outcome("failed", "cancel", code, StartCommand)
(* slip: the deadline waits for the provider instead of cancelling it *)
DeadlineOutcomeWaiting ==
  Outcome("failed", "wait_closed", LimitFailureCode("provider_work"), StartCommand)
DeadlineOutcome == FailedWith(LimitFailureCode("provider_work"))
CancelledBy(c) == Outcome("cancelled", "cancel", None, c)
Teardown == Outcome("teardown", "cancel", None, None)

Outcomes ==
  {Completed, ProviderReported, Teardown}
    \cup {FailedWith(code) : code \in SessionCodes}
    \cup {CancelledBy(c) : c \in Commands}

Undecided == selection = NoSelection
Expired == latched \/ due

(* _ensure_provider_cleanup, for an operation that exists.  The mode       *)
(* "conflict" stands for the RuntimeError it raises when a cleanup already *)
(* runs in the other mode.                                                 *)
EnsureCleanup(mode) ==
  /\ cleanup' = IF cleanup = "none" THEN "waiting" ELSE cleanup
  /\ cleanupMode' = IF cleanup = "none" THEN mode
                    ELSE IF cleanupMode # mode THEN "conflict"
                    ELSE cleanupMode

(* _latch_provider_deadline_locked, given the tracker and whether an       *)
(* operation exists when it is called                                      *)
Latch(t, started) ==
  /\ latched' = TRUE
  /\ tracker' = IF latched THEN t ELSE MarkProviderWorkExhausted(t)
  /\ IF started THEN EnsureCleanup("cancel") ELSE UNCHANGED <<cleanup, cleanupMode>>

(* _select_locked while undecided: the choice, and its finalizer.  A       *)
(* teardown does not wait for the start to settle.                         *)
Choose(outcome) ==
  /\ selection' = outcome
  /\ finalizer' = IF outcome.kind = "teardown" THEN "stop_watcher" ELSE "await_start"

ChooseCharging(outcome, t) ==
  /\ Choose(outcome)
  /\ tracker' = t
  /\ UNCHANGED <<latched, cleanup, cleanupMode>>

ChooseDeadline(t, started) == Latch(t, started) /\ Choose(DeadlineOutcome)

(* slips: the deadline is not rechecked; an earlier decision is overwritten *)
SelectCandidateLate(outcome) ==
  IF ~Undecided THEN UNCHANGED decisionVars ELSE ChooseCharging(outcome, tracker)
SelectCandidateAgain(outcome) ==
  IF Expired THEN ChooseDeadline(tracker, operation) ELSE ChooseCharging(outcome, tracker)

(* _select_candidate_locked: the deadline takes precedence, and a decision *)
(* already taken stands.                                                   *)
SelectCandidate(outcome) ==
  IF ~Undecided THEN UNCHANGED decisionVars
  ELSE IF Expired THEN ChooseDeadline(tracker, operation)
  ELSE ChooseCharging(outcome, tracker)

(* _select_deadline_if_due_locked *)
SelectDeadlineIfDue ==
  IF Undecided /\ Expired THEN ChooseDeadline(tracker, operation)
  ELSE UNCHANGED decisionVars

-----------------------------------------------------------------------------
(* Publication: OrderedEventWriter.emit_session followed by                *)
(* _accept_lifecycle_locked.  The sequence is committed by a write that    *)
(* succeeds, before the reducer sees the event.                            *)

(* slip: an event carries the sequence of the one before it *)
EventAtLastSequence(type, correlation, payload, code) ==
  WireEvent(type, correlation, SessionId, sequence, payload, code)
Event(type, correlation, payload, code) ==
  WireEvent(type, correlation, SessionId, sequence + 1, payload, code)

StartedEvent == Event("session.started", StartCommand, << >>, None)
DeltaEvent == Event("assistant.delta", StartCommand, result.text, None)
AssistantCompletedEvent ==
  Event("assistant.completed", StartCommand, completedText, None)
TerminalEvent ==
  CASE selection.kind = "completed" ->
         Event("session.completed", selection.correlation, << >>, None)
    [] selection.kind = "failed" ->
         Event("session.failed", selection.correlation, << >>, selection.code)
    [] selection.kind = "cancelled" ->
         Event("session.cancelled", selection.correlation, << >>, None)

WriteOutcomes == IF SinkFaults THEN {TRUE, FALSE} ELSE {TRUE}

Publish(e) == sequence' = sequence + 1 /\ lifecycle' = After(lifecycle, e)

Acquire(task) == decisionLock = "free" /\ decisionLock' = task
(* slip: a critical section is left without releasing the lock *)
ReleaseNothing == UNCHANGED decisionLock
Release == decisionLock' = "free"
LockIsFree == decisionLock = "free" /\ UNCHANGED decisionLock

-----------------------------------------------------------------------------
(* Observations of the provider, and how a read can end without one.  The  *)
(* kind "malformed" stands for a value of no known type, for text that is  *)
(* not UTF-8 and for usage that is no evidence: the session treats alike.  *)

Observed(kind, t) == [kind |-> kind, text |-> t]
NoResult == Observed("none", << >>)
Stopped == Observed("stopped", << >>)      \* StopAsyncIteration
ReadCancelled == Observed("cancelled", << >>)
ReadError == Observed("error", << >>)      \* any other exception

ResultKinds ==
  {"none", "stopped", "cancelled", "error", "delta", "text_completed", "usage",
   "completed", "failed", "tool_call", "malformed"}
Results == [kind : ResultKinds, text : Seq(Fragments)]

(* A completed text that confirms what was accepted, and one that does not *)
ProviderAnswers ==
  {Observed("delta", <<f>>) : f \in Fragments}
    \cup {Observed("text_completed", t) : t \in {text, << >>}}
    \cup {Observed(k, << >>) : k \in {"usage", "completed", "failed", "tool_call",
                                      "malformed"}}
    \cup {Stopped, ReadCancelled, ReadError}

(* slips: a completed text is taken without comparing it; a completion is  *)
(* taken before any completed text                                         *)
OutOfOrderUncompared(o) ==
  CASE o.kind = "delta" -> completedText # None \/ usageObserved
    [] o.kind = "text_completed" -> completedText # None \/ usageObserved
    [] o.kind = "usage" -> completedText = None \/ text = << >> \/ usageObserved
    [] o.kind = "completed" -> completedText = None \/ text = << >>
    [] o.kind = "malformed" -> TRUE
    [] OTHER -> FALSE
OutOfOrderUnreconciled(o) ==
  CASE o.kind = "delta" -> completedText # None \/ usageObserved
    [] o.kind = "text_completed" ->
         completedText # None \/ usageObserved \/ o.text # text
    [] o.kind = "usage" -> completedText = None \/ text = << >> \/ usageObserved
    [] o.kind = "completed" -> text = << >>
    [] o.kind = "malformed" -> TRUE
    [] OTHER -> FALSE

(* What _accept_observation refuses as out of order, given that no outcome *)
(* was selected and the deadline has not passed.                           *)
OutOfOrder(o) ==
  CASE o.kind = "delta" -> completedText # None \/ usageObserved
    [] o.kind = "text_completed" ->
         completedText # None \/ usageObserved \/ o.text # text
    [] o.kind = "usage" -> completedText = None \/ text = << >> \/ usageObserved
    [] o.kind = "completed" -> completedText = None \/ text = << >>
    [] o.kind = "malformed" -> TRUE
    [] OTHER -> FALSE

-----------------------------------------------------------------------------
Init ==
  /\ lifecycle = After(InitialSessionState, TaskSubmitted(StartCommand))
  /\ deferred = None
  /\ sequence = 0
  /\ decisionLock = "free"
  /\ selection = NoSelection
  /\ finalizer = "none"
  /\ startSettled = FALSE
  /\ startedOk = FALSE
  /\ due = FALSE
  /\ latched = FALSE
  /\ watcher = "none"
  /\ tracker \in Seeds
  /\ operation = FALSE
  /\ cleanup = "none"
  /\ cleanupMode = "none"
  /\ read = "none"
  /\ result = NoResult
  /\ readCleanupFailed = FALSE
  /\ text = << >>
  /\ completedText = None
  /\ usageObserved = FALSE
  /\ evidence = None
  /\ diagnosed = FALSE
  /\ runner = "created"
  /\ txn = "idle"
  /\ outerCancel = FALSE
  /\ outerCancels = 0
  /\ cancelReq = [c \in Cancels |-> "idle"]
  /\ cancelResult = [c \in Cancels |-> "none"]
  /\ teardownReq = "idle"
  /\ teardownResult = "none"

FinalizerEnded == finalizer \in {"done", "raised"}
RunEnded == runner \in {"returned", "cancelled", "raised"}
ReadInFlight == read \in {"waiting", "cancelling"}
(* slip: a forced cleanup is taken for a finished one *)
CleanupUnforced == cleanup = "waiting"
CleanupInFlight == cleanup \in {"waiting", "forcing"}

-----------------------------------------------------------------------------
(* run(): starting, and the paths its two exception handlers take          *)

Run ==
  /\ runner = "created"
  /\ runner' = "publishing"
  /\ txn' = "publish"
  /\ watcher' = IF Undecided THEN "waiting" ELSE watcher
  /\ UNCHANGED <<decisionVars, publishVars, startVars, readVars, acceptVars,
                 reportVars, requestVars, decisionLock, due, operation,
                 outerCancel, outerCancels>>

(* Steps of run() that end in an exception also let the start settle, so   *)
(* that a finalizer waiting for it can go on.                              *)
EnterHandler(next, transaction) ==
  /\ runner' = next
  /\ txn' = transaction
  /\ outerCancel' = FALSE
  /\ startSettled' = TRUE
  /\ UNCHANGED <<startedOk, deferred>>

(* except asyncio.CancelledError: tear down and join, then re-raise        *)
RunCancelled == EnterHandler("tearing", "teardown")

(* except Exception: select a teardown unless something was selected, join *)
(* a finalizer that is still running, then re-raise                        *)
RunRaised ==
  IF Undecided THEN EnterHandler("failing", "teardown")
  ELSE EnterHandler(IF FinalizerEnded THEN "raised" ELSE "fail_join", "idle")

(* run() resumes from a shielded transaction.  The transaction's own       *)
(* exception is raised first; a cancellation that arrived meanwhile next.  *)
ResumeFrom(place, Continue) ==
  /\ runner = place
  /\ \/ txn = "raised" /\ RunRaised /\ UNCHANGED readVars
     \/ txn = "settled" /\ outerCancel /\ RunCancelled /\ UNCHANGED readVars
     \/ /\ txn = "settled" /\ ~outerCancel
        /\ txn' = "idle"
        /\ Continue
        /\ UNCHANGED <<startVars, outerCancel>>
  /\ UNCHANGED <<decisionVars, publishVars, acceptVars, reportVars, requestVars,
                 decisionLock, due, watcher, operation, outerCancels>>

PublishResumes ==
  ResumeFrom("publishing", runner' = "starting" /\ UNCHANGED readVars)

(* The loop of _consume_provider_events: read again, or go and join.       *)
AcceptResumes ==
  ResumeFrom("accepting",
    IF Undecided
      THEN runner' = "reading" /\ read' = "waiting"
           /\ UNCHANGED <<result, readCleanupFailed>>
      ELSE runner' = "joining" /\ UNCHANGED readVars)

RejectResumes == ResumeFrom("rejecting", runner' = "joining" /\ UNCHANGED readVars)

(* await self._join_finalization() *)
JoinResumes ==
  /\ runner = "joining"
  /\ FinalizerEnded
  /\ \/ finalizer = "raised" /\ RunRaised
     \/ finalizer = "done" /\ outerCancel /\ RunCancelled
     \/ /\ finalizer = "done" /\ ~outerCancel
        /\ runner' = "returned"
        /\ UNCHANGED <<txn, outerCancel, startVars>>
  /\ UNCHANGED <<decisionVars, publishVars, readVars, acceptVars, reportVars,
                 requestVars, decisionLock, due, watcher, operation, outerCancels>>

Leave(end) ==
  /\ runner' = end
  /\ txn' = "idle"
  /\ outerCancel' = FALSE
  /\ UNCHANGED <<decisionVars, publishVars, startVars, readVars, acceptVars,
                 reportVars, requestVars, decisionLock, due, watcher, operation,
                 outerCancels>>

(* slip: the teardown is selected and not joined *)
TeardownNotJoined ==
  /\ runner = "tearing" /\ txn = "settled"
  /\ Leave("cancelled")

(* _settle_outer_teardown has selected and joined.  A further cancellation *)
(* is swallowed here; an exception of the finalizer replaces the one being *)
(* handled.                                                                *)
TeardownJoined ==
  /\ runner = "tearing" /\ txn = "settled" /\ FinalizerEnded
  /\ Leave(IF finalizer = "raised" THEN "raised" ELSE "cancelled")

(* slip: the failing handler does not join the finalizer *)
FailureNotJoined ==
  /\ runner = "failing" /\ txn = "settled"
  /\ Leave(IF outerCancel THEN "cancelled" ELSE "raised")

(* The exception handler's shielded selection settles; a cancellation that *)
(* arrived during it is raised out of the handler, before the join.        *)
FailureSelected ==
  /\ runner = "failing" /\ txn = "settled"
  /\ IF outerCancel THEN Leave("cancelled")
     ELSE Leave(IF FinalizerEnded THEN "raised" ELSE "fail_join")

FailureJoined ==
  /\ runner = "fail_join" /\ FinalizerEnded
  /\ Leave(IF outerCancel /\ finalizer = "done" THEN "cancelled" ELSE "raised")

-----------------------------------------------------------------------------
(* _publish_started *)

BeginStarted ==
  /\ txn = "publish"
  /\ Acquire("txn")
  /\ txn' = "publishing"
  /\ UNCHANGED <<decisionVars, publishVars, startVars, readVars, acceptVars,
                 reportVars, requestVars, runner, outerCancel, due, watcher,
                 operation, outerCancels>>

(* slip: the start succeeds and nobody is told *)
StartSettlesSilently ==
  /\ startedOk' = TRUE
  /\ txn' = "settled"
  /\ Release
  /\ UNCHANGED startSettled

StartSettles ==
  /\ startSettled' = TRUE
  /\ startedOk' = TRUE
  /\ txn' = "settled"
  /\ Release

StartedWritten ==
  /\ txn = "publishing"
  /\ \E written \in WriteOutcomes :
       IF ~written
         THEN txn' = "raised" /\ Release /\ UNCHANGED <<publishVars, startVars>>
         ELSE /\ Publish(StartedEvent)
              /\ IF ~Accepts(lifecycle, StartedEvent)
                   THEN txn' = "raised" /\ Release /\ UNCHANGED startVars
                 ELSE IF deferred # None
                   THEN txn' = "deferring" /\ UNCHANGED <<decisionLock, startVars>>
                 ELSE StartSettles /\ UNCHANGED deferred
  /\ UNCHANGED <<decisionVars, readVars, acceptVars, reportVars, requestVars,
                 runner, outerCancel, due, watcher, operation, outerCancels>>

DeferredApplied ==
  /\ txn = "deferring"
  /\ LET u == CancelRequested(deferred, SessionId)
     IN /\ lifecycle' = After(lifecycle, u)
        /\ IF Accepts(lifecycle, u)
             THEN StartSettles /\ deferred' = None
             ELSE txn' = "raised" /\ Release /\ UNCHANGED startVars
  /\ UNCHANGED <<decisionVars, sequence, readVars, acceptVars, reportVars,
                 requestVars, runner, outerCancel, due, watcher, operation,
                 outerCancels>>

-----------------------------------------------------------------------------
(* _start_provider_operation: awaits the lock unshielded, then runs to its *)
(* end without suspending.  late: provider.start() took so long that the   *)
(* deadline passed meanwhile.                                              *)

StartIsCancelled ==
  /\ runner = "starting" /\ outerCancel
  /\ RunCancelled
  /\ UNCHANGED <<decisionVars, publishVars, readVars, acceptVars, reportVars,
                 requestVars, decisionLock, due, watcher, operation, outerCancels>>

(* Decided before the provider is asked for anything. *)
StartRefused ==
  /\ runner = "starting" /\ ~outerCancel
  /\ LockIsFree
  /\ \/ ~Undecided /\ UNCHANGED decisionVars
     \/ Undecided /\ Expired /\ ChooseDeadline(tracker, operation)
     \/ /\ Undecided /\ ~Expired
        /\ ~AdmitModelTurn(tracker).granted
        /\ ChooseCharging(FailedWith(LimitFailureCode("model_turns")),
                          AdmitModelTurn(tracker).tracker)
  /\ runner' = "joining"
  /\ UNCHANGED <<publishVars, startVars, readVars, acceptVars, reportVars,
                 requestVars, txn, outerCancel, due, watcher, operation,
                 outerCancels>>

StartOperation ==
  /\ runner = "starting" /\ ~outerCancel
  /\ LockIsFree
  /\ Undecided /\ ~Expired
  /\ AdmitModelTurn(tracker).granted
  /\ \E outcome \in {"started", "start_raised", "events_raised"}, late \in BOOLEAN :
       LET charged == AdmitModelTurn(tracker).tracker
           started == outcome # "start_raised"
       IN /\ due' = late
          /\ operation' = started
          /\ IF late
               THEN ChooseDeadline(charged, started)
             ELSE IF outcome # "started"
               THEN ChooseCharging(FailedWith(InvalidResponse), charged)
             ELSE /\ tracker' = charged
                  /\ UNCHANGED <<selection, finalizer, latched, cleanup, cleanupMode>>
          /\ IF outcome = "started" /\ ~late
               THEN runner' = "reading" /\ read' = "waiting"
               ELSE runner' = "joining" /\ UNCHANGED read
  /\ UNCHANGED <<publishVars, startVars, result, readCleanupFailed, acceptVars,
                 reportVars, requestVars, txn, outerCancel, watcher, outerCancels>>

-----------------------------------------------------------------------------
(* _consume_provider_events: asyncio.wait({pending, watcher}) returned, or *)
(* was cancelled.                                                          *)

ReadOver == read \in {"done", "reaped"}

ReadIsCancelled ==
  /\ runner = "reading" /\ outerCancel
  /\ RunCancelled
  /\ UNCHANGED <<decisionVars, publishVars, readVars, acceptVars, reportVars,
                 requestVars, decisionLock, due, watcher, operation, outerCancels>>

ReadWakes(next, transaction) ==
  /\ runner = "reading" /\ ~outerCancel
  /\ watcher = "done" \/ ReadOver
  /\ runner' = next
  /\ txn' = transaction
  /\ UNCHANGED <<decisionVars, publishVars, startVars, result, readCleanupFailed,
                 acceptVars, reportVars, requestVars, decisionLock, due, watcher,
                 operation, outerCancel, outerCancels>>

(* slip: the read is awaited without being cancelled *)
CancelNoRead == UNCHANGED read
(* The first half of _cancel_and_reap_pending_event, whoever calls it.     *)
CancelRead == read' = IF read = "waiting" THEN "cancelling" ELSE read

WakeExpired == Expired /\ ReadWakes("reaping", txn) /\ CancelRead

(* The watcher was stopped by a finalizer while the read is still blocked: *)
(* the finalizer will reap it.                                             *)
WakeStopped ==
  ~Expired /\ ~ReadOver /\ ReadWakes("rejecting", "reject") /\ UNCHANGED read

(* The finalizer has also reaped the read.  What it produced no longer     *)
(* matters: an outcome is selected, and every transaction gives way to it. *)
WakeReaped ==
  ~Expired /\ read = "reaped" /\ ReadWakes("rejecting", "reject") /\ UNCHANGED read

(* The runner takes what the read produced and drops the task, which a     *)
(* finalizer that already awaits it still reaps.                           *)
TakeRead == read' = IF finalizer = "reap" THEN read ELSE "none"

WakeWithoutEvent ==
  /\ ~Expired /\ read = "done"
  /\ result \in {Stopped, ReadCancelled, ReadError}
  /\ IF result = Stopped /\ ~Undecided
       THEN ReadWakes("joining", txn)
       ELSE ReadWakes("rejecting", "reject")
  /\ TakeRead

WakeWithEvent ==
  /\ ~Expired /\ read = "done"
  /\ result \notin {Stopped, ReadCancelled, ReadError}
  /\ ReadWakes("accepting", "accept")
  /\ TakeRead

(* The second half of _cancel_and_reap_pending_event: the read has ended,  *)
(* and an exception other than a cancellation is a cleanup failure.        *)
ReapRead ==
  /\ ~ReadInFlight
  /\ readCleanupFailed' = (readCleanupFailed \/ (read = "done" /\ result = ReadError))
  /\ read' = IF read = "done" THEN "reaped" ELSE read
  /\ UNCHANGED result

(* The runner reaps.  Its own cancellation is swallowed by this await.     *)
RunnerReaps ==
  /\ runner = "reaping"
  /\ ReapRead
  /\ runner' = "selecting"
  /\ outerCancel' = FALSE
  /\ UNCHANGED <<decisionVars, publishVars, startVars, acceptVars, reportVars,
                 requestVars, txn, decisionLock, due, watcher, operation,
                 outerCancels>>

(* _select_provider_deadline, which also awaits the lock unshielded *)
SelectIsCancelled ==
  /\ runner = "selecting" /\ outerCancel
  /\ RunCancelled
  /\ UNCHANGED <<decisionVars, publishVars, readVars, acceptVars, reportVars,
                 requestVars, decisionLock, due, watcher, operation, outerCancels>>

SelectProviderDeadline ==
  /\ runner = "selecting" /\ ~outerCancel
  /\ LockIsFree
  /\ IF Undecided THEN ChooseDeadline(tracker, operation)
     ELSE UNCHANGED decisionVars
  /\ runner' = "joining"
  /\ UNCHANGED <<publishVars, startVars, readVars, acceptVars, reportVars,
                 requestVars, txn, outerCancel, due, watcher, operation,
                 outerCancels>>

(* _select_invalid_response, and _select_teardown from run()'s handlers    *)
RejectTransaction ==
  /\ txn = "reject"
  /\ LockIsFree
  /\ SelectCandidate(FailedWith(InvalidResponse))
  /\ txn' = "settled"
  /\ UNCHANGED <<publishVars, startVars, readVars, acceptVars, reportVars,
                 requestVars, runner, outerCancel, due, watcher, operation,
                 outerCancels>>

TeardownTransaction ==
  /\ txn = "teardown"
  /\ LockIsFree
  /\ SelectCandidate(Teardown)
  /\ txn' = "settled"
  /\ UNCHANGED <<publishVars, startVars, readVars, acceptVars, reportVars,
                 requestVars, runner, outerCancel, due, watcher, operation,
                 outerCancels>>

-----------------------------------------------------------------------------
(* _accept_observation, under the decision lock.  What it decides without  *)
(* an await is one step; a delta is charged, then written; usage is        *)
(* observed, then recorded.                                                *)

Accepting ==
  /\ txn = "accept"
  /\ UNCHANGED <<publishVars, startVars, readVars, text, reportVars, requestVars,
                 runner, outerCancel, due, watcher, operation, outerCancels>>
(* slip: an observation is accepted although an outcome was selected *)
AdmittingAnyway == Accepting /\ ~Expired /\ ~OutOfOrder(result)
Admitting == Accepting /\ Undecided /\ ~Expired /\ ~OutOfOrder(result)

AcceptNothing ==
  /\ Accepting /\ LockIsFree
  /\ \/ ~Undecided /\ UNCHANGED decisionVars
     \/ Undecided /\ Expired /\ ChooseDeadline(tracker, operation)
     \/ /\ Undecided /\ ~Expired /\ OutOfOrder(result)
        /\ ChooseCharging(FailedWith(InvalidResponse), tracker)
  /\ txn' = "settled"
  /\ UNCHANGED <<completedText, usageObserved>>

AcceptDelta ==
  /\ Admitting /\ result.kind = "delta"
  /\ LET reserved == ReserveAssistantOutput(tracker, FragmentBytes[result.text[1]])
     IN IF reserved.granted
          THEN /\ Acquire("txn")
               /\ txn' = "writing"
               /\ tracker' = reserved.tracker
               /\ UNCHANGED <<selection, finalizer, latched, cleanup, cleanupMode>>
          ELSE /\ LockIsFree
               /\ ChooseCharging(FailedWith(LimitFailureCode("assistant_output")),
                                 reserved.tracker)
               /\ txn' = "settled"
  /\ UNCHANGED <<completedText, usageObserved>>

AcceptTextCompleted ==
  /\ Admitting /\ result.kind = "text_completed" /\ LockIsFree
  /\ completedText' = result.text
  /\ txn' = "settled"
  /\ UNCHANGED <<decisionVars, usageObserved>>

AcceptUsage ==
  /\ Admitting /\ result.kind = "usage" /\ Acquire("txn")
  /\ txn' = "observing"
  /\ UNCHANGED <<decisionVars, completedText, usageObserved>>

AcceptOutcome ==
  /\ Admitting /\ result.kind \in {"completed", "failed"} /\ LockIsFree
  /\ ChooseCharging(IF result.kind = "completed" THEN Completed ELSE ProviderReported,
                    tracker)
  /\ txn' = "settled"
  /\ UNCHANGED <<completedText, usageObserved>>

AcceptToolCall ==
  /\ Admitting /\ result.kind = "tool_call" /\ LockIsFree
  /\ LET observed == ObserveToolCall(tracker)
     IN ChooseCharging(FailedWith(IF observed.granted THEN ToolUnavailable
                                  ELSE LimitFailureCode("tool_calls")),
                       observed.tracker)
  /\ txn' = "settled"
  /\ UNCHANGED <<completedText, usageObserved>>

DeltaWritten ==
  /\ txn = "writing"
  /\ \E written \in WriteOutcomes :
       IF written THEN Publish(DeltaEvent) ELSE UNCHANGED publishVars
  /\ IF sequence' # sequence /\ Accepts(lifecycle, DeltaEvent)
       THEN /\ text' = text \o result.text
            /\ SelectDeadlineIfDue
            /\ txn' = "settled"
       ELSE txn' = "raised" /\ UNCHANGED <<text, decisionVars>>
  /\ Release
  /\ UNCHANGED <<startVars, readVars, completedText, usageObserved, reportVars,
                 requestVars, runner, outerCancel, due, watcher, operation,
                 outerCancels>>

UsageRecorded ==
  /\ txn = "observing"
  /\ usageObserved' = TRUE
  /\ SelectDeadlineIfDue
  /\ txn' = "settled"
  /\ Release
  /\ UNCHANGED <<publishVars, startVars, readVars, text, completedText, reportVars,
                 requestVars, runner, outerCancel, due, watcher, operation,
                 outerCancels>>

-----------------------------------------------------------------------------
(* _finalize: the one task that carries a selection out.                   *)

StopWatcher == watcher' = IF watcher = "waiting" THEN "done" ELSE watcher

FinalizerStep ==
  UNCHANGED <<selection, latched, tracker, startVars, acceptVars, runVars,
              requestVars, due, operation, outerCancels>>

(* A start that failed leaves nothing to clean up and nothing to report.   *)
FinalizerStarts ==
  /\ finalizer = "await_start" /\ startSettled
  /\ IF startedOk THEN finalizer' = "stop_watcher" /\ UNCHANGED watcher
     ELSE finalizer' = "done" /\ StopWatcher
  /\ FinalizerStep
  /\ UNCHANGED <<cleanup, cleanupMode, publishVars, readVars, reportVars, decisionLock>>

FinalizerStopsWatcher ==
  /\ finalizer = "stop_watcher"
  /\ StopWatcher
  /\ finalizer' = "start_cleanup"
  /\ FinalizerStep
  /\ UNCHANGED <<cleanup, cleanupMode, publishVars, readVars, reportVars, decisionLock>>

FinalizerStartsCleanup ==
  /\ finalizer = "start_cleanup"
  /\ IF operation THEN EnsureCleanup(selection.mode)
     ELSE UNCHANGED <<cleanup, cleanupMode>>
  /\ finalizer' = IF cleanupMode' = "conflict" THEN "raised" ELSE "join_cleanup"
  /\ FinalizerStep
  /\ UNCHANGED <<watcher, publishVars, readVars, reportVars, decisionLock>>

FinalizerJoinsCleanup ==
  /\ finalizer = "join_cleanup" /\ ~CleanupInFlight
  /\ CancelRead
  /\ finalizer' = "reap"
  /\ FinalizerStep
  /\ UNCHANGED <<cleanup, cleanupMode, watcher, publishVars, result,
                 readCleanupFailed, reportVars, decisionLock>>

AfterCleanup == IF selection.kind = "teardown" THEN "done" ELSE "terminal"

FinalizerReaps ==
  /\ finalizer = "reap"
  /\ ReapRead
  /\ finalizer' = IF cleanup = "failed" \/ readCleanupFailed' THEN "report"
                  ELSE AfterCleanup
  /\ FinalizerStep
  /\ UNCHANGED <<cleanup, cleanupMode, watcher, publishVars, reportVars, decisionLock>>

FinalizerReports ==
  /\ finalizer = "report"
  /\ \E written \in WriteOutcomes :
       /\ diagnosed' = written
       /\ finalizer' = IF written THEN AfterCleanup ELSE "raised"
  /\ FinalizerStep
  /\ UNCHANGED <<cleanup, cleanupMode, watcher, publishVars, readVars, evidence,
                 decisionLock>>

(* _notify_loop_limits_once: the evidence record must accept the tracker.  *)
ReportLimits ==
  IF ValidEvidence(tracker)
    THEN evidence' = tracker /\ finalizer' = "ending" /\ UNCHANGED decisionLock
    ELSE finalizer' = "raised" /\ Release /\ UNCHANGED evidence

(* _emit_selected_terminal *)
TerminalBegins ==
  /\ finalizer = "terminal"
  /\ decisionLock = "free"
  /\ IF selection.kind # "completed"
       THEN IF ValidEvidence(tracker)
              THEN evidence' = tracker /\ finalizer' = "ending" /\ Acquire("finalizer")
              ELSE finalizer' = "raised" /\ UNCHANGED <<evidence, decisionLock>>
     ELSE IF completedText = None
       THEN finalizer' = "raised" /\ UNCHANGED <<evidence, decisionLock>>
     ELSE finalizer' = "sealing" /\ Acquire("finalizer") /\ UNCHANGED evidence
  /\ FinalizerStep
  /\ UNCHANGED <<cleanup, cleanupMode, watcher, publishVars, readVars, diagnosed>>

SealWritten ==
  /\ finalizer = "sealing"
  /\ \E written \in WriteOutcomes :
       /\ IF written THEN Publish(AssistantCompletedEvent) ELSE UNCHANGED publishVars
       /\ IF written /\ Accepts(lifecycle, AssistantCompletedEvent) THEN ReportLimits
          ELSE finalizer' = "raised" /\ Release /\ UNCHANGED evidence
  /\ FinalizerStep
  /\ UNCHANGED <<cleanup, cleanupMode, watcher, readVars, diagnosed>>

TerminalWritten ==
  /\ finalizer = "ending"
  /\ \E written \in WriteOutcomes :
       /\ IF written THEN Publish(TerminalEvent) ELSE UNCHANGED publishVars
       /\ finalizer' = IF written /\ Accepts(lifecycle, TerminalEvent) THEN "done"
                       ELSE "raised"
  /\ Release
  /\ FinalizerStep
  /\ UNCHANGED <<cleanup, cleanupMode, watcher, readVars, reportVars>>

-----------------------------------------------------------------------------
(* request_cancellation and request_teardown: owned tasks of the caller.   *)
(* Once run() was called they also join the finalizer, and an exception of *)
(* the finalizer becomes theirs.                                           *)

RequestStep ==
  UNCHANGED <<startSettled, startedOk, readVars, acceptVars, reportVars, runVars,
              due, watcher, operation, outerCancels>>

AnswerState == IF runner = "created" THEN "returned" ELSE "joining"
JoinEnds == IF finalizer = "done" THEN "returned" ELSE "raised"

RequestCancellation(c) ==
  /\ cancelReq[c] = "idle"
  /\ cancelReq' = [cancelReq EXCEPT ![c] = "waiting"]
  /\ RequestStep
  /\ UNCHANGED <<decisionVars, publishVars, deferred, decisionLock, cancelResult,
                 teardownReq, teardownResult>>

AnswerCancellation(c, answer) ==
  /\ cancelReq' = [cancelReq EXCEPT ![c] = AnswerState]
  /\ cancelResult' = [cancelResult EXCEPT ![c] = answer]

(* slip: a request is told it won whatever was selected *)
OfferedBlindly == "accepted"
(* What the request is told when it selects: the deadline may win it.      *)
OfferedOutcome == IF Expired THEN "terminal" ELSE "accepted"

CancelDecide(c) ==
  /\ cancelReq[c] = "waiting"
  /\ decisionLock = "free"
  /\ \/ /\ ~Undecided
        /\ AnswerCancellation(c, IF selection.kind = "cancelled" THEN "already_requested"
                                 ELSE "terminal")
        /\ UNCHANGED <<decisionVars, lifecycle, deferred, decisionLock>>
     \/ /\ Undecided /\ lifecycle.status = "starting"
        /\ deferred' = c
        /\ SelectCandidate(CancelledBy(c))
        /\ AnswerCancellation(c, OfferedOutcome)
        /\ UNCHANGED <<lifecycle, decisionLock>>
     \/ /\ Undecided /\ lifecycle.status # "starting"
        /\ LET u == CancelRequested(c, SessionId)
           IN IF Accepts(lifecycle, u)
                THEN /\ lifecycle' = After(lifecycle, u)
                     /\ cancelReq' = [cancelReq EXCEPT ![c] = "observing"]
                     /\ Acquire("cancel")
                ELSE /\ cancelReq' = [cancelReq EXCEPT ![c] = "rejected"]
                     /\ UNCHANGED <<lifecycle, decisionLock>>
        /\ UNCHANGED <<decisionVars, deferred, cancelResult>>
  /\ RequestStep
  /\ UNCHANGED <<sequence, teardownReq, teardownResult>>

(* The observer has recorded the cancellation; the deadline may have       *)
(* passed meanwhile.                                                       *)
CancelSelect(c) ==
  /\ cancelReq[c] = "observing"
  /\ SelectCandidate(CancelledBy(c))
  /\ AnswerCancellation(c, OfferedOutcome)
  /\ Release
  /\ RequestStep
  /\ UNCHANGED <<publishVars, deferred, teardownReq, teardownResult>>

CancelJoined(c) ==
  /\ cancelReq[c] = "joining" /\ FinalizerEnded
  /\ cancelReq' = [cancelReq EXCEPT ![c] = JoinEnds]
  /\ RequestStep
  /\ UNCHANGED <<decisionVars, publishVars, deferred, decisionLock, cancelResult,
                 teardownReq, teardownResult>>

RequestTeardown ==
  /\ teardownReq = "idle"
  /\ teardownReq' = "waiting"
  /\ RequestStep
  /\ UNCHANGED <<decisionVars, publishVars, deferred, decisionLock, cancelReq,
                 cancelResult, teardownResult>>

TeardownDecide ==
  /\ teardownReq = "waiting"
  /\ LockIsFree
  /\ SelectCandidate(Teardown)
  /\ teardownResult' = IF Undecided THEN OfferedOutcome
                       ELSE IF selection.kind = "teardown" THEN "already_requested"
                       ELSE "terminal"
  /\ teardownReq' = AnswerState
  /\ RequestStep
  /\ UNCHANGED <<publishVars, deferred, cancelReq, cancelResult>>

TeardownRequestJoined ==
  /\ teardownReq = "joining" /\ FinalizerEnded
  /\ teardownReq' = JoinEnds
  /\ RequestStep
  /\ UNCHANGED <<decisionVars, publishVars, deferred, decisionLock, cancelReq,
                 cancelResult, teardownResult>>

-----------------------------------------------------------------------------
(* The environment: the provider, the clock, and whoever cancels run().    *)

EnvironmentStep ==
  UNCHANGED <<selection, finalizer, publishVars, startVars, acceptVars, reportVars,
              runner, txn, requestVars, decisionLock, operation>>

(* The provider ends a pending read, at any time or never.                 *)
ProviderYields ==
  /\ read = "waiting"
  /\ read' = "done"
  /\ result' \in ProviderAnswers
  /\ EnvironmentStep
  /\ UNCHANGED <<latched, tracker, cleanup, cleanupMode, readCleanupFailed, due,
                 watcher, outerCancel, outerCancels>>

(* A cancelled read ends, in a CancelledError or in an exception.          *)
ReadAnswersCancel ==
  /\ read = "cancelling"
  /\ read' = "done"
  /\ result' \in {ReadCancelled, ReadError}
  /\ EnvironmentStep
  /\ UNCHANGED <<latched, tracker, cleanup, cleanupMode, readCleanupFailed, due,
                 watcher, outerCancel, outerCancels>>

(* _supervise_provider_cleanup: the provider's cleanup returns or raises   *)
(* within the grace, or never; after the grace it is cancelled and forced. *)
CleanupStep(from, to) ==
  /\ cleanup = from
  /\ cleanup' \in to
  /\ EnvironmentStep
  /\ UNCHANGED <<latched, tracker, cleanupMode, readVars, due, watcher, outerCancel,
                 outerCancels>>

CleanupReturns == CleanupStep("waiting", {"clean", "failed"})
GraceExpires == CleanupStep("waiting", {"forcing"})
ForceReturns == CleanupStep("forcing", {"failed"})

Tick ==
  /\ ~due
  /\ due' = TRUE
  /\ EnvironmentStep
  /\ UNCHANGED <<latched, tracker, cleanup, cleanupMode, readVars, watcher,
                 outerCancel, outerCancels>>

(* The task of run() is cancelled while it is running. *)
OuterCancel ==
  /\ runner # "created" /\ ~RunEnded
  /\ outerCancels < MaxOuterCancels
  /\ outerCancels' = outerCancels + 1
  /\ outerCancel' = TRUE
  /\ EnvironmentStep
  /\ UNCHANGED <<latched, tracker, cleanup, cleanupMode, readVars, due, watcher>>

(* _watch_provider_deadline, past its wait *)
WatcherFires ==
  /\ watcher = "waiting" /\ due
  /\ watcher' = "done"
  /\ IF Undecided THEN Latch(tracker, operation)
     ELSE UNCHANGED <<latched, tracker, cleanup, cleanupMode>>
  /\ EnvironmentStep
  /\ UNCHANGED <<readVars, due, outerCancel, outerCancels>>

-----------------------------------------------------------------------------
RunnerStep ==
  \/ Run \/ PublishResumes \/ AcceptResumes \/ RejectResumes \/ JoinResumes
  \/ TeardownJoined \/ FailureSelected \/ FailureJoined
  \/ StartIsCancelled \/ StartRefused \/ StartOperation
  \/ ReadIsCancelled \/ WakeExpired \/ WakeStopped \/ WakeReaped
  \/ WakeWithoutEvent \/ WakeWithEvent \/ RunnerReaps
  \/ SelectIsCancelled \/ SelectProviderDeadline

TransactionStep ==
  \/ BeginStarted \/ StartedWritten \/ DeferredApplied
  \/ RejectTransaction \/ TeardownTransaction
  \/ AcceptNothing \/ AcceptDelta \/ AcceptTextCompleted \/ AcceptUsage
  \/ AcceptOutcome \/ AcceptToolCall \/ DeltaWritten \/ UsageRecorded

FinalizationStep ==
  \/ FinalizerStarts \/ FinalizerStopsWatcher \/ FinalizerStartsCleanup
  \/ FinalizerJoinsCleanup \/ FinalizerReaps \/ FinalizerReports
  \/ TerminalBegins \/ SealWritten \/ TerminalWritten

CancellationStep(c) == CancelDecide(c) \/ CancelSelect(c) \/ CancelJoined(c)
TeardownStep == TeardownDecide \/ TeardownRequestJoined

Unanswered(request) == request \in {"waiting", "observing", "joining"}

(* Everything has come to rest. *)
Finished ==
  /\ RunEnded /\ FinalizerEnded
  /\ \A c \in Cancels : ~Unanswered(cancelReq[c])
  /\ ~Unanswered(teardownReq)
  /\ UNCHANGED vars

Next ==
  \/ RunnerStep \/ TransactionStep \/ FinalizationStep
  \/ \E c \in Cancels : RequestCancellation(c) \/ CancellationStep(c)
  \/ RequestTeardown \/ TeardownStep
  \/ ProviderYields \/ ReadAnswersCancel
  \/ CleanupReturns \/ GraceExpires \/ ForceReturns
  \/ Tick \/ WatcherFires \/ OuterCancel
  \/ Finished

Spec == Init /\ [][Next]_vars

(* The event loop runs every task that is ready, the clock advances, a     *)
(* write settles, a read that is cancelled ends, and so does a forced      *)
(* cleanup (the provider port's contract).  Nothing obliges the provider   *)
(* to answer a read or to finish a cleanup, nor anyone to request anything.*)
Fairness ==
  /\ WF_vars(RunnerStep) /\ WF_vars(TransactionStep) /\ WF_vars(FinalizationStep)
  /\ \A c \in Cancels : WF_vars(CancellationStep(c))
  /\ WF_vars(TeardownStep)
  /\ WF_vars(Tick) /\ WF_vars(WatcherFires)
  /\ WF_vars(GraceExpires) /\ WF_vars(ForceReturns) /\ WF_vars(ReadAnswersCancel)

FairSpec == Spec /\ Fairness

-----------------------------------------------------------------------------
(* Properties *)

RunnerPlaces ==
  {"created", "publishing", "starting", "reading", "accepting", "rejecting",
   "reaping", "selecting", "joining", "tearing", "failing", "fail_join",
   "returned", "cancelled", "raised"}
TxnPlaces == {"idle", "publish", "publishing", "deferring", "accept", "writing",
              "observing", "reject", "teardown", "settled", "raised"}
FinalizerPlaces ==
  {"none", "await_start", "stop_watcher", "start_cleanup", "join_cleanup", "reap",
   "report", "terminal", "sealing", "ending", "done", "raised"}
RequestPlaces ==
  {"idle", "waiting", "observing", "joining", "returned", "raised", "rejected"}
Answers == {"none", "accepted", "already_requested", "terminal"}

RunTypes ==
  /\ runner \in RunnerPlaces /\ txn \in TxnPlaces
  /\ outerCancel \in BOOLEAN /\ outerCancels \in 0 .. MaxOuterCancels
  /\ startSettled \in BOOLEAN /\ startedOk \in BOOLEAN

RequestTypes ==
  /\ cancelReq \in [Cancels -> RequestPlaces]
  /\ cancelResult \in [Cancels -> Answers]
  /\ teardownReq \in RequestPlaces /\ teardownResult \in Answers

WorkTypes ==
  /\ finalizer \in FinalizerPlaces
  /\ watcher \in {"none", "waiting", "done"}
  /\ operation \in BOOLEAN /\ due \in BOOLEAN
  /\ cleanup \in {"none", "waiting", "forcing", "clean", "failed"}
  /\ cleanupMode \in CleanupModes \cup {"none", "conflict"}
  /\ decisionLock \in {"free", "txn", "finalizer", "cancel"}

DecisionTypes ==
  /\ selection \in Outcomes \cup {NoSelection}
  /\ latched \in BOOLEAN
  /\ tracker \in Trackers
  /\ evidence \in Trackers \cup {None}
  /\ diagnosed \in BOOLEAN

ObservationTypes ==
  /\ read \in {"none", "waiting", "cancelling", "done", "reaped"}
  /\ result \in Results
  /\ readCleanupFailed \in BOOLEAN
  /\ text \in Seq(Fragments)
  /\ completedText \in Seq(Fragments) \cup {None}
  /\ usageObserved \in BOOLEAN

WireTypes ==
  /\ lifecycle \in SessionState
  /\ deferred \in Cancels \cup {None}
  /\ sequence \in Nat

TypeOK ==
  /\ RunTypes /\ RequestTypes /\ WorkTypes /\ DecisionTypes
  /\ ObservationTypes /\ WireTypes

(* The cleanup that the deadline begins, perhaps while an event is being   *)
(* published, and the one the finalizer of the outcome chosen afterwards   *)
(* asks for are the same: "provider cleanup mode changed after cleanup     *)
(* started" (provider_session.py:832) is never raised.                     *)
CleanupModeIsFinal == cleanupMode # "conflict"

(* Once expiry is latched, by whichever task, no other outcome can be      *)
(* selected, and the budget reported exhausted is provider work exactly    *)
(* when it was latched (lines 717-768: the deadline takes precedence).     *)
DeadlineWins ==
  /\ latched /\ ~Undecided => selection = DeadlineOutcome
  /\ latched <=> tracker.exhausted = "provider_work"

(* Every event written to the wire was accepted by the reducer, and no     *)
(* trusted fact was refused: the projection never falls behind what the    *)
(* user was shown, in any interleaving without a sink fault.               *)
ProjectionFollowsWire ==
  /\ lifecycle.last_sequence = sequence
  /\ \A c \in Cancels : cancelReq[c] # "rejected"

(* The text the session accepted from the provider is the text the reducer *)
(* accepted, whenever no delta is between the two, and it never exceeds    *)
(* what a confirmed completion said.                                       *)
AcceptedTextIsPublished ==
  /\ text = lifecycle.assistant_text
  /\ completedText # None => completedText = text

Ended == lifecycle.status \in TerminalStatuses

(* The terminal event, and the assistant.completed before it, come after   *)
(* everything the session started has stopped: the pending read, the       *)
(* deadline watcher and the provider's cleanup, which was asked for        *)
(* whenever an operation exists.                                           *)
TerminalAfterProviderStops ==
  Ended \/ lifecycle.assistant_completed \/ evidence # None =>
    /\ ~ReadInFlight
    /\ watcher # "waiting"
    /\ operation => cleanup \in {"clean", "failed"}

(* The terminal the user sees is the outcome that was selected, with the   *)
(* code and correlation selected for it; a teardown shows none.            *)
TerminalIsSelected ==
  Ended =>
    /\ selection.kind = lifecycle.status
    /\ lifecycle.session_failure = selection.code
    /\ selection.kind = "cancelled" =>
         lifecycle.cancel_command_id = selection.correlation

(* The limits evidence recorded beside a terminal is one the observer can  *)
(* build, and tells the story of that terminal: a limit failure names the  *)
(* exhausted budget and no other terminal names one                        *)
(* (_loop_limits_match_terminal, transcript.py:1308-1320); output was      *)
(* refused only for a fragment that did not fit what the record says was   *)
(* used (loop_limits.py:380); a failed cleanup was reported before it.     *)
EvidenceMatchesTerminal ==
  /\ evidence # None => evidence = tracker /\ ValidEvidence(evidence)
  /\ Ended =>
       /\ evidence # None
       /\ IF lifecycle.session_failure \in LimitFailureCodes
            THEN /\ evidence.exhausted \in Exhaustions
                 /\ LimitFailureCode(evidence.exhausted) = lifecycle.session_failure
                 /\ evidence.exhausted = "assistant_output" =>
                      \E f \in Fragments :
                        FragmentBytes[f] > MaxOutputBytes - evidence.bytes
            ELSE evidence.exhausted = Unexhausted
       /\ diagnosed <=> (cleanup = "failed" \/ readCleanupFailed)

(* The finalizer never raises while the sink works: a completion always    *)
(* has reconciled text, the limits always form a valid record, its events  *)
(* are accepted and the cleanup is in its mode (lines 832, 936, 992;       *)
(* loop_limits.py:191-237).                                                *)
FinalizerNeverFails == finalizer # "raised"

AllJoined ==
  /\ FinalizerEnded
  /\ ~ReadInFlight /\ ~CleanupInFlight
  /\ watcher # "waiting"
  /\ txn = "idle"

(* When run() is left, by a return or by an exception, nothing it started  *)
(* is still running: the finalizer, the read, the cleanup, the watcher and *)
(* its last transaction are joined (lines 353-374).                        *)
RunJoinsProviderWork == RunEnded => AllJoined

(* "CancelledError: After outer cancellation has stopped and joined        *)
(* provider work" (provider_session.py:338).                               *)
OuterCancelJoinsProviderWork == runner = "cancelled" => AllJoined

(* A request's answer is about the outcome that was really selected: at    *)
(* most one cancellation wins and the session then ends cancelled by it;   *)
(* a repeated one is told so only if some cancellation did win.            *)
RequestsAnsweredTruly ==
  /\ \A c \in Cancels :
       /\ cancelResult[c] = "accepted" => selection = CancelledBy(c)
       /\ cancelResult[c] = "already_requested" => selection.kind = "cancelled"
       /\ cancelResult[c] = "terminal" => selection.kind \notin {"none", "cancelled"}
       /\ cancelReq[c] = "returned" /\ cancelResult[c] = "accepted" /\ FinalizerEnded =>
            Ended /\ lifecycle.cancel_command_id = c
  /\ teardownResult \in {"accepted", "already_requested"} => selection.kind = "teardown"
  /\ teardownResult = "terminal" => selection.kind \notin {"none", "teardown"}

(* Once an outcome is selected it stands, no more text is published, no    *)
(* provider operation is started and no budget is charged, although reads  *)
(* and transactions may still be under way.                                *)
NothingAfterSelection ==
  [][~Undecided =>
       /\ selection' = selection
       /\ lifecycle'.assistant_text = lifecycle.assistant_text
       /\ operation' = operation
       /\ tracker' = tracker]_vars

(* run() ends although the provider may never answer and never finish its  *)
(* cleanup: the deadline and the cleanup grace see to it.                  *)
RunEnds == (runner # "created") ~> RunEnded

(* Every request is answered, whatever else competes for the decision.     *)
RequestsAnswered ==
  /\ \A c \in Cancels : (cancelReq[c] = "waiting") ~> ~Unanswered(cancelReq[c])
  /\ (teardownReq = "waiting") ~> ~Unanswered(teardownReq)

(* A session whose start was published ends with a terminal event, unless  *)
(* it is torn down; one whose cancellation was accepted ends cancelled.    *)
TerminalReached ==
  /\ startedOk ~> (Ended \/ selection.kind = "teardown")
  /\ \A c \in Cancels :
       (cancelResult[c] = "accepted" /\ runner # "created") ~>
         (lifecycle.status = "cancelled" /\ lifecycle.cancel_command_id = c)

(* The detailed session implements what every session promises: the        *)
(* reducer's state is the refinement mapping.                              *)
Contract == INSTANCE SessionContract
  WITH status <- lifecycle.status,
       said <- lifecycle.assistant_text,
       sealed <- lifecycle.assistant_completed
KeepsContract == Contract!Spec

(* The session as the command loop sees it: every step of it is a few of   *)
(* the moves RuntimeLoop's sessions make.  One cancelled keeps its mark    *)
(* until its teardown is joined.                                           *)
View == INSTANCE SessionView
ShownStatus ==
  IF sequence = 0 THEN "nothing" ELSE IF Ended THEN lifecycle.status ELSE "running"
Settlement == IF FinalizerEnded THEN finalizer ELSE "no"
TaskState ==
  CASE runner \in {"returned", "cancelled"} -> runner
    [] runner = "raised" -> "failed"
    [] runner \in {"failing", "fail_join"} -> "failing"
    [] OTHER -> "running"
Interruption == IF outerCancel \/ runner = "tearing" THEN "pending" ELSE "none"
Seen == View!Sight(ShownStatus, selection.kind, Settlement, TaskState, Interruption)

(* KeepsView: whatever the sink, the provider and run()'s owner do, all    *)
(* that can be seen of run(), its finalizer and the requests is what       *)
(* RuntimeLoop's sessions may do: no outcome shown but the selected one,   *)
(* no return before its finalizer is over, and no end by a cancellation    *)
(* before that either, unless it was failing already.                      *)
KeepsView ==
  Seen = View!Born /\ [][View!InAFewMoves("provider", Seen, Seen')]_Seen
=============================================================================
