------------------------ MODULE ProviderSessionProofs ------------------------
(***************************************************************************)
(* The safety of ProviderSession, for any number of competing requests,    *)
(* any provider and any clock: one outcome is decided, the deadline first  *)
(* of all; what the user is shown is what was decided, after everything    *)
(* the session started has stopped.                                        *)
(*                                                                         *)
(* First the decision and the types; then an invariant that is a           *)
(* conjunction of parts.  Each is proved from the ones before it, so that  *)
(* a step is examined once for each thing it can disturb: who holds the    *)
(* lock and where the start is; what work runs; the text; how the          *)
(* reducer's status follows the decision; the budgets; how run() is left;  *)
(* what the requests are told; what the command loop sees.                 *)
(***************************************************************************)
EXTENDS ProviderSession, SessionLifecycleProofs, TLAPS

(* What connects the decision to the cleanup.  CleanupModeIsFinal is not   *)
(* inductive: that a finalizer finds a running cleanup in its own mode     *)
(* depends on who may begin one before an outcome is selected (only the    *)
(* deadline), and on no other outcome being selected after that.           *)
ChoiceTypes ==
  /\ selection \in Outcomes \cup {NoSelection}
  /\ latched \in BOOLEAN
  /\ tracker \in Trackers
  /\ result.kind = "delta" => \E f \in Fragments : result.text = <<f>>

BudgetAgrees ==
  /\ latched <=> tracker.exhausted = "provider_work"
  /\ Undecided => tracker.exhausted \in {Unexhausted, "provider_work"}
  /\ latched /\ ~Undecided => selection = DeadlineOutcome

CleanupAgrees ==
  /\ cleanup = "none" => cleanupMode = "none"
  /\ cleanup # "none" /\ Undecided => latched /\ cleanupMode = "cancel"
  /\ cleanup # "none" /\ ~Undecided => cleanupMode = selection.mode

DecisionInv ==
  /\ ChoiceTypes
  /\ BudgetAgrees
  /\ CleanupAgrees
  /\ Undecided <=> finalizer = "none"

-----------------------------------------------------------------------------
(* Every outcome is a decision, and is cleaned up in one of the two modes. *)
LEMMA OutcomesDecide ==
  \A o \in Outcomes : o # NoSelection /\ o.mode \in CleanupModes
PROOF
  BY DEF Outcomes, Outcome, NoSelection, CleanupModes, Completed, ProviderReported,
         FailedWith, CancelledBy, Teardown

(* The outcome of an expired deadline is one of them, cleaned up by a      *)
(* cancellation.                                                           *)
LEMMA DeadlineOutcomeIsFailure ==
  DeadlineOutcome \in Outcomes /\ DeadlineOutcome.mode = "cancel"
PROOF
  <1>1. "provider_work" \in Exhaustions
    BY DEF Exhaustions
  <1>2. LimitFailureCode("provider_work") \in SessionCodes
    BY <1>1 DEF SessionCodes, LimitFailureCodes
  <1> QED
    BY <1>2 DEF DeadlineOutcome, FailedWith, Outcome, Outcomes

(* No mode an outcome carries is the mark of a conflict. *)
LEMMA AgreementExcludesConflict == DecisionInv => DeadlineWins /\ CleanupModeIsFinal
PROOF
  <1> SUFFICES ASSUME DecisionInv PROVE DeadlineWins /\ CleanupModeIsFinal
    OBVIOUS
  <1>1. DeadlineWins
    BY DEF DecisionInv, BudgetAgrees, DeadlineWins
  <1>2. CleanupModeIsFinal
    BY OutcomesDecide
    DEF DecisionInv, ChoiceTypes, CleanupAgrees, CleanupModes, CleanupModeIsFinal,
        Undecided
  <1> QED
    BY <1>1, <1>2

(* Marking provider work exhausted an unspent tracker does just that. *)
LEMMA MarkExhausts ==
  ASSUME NEW t \in Trackers, t.exhausted = Unexhausted
  PROVE  /\ MarkProviderWorkExhausted(t) \in Trackers
         /\ MarkProviderWorkExhausted(t).exhausted = "provider_work"
PROOF
  BY DEF Trackers, MarkProviderWorkExhausted, Spent, Exhaustions, Unexhausted

(* Latching before an outcome is selected begins, at most, the cleanup     *)
(* that the deadline's own outcome will ask for.                           *)
LEMMA LatchKeepsDecision ==
  ASSUME DecisionInv, Undecided,
         NEW t \in Trackers, t.exhausted = tracker.exhausted,
         NEW started, Latch(t, started)
  PROVE  /\ latched' /\ tracker' \in Trackers
         /\ tracker'.exhausted = "provider_work"
         /\ cleanup' = "none" => cleanupMode' = "none"
         /\ cleanup' # "none" => cleanupMode' = "cancel"
PROOF
  <1>1. latched' /\ tracker' \in Trackers /\ tracker'.exhausted = "provider_work"
    BY MarkExhausts DEF Latch, DecisionInv, ChoiceTypes, BudgetAgrees
  <1>2. /\ cleanup' = "none" => cleanupMode' = "none"
        /\ cleanup' # "none" => cleanupMode' = "cancel"
    BY DEF Latch, EnsureCleanup, DecisionInv, CleanupAgrees
  <1> QED
    BY <1>1, <1>2

(* Selecting the deadline while undecided latches, charges and begins the  *)
(* cleanup that DeadlineOutcome asks for (_select_deadline_if_due_locked). *)
LEMMA ChooseDeadlineKeepsDecision ==
  ASSUME DecisionInv, Undecided, UNCHANGED result,
         NEW t \in Trackers, t.exhausted = tracker.exhausted,
         NEW started, ChooseDeadline(t, started)
  PROVE  DecisionInv'
PROOF
  <1>1. selection' = DeadlineOutcome /\ finalizer' # "none"
    BY DEF ChooseDeadline, Choose
  <1>2. ~Undecided'
    BY <1>1, OutcomesDecide, DeadlineOutcomeIsFailure DEF Undecided
  <1>3. /\ latched' /\ tracker' \in Trackers
        /\ tracker'.exhausted = "provider_work"
        /\ cleanup' = "none" => cleanupMode' = "none"
        /\ cleanup' # "none" => cleanupMode' = "cancel"
    BY LatchKeepsDecision DEF ChooseDeadline
  <1>4. ChoiceTypes'
    BY <1>1, <1>3, DeadlineOutcomeIsFailure DEF DecisionInv, ChoiceTypes
  <1> QED
    BY <1>1, <1>2, <1>3, <1>4, DeadlineOutcomeIsFailure
    DEF DecisionInv, BudgetAgrees, CleanupAgrees

(* Selecting any other outcome before the deadline leaves the latch and    *)
(* the cleanup alone, so the two still agree (_select_locked).             *)
LEMMA ChooseChargingKeepsDecision ==
  ASSUME DecisionInv, Undecided, ~latched, UNCHANGED result,
         NEW o \in Outcomes, NEW t \in Trackers, t.exhausted # "provider_work",
         ChooseCharging(o, t)
  PROVE  DecisionInv'
PROOF
  <1>1. selection' = o /\ finalizer' # "none"
    BY DEF ChooseCharging, Choose
  <1>2. ~Undecided'
    BY <1>1, OutcomesDecide DEF Undecided
  <1>3. UNCHANGED <<latched, cleanup, cleanupMode>> /\ tracker' = t
    BY DEF ChooseCharging
  <1>4. cleanup = "none" /\ cleanupMode = "none"
    BY DEF DecisionInv, CleanupAgrees
  <1> QED
    BY <1>1, <1>2, <1>3, <1>4 DEF DecisionInv, ChoiceTypes, BudgetAgrees, CleanupAgrees

(* A transaction that selects under the decision lock keeps them together, *)
(* whichever outcome it proposes.                                          *)
LEMMA SelectCandidateKeepsDecision ==
  ASSUME DecisionInv, UNCHANGED result,
         NEW o \in Outcomes, SelectCandidate(o)
  PROVE  DecisionInv'
PROOF
  <1>1. CASE ~Undecided
    BY <1>1 DEF SelectCandidate, decisionVars, DecisionInv, ChoiceTypes,
                BudgetAgrees, CleanupAgrees, Undecided
  <1>2. CASE Undecided /\ Expired
    BY <1>2, ChooseDeadlineKeepsDecision DEF SelectCandidate, DecisionInv, ChoiceTypes
  <1>3. CASE Undecided /\ ~Expired
    <2>1. ~latched /\ tracker.exhausted # "provider_work" /\ tracker \in Trackers
      BY <1>3 DEF Expired, DecisionInv, ChoiceTypes, BudgetAgrees
    <2> QED
      BY <1>3, <2>1, ChooseChargingKeepsDecision DEF SelectCandidate
  <1> QED
    BY <1>1, <1>2, <1>3

(* Steps that leave the decision and the observation alone keep the        *)
(* invariant; so do those of the finalizer that only move it on.           *)
LEMMA UndisturbedDecision ==
  ASSUME DecisionInv, UNCHANGED <<selection, latched, tracker, result>>,
         finalizer' = "none" <=> finalizer = "none",
         UNCHANGED <<cleanup, cleanupMode>>
           \/ (cleanup # "none" /\ cleanup' # "none" /\ cleanupMode' = cleanupMode)
  PROVE  DecisionInv'
PROOF
  BY DEF DecisionInv, ChoiceTypes, BudgetAgrees, CleanupAgrees, Undecided

(* The constructor: nothing selected, nothing latched, an unspent tracker. *)
LEMMA InitDecision == Init => DecisionInv
PROOF
  <1> SUFFICES ASSUME Init PROVE DecisionInv
    OBVIOUS
  <1>1. tracker \in Trackers /\ tracker.exhausted = Unexhausted
    BY SessionAssumption DEF Init, Spent
  <1>2. result.kind # "delta"
    BY DEF Init, NoResult, Observed
  <1> QED
    BY <1>1, <1>2
    DEF Init, DecisionInv, ChoiceTypes, BudgetAgrees, CleanupAgrees, Undecided,
        Unexhausted

(* run() and its handlers select nothing, but for starting the provider    *)
(* and for the deadline.                                                   *)
LEMMA RunnerKeepsDecision == DecisionInv /\ RunnerStep => DecisionInv'
PROOF
  <1> SUFFICES ASSUME DecisionInv, RunnerStep PROVE DecisionInv'
    OBVIOUS
  <1> DEFINE Quiet == UNCHANGED <<decisionVars, result>>
  <1>1. CASE Quiet
    BY <1>1, UndisturbedDecision DEF decisionVars
  <1>2. CASE Run
    BY <1>1, <1>2 DEF Run, readVars
  <1>3. CASE PublishResumes
    BY <1>1, <1>3 DEF PublishResumes, ResumeFrom, readVars
  <1>4. CASE AcceptResumes
    BY <1>1, <1>4 DEF AcceptResumes, ResumeFrom, readVars
  <1>5. CASE RejectResumes
    BY <1>1, <1>5 DEF RejectResumes, ResumeFrom, readVars
  <1>6. CASE JoinResumes
    BY <1>1, <1>6 DEF JoinResumes, readVars
  <1>7. CASE TeardownJoined \/ FailureSelected \/ FailureJoined
    BY <1>1, <1>7 DEF TeardownJoined, FailureSelected, FailureJoined, Leave, readVars
  <1>8. CASE StartIsCancelled \/ ReadIsCancelled \/ SelectIsCancelled
    BY <1>1, <1>8 DEF StartIsCancelled, ReadIsCancelled, SelectIsCancelled, readVars
  <1>9. CASE StartRefused
    <2>1. CASE UNCHANGED decisionVars
      BY <1>1, <1>9, <2>1 DEF StartRefused, readVars
    <2>2. CASE Undecided /\ ChooseDeadline(tracker, operation)
      BY <1>9, <2>2, ChooseDeadlineKeepsDecision
      DEF StartRefused, readVars, DecisionInv, ChoiceTypes
    <2>3. CASE /\ Undecided /\ ~Expired
               /\ ~AdmitModelTurn(tracker).granted
               /\ ChooseCharging(FailedWith(LimitFailureCode("model_turns")),
                                 AdmitModelTurn(tracker).tracker)
      <3>1. ~latched /\ tracker.exhausted # "provider_work" /\ tracker \in Trackers
        BY <2>3 DEF Expired, DecisionInv, ChoiceTypes, BudgetAgrees
      <3>2. /\ AdmitModelTurn(tracker).tracker \in Trackers
            /\ AdmitModelTurn(tracker).tracker.exhausted # "provider_work"
        BY <3>1, LimitsAssumption
        DEF AdmitModelTurn, Spent, Granted, Refused, Trackers, Exhaustions, Unexhausted
      <3>3. FailedWith(LimitFailureCode("model_turns")) \in Outcomes
        BY DEF Outcomes, SessionCodes, LimitFailureCodes, Exhaustions
      <3> QED
        BY <1>9, <2>3, <3>1, <3>2, <3>3, ChooseChargingKeepsDecision
        DEF StartRefused, readVars
    <2> QED
      BY <1>9, <2>1, <2>2, <2>3 DEF StartRefused
  <1>10. CASE StartOperation
    <2>1. ~latched /\ tracker.exhausted = Unexhausted /\ tracker \in Trackers /\ Undecided
      BY <1>10 DEF StartOperation, Expired, DecisionInv, ChoiceTypes, BudgetAgrees
    <2> DEFINE charged == AdmitModelTurn(tracker).tracker
    <2>2. charged \in Trackers /\ charged.exhausted = tracker.exhausted
      BY <1>10, <2>1
      DEF StartOperation, AdmitModelTurn, Spent, Granted, Refused, Trackers,
          Exhaustions, Unexhausted
    <2>3. UNCHANGED result
      BY <1>10 DEF StartOperation
    <2>4. ASSUME NEW started, ChooseDeadline(charged, started) PROVE DecisionInv'
      BY <2>1, <2>2, <2>3, <2>4, ChooseDeadlineKeepsDecision
    <2>5. CASE ChooseCharging(FailedWith(InvalidResponse), charged)
      <3>1. FailedWith(InvalidResponse) \in Outcomes
        BY DEF Outcomes, SessionCodes
      <3> QED
        BY <2>1, <2>2, <2>3, <2>5, <3>1, ChooseChargingKeepsDecision
        DEF Unexhausted
    <2>6. CASE /\ tracker' = charged
               /\ UNCHANGED <<selection, finalizer, latched, cleanup, cleanupMode>>
      BY <2>1, <2>2, <2>3, <2>6
      DEF DecisionInv, ChoiceTypes, BudgetAgrees, CleanupAgrees, Undecided
    <2> QED
      BY <1>10, <2>4, <2>5, <2>6 DEF StartOperation
  <1>11. CASE \/ WakeExpired \/ WakeStopped \/ WakeReaped
              \/ WakeWithoutEvent \/ WakeWithEvent
    BY <1>1, <1>11
    DEF WakeExpired, WakeStopped, WakeReaped, WakeWithoutEvent, WakeWithEvent, ReadWakes
  <1>12. CASE RunnerReaps
    BY <1>1, <1>12 DEF RunnerReaps, ReapRead
  <1>13. CASE SelectProviderDeadline
    <2>1. CASE Undecided
      BY <1>13, <2>1, ChooseDeadlineKeepsDecision
      DEF SelectProviderDeadline, readVars, DecisionInv, ChoiceTypes
    <2>2. CASE ~Undecided
      BY <1>1, <1>13, <2>2 DEF SelectProviderDeadline, readVars
    <2> QED
      BY <2>1, <2>2
  <1> QED
    BY <1>2, <1>3, <1>4, <1>5, <1>6, <1>7, <1>8, <1>9, <1>10, <1>11, <1>12, <1>13
    DEF RunnerStep

(* SelectDeadlineIfDue, called where an accepted event may have outlived   *)
(* the deadline.                                                           *)
LEMMA SelectDeadlineKeepsDecision ==
  ASSUME DecisionInv, UNCHANGED result, SelectDeadlineIfDue
  PROVE  DecisionInv'
PROOF
  <1>1. CASE UNCHANGED decisionVars
    BY <1>1, UndisturbedDecision DEF decisionVars
  <1>2. CASE Undecided /\ ChooseDeadline(tracker, operation)
    BY <1>2, ChooseDeadlineKeepsDecision DEF DecisionInv, ChoiceTypes
  <1> QED
    BY <1>1, <1>2 DEF SelectDeadlineIfDue

(* While nothing is decided and the deadline has not passed, a budget may  *)
(* be charged, and its refusal selects a failure that names it.            *)
LEMMA AdmittingBudget ==
  ASSUME DecisionInv, Undecided, ~Expired
  PROVE  /\ ~latched /\ tracker \in Trackers /\ tracker.exhausted = Unexhausted
         /\ Unexhausted # "provider_work"
PROOF
  BY DEF Expired, DecisionInv, ChoiceTypes, BudgetAgrees, Unexhausted

(* The outcomes an accepted observation can select. *)
LEMMA ObservationOutcomes ==
  /\ Completed \in Outcomes /\ ProviderReported \in Outcomes /\ Teardown \in Outcomes
  /\ FailedWith(InvalidResponse) \in Outcomes
  /\ FailedWith(ToolUnavailable) \in Outcomes
  /\ FailedWith(LimitFailureCode("assistant_output")) \in Outcomes
  /\ FailedWith(LimitFailureCode("tool_calls")) \in Outcomes
  /\ \A c \in Cancels : CancelledBy(c) \in Outcomes
PROOF
  BY DEF Outcomes, SessionCodes, LimitFailureCodes, Exhaustions, Cancels

(* A delta is charged before it is written; its refusal selects the output *)
(* limit (lines 552-566).                                                  *)
LEMMA AcceptDeltaKeepsDecision == DecisionInv /\ AcceptDelta => DecisionInv'
PROOF
  <1> SUFFICES ASSUME DecisionInv, AcceptDelta PROVE DecisionInv'
    OBVIOUS
  <1>1. Undecided /\ ~Expired /\ UNCHANGED result
    BY DEF AcceptDelta, Admitting, Accepting, readVars
  <1>2. ~latched /\ tracker \in Trackers /\ tracker.exhausted = Unexhausted
        /\ Unexhausted # "provider_work"
    BY <1>1, AdmittingBudget
  <1> DEFINE bytes == FragmentBytes[result.text[1]]
             reserved == ReserveAssistantOutput(tracker, bytes)
  <1>3. bytes \in Nat
    <2>1. PICK f \in Fragments : result.text = <<f>>
      BY DEF AcceptDelta, Admitting, DecisionInv, ChoiceTypes
    <2> QED
      BY <2>1, SessionAssumption
  <1>4. reserved.tracker \in Trackers /\ reserved.tracker.exhausted # "provider_work"
        /\ (reserved.granted => reserved.tracker.exhausted = Unexhausted)
    BY <1>2, <1>3, LimitsAssumption
    DEF ReserveAssistantOutput, Spent, Granted, Refused, Trackers, Exhaustions, Unexhausted
  <1>5. CASE reserved.granted
    BY <1>1, <1>2, <1>4, <1>5
    DEF AcceptDelta, DecisionInv, ChoiceTypes, BudgetAgrees, CleanupAgrees, Undecided
  <1>6. CASE ~reserved.granted
    BY <1>1, <1>2, <1>4, <1>6, ObservationOutcomes, ChooseChargingKeepsDecision
    DEF AcceptDelta
  <1> QED
    BY <1>5, <1>6

(* A tool call is counted and always ends the session (lines 633-661).     *)
LEMMA AcceptToolCallKeepsDecision == DecisionInv /\ AcceptToolCall => DecisionInv'
PROOF
  <1> SUFFICES ASSUME DecisionInv, AcceptToolCall PROVE DecisionInv'
    OBVIOUS
  <1>1. Undecided /\ ~Expired /\ UNCHANGED result
    BY DEF AcceptToolCall, Admitting, Accepting, readVars
  <1>2. ~latched /\ tracker \in Trackers /\ tracker.exhausted = Unexhausted
        /\ Unexhausted # "provider_work"
    BY <1>1, AdmittingBudget
  <1> DEFINE observed == ObserveToolCall(tracker)
  <1>3. observed.tracker \in Trackers /\ observed.tracker.exhausted # "provider_work"
    <2> DEFINE counted == [tracker EXCEPT !.tools = @ + 1]
    <2>1. counted \in Trackers /\ counted.exhausted = Unexhausted
      BY <1>2 DEF Trackers
    <2>2. [counted EXCEPT !.exhausted = "tool_calls"] \in Trackers
      BY <2>1 DEF Trackers, Exhaustions
    <2>3. observed.tracker \in {counted, [counted EXCEPT !.exhausted = "tool_calls"]}
      BY <1>2 DEF ObserveToolCall, Spent, Granted, Refused
    <2>4. [counted EXCEPT !.exhausted = "tool_calls"].exhausted = "tool_calls"
      BY <2>1 DEF Trackers
    <2> HIDE DEF counted, observed
    <2> QED
      BY <1>2, <2>1, <2>2, <2>3, <2>4
  <1>4. PICK o \in Outcomes : ChooseCharging(o, observed.tracker)
    BY ObservationOutcomes DEF AcceptToolCall
  <1> QED
    BY <1>1, <1>2, <1>3, <1>4, ChooseChargingKeepsDecision

(* The transactions of run(): a start, an observation, a rejection or a    *)
(* teardown.                                                               *)
LEMMA TransactionKeepsDecision == DecisionInv /\ TransactionStep => DecisionInv'
PROOF
  <1> SUFFICES ASSUME DecisionInv, TransactionStep PROVE DecisionInv'
    OBVIOUS
  <1>1. CASE UNCHANGED <<decisionVars, result>>
    BY <1>1, UndisturbedDecision DEF decisionVars
  <1>2. CASE BeginStarted \/ StartedWritten \/ DeferredApplied
    BY <1>1, <1>2 DEF BeginStarted, StartedWritten, DeferredApplied, readVars
  <1>3. CASE RejectTransaction \/ TeardownTransaction
    BY <1>3, SelectCandidateKeepsDecision, ObservationOutcomes
    DEF RejectTransaction, TeardownTransaction, readVars
  <1>4. CASE AcceptNothing
    <2>1. UNCHANGED result
      BY <1>4 DEF AcceptNothing, Accepting, readVars
    <2>2. CASE UNCHANGED decisionVars
      BY <1>1, <2>1, <2>2
    <2>3. CASE Undecided /\ ChooseDeadline(tracker, operation)
      BY <2>1, <2>3, ChooseDeadlineKeepsDecision DEF DecisionInv, ChoiceTypes
    <2>4. CASE /\ Undecided /\ ~Expired
               /\ ChooseCharging(FailedWith(InvalidResponse), tracker)
      BY <2>1, <2>4, AdmittingBudget, ObservationOutcomes, ChooseChargingKeepsDecision
    <2> QED
      BY <1>4, <2>2, <2>3, <2>4 DEF AcceptNothing
  <1>5. CASE AcceptDelta
    BY <1>5, AcceptDeltaKeepsDecision
  <1>6. CASE AcceptTextCompleted \/ AcceptUsage
    BY <1>1, <1>6 DEF AcceptTextCompleted, AcceptUsage, Admitting, Accepting, readVars
  <1>7. CASE AcceptOutcome
    <2>1. UNCHANGED result /\ Undecided /\ ~Expired
      BY <1>7 DEF AcceptOutcome, Admitting, Accepting, readVars
    <2>2. PICK o \in Outcomes : ChooseCharging(o, tracker)
      BY <1>7, ObservationOutcomes DEF AcceptOutcome
    <2> QED
      BY <2>1, <2>2, AdmittingBudget, ChooseChargingKeepsDecision
  <1>8. CASE AcceptToolCall
    BY <1>8, AcceptToolCallKeepsDecision
  <1>9. CASE DeltaWritten
    BY <1>1, <1>9, SelectDeadlineKeepsDecision DEF DeltaWritten, readVars
  <1>10. CASE UsageRecorded
    BY <1>10, SelectDeadlineKeepsDecision DEF UsageRecorded, readVars
  <1> QED
    BY <1>2, <1>3, <1>4, <1>5, <1>6, <1>7, <1>8, <1>9, <1>10 DEF TransactionStep

(* The finalizer may begin the cleanup: its selection is made, so a        *)
(* cleanup that already runs has its mode.                                 *)
LEMMA FinalizationKeepsDecision == DecisionInv /\ FinalizationStep => DecisionInv'
PROOF
  <1> SUFFICES ASSUME DecisionInv, FinalizationStep PROVE DecisionInv'
    OBVIOUS
  <1>1. UNCHANGED <<selection, latched, tracker>>
    BY DEF FinalizationStep, FinalizerStarts, FinalizerStopsWatcher,
           FinalizerStartsCleanup, FinalizerJoinsCleanup, FinalizerReaps,
           FinalizerReports, TerminalBegins, SealWritten, TerminalWritten, FinalizerStep
  <1>2. UNCHANGED result
    BY DEF FinalizationStep, FinalizerStarts, FinalizerStopsWatcher,
           FinalizerStartsCleanup, FinalizerJoinsCleanup, FinalizerReaps,
           FinalizerReports, TerminalBegins, SealWritten, TerminalWritten, readVars,
           ReapRead
  <1>3. finalizer # "none" /\ finalizer' # "none"
    BY DEF FinalizationStep, FinalizerStarts, FinalizerStopsWatcher,
           FinalizerStartsCleanup, FinalizerJoinsCleanup, FinalizerReaps,
           FinalizerReports, TerminalBegins, SealWritten, TerminalWritten,
           AfterCleanup, ReportLimits
  <1>4. CASE FinalizerStartsCleanup
    <2>1. ~Undecided /\ selection.mode \in CleanupModes
      BY <1>3, OutcomesDecide DEF DecisionInv, ChoiceTypes, Undecided
    <2>2. CASE operation
      <3>1. cleanup' # "none" /\ cleanupMode' = selection.mode
        BY <1>4, <2>1, <2>2 DEF FinalizerStartsCleanup, EnsureCleanup, DecisionInv,
                                CleanupAgrees
      <3> QED
        BY <1>1, <1>2, <1>3, <2>1, <3>1
        DEF DecisionInv, ChoiceTypes, BudgetAgrees, CleanupAgrees, Undecided
    <2>3. CASE ~operation
      BY <1>1, <1>2, <1>3, <1>4, <2>3, UndisturbedDecision DEF FinalizerStartsCleanup
    <2> QED
      BY <2>2, <2>3
  <1>5. CASE UNCHANGED <<cleanup, cleanupMode>>
    BY <1>1, <1>2, <1>3, <1>5, UndisturbedDecision
  <1> QED
    BY <1>4, <1>5
    DEF FinalizationStep, FinalizerStarts, FinalizerStopsWatcher, FinalizerJoinsCleanup,
        FinalizerReaps, FinalizerReports, TerminalBegins, SealWritten, TerminalWritten

(* A request offers a cancellation or a teardown; the deadline may win it. *)
LEMMA RequestKeepsDecision ==
  ASSUME DecisionInv,
         \/ \E c \in Cancels : RequestCancellation(c) \/ CancellationStep(c)
         \/ RequestTeardown \/ TeardownStep
  PROVE  DecisionInv'
PROOF
  <1>1. CASE UNCHANGED <<decisionVars, result>>
    BY <1>1, UndisturbedDecision DEF decisionVars
  <1>2. UNCHANGED result
    BY DEF RequestCancellation, CancellationStep, CancelDecide, CancelSelect,
           CancelJoined, RequestTeardown, TeardownStep, TeardownDecide,
           TeardownRequestJoined, RequestStep, readVars
  <1>3. ASSUME NEW o \in Outcomes, SelectCandidate(o) PROVE DecisionInv'
    BY <1>2, <1>3, SelectCandidateKeepsDecision
  <1>4. ASSUME NEW c \in Cancels, RequestCancellation(c) \/ CancellationStep(c)
        PROVE  DecisionInv'
    BY <1>1, <1>2, <1>3, <1>4, ObservationOutcomes
    DEF RequestCancellation, CancellationStep, CancelDecide, CancelSelect, CancelJoined
  <1>5. CASE RequestTeardown \/ TeardownStep
    BY <1>1, <1>2, <1>3, <1>5, ObservationOutcomes
    DEF RequestTeardown, TeardownStep, TeardownDecide, TeardownRequestJoined
  <1> QED
    BY <1>4, <1>5

(* The provider's observations are well formed, the clock selects nothing, *)
(* and the watcher may begin the deadline's cleanup before any selection.  *)
LEMMA EnvironmentKeepsDecision ==
  ASSUME DecisionInv,
         \/ ProviderYields \/ ReadAnswersCancel \/ Tick \/ OuterCancel
         \/ CleanupReturns \/ GraceExpires \/ ForceReturns
         \/ WatcherFires \/ Finished
  PROVE  DecisionInv'
PROOF
  <1>1. CASE ProviderYields \/ ReadAnswersCancel
    <2>1. UNCHANGED <<selection, finalizer, latched, tracker, cleanup, cleanupMode>>
      BY <1>1 DEF ProviderYields, ReadAnswersCancel, EnvironmentStep
    <2>2. result'.kind = "delta" => \E f \in Fragments : result'.text = <<f>>
      BY <1>1
      DEF ProviderYields, ReadAnswersCancel, ProviderAnswers, Observed, Stopped,
          ReadCancelled, ReadError
    <2> QED
      BY <2>1, <2>2
      DEF DecisionInv, ChoiceTypes, BudgetAgrees, CleanupAgrees, Undecided
  <1>2. CASE CleanupReturns \/ GraceExpires \/ ForceReturns
    BY <1>2, UndisturbedDecision
    DEF CleanupReturns, GraceExpires, ForceReturns, CleanupStep, EnvironmentStep, readVars
  <1>3. CASE Tick \/ OuterCancel \/ Finished
    BY <1>3, UndisturbedDecision
    DEF Tick, OuterCancel, Finished, EnvironmentStep, readVars, vars, decisionVars
  <1>4. CASE WatcherFires
    <2>1. UNCHANGED <<selection, finalizer, result>>
      BY <1>4 DEF WatcherFires, EnvironmentStep, readVars
    <2>2. CASE Undecided
      <3>1. Latch(tracker, operation)
        BY <1>4, <2>2 DEF WatcherFires
      <3>2. /\ latched' /\ tracker' \in Trackers
            /\ tracker'.exhausted = "provider_work"
            /\ cleanup' = "none" => cleanupMode' = "none"
            /\ cleanup' # "none" => cleanupMode' = "cancel"
        BY <2>2, <3>1, LatchKeepsDecision DEF DecisionInv, ChoiceTypes
      <3> QED
        BY <2>1, <2>2, <3>1, <3>2
        DEF Latch, DecisionInv, ChoiceTypes, BudgetAgrees, CleanupAgrees, Undecided
    <2>3. CASE ~Undecided
      BY <1>4, <2>1, <2>3, UndisturbedDecision DEF WatcherFires
    <2> QED
      BY <2>2, <2>3
  <1> QED
    BY <1>1, <1>2, <1>3, <1>4

(* The invariant the theorems below rest on.                               *)
THEOREM DecisionInvariant == Spec => []DecisionInv
PROOF
  <1>1. Init => DecisionInv
    BY InitDecision
  <1>2. DecisionInv /\ [Next]_vars => DecisionInv'
    <2> SUFFICES ASSUME DecisionInv, [Next]_vars PROVE DecisionInv'
      OBVIOUS
    <2>1. CASE UNCHANGED vars
      BY <2>1, UndisturbedDecision DEF vars, decisionVars, readVars
    <2>2. CASE Next
      BY <2>2, RunnerKeepsDecision, TransactionKeepsDecision, FinalizationKeepsDecision,
         RequestKeepsDecision, EnvironmentKeepsDecision
      DEF Next
    <2> QED
      BY <2>1, <2>2
  <1> QED
    BY <1>1, <1>2, PTL DEF Spec

(* Whoever notices it first, a deadline that is latched before anything is *)
(* selected decides the session (DeadlineWins), for every interleaving of  *)
(* any number of cancellations, any budgets and any sink.                  *)
THEOREM DeadlineTakesPrecedence == Spec => []DeadlineWins
PROOF
  BY DecisionInvariant, AgreementExcludesConflict, PTL

(* _ensure_provider_cleanup never raises "provider cleanup mode changed    *)
(* after cleanup started" (CleanupModeIsFinal; provider_session.py:832).   *)
THEOREM CleanupModeNeverChanges == Spec => []CleanupModeIsFinal
PROOF
  BY DecisionInvariant, AgreementExcludesConflict, PTL

-----------------------------------------------------------------------------
(* Type correctness, one part of TypeOK at a time.                         *)

(* The places of run() and its transaction, and the start they settle.     *)
LEMMA RunTypesStep == RunTypes /\ [Next]_vars => RunTypes'
PROOF
  <1> SUFFICES ASSUME RunTypes, [Next]_vars PROVE RunTypes'
    OBVIOUS
  <1> USE DEF RunTypes, RunnerPlaces, TxnPlaces
  <1>1. CASE UNCHANGED <<runVars, startSettled, startedOk, outerCancels>>
    BY <1>1 DEF runVars
  <1>2. CASE RunnerStep
    <2>1. CASE Run
      BY <2>1 DEF Run, startVars
    <2>2. CASE PublishResumes
      BY <2>2 DEF PublishResumes, ResumeFrom, RunRaised, RunCancelled, EnterHandler,
                  startVars
    <2>3. CASE AcceptResumes
      BY <2>3 DEF AcceptResumes, ResumeFrom, RunRaised, RunCancelled, EnterHandler,
                  startVars
    <2>4. CASE RejectResumes
      BY <2>4 DEF RejectResumes, ResumeFrom, RunRaised, RunCancelled, EnterHandler,
                  startVars
    <2>5. CASE JoinResumes
      BY <2>5 DEF JoinResumes, RunRaised, RunCancelled, EnterHandler, startVars
    <2>6. CASE TeardownJoined \/ FailureSelected \/ FailureJoined
      BY <2>6 DEF TeardownJoined, FailureSelected, FailureJoined, Leave, startVars
    <2>7. CASE StartIsCancelled \/ ReadIsCancelled \/ SelectIsCancelled
      BY <2>7 DEF StartIsCancelled, ReadIsCancelled, SelectIsCancelled, RunCancelled,
                  EnterHandler
    <2>8. CASE StartRefused \/ StartOperation \/ SelectProviderDeadline \/ RunnerReaps
      BY <2>8 DEF StartRefused, StartOperation, SelectProviderDeadline, RunnerReaps,
                  startVars
    <2>9. CASE \/ WakeExpired \/ WakeStopped \/ WakeReaped
               \/ WakeWithoutEvent \/ WakeWithEvent
      BY <2>9 DEF WakeExpired, WakeStopped, WakeReaped, WakeWithoutEvent, WakeWithEvent,
                  ReadWakes, startVars
    <2> QED
      BY <1>2, <2>1, <2>2, <2>3, <2>4, <2>5, <2>6, <2>7, <2>8, <2>9 DEF RunnerStep
  <1>3. CASE TransactionStep
    <2>1. CASE BeginStarted
      BY <2>1 DEF BeginStarted, startVars
    <2>2. CASE StartedWritten
      BY <2>2 DEF StartedWritten, StartSettles, startVars
    <2>3. CASE DeferredApplied
      BY <2>3 DEF DeferredApplied, StartSettles, startVars
    <2>4. CASE RejectTransaction \/ TeardownTransaction \/ UsageRecorded
      BY <2>4 DEF RejectTransaction, TeardownTransaction, UsageRecorded, startVars
    <2>5. CASE AcceptNothing \/ AcceptDelta \/ AcceptTextCompleted
      BY <2>5 DEF AcceptNothing, AcceptDelta, AcceptTextCompleted, Admitting, Accepting,
                  startVars
    <2>6. CASE AcceptUsage \/ AcceptOutcome \/ AcceptToolCall
      BY <2>6 DEF AcceptUsage, AcceptOutcome, AcceptToolCall, Admitting, Accepting,
                  startVars
    <2>7. CASE DeltaWritten
      BY <2>7 DEF DeltaWritten, startVars
    <2> QED
      BY <1>3, <2>1, <2>2, <2>3, <2>4, <2>5, <2>6, <2>7 DEF TransactionStep
  <1>4. CASE FinalizationStep
    BY <1>1, <1>4
    DEF FinalizationStep, FinalizerStarts, FinalizerStopsWatcher,
        FinalizerStartsCleanup, FinalizerJoinsCleanup, FinalizerReaps,
        FinalizerReports, TerminalBegins, SealWritten, TerminalWritten, FinalizerStep,
        startVars
  <1>5. ASSUME NEW c \in Cancels, RequestCancellation(c) \/ CancellationStep(c)
        PROVE  RunTypes'
    BY <1>1, <1>5 DEF RequestCancellation, CancellationStep, CancelDecide, CancelSelect,
                      CancelJoined, RequestStep
  <1>6. CASE RequestTeardown \/ TeardownStep
    BY <1>1, <1>6 DEF RequestTeardown, TeardownStep, TeardownDecide,
                      TeardownRequestJoined, RequestStep
  <1>7. CASE OuterCancel
    BY <1>7, SessionAssumption DEF OuterCancel, EnvironmentStep, startVars
  <1>8. CASE \/ ProviderYields \/ ReadAnswersCancel \/ Tick \/ WatcherFires
             \/ CleanupReturns \/ GraceExpires \/ ForceReturns
    BY <1>8 DEF ProviderYields, ReadAnswersCancel, Tick, WatcherFires, CleanupReturns,
                GraceExpires, ForceReturns, CleanupStep, EnvironmentStep, startVars
  <1>9. CASE UNCHANGED vars
    BY <1>1, <1>9 DEF vars, runVars, startVars
  <1> QED
    BY <1>2, <1>3, <1>4, <1>5, <1>6, <1>7, <1>8, <1>9 DEF Next, Finished

(* The places and answers of request_cancellation and request_teardown.    *)
LEMMA RequestTypesStep == RequestTypes /\ [Next]_vars => RequestTypes'
PROOF
  <1> SUFFICES ASSUME RequestTypes, [Next]_vars PROVE RequestTypes'
    OBVIOUS
  <1> USE DEF RequestTypes, RequestPlaces, Answers
  <1>1. CASE UNCHANGED requestVars
    BY <1>1 DEF requestVars
  <1>2. CASE RunnerStep
    BY <1>1, <1>2
    DEF RunnerStep, Run, PublishResumes, AcceptResumes, RejectResumes, ResumeFrom,
        JoinResumes, TeardownJoined, FailureSelected, FailureJoined, Leave,
        StartIsCancelled, StartRefused, StartOperation, ReadIsCancelled, WakeExpired,
        WakeStopped, WakeReaped, WakeWithoutEvent, WakeWithEvent, ReadWakes,
        RunnerReaps, SelectIsCancelled, SelectProviderDeadline
  <1>3. CASE TransactionStep
    BY <1>1, <1>3
    DEF TransactionStep, BeginStarted, StartedWritten, DeferredApplied,
        RejectTransaction, TeardownTransaction, AcceptNothing, AcceptDelta,
        AcceptTextCompleted, AcceptUsage, AcceptOutcome, AcceptToolCall, Admitting,
        Accepting, DeltaWritten, UsageRecorded
  <1>4. CASE FinalizationStep
    BY <1>1, <1>4
    DEF FinalizationStep, FinalizerStarts, FinalizerStopsWatcher,
        FinalizerStartsCleanup, FinalizerJoinsCleanup, FinalizerReaps,
        FinalizerReports, TerminalBegins, SealWritten, TerminalWritten, FinalizerStep
  <1>5. ASSUME NEW c \in Cancels, RequestCancellation(c) \/ CancellationStep(c)
        PROVE  RequestTypes'
    BY <1>5 DEF RequestCancellation, CancellationStep, CancelDecide, CancelSelect,
                CancelJoined, AnswerCancellation, AnswerState, JoinEnds, OfferedOutcome
  <1>6. CASE RequestTeardown \/ TeardownStep
    BY <1>6 DEF RequestTeardown, TeardownStep, TeardownDecide, TeardownRequestJoined,
                AnswerState, JoinEnds, OfferedOutcome
  <1>7. CASE \/ ProviderYields \/ ReadAnswersCancel \/ Tick \/ WatcherFires
             \/ CleanupReturns \/ GraceExpires \/ ForceReturns \/ OuterCancel
    BY <1>1, <1>7 DEF ProviderYields, ReadAnswersCancel, Tick, WatcherFires,
                CleanupReturns, GraceExpires, ForceReturns, CleanupStep, OuterCancel,
                EnvironmentStep
  <1>8. CASE UNCHANGED vars
    BY <1>1, <1>8 DEF vars
  <1> QED
    BY <1>2, <1>3, <1>4, <1>5, <1>6, <1>7, <1>8 DEF Next, Finished

(* What a selection does to the finalizer and to the cleanup. *)
ChoiceWorkTypes ==
  /\ finalizer \in FinalizerPlaces
  /\ cleanup \in {"none", "waiting", "forcing", "clean", "failed"}
  /\ cleanupMode \in CleanupModes \cup {"none", "conflict"}

(* Selecting leaves the finalizer and the cleanup in a known place.        *)
LEMMA ChoosingKeepsWorkTypes ==
  ASSUME WorkTypes,
         \/ UNCHANGED decisionVars
         \/ \E o \in Outcomes : SelectCandidate(o)
         \/ SelectDeadlineIfDue
         \/ \E t, started : ChooseDeadline(t, started)
         \/ \E o, t : ChooseCharging(o, t)
  PROVE  ChoiceWorkTypes'
PROOF
  <1> USE DEF WorkTypes, ChoiceWorkTypes, FinalizerPlaces, CleanupModes
  <1>1. CASE UNCHANGED decisionVars
    BY <1>1 DEF decisionVars
  <1>2. ASSUME NEW t, NEW started, ChooseDeadline(t, started) PROVE ChoiceWorkTypes'
    BY <1>2 DEF ChooseDeadline, Latch, EnsureCleanup, Choose
  <1>3. ASSUME NEW o, NEW t, ChooseCharging(o, t) PROVE ChoiceWorkTypes'
    BY <1>3 DEF ChooseCharging, Choose
  <1> QED
    BY <1>1, <1>2, <1>3 DEF SelectCandidate, SelectDeadlineIfDue

(* The finalizer, the watcher, the cleanup, the operation and the lock.    *)
LEMMA WorkTypesStep == WorkTypes /\ DecisionTypes /\ [Next]_vars => WorkTypes'
PROOF
  <1> SUFFICES ASSUME WorkTypes, DecisionTypes, [Next]_vars PROVE WorkTypes'
    OBVIOUS
  <1> DEFINE OtherTypes ==
        /\ watcher \in {"none", "waiting", "done"}
        /\ operation \in BOOLEAN /\ due \in BOOLEAN
        /\ decisionLock \in {"free", "txn", "finalizer", "cancel"}
  <1>1. WorkTypes' <=> ChoiceWorkTypes' /\ OtherTypes'
    BY DEF WorkTypes, ChoiceWorkTypes
  <1>2. OtherTypes
    BY DEF WorkTypes
  <1>3. CASE RunnerStep
    <2>1. OtherTypes'
      BY <1>2, <1>3
      DEF RunnerStep, Run, PublishResumes, AcceptResumes, RejectResumes, ResumeFrom,
          JoinResumes, TeardownJoined, FailureSelected, FailureJoined, Leave,
          StartIsCancelled, StartRefused, StartOperation, ReadIsCancelled, WakeExpired,
          WakeStopped, WakeReaped, WakeWithoutEvent, WakeWithEvent, ReadWakes,
          RunnerReaps, SelectIsCancelled, SelectProviderDeadline, LockIsFree
    <2>2. CASE StartOperation
      <3>1. PICK outcome, late :
              LET charged == AdmitModelTurn(tracker).tracker
                  started == outcome # "start_raised"
              IN IF late THEN ChooseDeadline(charged, started)
                 ELSE IF outcome # "started"
                   THEN ChooseCharging(FailedWith(InvalidResponse), charged)
                 ELSE UNCHANGED <<finalizer, cleanup, cleanupMode>>
        BY <2>2 DEF StartOperation
      <3>2. ASSUME UNCHANGED <<finalizer, cleanup, cleanupMode>> PROVE ChoiceWorkTypes'
        BY <3>2 DEF WorkTypes, ChoiceWorkTypes
      <3>3. ChoiceWorkTypes'
        BY <3>1, <3>2, ChoosingKeepsWorkTypes
      <3> QED
        BY <1>1, <2>1, <3>3
    <2>3. CASE StartRefused \/ SelectProviderDeadline
      <3>1. ChoiceWorkTypes'
        BY <2>3, ChoosingKeepsWorkTypes DEF StartRefused, SelectProviderDeadline
      <3> QED
        BY <1>1, <2>1, <3>1
    <2>4. CASE UNCHANGED decisionVars
      BY <1>1, <2>1, <2>4, ChoosingKeepsWorkTypes
    <2> QED
      BY <1>3, <2>2, <2>3, <2>4
      DEF RunnerStep, Run, PublishResumes, AcceptResumes, RejectResumes, ResumeFrom,
          JoinResumes, TeardownJoined, FailureSelected, FailureJoined, Leave,
          StartIsCancelled, ReadIsCancelled, WakeExpired, WakeStopped, WakeReaped,
          WakeWithoutEvent, WakeWithEvent, ReadWakes, RunnerReaps, SelectIsCancelled
  <1>4. CASE TransactionStep
    <2>1. OtherTypes'
      BY <1>2, <1>4
      DEF TransactionStep, BeginStarted, StartedWritten, StartSettles, DeferredApplied,
          RejectTransaction, TeardownTransaction, AcceptNothing, AcceptDelta,
          AcceptTextCompleted, AcceptUsage, AcceptOutcome, AcceptToolCall, Admitting,
          Accepting, DeltaWritten, UsageRecorded, LockIsFree, Acquire, Release
    <2>2. CASE UNCHANGED decisionVars \/ DeltaWritten \/ UsageRecorded
      <3>1. ChoiceWorkTypes'
        BY <2>2, ChoosingKeepsWorkTypes DEF DeltaWritten, UsageRecorded
      <3> QED
        BY <1>1, <2>1, <3>1
    <2>3. CASE RejectTransaction \/ TeardownTransaction
      <3>1. ChoiceWorkTypes'
        BY <2>3, ChoosingKeepsWorkTypes, ObservationOutcomes
        DEF RejectTransaction, TeardownTransaction
      <3> QED
        BY <1>1, <2>1, <3>1
    <2>4. CASE AcceptNothing \/ AcceptOutcome \/ AcceptToolCall
      <3>1. ChoiceWorkTypes'
        BY <2>4, ChoosingKeepsWorkTypes DEF AcceptNothing, AcceptOutcome, AcceptToolCall
      <3> QED
        BY <1>1, <2>1, <3>1
    <2>5. CASE AcceptDelta
      <3>1. CASE UNCHANGED <<finalizer, cleanup, cleanupMode>>
        BY <3>1, <1>1, <2>1 DEF WorkTypes, ChoiceWorkTypes
      <3>2. CASE \E o, t : ChooseCharging(o, t)
        BY <3>2, <1>1, <2>1, ChoosingKeepsWorkTypes
      <3> QED
        BY <2>5, <3>1, <3>2 DEF AcceptDelta
    <2> QED
      BY <1>4, <2>2, <2>3, <2>4, <2>5
      DEF TransactionStep, BeginStarted, StartedWritten, DeferredApplied,
          AcceptTextCompleted, AcceptUsage
  <1>5. CASE FinalizationStep
    <2> USE DEF WorkTypes, FinalizerPlaces, CleanupModes
    <2>1. selection.mode \in CleanupModes \cup {"none"}
      BY OutcomesDecide DEF DecisionTypes, NoSelection, Outcome
    <2>2. CASE FinalizerStarts \/ FinalizerStopsWatcher
      BY <2>2 DEF FinalizerStarts, FinalizerStopsWatcher, StopWatcher, FinalizerStep
    <2>3. CASE FinalizerStartsCleanup
      BY <2>1, <2>3 DEF FinalizerStartsCleanup, EnsureCleanup, FinalizerStep
    <2>4. CASE FinalizerJoinsCleanup \/ FinalizerReaps \/ FinalizerReports
      BY <2>4 DEF FinalizerJoinsCleanup, FinalizerReaps, FinalizerReports,
                  AfterCleanup, FinalizerStep
    <2>5. CASE TerminalBegins
      BY <2>5 DEF TerminalBegins, FinalizerStep, Acquire
    <2>6. CASE SealWritten \/ TerminalWritten
      BY <2>6 DEF SealWritten, TerminalWritten, ReportLimits, FinalizerStep, Release
    <2> QED
      BY <1>5, <2>2, <2>3, <2>4, <2>5, <2>6 DEF FinalizationStep
  <1>6. ASSUME NEW c \in Cancels, RequestCancellation(c) \/ CancellationStep(c)
        PROVE  WorkTypes'
    <2>1. OtherTypes'
      BY <1>2, <1>6 DEF RequestCancellation, CancellationStep, CancelDecide,
           CancelSelect, CancelJoined, RequestStep, Acquire, Release
    <2>2. ChoiceWorkTypes'
      BY <1>6, ChoosingKeepsWorkTypes, ObservationOutcomes
      DEF RequestCancellation, CancellationStep, CancelDecide, CancelSelect, CancelJoined
    <2> QED
      BY <1>1, <2>1, <2>2
  <1>7. CASE RequestTeardown \/ TeardownStep
    <2>1. OtherTypes'
      BY <1>2, <1>7 DEF RequestTeardown, TeardownStep, TeardownDecide,
           TeardownRequestJoined, RequestStep, LockIsFree
    <2>2. ChoiceWorkTypes'
      BY <1>7, ChoosingKeepsWorkTypes, ObservationOutcomes
      DEF RequestTeardown, TeardownStep, TeardownDecide, TeardownRequestJoined
    <2> QED
      BY <1>1, <2>1, <2>2
  <1>8. CASE \/ ProviderYields \/ ReadAnswersCancel \/ Tick \/ WatcherFires
             \/ CleanupReturns \/ GraceExpires \/ ForceReturns \/ OuterCancel
    BY <1>8 DEF ProviderYields, ReadAnswersCancel, Tick, WatcherFires, Latch,
                EnsureCleanup, CleanupReturns, GraceExpires, ForceReturns, CleanupStep,
                OuterCancel, EnvironmentStep, WorkTypes, CleanupModes
  <1>9. CASE UNCHANGED vars
    BY <1>9 DEF vars, decisionVars, WorkTypes
  <1> QED
    BY <1>3, <1>4, <1>5, <1>6, <1>7, <1>8, <1>9 DEF Next, Finished

(* The parts of DecisionTypes that DecisionInv does not already hold. *)
LEMMA ReportTypesStep ==
  DecisionInv /\ DecisionTypes /\ [Next]_vars =>
    evidence' \in Trackers \cup {None} /\ diagnosed' \in BOOLEAN
PROOF
  <1> SUFFICES ASSUME DecisionInv, DecisionTypes, [Next]_vars
               PROVE  evidence' \in Trackers \cup {None} /\ diagnosed' \in BOOLEAN
    OBVIOUS
  <1> USE DEF DecisionTypes
  <1>1. CASE UNCHANGED reportVars
    BY <1>1 DEF reportVars
  <1>2. CASE RunnerStep
    BY <1>1, <1>2
    DEF RunnerStep, Run, PublishResumes, AcceptResumes, RejectResumes, ResumeFrom,
        JoinResumes, TeardownJoined, FailureSelected, FailureJoined, Leave,
        StartIsCancelled, StartRefused, StartOperation, ReadIsCancelled, WakeExpired,
        WakeStopped, WakeReaped, WakeWithoutEvent, WakeWithEvent, ReadWakes,
        RunnerReaps, SelectIsCancelled, SelectProviderDeadline
  <1>3. CASE TransactionStep
    BY <1>1, <1>3
    DEF TransactionStep, BeginStarted, StartedWritten, DeferredApplied,
        RejectTransaction, TeardownTransaction, AcceptNothing, AcceptDelta,
        AcceptTextCompleted, AcceptUsage, AcceptOutcome, AcceptToolCall, Admitting,
        Accepting, DeltaWritten, UsageRecorded
  <1>4. CASE FinalizerReports
    BY <1>4 DEF FinalizerReports, WriteOutcomes
  <1>5. CASE TerminalBegins \/ SealWritten
    BY <1>5 DEF TerminalBegins, SealWritten, ReportLimits
  <1>6. CASE \/ FinalizerStarts \/ FinalizerStopsWatcher \/ FinalizerStartsCleanup
             \/ FinalizerJoinsCleanup \/ FinalizerReaps \/ TerminalWritten
    BY <1>1, <1>6
    DEF FinalizerStarts, FinalizerStopsWatcher, FinalizerStartsCleanup,
        FinalizerJoinsCleanup, FinalizerReaps, TerminalWritten
  <1>7. CASE \/ \E c \in Cancels : RequestCancellation(c) \/ CancellationStep(c)
             \/ RequestTeardown \/ TeardownStep
    BY <1>1, <1>7
    DEF RequestCancellation, CancellationStep, CancelDecide, CancelSelect,
        CancelJoined, RequestTeardown, TeardownStep, TeardownDecide,
        TeardownRequestJoined, RequestStep
  <1>8. CASE \/ ProviderYields \/ ReadAnswersCancel \/ Tick \/ WatcherFires
             \/ CleanupReturns \/ GraceExpires \/ ForceReturns \/ OuterCancel
    BY <1>1, <1>8 DEF ProviderYields, ReadAnswersCancel, Tick, WatcherFires,
                CleanupReturns, GraceExpires, ForceReturns, CleanupStep, OuterCancel,
                EnvironmentStep
  <1>9. CASE UNCHANGED vars
    BY <1>1, <1>9 DEF vars
  <1> QED
    BY <1>2, <1>3, <1>4, <1>5, <1>6, <1>7, <1>8, <1>9
    DEF Next, FinalizationStep, Finished

(* What a read can produce is a result, whatever its text.                 *)
LEMMA ObservedIsResult ==
  ASSUME NEW k \in ResultKinds, NEW t \in Seq(Fragments)
  PROVE  Observed(k, t) \in Results
PROOF
  BY DEF Observed, Results

(* So is everything the provider may answer (ProviderYields).              *)
LEMMA ProviderAnswersAreResults ==
  text \in Seq(Fragments) => ProviderAnswers \subseteq Results
PROOF
  <1> SUFFICES ASSUME text \in Seq(Fragments), NEW o \in ProviderAnswers
               PROVE  o \in Results
    OBVIOUS
  <1>1. << >> \in Seq(Fragments) /\ \A f \in Fragments : <<f>> \in Seq(Fragments)
    OBVIOUS
  <1>2. PICK k \in ResultKinds, t \in Seq(Fragments) : o = Observed(k, t)
    BY <1>1 DEF ProviderAnswers, Stopped, ReadCancelled, ReadError, ResultKinds
  <1> QED
    BY <1>2, ObservedIsResult

(* The read, its result and what was accepted of it.                       *)
LEMMA ObservationTypesStep == ObservationTypes /\ [Next]_vars => ObservationTypes'
PROOF
  <1> SUFFICES ASSUME ObservationTypes, [Next]_vars PROVE ObservationTypes'
    OBVIOUS
  <1> USE DEF ObservationTypes
  <1>1. CASE UNCHANGED <<readVars, acceptVars>>
    BY <1>1 DEF readVars, acceptVars
  <1>2. CASE \/ Run \/ PublishResumes \/ AcceptResumes \/ RejectResumes \/ JoinResumes
             \/ TeardownJoined \/ FailureSelected \/ FailureJoined
             \/ StartIsCancelled \/ StartRefused \/ StartOperation
    BY <1>2
    DEF Run, PublishResumes, AcceptResumes, RejectResumes, ResumeFrom, JoinResumes,
        TeardownJoined, FailureSelected, FailureJoined, Leave, StartIsCancelled,
        StartRefused, StartOperation, readVars, acceptVars
  <1>3. CASE \/ ReadIsCancelled \/ WakeExpired \/ WakeStopped \/ WakeReaped
             \/ WakeWithoutEvent \/ WakeWithEvent \/ RunnerReaps
             \/ SelectIsCancelled \/ SelectProviderDeadline
    BY <1>3
    DEF ReadIsCancelled, WakeExpired, WakeStopped, WakeReaped, WakeWithoutEvent,
        WakeWithEvent, ReadWakes, CancelRead, TakeRead, RunnerReaps, ReapRead,
        SelectIsCancelled, SelectProviderDeadline, readVars, acceptVars
  <1>4. CASE BeginStarted \/ StartedWritten \/ DeferredApplied
             \/ RejectTransaction \/ TeardownTransaction
    BY <1>1, <1>4 DEF BeginStarted, StartedWritten, DeferredApplied,
        RejectTransaction, TeardownTransaction
  <1>5. CASE \/ AcceptNothing \/ AcceptDelta \/ AcceptTextCompleted \/ AcceptUsage
             \/ AcceptOutcome \/ AcceptToolCall
    BY <1>5
    DEF AcceptNothing, AcceptDelta, AcceptTextCompleted, AcceptUsage, AcceptOutcome,
        AcceptToolCall, Admitting, Accepting, readVars, Results
  <1>6. CASE DeltaWritten
    <2>1. result.text \in Seq(Fragments)
      BY DEF Results
    <2>2. text' \in {text, text \o result.text}
      BY <1>6 DEF DeltaWritten
    <2>3. text \o result.text \in Seq(Fragments)
      BY <2>1
    <2>4. text' \in Seq(Fragments)
      BY <2>2, <2>3
    <2> QED
      BY <1>6, <2>4 DEF DeltaWritten, readVars
  <1>7. CASE UsageRecorded
    BY <1>7 DEF UsageRecorded, readVars
  <1>8. CASE FinalizationStep
    BY <1>8
    DEF FinalizationStep, FinalizerStarts, FinalizerStopsWatcher,
        FinalizerStartsCleanup, FinalizerJoinsCleanup, FinalizerReaps,
        FinalizerReports, TerminalBegins, SealWritten, TerminalWritten, FinalizerStep,
        CancelRead, ReapRead, readVars, acceptVars
  <1>9. CASE \/ \E c \in Cancels : RequestCancellation(c) \/ CancellationStep(c)
             \/ RequestTeardown \/ TeardownStep
    BY <1>1, <1>9
    DEF RequestCancellation, CancellationStep, CancelDecide, CancelSelect,
        CancelJoined, RequestTeardown, TeardownStep, TeardownDecide,
        TeardownRequestJoined, RequestStep
  <1>10. CASE ProviderYields
    BY <1>10, ProviderAnswersAreResults DEF ProviderYields, EnvironmentStep, acceptVars
  <1>11. CASE ReadAnswersCancel
    <2>1. << >> \in Seq(Fragments) /\ {"cancelled", "error"} \subseteq ResultKinds
      BY DEF ResultKinds
    <2>2. ReadCancelled \in Results /\ ReadError \in Results
      BY <2>1, ObservedIsResult DEF ReadCancelled, ReadError
    <2> QED
      BY <1>11, <2>2 DEF ReadAnswersCancel, EnvironmentStep, acceptVars
  <1>12. CASE \/ Tick \/ WatcherFires \/ OuterCancel
              \/ CleanupReturns \/ GraceExpires \/ ForceReturns
    BY <1>1, <1>12 DEF Tick, WatcherFires, CleanupReturns, GraceExpires, ForceReturns,
                 CleanupStep, OuterCancel, EnvironmentStep
  <1>13. CASE UNCHANGED vars
    BY <1>1, <1>13 DEF vars
  <1> QED
    BY <1>2, <1>3, <1>4, <1>5, <1>6, <1>7, <1>8, <1>9, <1>10, <1>11, <1>12, <1>13
    DEF Next, RunnerStep, TransactionStep, Finished

(* What is known where something typed is about to be published: a         *)
(* deferred cancellation, a completed text, an outcome with a terminal.    *)
PublishingInv ==
  /\ txn = "deferring" => deferred \in Cancels
  /\ finalizer = "sealing" => completedText \in Seq(Fragments)
  /\ finalizer \in {"terminal", "sealing", "ending"} => selection.kind # "teardown"

(* A transaction is deferring only after it found a deferred cancellation, *)
(* and reconciled text stays once an outcome is selected.                  *)
LEMMA PublishingInvStep ==
  PublishingInv /\ TypeOK /\ DecisionInv /\ [Next]_vars => PublishingInv'
PROOF
  <1> SUFFICES ASSUME PublishingInv, TypeOK, DecisionInv, [Next]_vars
               PROVE  PublishingInv'
    OBVIOUS
  <1> USE DEF PublishingInv
  <1>1. ASSUME UNCHANGED <<txn, deferred, finalizer, completedText, selection>>
        PROVE  PublishingInv'
    BY <1>1
  <1>2. ASSUME \/ UNCHANGED <<selection, finalizer>>
               \/ finalizer' \in {"await_start", "stop_watcher"},
               txn' # "deferring" \/ UNCHANGED <<txn, deferred>>,
               completedText' = completedText \/ finalizer' # "sealing"
        PROVE  PublishingInv'
    BY <1>2
  <1>3. /\ \A o, t : ChooseCharging(o, t) => finalizer' \in {"await_start", "stop_watcher"}
        /\ \A t, started : ChooseDeadline(t, started) =>
             finalizer' \in {"await_start", "stop_watcher"}
    BY DEF ChooseCharging, ChooseDeadline, Choose
  <1>4. \A o : SelectCandidate(o) => \/ UNCHANGED <<selection, finalizer>>
                                   \/ finalizer' \in {"await_start", "stop_watcher"}
    BY <1>3 DEF SelectCandidate, decisionVars
  <1>5. SelectDeadlineIfDue => \/ UNCHANGED <<selection, finalizer>>
                               \/ finalizer' \in {"await_start", "stop_watcher"}
    BY <1>3 DEF SelectDeadlineIfDue, decisionVars
  <1>6. CASE RunnerStep
    <2>1. CASE Run \/ TeardownJoined \/ FailureSelected \/ FailureJoined
      BY <1>2, <2>1 DEF Run, TeardownJoined, FailureSelected, FailureJoined, Leave,
                        decisionVars, acceptVars
    <2>2. CASE PublishResumes \/ AcceptResumes \/ RejectResumes \/ JoinResumes
      BY <1>2, <2>2 DEF PublishResumes, AcceptResumes, RejectResumes, ResumeFrom,
                        JoinResumes, RunRaised, RunCancelled, EnterHandler,
                        decisionVars, acceptVars, startVars
    <2>3. CASE StartIsCancelled \/ ReadIsCancelled \/ SelectIsCancelled
      BY <1>2, <2>3 DEF StartIsCancelled, ReadIsCancelled, SelectIsCancelled,
                        RunCancelled, EnterHandler, decisionVars, acceptVars
    <2>4. CASE StartRefused \/ StartOperation \/ SelectProviderDeadline
      BY <1>2, <1>3, <2>4 DEF StartRefused, StartOperation, SelectProviderDeadline,
                        decisionVars, acceptVars, startVars
    <2>5. CASE \/ WakeExpired \/ WakeStopped \/ WakeReaped
               \/ WakeWithoutEvent \/ WakeWithEvent \/ RunnerReaps
      BY <1>2, <2>5 DEF WakeExpired, WakeStopped, WakeReaped, WakeWithoutEvent,
                        WakeWithEvent, ReadWakes, RunnerReaps, decisionVars, acceptVars,
                        startVars
    <2> QED
      BY <1>6, <2>1, <2>2, <2>3, <2>4, <2>5 DEF RunnerStep
  <1>7. CASE TransactionStep
    <2>1. CASE StartedWritten
      BY <2>1 DEF StartedWritten, StartSettles, startVars, decisionVars, acceptVars,
                  TypeOK, WireTypes
    <2>2. CASE BeginStarted \/ DeferredApplied
      BY <1>2, <2>2 DEF BeginStarted, DeferredApplied, StartSettles, decisionVars,
                        acceptVars
    <2>3. CASE RejectTransaction \/ TeardownTransaction
      BY <1>2, <1>4, <2>3 DEF RejectTransaction, TeardownTransaction, acceptVars
    <2>4. CASE AcceptNothing \/ AcceptDelta \/ AcceptUsage \/ AcceptOutcome
               \/ AcceptToolCall
      BY <1>2, <1>3, <2>4
      DEF AcceptNothing, AcceptDelta, AcceptUsage, AcceptOutcome, AcceptToolCall,
          Admitting, Accepting, decisionVars
    <2>5. CASE AcceptTextCompleted
      <3>1. finalizer = "none"
        BY <2>5 DEF AcceptTextCompleted, Admitting, DecisionInv
      <3> QED
        BY <1>2, <2>5, <3>1 DEF AcceptTextCompleted, decisionVars
    <2>6. CASE DeltaWritten \/ UsageRecorded
      BY <1>2, <1>5, <2>6 DEF DeltaWritten, UsageRecorded, decisionVars
    <2> QED
      BY <1>7, <2>1, <2>2, <2>3, <2>4, <2>5, <2>6 DEF TransactionStep
  <1>8. CASE FinalizationStep
    <2>1. UNCHANGED <<txn, deferred, completedText, selection>>
      BY <1>8
      DEF FinalizationStep, FinalizerStarts, FinalizerStopsWatcher,
          FinalizerStartsCleanup, FinalizerJoinsCleanup, FinalizerReaps,
          FinalizerReports, TerminalBegins, SealWritten, TerminalWritten, FinalizerStep,
          runVars, startVars, acceptVars
    <2>2. finalizer' \in {"terminal", "sealing", "ending"} => selection.kind # "teardown"
      BY <1>8
      DEF FinalizationStep, FinalizerStarts, FinalizerStopsWatcher,
          FinalizerStartsCleanup, FinalizerJoinsCleanup, FinalizerReaps, AfterCleanup,
          FinalizerReports, TerminalBegins, SealWritten, ReportLimits, TerminalWritten
    <2>3. finalizer' = "sealing" => completedText \in Seq(Fragments)
      BY <1>8
      DEF FinalizationStep, FinalizerStarts, FinalizerStopsWatcher,
          FinalizerStartsCleanup, FinalizerJoinsCleanup, FinalizerReaps, AfterCleanup,
          FinalizerReports, TerminalBegins, SealWritten, ReportLimits, TerminalWritten,
          TypeOK, ObservationTypes
    <2> QED
      BY <2>1, <2>2, <2>3
  <1>9. ASSUME NEW c \in Cancels, RequestCancellation(c) \/ CancellationStep(c)
        PROVE  PublishingInv'
    <2>1. UNCHANGED <<txn, completedText>> /\ deferred' \in {deferred, c}
      BY <1>9
      DEF RequestCancellation, CancellationStep, CancelDecide, CancelSelect,
          CancelJoined, RequestStep, acceptVars, runVars
    <2>2. \/ UNCHANGED <<selection, finalizer>>
          \/ finalizer' \in {"await_start", "stop_watcher"}
      BY <1>4, <1>9
      DEF RequestCancellation, CancellationStep, CancelDecide, CancelSelect,
          CancelJoined, decisionVars
    <2> QED
      BY <2>1, <2>2
  <1>10. CASE RequestTeardown \/ TeardownStep
    BY <1>2, <1>4, <1>10
    DEF RequestTeardown, TeardownStep, TeardownDecide, TeardownRequestJoined,
        RequestStep, decisionVars, acceptVars, runVars
  <1>11. CASE \/ ProviderYields \/ ReadAnswersCancel \/ Tick \/ WatcherFires
              \/ CleanupReturns \/ GraceExpires \/ ForceReturns \/ OuterCancel
    BY <1>1, <1>11
    DEF ProviderYields, ReadAnswersCancel, Tick, WatcherFires, CleanupReturns,
        GraceExpires, ForceReturns, CleanupStep, OuterCancel, EnvironmentStep,
        acceptVars, startVars
  <1>12. CASE UNCHANGED vars
    BY <1>1, <1>12 DEF vars, decisionVars, runVars, startVars, acceptVars
  <1> QED
    BY <1>6, <1>7, <1>8, <1>9, <1>10, <1>11, <1>12 DEF Next, Finished

(* A committed write advances the sequence and the reducer keeps its type  *)
(* (emit_session, _accept_lifecycle_locked).                               *)
LEMMA EventKeepsWireTypes ==
  ASSUME WireTypes, NEW type \in EventTypes, NEW correlation \in Commands,
         NEW payload \in Seq(Fragments), NEW code \in Codes \cup {None},
         Publish(Event(type, correlation, payload, code)), UNCHANGED deferred
  PROVE  WireTypes'
PROOF
  <1>1. Event(type, correlation, payload, code) \in WireEvents
    BY SessionAssumption DEF Event, WireEvent, WireEvents, WireTypes
  <1>2. lifecycle' \in SessionState
    BY <1>1, ReducerKeepsType DEF Publish, WireTypes
  <1> QED
    BY <1>2 DEF Publish, WireTypes

(* So does an accepted cancellation, immediate or deferred.                *)
LEMMA CancellationKeepsState ==
  ASSUME WireTypes, NEW c \in Cancels
  PROVE  After(lifecycle, CancelRequested(c, SessionId)) \in SessionState
PROOF
  <1>1. CancelRequested(c, SessionId) \in Facts
    BY SessionAssumption DEF CancelRequested, Facts, Cancels
  <1> QED
    BY <1>1, ReducerKeepsType DEF WireTypes

(* The fields of an outcome that its terminal event carries. *)
LEMMA OutcomeFields ==
  \A o \in Outcomes :
    /\ o.kind \in {"completed", "failed", "cancelled", "teardown"}
    /\ o.code \in Codes \cup {None}
    /\ o.kind # "teardown" => o.correlation \in Commands
PROOF
  BY SessionAssumption
  DEF Outcomes, Outcome, Completed, ProviderReported, FailedWith, CancelledBy,
      Teardown, SessionCodes

(* The projection, the sequence and the deferred cancellation: each event  *)
(* the session builds has a payload the reducer can hold.                  *)
LEMMA WireTypesStep ==
  WireTypes /\ ObservationTypes /\ PublishingInv /\ DecisionInv /\ [Next]_vars
    => WireTypes'
PROOF
  <1> SUFFICES ASSUME WireTypes, ObservationTypes, PublishingInv, DecisionInv, [Next]_vars
               PROVE  WireTypes'
    OBVIOUS
  <1>1. CASE UNCHANGED <<publishVars, deferred>>
    BY <1>1 DEF publishVars, WireTypes
  <1>2. StartCommand \in Commands /\ << >> \in Seq(Fragments) /\ None \in Codes \cup {None}
    BY SessionAssumption
  <1>3. CASE RunnerStep
    BY <1>1, <1>3
    DEF RunnerStep, Run, PublishResumes, AcceptResumes, RejectResumes, ResumeFrom,
        JoinResumes, TeardownJoined, FailureSelected, FailureJoined, Leave,
        StartIsCancelled, StartRefused, StartOperation, ReadIsCancelled, WakeExpired,
        WakeStopped, WakeReaped, WakeWithoutEvent, WakeWithEvent, ReadWakes,
        RunnerReaps, SelectIsCancelled, SelectProviderDeadline, RunRaised, RunCancelled,
        EnterHandler, startVars
  <1>4. CASE StartedWritten
    <2>1. deferred' = deferred
      BY <1>4 DEF StartedWritten, StartSettles, startVars
    <2>2. CASE UNCHANGED publishVars
      BY <1>1, <2>1, <2>2
    <2>3. CASE Publish(StartedEvent)
      BY <1>2, <2>1, <2>3, EventKeepsWireTypes DEF StartedEvent, EventTypes
    <2> QED
      BY <1>4, <2>2, <2>3 DEF StartedWritten
  <1>5. CASE DeferredApplied
    <2>1. lifecycle' \in SessionState
      BY <1>5, CancellationKeepsState DEF DeferredApplied, PublishingInv
    <2>2. deferred' \in {deferred, None} /\ sequence' = sequence
      BY <1>5 DEF DeferredApplied, startVars
    <2> QED
      BY <2>1, <2>2 DEF WireTypes
  <1>6. CASE DeltaWritten
    <2>1. deferred' = deferred /\ result.text \in Seq(Fragments)
      BY <1>6 DEF DeltaWritten, startVars, ObservationTypes, Results
    <2>2. CASE UNCHANGED publishVars
      BY <1>1, <2>1, <2>2
    <2>3. CASE Publish(DeltaEvent)
      BY <1>2, <2>1, <2>3, EventKeepsWireTypes DEF DeltaEvent, EventTypes
    <2> QED
      BY <1>6, <2>2, <2>3 DEF DeltaWritten
  <1>7. CASE \/ BeginStarted \/ RejectTransaction \/ TeardownTransaction
             \/ AcceptNothing \/ AcceptDelta \/ AcceptTextCompleted \/ AcceptUsage
             \/ AcceptOutcome \/ AcceptToolCall \/ UsageRecorded
    BY <1>1, <1>7
    DEF BeginStarted, RejectTransaction, TeardownTransaction, AcceptNothing,
        AcceptDelta, AcceptTextCompleted, AcceptUsage, AcceptOutcome, AcceptToolCall,
        Admitting, Accepting, UsageRecorded, startVars
  <1>8. CASE SealWritten
    <2>1. deferred' = deferred /\ completedText \in Seq(Fragments)
      BY <1>8 DEF SealWritten, FinalizerStep, startVars, PublishingInv
    <2>2. CASE UNCHANGED publishVars
      BY <1>1, <2>1, <2>2
    <2>3. CASE Publish(AssistantCompletedEvent)
      BY <1>2, <2>1, <2>3, EventKeepsWireTypes DEF AssistantCompletedEvent, EventTypes
    <2> QED
      BY <1>8, <2>2, <2>3 DEF SealWritten
  <1>9. CASE TerminalWritten
    <2>1. deferred' = deferred /\ selection \in Outcomes /\ selection.kind # "teardown"
      BY <1>9 DEF TerminalWritten, FinalizerStep, startVars, PublishingInv,
                  DecisionInv, ChoiceTypes, Undecided
    <2>2. CASE UNCHANGED publishVars
      BY <1>1, <2>1, <2>2
    <2>3. CASE Publish(TerminalEvent)
      BY <1>2, <2>1, <2>3, EventKeepsWireTypes, OutcomeFields
      DEF TerminalEvent, EventTypes
    <2> QED
      BY <1>9, <2>2, <2>3 DEF TerminalWritten
  <1>10. CASE \/ FinalizerStarts \/ FinalizerStopsWatcher \/ FinalizerStartsCleanup
              \/ FinalizerJoinsCleanup \/ FinalizerReaps \/ FinalizerReports
              \/ TerminalBegins
    BY <1>1, <1>10
    DEF FinalizerStarts, FinalizerStopsWatcher, FinalizerStartsCleanup,
        FinalizerJoinsCleanup, FinalizerReaps, FinalizerReports, TerminalBegins,
        FinalizerStep, startVars
  <1>11. ASSUME NEW c \in Cancels, RequestCancellation(c) \/ CancellationStep(c)
         PROVE  WireTypes'
    BY <1>11, CancellationKeepsState
    DEF RequestCancellation, CancellationStep, CancelDecide, CancelSelect,
        CancelJoined, WireTypes, publishVars
  <1>12. CASE RequestTeardown \/ TeardownStep
    BY <1>1, <1>12
    DEF RequestTeardown, TeardownStep, TeardownDecide, TeardownRequestJoined
  <1>13. CASE \/ ProviderYields \/ ReadAnswersCancel \/ Tick \/ WatcherFires
              \/ CleanupReturns \/ GraceExpires \/ ForceReturns \/ OuterCancel
    BY <1>1, <1>13
    DEF ProviderYields, ReadAnswersCancel, Tick, WatcherFires, CleanupReturns,
        GraceExpires, ForceReturns, CleanupStep, OuterCancel, EnvironmentStep, startVars
  <1>14. CASE UNCHANGED vars
    BY <1>1, <1>14 DEF vars, startVars
  <1> QED
    BY <1>3, <1>4, <1>5, <1>6, <1>7, <1>8, <1>9, <1>10, <1>11, <1>12, <1>13, <1>14
    DEF Next, TransactionStep, FinalizationStep, Finished

(* The constructor leaves every variable in its type.                      *)
LEMMA InitTypes == Init => TypeOK /\ PublishingInv
PROOF
  <1> SUFFICES ASSUME Init PROVE TypeOK /\ PublishingInv
    OBVIOUS
  <1> USE DEF Init
  <1>1. RunTypes /\ RequestTypes /\ WorkTypes
    <2>1. RunTypes
      <3>1. 0 \in 0 .. MaxOuterCancels
        BY SessionAssumption
      <3> QED
        BY <3>1 DEF RunTypes, RunnerPlaces, TxnPlaces
    <2>2. RequestTypes
      BY DEF RequestTypes, RequestPlaces, Answers
    <2>3. WorkTypes
      BY DEF WorkTypes, FinalizerPlaces
    <2> QED
      BY <2>1, <2>2, <2>3
  <1>2. DecisionTypes
    <2>1. selection \in Outcomes \cup {NoSelection} /\ tracker \in Trackers
      BY InitDecision DEF DecisionInv, ChoiceTypes
    <2> QED
      BY <2>1 DEF DecisionTypes
  <1>3. ObservationTypes
    <2>1. << >> \in Seq(Fragments) /\ "none" \in ResultKinds
      BY DEF ResultKinds
    <2> QED
      BY <2>1, ObservedIsResult DEF ObservationTypes, NoResult
  <1>4. WireTypes
    <2>1. TaskSubmitted(StartCommand) \in Facts
      BY SessionAssumption DEF TaskSubmitted, Facts
    <2>2. InitialSessionState \in SessionState
      BY DEF InitialSessionState, SessionState, Statuses
    <2> QED
      BY <2>1, <2>2, ReducerKeepsType DEF WireTypes
  <1> QED
    BY <1>1, <1>2, <1>3, <1>4 DEF TypeOK, PublishingInv

(* The types and what is known where something is published, together.     *)
THEOREM TypeInvariant == Spec => [](TypeOK /\ PublishingInv)
PROOF
  <1> DEFINE Inv == TypeOK /\ PublishingInv
  <1>1. Init => Inv
    BY InitTypes
  <1>2. Inv /\ DecisionInv /\ DecisionInv' /\ [Next]_vars => Inv'
    <2> SUFFICES ASSUME Inv, DecisionInv, DecisionInv', [Next]_vars PROVE Inv'
      OBVIOUS
    <2>1. PublishingInv'
      BY PublishingInvStep
    <2>2. RunTypes' /\ RequestTypes' /\ WorkTypes' /\ ObservationTypes' /\ WireTypes'
      BY RunTypesStep, RequestTypesStep, WorkTypesStep, ObservationTypesStep,
         WireTypesStep
      DEF TypeOK
    <2>3. DecisionTypes'
      BY ReportTypesStep DEF TypeOK, DecisionTypes, DecisionInv, ChoiceTypes
    <2> QED
      BY <2>1, <2>2, <2>3 DEF TypeOK
  <1> QED
    BY <1>1, <1>2, DecisionInvariant, PTL DEF Spec

(* Every variable keeps its type (TypeOK), for any commands, fragments and *)
(* budgets: among others, an event is only ever built from an outcome that *)
(* has a terminal, and assistant.completed from a reconciled text.         *)
THEOREM TypeCorrect == Spec => []TypeOK
PROOF
  BY TypeInvariant, PTL

-----------------------------------------------------------------------------
(* Part one: the decision lock, the transaction and the start.             *)

(* The lock is held while something is awaited under it, by one task.      *)
LockAgrees ==
  /\ decisionLock = "txn" <=> txn \in {"publishing", "deferring", "writing", "observing"}
  /\ decisionLock = "finalizer" <=> finalizer \in {"sealing", "ending"}
  /\ \A c \in Cancels : cancelReq[c] = "observing" => decisionLock = "cancel"
  /\ \A c, d \in Cancels :
       cancelReq[c] = "observing" /\ cancelReq[d] = "observing" => c = d

(* run() has a transaction only while it waits for it. *)
TxnAgrees ==
  /\ runner \notin {"publishing", "accepting", "rejecting", "tearing", "failing"} =>
       txn = "idle"
  /\ runner = "publishing" =>
       txn \in {"publish", "publishing", "deferring", "settled", "raised"}
  /\ runner = "accepting" => txn \in {"accept", "writing", "observing", "settled", "raised"}
  /\ runner = "rejecting" => txn \in {"reject", "settled"}
  /\ runner \in {"tearing", "failing"} => txn \in {"teardown", "settled"}

Unstarted == runner = "created" \/ txn \in {"publish", "publishing", "deferring"}
StartFailed == runner = "publishing" /\ txn = "raised"

(* The start settles when its transaction does, or when run() is left; it  *)
(* succeeded wherever run() goes on from it.                               *)
StartAgrees ==
  /\ startedOk => startSettled
  /\ Unstarted \/ StartFailed => ~startSettled
  /\ ~startSettled => Unstarted \/ StartFailed
  /\ runner \notin {"created", "publishing", "failing", "fail_join", "cancelled", "raised"} =>
       startedOk
  /\ runner = "publishing" /\ txn = "settled" => startedOk

PlacesInv == LockAgrees /\ TxnAgrees /\ StartAgrees

(* The constructor. *)
LEMMA InitPlaces == Init => PlacesInv
PROOF
  BY DEF Init, PlacesInv, LockAgrees, TxnAgrees, StartAgrees, Unstarted, StartFailed

(* Whoever selects, while nothing was selected, sends the finalizer to one *)
(* of its first two places.                                                *)
LEMMA ChoosingMovesFinalizer ==
  ASSUME DecisionInv
  PROVE  /\ \A o, t : Undecided /\ ChooseCharging(o, t) =>
              finalizer = "none" /\ finalizer' \in {"await_start", "stop_watcher"}
         /\ \A t, b : Undecided /\ ChooseDeadline(t, b) =>
              finalizer = "none" /\ finalizer' \in {"await_start", "stop_watcher"}
         /\ \A o : SelectCandidate(o) =>
              \/ UNCHANGED finalizer
              \/ finalizer = "none" /\ finalizer' \in {"await_start", "stop_watcher"}
         /\ SelectDeadlineIfDue =>
              \/ UNCHANGED finalizer
              \/ finalizer = "none" /\ finalizer' \in {"await_start", "stop_watcher"}
PROOF
  BY DEF DecisionInv, ChooseCharging, ChooseDeadline, Choose, SelectCandidate,
         SelectDeadlineIfDue, decisionVars

(* Only a finalizer that ends, or a selection, moves it where it matters   *)
(* to the lock.                                                            *)
LEMMA PlacesUndisturbed ==
  ASSUME PlacesInv, UNCHANGED <<runner, txn, decisionLock, startSettled, startedOk>>,
         \/ UNCHANGED finalizer
         \/ /\ finalizer \notin {"sealing", "ending"}
            /\ finalizer' \notin {"sealing", "ending"},
         \A c \in Cancels : cancelReq'[c] = "observing" <=> cancelReq[c] = "observing"
  PROVE  PlacesInv'
PROOF
  BY DEF PlacesInv, LockAgrees, TxnAgrees, StartAgrees, Unstarted, StartFailed

(* run() and its handlers. *)
LEMMA RunnerKeepsPlaces ==
  ASSUME PlacesInv, TypeOK, DecisionInv, RunnerStep
  PROVE  PlacesInv'
PROOF
  <1> USE DEF PlacesInv, TxnAgrees, StartAgrees, Unstarted, StartFailed
  <1>1. UNCHANGED cancelReq
    BY
    DEF RunnerStep, Run, PublishResumes, AcceptResumes, RejectResumes, ResumeFrom,
        JoinResumes, TeardownJoined, FailureSelected, FailureJoined, Leave,
        StartIsCancelled, StartRefused, StartOperation, ReadIsCancelled, WakeExpired,
        WakeStopped, WakeReaped, WakeWithoutEvent, WakeWithEvent, ReadWakes,
        RunnerReaps, SelectIsCancelled, SelectProviderDeadline, requestVars
  <1>2. ASSUME UNCHANGED <<decisionLock, finalizer>>,
               txn' = txn \/ (/\ txn \notin {"publishing", "deferring", "writing", "observing"}
                              /\ txn' \notin {"publishing", "deferring", "writing", "observing"})
        PROVE  LockAgrees'
    BY <1>1, <1>2 DEF LockAgrees
  <1>3. CASE Run
    <2>1. TxnAgrees' /\ StartAgrees'
      BY <1>3 DEF Run, startVars
    <2>2. LockAgrees'
      BY <1>2, <1>3 DEF Run, decisionVars
    <2> QED
      BY <2>1, <2>2
  <1>4. CASE PublishResumes \/ AcceptResumes \/ RejectResumes
    <2>1. TxnAgrees'
      BY <1>4 DEF PublishResumes, AcceptResumes, RejectResumes, ResumeFrom, RunRaised,
                  RunCancelled, EnterHandler
    <2>2. StartAgrees'
      BY <1>4 DEF PublishResumes, AcceptResumes, RejectResumes, ResumeFrom, RunRaised,
                  RunCancelled, EnterHandler, startVars
    <2>3. LockAgrees'
      BY <1>2, <1>4 DEF PublishResumes, AcceptResumes, RejectResumes, ResumeFrom,
                        RunRaised, RunCancelled, EnterHandler, decisionVars
    <2> QED
      BY <2>1, <2>2, <2>3
  <1>5. CASE JoinResumes \/ StartIsCancelled \/ ReadIsCancelled \/ SelectIsCancelled
    <2>1. TxnAgrees' /\ StartAgrees'
      BY <1>5 DEF JoinResumes, StartIsCancelled, ReadIsCancelled, SelectIsCancelled,
                  RunRaised, RunCancelled, EnterHandler, startVars
    <2>2. LockAgrees'
      BY <1>2, <1>5 DEF JoinResumes, StartIsCancelled, ReadIsCancelled,
                  SelectIsCancelled, RunRaised, RunCancelled, EnterHandler, decisionVars
    <2> QED
      BY <2>1, <2>2
  <1>6. CASE TeardownJoined \/ FailureSelected \/ FailureJoined
    <2>1. TxnAgrees' /\ StartAgrees'
      BY <1>6 DEF TeardownJoined, FailureSelected, FailureJoined, Leave, startVars
    <2>2. LockAgrees'
      BY <1>2, <1>6 DEF TeardownJoined, FailureSelected, FailureJoined, Leave,
                        decisionVars
    <2> QED
      BY <2>1, <2>2
  <1>7. CASE StartRefused \/ StartOperation \/ SelectProviderDeadline
    <2>1. /\ UNCHANGED <<txn, startSettled, startedOk, decisionLock>>
          /\ runner \in {"starting", "selecting"} /\ runner' \in {"joining", "reading"}
      BY <1>7 DEF StartRefused, StartOperation, SelectProviderDeadline, startVars,
                  LockIsFree
    <2>2. \/ UNCHANGED finalizer
          \/ finalizer = "none" /\ finalizer' \in {"await_start", "stop_watcher"}
      BY <1>7, ChoosingMovesFinalizer
      DEF StartRefused, StartOperation, SelectProviderDeadline, decisionVars
    <2>3. LockAgrees'
      BY <1>1, <2>1, <2>2 DEF LockAgrees
    <2>4. TxnAgrees' /\ StartAgrees'
      BY <2>1
    <2> QED
      BY <2>3, <2>4
  <1>8. CASE \/ WakeExpired \/ WakeStopped \/ WakeReaped
             \/ WakeWithoutEvent \/ WakeWithEvent \/ RunnerReaps
    <2>1. TxnAgrees' /\ StartAgrees'
      BY <1>8 DEF WakeExpired, WakeStopped, WakeReaped, WakeWithoutEvent, WakeWithEvent,
                  ReadWakes, RunnerReaps, startVars
    <2>2. LockAgrees'
      BY <1>2, <1>8 DEF WakeExpired, WakeStopped, WakeReaped, WakeWithoutEvent,
                        WakeWithEvent, ReadWakes, RunnerReaps, decisionVars
    <2> QED
      BY <2>1, <2>2
  <1> QED
    BY <1>3, <1>4, <1>5, <1>6, <1>7, <1>8 DEF RunnerStep

(* Its transactions: each takes the lock when it is free and gives it back *)
(* when it settles or raises.                                              *)
LEMMA TransactionKeepsPlaces ==
  ASSUME PlacesInv, TypeOK, DecisionInv, TransactionStep
  PROVE  PlacesInv'
PROOF
  <1> USE DEF PlacesInv, TxnAgrees, StartAgrees, Unstarted, StartFailed
  <1>1. UNCHANGED <<cancelReq, runner>>
    BY
    DEF TransactionStep, BeginStarted, StartedWritten, DeferredApplied,
        RejectTransaction, TeardownTransaction, Accepting, Admitting, AcceptNothing,
        AcceptDelta, AcceptTextCompleted, AcceptUsage, AcceptOutcome, AcceptToolCall,
        DeltaWritten, UsageRecorded, requestVars
  <1>2. \/ UNCHANGED finalizer
        \/ finalizer = "none" /\ finalizer' \in {"await_start", "stop_watcher"}
    <2>1. CASE \/ BeginStarted \/ StartedWritten \/ DeferredApplied
               \/ RejectTransaction \/ TeardownTransaction \/ DeltaWritten \/ UsageRecorded
      BY <2>1, ChoosingMovesFinalizer
      DEF BeginStarted, StartedWritten, DeferredApplied, RejectTransaction,
          TeardownTransaction, DeltaWritten, UsageRecorded, decisionVars
    <2>2. CASE \/ AcceptNothing \/ AcceptDelta \/ AcceptTextCompleted \/ AcceptUsage
               \/ AcceptOutcome \/ AcceptToolCall
      BY <2>2, ChoosingMovesFinalizer
      DEF Admitting, AcceptNothing, AcceptDelta, AcceptTextCompleted, AcceptUsage,
          AcceptOutcome, AcceptToolCall, decisionVars
    <2> QED
      BY <2>1, <2>2 DEF TransactionStep
  <1>3. CASE BeginStarted \/ StartedWritten \/ DeferredApplied
    <2>1. TxnAgrees' /\ StartAgrees'
      BY <1>1, <1>3
      DEF BeginStarted, StartedWritten, DeferredApplied, StartSettles, startVars
    <2>2. LockAgrees'
      BY <1>1, <1>2, <1>3
      DEF BeginStarted, StartedWritten, DeferredApplied, StartSettles, Acquire, Release,
          LockAgrees
    <2> QED
      BY <2>1, <2>2
  <1>4. CASE RejectTransaction \/ TeardownTransaction
    <2>1. TxnAgrees' /\ StartAgrees'
      BY <1>1, <1>4 DEF RejectTransaction, TeardownTransaction, startVars
    <2>2. LockAgrees'
      BY <1>1, <1>2, <1>4 DEF RejectTransaction, TeardownTransaction, LockIsFree,
                              LockAgrees
    <2> QED
      BY <2>1, <2>2
  <1>5. CASE \/ AcceptNothing \/ AcceptDelta \/ AcceptTextCompleted \/ AcceptUsage
             \/ AcceptOutcome \/ AcceptToolCall
    <2>1. /\ txn = "accept" /\ UNCHANGED <<startSettled, startedOk>>
          /\ \/ decisionLock = "free" /\ decisionLock' = "txn"
                /\ txn' \in {"writing", "observing"}
             \/ decisionLock = "free" /\ decisionLock' = "free" /\ txn' = "settled"
      BY <1>5
      DEF Accepting, Admitting, AcceptNothing, AcceptDelta, AcceptTextCompleted,
          AcceptUsage, AcceptOutcome, AcceptToolCall, LockIsFree, Acquire, startVars
    <2>2. TxnAgrees' /\ StartAgrees'
      BY <1>1, <2>1
    <2>3. LockAgrees'
      BY <1>1, <1>2, <2>1 DEF LockAgrees
    <2> QED
      BY <2>2, <2>3
  <1>6. CASE DeltaWritten \/ UsageRecorded
    <2>1. /\ txn \in {"writing", "observing"} /\ txn' \in {"settled", "raised"}
          /\ UNCHANGED <<startSettled, startedOk>> /\ decisionLock' = "free"
      BY <1>6 DEF DeltaWritten, UsageRecorded, Release, startVars
    <2>2. runner = "accepting"
      BY <2>1
    <2>3. TxnAgrees' /\ StartAgrees'
      BY <1>1, <2>1, <2>2
    <2>4. LockAgrees'
      BY <1>1, <1>2, <2>1 DEF LockAgrees
    <2> QED
      BY <2>3, <2>4
  <1> QED
    BY <1>3, <1>4, <1>5, <1>6 DEF TransactionStep

(* The finalizer takes the lock for its two writes. *)
LEMMA FinalizationKeepsPlaces ==
  ASSUME PlacesInv, TypeOK, FinalizationStep
  PROVE  PlacesInv'
PROOF
  <1>1. UNCHANGED <<runner, txn, startSettled, startedOk, cancelReq>>
    BY
    DEF FinalizationStep, FinalizerStarts, FinalizerStopsWatcher,
        FinalizerStartsCleanup, FinalizerJoinsCleanup, FinalizerReaps,
        FinalizerReports, TerminalBegins, SealWritten, TerminalWritten, FinalizerStep,
        runVars, startVars, requestVars
  <1>2. TxnAgrees' /\ StartAgrees'
    BY <1>1 DEF PlacesInv, TxnAgrees, StartAgrees, Unstarted, StartFailed
  <1>3. CASE \/ FinalizerStarts \/ FinalizerStopsWatcher \/ FinalizerStartsCleanup
             \/ FinalizerJoinsCleanup \/ FinalizerReaps \/ FinalizerReports
    BY <1>1, <1>3, PlacesUndisturbed
    DEF FinalizerStarts, FinalizerStopsWatcher, FinalizerStartsCleanup,
        FinalizerJoinsCleanup, FinalizerReaps, FinalizerReports, AfterCleanup
  <1>4. CASE TerminalBegins \/ SealWritten \/ TerminalWritten
    <2>1. LockAgrees'
      BY <1>1, <1>4
      DEF PlacesInv, LockAgrees, TerminalBegins, SealWritten, TerminalWritten,
          ReportLimits, Acquire, Release
    <2> QED
      BY <1>2, <2>1 DEF PlacesInv
  <1> QED
    BY <1>3, <1>4 DEF FinalizationStep

(* A cancellation holds the lock while its observer runs. *)
LEMMA RequestKeepsPlaces ==
  ASSUME PlacesInv, TypeOK, DecisionInv,
         \/ \E c \in Cancels : RequestCancellation(c) \/ CancellationStep(c)
         \/ RequestTeardown \/ TeardownStep
  PROVE  PlacesInv'
PROOF
  <1>1. /\ UNCHANGED <<runner, txn, startSettled, startedOk>>
        /\ cancelReq \in [Cancels -> RequestPlaces]
    BY
    DEF RequestCancellation, CancellationStep, CancelDecide, CancelSelect,
        CancelJoined, RequestTeardown, TeardownStep, TeardownDecide,
        TeardownRequestJoined, RequestStep, runVars, TypeOK, RequestTypes
  <1>2. \/ UNCHANGED finalizer
        \/ finalizer = "none" /\ finalizer' \in {"await_start", "stop_watcher"}
    BY ChoosingMovesFinalizer
    DEF RequestCancellation, CancellationStep, CancelDecide, CancelSelect,
        CancelJoined, RequestTeardown, TeardownStep, TeardownDecide,
        TeardownRequestJoined, decisionVars
  <1>3. TxnAgrees' /\ StartAgrees'
    BY <1>1 DEF PlacesInv, TxnAgrees, StartAgrees, Unstarted, StartFailed
  <1>4. ASSUME NEW c \in Cancels, RequestCancellation(c) \/ CancellationStep(c)
        PROVE  LockAgrees'
    <2>1. \/ /\ cancelReq[c] # "observing" /\ UNCHANGED decisionLock
             /\ \E place \in {"waiting", "returned", "joining", "raised", "rejected"} :
                  cancelReq' = [cancelReq EXCEPT ![c] = place]
          \/ /\ decisionLock = "free" /\ decisionLock' = "cancel"
             /\ cancelReq' = [cancelReq EXCEPT ![c] = "observing"]
          \/ /\ cancelReq[c] = "observing" /\ decisionLock' = "free"
             /\ \E place \in {"returned", "joining"} :
                  cancelReq' = [cancelReq EXCEPT ![c] = place]
      BY <1>4
      DEF RequestCancellation, CancellationStep, CancelDecide, CancelSelect,
          CancelJoined, AnswerCancellation, AnswerState, JoinEnds, Acquire, Release
    <2> QED
      BY <1>1, <1>2, <2>1 DEF PlacesInv, LockAgrees
  <1>5. CASE \E c \in Cancels : RequestCancellation(c) \/ CancellationStep(c)
    BY <1>3, <1>4, <1>5 DEF PlacesInv
  <1>6. CASE RequestTeardown \/ TeardownStep
    <2>1. UNCHANGED <<decisionLock, cancelReq>>
      BY <1>6 DEF RequestTeardown, TeardownStep, TeardownDecide, TeardownRequestJoined,
                  LockIsFree
    <2> QED
      BY <1>1, <1>2, <2>1, PlacesUndisturbed
  <1> QED
    BY <1>5, <1>6

(* Every step keeps them. *)
LEMMA PlacesStep ==
  ASSUME PlacesInv, TypeOK, DecisionInv, [Next]_vars
  PROVE  PlacesInv'
PROOF
  <1>1. CASE \/ ProviderYields \/ ReadAnswersCancel \/ Tick \/ WatcherFires
             \/ CleanupReturns \/ GraceExpires \/ ForceReturns \/ OuterCancel
    BY <1>1, PlacesUndisturbed
    DEF ProviderYields, ReadAnswersCancel, Tick, WatcherFires, CleanupReturns,
        GraceExpires, ForceReturns, CleanupStep, OuterCancel, EnvironmentStep,
        startVars, requestVars
  <1>2. CASE UNCHANGED vars
    BY <1>2, PlacesUndisturbed
    DEF vars, decisionVars, runVars, startVars, requestVars
  <1> QED
    BY <1>1, <1>2, RunnerKeepsPlaces, TransactionKeepsPlaces,
       FinalizationKeepsPlaces, RequestKeepsPlaces
    DEF Next, Finished

(* At most one task is inside the decision lock, and it is the one whose   *)
(* place says so; run() goes past its start only if the start succeeded.   *)
THEOREM PlacesInvariant == Spec => []PlacesInv
PROOF
  <1>1. Init => PlacesInv
    BY InitPlaces
  <1>2. PlacesInv /\ TypeOK /\ DecisionInv /\ [Next]_vars => PlacesInv'
    BY PlacesStep
  <1> QED
    BY <1>1, <1>2, TypeCorrect, DecisionInvariant, PTL DEF Spec
-----------------------------------------------------------------------------
(* Part two: the work a session begins, and the order in which the         *)
(* finalizer stops it.                                                     *)

(* The finalizer's places from the named one on. *)
EndedPlaces == {"done", "raised"}
FromTerminal == {"terminal", "sealing", "ending"} \cup EndedPlaces
FromReport == {"report"} \cup FromTerminal
FromReap == {"reap"} \cup FromReport
FromJoin == {"join_cleanup"} \cup FromReap
FromStartCleanup == {"start_cleanup"} \cup FromJoin

(* Nothing is begun before the start succeeded, and a read or a cleanup    *)
(* belongs to an operation.                                                *)
WorkBegins ==
  /\ operation => startedOk
  /\ runner \in {"created", "publishing", "starting"} => ~operation
  /\ runner \in {"reading", "accepting"} => operation
  /\ read # "none" => operation
  /\ cleanup # "none" => operation
  /\ readCleanupFailed => operation

(* What the finalizer has stopped stays stopped.                           *)
WorkStops ==
  /\ finalizer \in FromStartCleanup => watcher # "waiting"
  /\ finalizer \in FromJoin /\ operation => cleanup # "none"
  /\ finalizer \in FromReap => ~CleanupInFlight
  /\ finalizer \in FromReport => read \in {"none", "reaped"}

(* A failure of the cleanup is reported before the terminal.               *)
FailureReported ==
  /\ finalizer = "report" => cleanup = "failed" \/ readCleanupFailed
  /\ finalizer \notin FromTerminal => ~diagnosed
  /\ finalizer \in FromTerminal \ {"raised"} =>
       (diagnosed <=> (cleanup = "failed" \/ readCleanupFailed))

WorkInv == WorkBegins /\ WorkStops /\ FailureReported

(* The constructor. *)
LEMMA InitWork == Init => WorkInv
PROOF
  BY DEF Init, WorkInv, WorkBegins, WorkStops, FailureReported, FromStartCleanup,
         FromJoin, FromReap, FromReport, FromTerminal, EndedPlaces

(* Before a selection nothing was finalized.                               *)
UnfinalizedPlaces == {"none", "await_start", "stop_watcher"}

(* A selection may begin the cleanup of an operation, and nothing else     *)
(* (_latch_provider_deadline_locked).                                      *)
LEMMA ChoosingBeginsCleanup ==
  ASSUME DecisionInv
  PROVE  /\ \A o, t : Undecided /\ ChooseCharging(o, t) =>
              UNCHANGED cleanup /\ finalizer' \in UnfinalizedPlaces
         /\ \A t, b : Undecided /\ ChooseDeadline(t, b) =>
              /\ finalizer' \in UnfinalizedPlaces
              /\ cleanup' = cleanup \/ (b /\ cleanup' = "waiting")
         /\ \A o : SelectCandidate(o) =>
              \/ UNCHANGED <<finalizer, cleanup>>
              \/ /\ finalizer = "none" /\ finalizer' \in UnfinalizedPlaces
                 /\ cleanup' = cleanup \/ (operation /\ cleanup' = "waiting")
         /\ SelectDeadlineIfDue =>
              \/ UNCHANGED <<finalizer, cleanup>>
              \/ /\ finalizer = "none" /\ finalizer' \in UnfinalizedPlaces
                 /\ cleanup' = cleanup \/ (operation /\ cleanup' = "waiting")
PROOF
  <1>1. \A o, t : Undecided /\ ChooseCharging(o, t) =>
          UNCHANGED cleanup /\ finalizer' \in UnfinalizedPlaces
    BY DEF ChooseCharging, Choose, UnfinalizedPlaces
  <1>2. \A t, b : Undecided /\ ChooseDeadline(t, b) =>
          /\ finalizer' \in UnfinalizedPlaces
          /\ cleanup' = cleanup \/ (b /\ cleanup' = "waiting")
    BY DEF ChooseDeadline, Latch, EnsureCleanup, Choose, UnfinalizedPlaces
  <1>3. Undecided => finalizer = "none"
    BY DEF DecisionInv
  <1> QED
    BY <1>1, <1>2, <1>3 DEF SelectCandidate, SelectDeadlineIfDue, decisionVars

(* A step that leaves the work alone, and at most moves the finalizer from *)
(* nowhere to where it has stopped nothing yet.                            *)
LEMMA WorkUndisturbed ==
  ASSUME WorkInv, UNCHANGED <<read, readCleanupFailed, diagnosed>>,
         startedOk' = startedOk \/ startedOk' = TRUE,
         operation' = operation,
         watcher' = watcher \/ watcher' = "done",
         runner' \in {"created", "publishing", "starting"} =>
           runner \in {"created", "publishing", "starting"},
         runner' \in {"reading", "accepting"} => runner \in {"reading", "accepting"},
         \/ UNCHANGED <<finalizer, cleanup>>
         \/ /\ finalizer = "none" /\ finalizer' \in UnfinalizedPlaces
            /\ cleanup' = cleanup \/ (operation /\ cleanup' = "waiting")
  PROVE  WorkInv'
PROOF
  BY DEF WorkInv, WorkBegins, WorkStops, FailureReported, FromStartCleanup, FromJoin,
         FromReap, FromReport, FromTerminal, EndedPlaces, UnfinalizedPlaces,
         CleanupInFlight

(* run() and its handlers: an operation, a read or the watcher begins only *)
(* while nothing is selected.                                              *)
LEMMA RunnerKeepsWork ==
  ASSUME WorkInv, PlacesInv, TypeOK, DecisionInv, RunnerStep
  PROVE  WorkInv'
PROOF
  <1> DEFINE Starts == {"created", "publishing", "starting"}
  <1>1. CASE Run
    <2>1. /\ UNCHANGED <<read, readCleanupFailed, diagnosed, startedOk, operation,
                         finalizer, cleanup>>
          /\ runner = "created" /\ runner' = "publishing"
          /\ watcher' = watcher \/ finalizer = "none"
      BY <1>1 DEF Run, decisionVars, startVars, readVars, reportVars, DecisionInv
    <2> QED
      BY <2>1 DEF WorkInv, WorkBegins, WorkStops, FailureReported, FromStartCleanup,
                  FromJoin, FromReap, FromReport, FromTerminal, EndedPlaces,
                  CleanupInFlight
  <1>2. CASE PublishResumes \/ RejectResumes \/ JoinResumes
    <2>1. /\ UNCHANGED <<read, readCleanupFailed, diagnosed, startedOk, operation,
                         watcher, finalizer, cleanup>>
          /\ runner' \in Starts => runner \in Starts
          /\ runner' \notin {"reading", "accepting"}
      BY <1>2 DEF PublishResumes, RejectResumes, JoinResumes, ResumeFrom, RunRaised,
                  RunCancelled, EnterHandler, decisionVars, startVars, readVars,
                  reportVars
    <2> QED
      BY <2>1, WorkUndisturbed
  <1>3. CASE AcceptResumes
    <2>1. /\ UNCHANGED <<readCleanupFailed, diagnosed, startedOk, operation, watcher,
                         finalizer, cleanup>>
          /\ runner = "accepting" /\ runner' \notin Starts
          /\ \/ UNCHANGED read /\ runner' \notin {"reading", "accepting"}
             \/ read' = "waiting" /\ runner' = "reading" /\ finalizer = "none"
      BY <1>3 DEF AcceptResumes, ResumeFrom, RunRaised, RunCancelled, EnterHandler,
                  decisionVars, startVars, readVars, reportVars, DecisionInv
    <2> QED
      BY <2>1 DEF WorkInv, WorkBegins, WorkStops, FailureReported, FromStartCleanup,
                  FromJoin, FromReap, FromReport, FromTerminal, EndedPlaces,
                  CleanupInFlight
  <1>4. CASE \/ TeardownJoined \/ FailureSelected \/ FailureJoined
             \/ StartIsCancelled \/ ReadIsCancelled \/ SelectIsCancelled
    <2>1. /\ UNCHANGED <<read, readCleanupFailed, diagnosed, startedOk, operation,
                         watcher, finalizer, cleanup>>
          /\ runner' \notin Starts \cup {"reading", "accepting"}
      BY <1>4 DEF TeardownJoined, FailureSelected, FailureJoined, Leave,
                  StartIsCancelled, ReadIsCancelled, SelectIsCancelled, RunCancelled,
                  EnterHandler, decisionVars, startVars, readVars, reportVars
    <2> QED
      BY <2>1, WorkUndisturbed
  <1>5. CASE StartRefused \/ SelectProviderDeadline
    <2>1. /\ UNCHANGED <<read, readCleanupFailed, diagnosed, startedOk, operation,
                         watcher>>
          /\ runner' = "joining"
      BY <1>5 DEF StartRefused, SelectProviderDeadline, startVars, readVars, reportVars
    <2>2. \/ UNCHANGED <<finalizer, cleanup>>
          \/ /\ finalizer = "none" /\ finalizer' \in UnfinalizedPlaces
             /\ cleanup' = cleanup \/ (operation /\ cleanup' = "waiting")
      BY <1>5, ChoosingBeginsCleanup
      DEF StartRefused, SelectProviderDeadline, decisionVars, DecisionInv
    <2> QED
      BY <2>1, <2>2, WorkUndisturbed
  <1>6. CASE StartOperation
    <2>1. /\ runner = "starting" /\ finalizer = "none"
          /\ UNCHANGED <<readCleanupFailed, diagnosed, startedOk, watcher>>
      BY <1>6 DEF StartOperation, startVars, reportVars, DecisionInv
    <2>2. startedOk /\ ~operation /\ cleanup = "none" /\ read = "none"
      BY <2>1 DEF PlacesInv, StartAgrees, WorkInv, WorkBegins
    <2>3. /\ \/ runner' = "reading" /\ operation' = TRUE
             \/ runner' = "joining" /\ UNCHANGED read
          /\ operation' \in BOOLEAN
          /\ finalizer' \in UnfinalizedPlaces
          /\ cleanup' = "none" \/ operation'
      BY <1>6, <2>1, <2>2, ChoosingBeginsCleanup
      DEF StartOperation, DecisionInv, UnfinalizedPlaces
    <2> QED
      BY <2>1, <2>2, <2>3
      DEF WorkInv, WorkBegins, WorkStops, FailureReported, FromStartCleanup, FromJoin,
          FromReap, FromReport, FromTerminal, EndedPlaces, UnfinalizedPlaces
  <1>7. CASE WakeExpired \/ WakeStopped \/ WakeReaped \/ WakeWithoutEvent \/ WakeWithEvent
    <2>1. /\ UNCHANGED <<readCleanupFailed, diagnosed, startedOk, operation, watcher,
                         finalizer, cleanup>>
          /\ runner = "reading" /\ runner' \notin Starts
          /\ \/ read' \in {read, "none"}
             \/ read = "waiting" /\ read' = "cancelling"
      BY <1>7 DEF WakeExpired, WakeStopped, WakeReaped, WakeWithoutEvent, WakeWithEvent,
                  ReadWakes, CancelRead, TakeRead, decisionVars, startVars, reportVars
    <2> QED
      BY <2>1 DEF WorkInv, WorkBegins, WorkStops, FailureReported, FromStartCleanup,
                  FromJoin, FromReap, FromReport, FromTerminal, EndedPlaces,
                  CleanupInFlight
  <1>8. CASE RunnerReaps
    <2>1. /\ UNCHANGED <<diagnosed, startedOk, operation, watcher, finalizer, cleanup>>
          /\ runner' = "selecting"
          /\ \/ UNCHANGED <<read, readCleanupFailed>>
             \/ read = "done" /\ read' = "reaped"
      BY <1>8 DEF RunnerReaps, ReapRead, TypeOK, ObservationTypes, decisionVars,
                  startVars, reportVars
    <2> QED
      BY <2>1 DEF WorkInv, WorkBegins, WorkStops, FailureReported, FromStartCleanup,
                  FromJoin, FromReap, FromReport, FromTerminal, EndedPlaces,
                  CleanupInFlight
  <1> QED
    BY <1>1, <1>2, <1>3, <1>4, <1>5, <1>6, <1>7, <1>8 DEF RunnerStep

(* Transactions and requests begin nothing but the deadline's cleanup.     *)
LEMMA DecidingKeepsWork ==
  ASSUME WorkInv, PlacesInv, TypeOK, DecisionInv,
         \/ TransactionStep
         \/ \E c \in Cancels : RequestCancellation(c) \/ CancellationStep(c)
         \/ RequestTeardown \/ TeardownStep
  PROVE  WorkInv'
PROOF
  <1>1. CASE \/ BeginStarted \/ StartedWritten \/ DeferredApplied
             \/ RejectTransaction \/ TeardownTransaction \/ DeltaWritten \/ UsageRecorded
    <2>1. /\ UNCHANGED <<read, readCleanupFailed, diagnosed, operation, watcher, runner>>
          /\ startedOk' = startedOk \/ startedOk' = TRUE
      BY <1>1
      DEF BeginStarted, StartedWritten, DeferredApplied, StartSettles,
          RejectTransaction, TeardownTransaction, DeltaWritten, UsageRecorded,
          startVars, readVars, reportVars
    <2>2. \/ UNCHANGED <<finalizer, cleanup>>
          \/ /\ finalizer = "none" /\ finalizer' \in UnfinalizedPlaces
             /\ cleanup' = cleanup \/ (operation /\ cleanup' = "waiting")
      BY <1>1, ChoosingBeginsCleanup
      DEF BeginStarted, StartedWritten, DeferredApplied, RejectTransaction,
          TeardownTransaction, DeltaWritten, UsageRecorded, decisionVars
    <2> QED
      BY <2>1, <2>2, WorkUndisturbed
  <1>2. CASE \/ AcceptNothing \/ AcceptDelta \/ AcceptTextCompleted \/ AcceptUsage
             \/ AcceptOutcome \/ AcceptToolCall
    <2>1. UNCHANGED <<read, readCleanupFailed, diagnosed, operation, watcher, runner,
                      startedOk>>
      BY <1>2
      DEF Accepting, Admitting, AcceptNothing, AcceptDelta, AcceptTextCompleted,
          AcceptUsage, AcceptOutcome, AcceptToolCall, startVars, readVars, reportVars
    <2>2. \/ UNCHANGED <<finalizer, cleanup>>
          \/ /\ finalizer = "none" /\ finalizer' \in UnfinalizedPlaces
             /\ cleanup' = cleanup \/ (operation /\ cleanup' = "waiting")
      BY <1>2, ChoosingBeginsCleanup
      DEF Admitting, AcceptNothing, AcceptDelta, AcceptTextCompleted, AcceptUsage,
          AcceptOutcome, AcceptToolCall, decisionVars, DecisionInv
    <2> QED
      BY <2>1, <2>2, WorkUndisturbed
  <1>3. CASE \/ \E c \in Cancels : RequestCancellation(c) \/ CancellationStep(c)
             \/ RequestTeardown \/ TeardownStep
    <2>1. UNCHANGED <<read, readCleanupFailed, diagnosed, operation, watcher, runner,
                      startedOk>>
      BY <1>3
      DEF RequestCancellation, CancellationStep, CancelDecide, CancelSelect,
          CancelJoined, RequestTeardown, TeardownStep, TeardownDecide,
          TeardownRequestJoined, RequestStep, readVars, reportVars, runVars
    <2>2. \/ UNCHANGED <<finalizer, cleanup>>
          \/ /\ finalizer = "none" /\ finalizer' \in UnfinalizedPlaces
             /\ cleanup' = cleanup \/ (operation /\ cleanup' = "waiting")
      BY <1>3, ChoosingBeginsCleanup
      DEF RequestCancellation, CancellationStep, CancelDecide, CancelSelect,
          CancelJoined, RequestTeardown, TeardownStep, TeardownDecide,
          TeardownRequestJoined, decisionVars
    <2> QED
      BY <2>1, <2>2, WorkUndisturbed
  <1> QED
    BY <1>1, <1>2, <1>3 DEF TransactionStep

(* The cleanup the finalizer starts, or finds running, is in its mode. *)
LEMMA FinalizerStartsItsCleanup ==
  ASSUME DecisionInv, FinalizerStartsCleanup
  PROVE  /\ finalizer' = "join_cleanup"
         /\ operation => cleanup' # "none"
         /\ cleanup' = cleanup \/ operation
PROOF
  <1>1. ~Undecided /\ selection.mode \in CleanupModes
    BY OutcomesDecide DEF FinalizerStartsCleanup, DecisionInv, ChoiceTypes, Undecided
  <1> QED
    BY <1>1
    DEF FinalizerStartsCleanup, EnsureCleanup, DecisionInv, CleanupAgrees, CleanupModes

(* The finalizer stops the watcher, the cleanup and the read in this       *)
(* order, and reports what failed before it goes on.                       *)
LEMMA FinalizationKeepsWork ==
  ASSUME WorkInv, PlacesInv, TypeOK, DecisionInv, FinalizationStep
  PROVE  WorkInv'
PROOF
  <1> USE DEF WorkInv, WorkBegins, WorkStops, FailureReported, FromStartCleanup,
              FromJoin, FromReap, FromReport, FromTerminal, EndedPlaces, CleanupInFlight
  <1>1. UNCHANGED <<operation, startedOk, runner>>
    BY
    DEF FinalizationStep, FinalizerStarts, FinalizerStopsWatcher,
        FinalizerStartsCleanup, FinalizerJoinsCleanup, FinalizerReaps,
        FinalizerReports, TerminalBegins, SealWritten, TerminalWritten, FinalizerStep,
        runVars, startVars
  <1>2. CASE FinalizerStarts
    BY <1>1, <1>2 DEF FinalizerStarts, StopWatcher, readVars, reportVars
  <1>3. CASE FinalizerStopsWatcher
    BY <1>1, <1>3 DEF FinalizerStopsWatcher, StopWatcher, readVars, reportVars
  <1>4. CASE FinalizerStartsCleanup
    BY <1>1, <1>4, FinalizerStartsItsCleanup
    DEF FinalizerStartsCleanup, readVars, reportVars
  <1>5. CASE FinalizerJoinsCleanup
    BY <1>1, <1>5 DEF FinalizerJoinsCleanup, CancelRead, reportVars
  <1>6. CASE FinalizerReaps
    <2>1. /\ UNCHANGED <<cleanup, watcher, diagnosed>> /\ finalizer = "reap"
          /\ read \in {"none", "done", "reaped"} /\ read' \in {"none", "reaped"}
          /\ read' # "none" => read # "none"
          /\ readCleanupFailed' => readCleanupFailed \/ read = "done"
          /\ finalizer' = IF cleanup = "failed" \/ readCleanupFailed' THEN "report"
                          ELSE AfterCleanup
          /\ readCleanupFailed' \in BOOLEAN
      BY <1>6 DEF FinalizerReaps, ReapRead, ReadInFlight, reportVars, TypeOK,
                  ObservationTypes
    <2>2. AfterCleanup \in {"done", "terminal"}
      BY DEF AfterCleanup
    <2> HIDE DEF AfterCleanup
    <2> QED
      BY <1>1, <2>1, <2>2
  <1>7. CASE FinalizerReports
    <2>1. /\ UNCHANGED <<cleanup, watcher, read, readCleanupFailed>>
          /\ finalizer = "report"
          /\ \/ diagnosed' = TRUE /\ finalizer' \in {"done", "terminal"}
             \/ finalizer' = "raised"
      BY <1>7 DEF FinalizerReports, AfterCleanup, WriteOutcomes, readVars
    <2> QED
      BY <1>1, <2>1
  <1>8. CASE TerminalBegins \/ SealWritten \/ TerminalWritten
    <2>1. /\ UNCHANGED <<cleanup, watcher, read, readCleanupFailed, diagnosed>>
          /\ finalizer \in {"terminal", "sealing", "ending"}
          /\ finalizer' \in {"sealing", "ending", "done", "raised"}
      BY <1>8 DEF TerminalBegins, SealWritten, TerminalWritten, ReportLimits, readVars,
                  reportVars
    <2> QED
      BY <1>1, <2>1
  <1> QED
    BY <1>2, <1>3, <1>4, <1>5, <1>6, <1>7, <1>8 DEF FinalizationStep

(* The provider and the clock end work, and only the deadline, before a    *)
(* selection, begins any.                                                  *)
LEMMA EnvironmentKeepsWork ==
  ASSUME WorkInv, PlacesInv, TypeOK, DecisionInv,
         \/ ProviderYields \/ ReadAnswersCancel \/ Tick \/ WatcherFires
         \/ CleanupReturns \/ GraceExpires \/ ForceReturns \/ OuterCancel
  PROVE  WorkInv'
PROOF
  <1>1. UNCHANGED <<operation, startedOk, runner, finalizer, readCleanupFailed,
                    diagnosed>>
    BY DEF ProviderYields, ReadAnswersCancel, Tick, WatcherFires, CleanupReturns,
           GraceExpires, ForceReturns, CleanupStep, OuterCancel, EnvironmentStep,
           startVars, readVars, reportVars
  <1>2. CASE ProviderYields \/ ReadAnswersCancel
    <2>1. /\ UNCHANGED <<cleanup, watcher>>
          /\ read \in {"waiting", "cancelling"} /\ read' = "done"
      BY <1>2 DEF ProviderYields, ReadAnswersCancel
    <2> QED
      BY <1>1, <2>1
      DEF WorkInv, WorkBegins, WorkStops, FailureReported, FromStartCleanup, FromJoin,
          FromReap, FromReport, FromTerminal, EndedPlaces, CleanupInFlight
  <1>3. CASE CleanupReturns \/ GraceExpires \/ ForceReturns
    <2>1. /\ UNCHANGED <<read, watcher>>
          /\ cleanup \in {"waiting", "forcing"}
          /\ cleanup' \in {"clean", "failed", "forcing"}
      BY <1>3 DEF CleanupReturns, GraceExpires, ForceReturns, CleanupStep, readVars
    <2> QED
      BY <1>1, <2>1
      DEF WorkInv, WorkBegins, WorkStops, FailureReported, FromStartCleanup, FromJoin,
          FromReap, FromReport, FromTerminal, EndedPlaces, CleanupInFlight
  <1>4. CASE Tick \/ OuterCancel
    BY <1>1, <1>4, WorkUndisturbed DEF Tick, OuterCancel, readVars
  <1>5. CASE WatcherFires
    <2>1. /\ UNCHANGED read /\ watcher' = "done"
          /\ \/ UNCHANGED cleanup
             \/ /\ finalizer = "none"
                /\ cleanup' = cleanup \/ (operation /\ cleanup' = "waiting")
      BY <1>5 DEF WatcherFires, Latch, EnsureCleanup, readVars, DecisionInv
    <2> QED
      BY <1>1, <2>1, WorkUndisturbed DEF UnfinalizedPlaces
  <1> QED
    BY <1>2, <1>3, <1>4, <1>5

(* Whatever the session started has stopped by the time its finalizer goes *)
(* on past it.                                                             *)
THEOREM WorkInvariant == Spec => []WorkInv
PROOF
  <1>1. Init => WorkInv
    BY InitWork
  <1>2. WorkInv /\ PlacesInv /\ TypeOK /\ DecisionInv /\ [Next]_vars => WorkInv'
    <2> SUFFICES ASSUME WorkInv, PlacesInv, TypeOK, DecisionInv, [Next]_vars
                 PROVE  WorkInv'
      OBVIOUS
    <2>1. CASE UNCHANGED vars
      BY <2>1, WorkUndisturbed
      DEF vars, decisionVars, runVars, startVars, readVars, reportVars
    <2> QED
      BY <2>1, RunnerKeepsWork, DecidingKeepsWork, FinalizationKeepsWork,
         EnvironmentKeepsWork
      DEF Next, Finished
  <1> QED
    BY <1>1, <1>2, PlacesInvariant, TypeCorrect, DecisionInvariant, PTL DEF Spec
-----------------------------------------------------------------------------
(* Who selects, and who publishes: what the remaining parts ask of every   *)
(* step.                                                                   *)

(* A selection is made once, of a failure or a teardown by anyone, of the  *)
(* provider's own outcome by the observation that brings it, and of a      *)
(* cancellation by its request.                                            *)
Selecting(o) ==
  /\ Undecided /\ selection' = o
  /\ finalizer = "none"
  /\ finalizer' = IF o.kind = "teardown" THEN "stop_watcher" ELSE "await_start"
Forced == {o \in Outcomes : o.kind \in {"failed", "teardown"}}

(* The outcomes nothing but the decision needs.                            *)
LEMMA ForcedOutcomes ==
  /\ DeadlineOutcome \in Forced /\ Teardown \in Forced
  /\ FailedWith(InvalidResponse) \in Forced /\ FailedWith(ToolUnavailable) \in Forced
  /\ \A x \in Exhaustions : FailedWith(LimitFailureCode(x)) \in Forced
PROOF
  <1>1. \A code \in SessionCodes : FailedWith(code) \in Forced
    BY DEF Forced, Outcomes, FailedWith, Outcome
  <1>2. Teardown \in Forced
    BY DEF Forced, Outcomes, Teardown, Outcome
  <1>3. \A x \in Exhaustions : LimitFailureCode(x) \in SessionCodes
    BY DEF SessionCodes, LimitFailureCodes
  <1>4. InvalidResponse \in SessionCodes /\ ToolUnavailable \in SessionCodes
    BY DEF SessionCodes
  <1>5. "provider_work" \in Exhaustions
    BY DEF Exhaustions
  <1> QED
    BY <1>1, <1>2, <1>3, <1>4, <1>5 DEF DeadlineOutcome

(* _select_locked and its callers. *)
LEMMA ChoosingSelects ==
  ASSUME DecisionInv
  PROVE  /\ \A o, t : Undecided /\ ChooseCharging(o, t) => Selecting(o)
         /\ \A t, b : Undecided /\ ChooseDeadline(t, b) => Selecting(DeadlineOutcome)
         /\ \A o : SelectCandidate(o) =>
              \/ UNCHANGED <<selection, finalizer>>
              \/ Selecting(DeadlineOutcome) \/ (~Expired /\ Selecting(o))
         /\ SelectDeadlineIfDue =>
              UNCHANGED <<selection, finalizer>> \/ Selecting(DeadlineOutcome)
PROOF
  <1>1. \A o, t : Undecided /\ ChooseCharging(o, t) => Selecting(o)
    BY DEF ChooseCharging, Choose, Selecting, DecisionInv
  <1>2. \A t, b : Undecided /\ ChooseDeadline(t, b) => Selecting(DeadlineOutcome)
    BY DEF ChooseDeadline, Choose, Selecting, DecisionInv
  <1> QED
    BY <1>1, <1>2 DEF SelectCandidate, SelectDeadlineIfDue, decisionVars

(* Every selection, with the step that makes it; it gives up the lock.     *)
LEMMA WhoSelects ==
  ASSUME DecisionInv, PlacesInv, [Next]_vars
  PROVE  \/ UNCHANGED selection /\ (UNCHANGED finalizer \/ FinalizationStep)
         \/ /\ decisionLock' = "free"
            /\ decisionLock = "cancel" => \E c \in Cancels : CancelSelect(c)
            /\ \/ \E o \in Forced : Selecting(o)
               \/ AcceptOutcome /\ Selecting(IF result.kind = "completed" THEN Completed
                                             ELSE ProviderReported)
               \/ \E c \in Cancels : /\ CancelDecide(c) \/ CancelSelect(c)
                                     /\ Selecting(CancelledBy(c))
PROOF
  <1> DEFINE Unselected == UNCHANGED <<selection, finalizer>>
             ByForce == \E o \in Forced : Selecting(o)
             Unlocks == /\ decisionLock' = "free"
                        /\ decisionLock = "cancel" => \E c \in Cancels : CancelSelect(c)
  <1>1. CASE UNCHANGED vars
    BY <1>1 DEF vars, decisionVars
  <1>2. CASE RunnerStep
    <2>1. CASE \/ Run \/ PublishResumes \/ AcceptResumes \/ RejectResumes \/ JoinResumes
               \/ TeardownJoined \/ FailureSelected \/ FailureJoined
               \/ StartIsCancelled \/ ReadIsCancelled \/ SelectIsCancelled
               \/ WakeExpired \/ WakeStopped \/ WakeReaped
               \/ WakeWithoutEvent \/ WakeWithEvent \/ RunnerReaps
      BY <2>1
      DEF Run, PublishResumes, AcceptResumes, RejectResumes, ResumeFrom, JoinResumes,
          TeardownJoined, FailureSelected, FailureJoined, Leave, StartIsCancelled,
          ReadIsCancelled, SelectIsCancelled, WakeExpired, WakeStopped, WakeReaped,
          WakeWithoutEvent, WakeWithEvent, ReadWakes, RunnerReaps, decisionVars
    <2>2. CASE StartRefused \/ StartOperation \/ SelectProviderDeadline
      <3>1. "model_turns" \in Exhaustions
        BY DEF Exhaustions
      <3>2. Unselected \/ ByForce
        BY <2>2, <3>1, ChoosingSelects, ForcedOutcomes
        DEF StartRefused, StartOperation, SelectProviderDeadline, decisionVars
      <3>3. Unlocks
        BY <2>2 DEF StartRefused, StartOperation, SelectProviderDeadline, LockIsFree
      <3> QED
        BY <3>2, <3>3
    <2> QED
      BY <1>2, <2>1, <2>2 DEF RunnerStep
  <1>3. CASE TransactionStep
    <2>1. CASE BeginStarted \/ StartedWritten \/ DeferredApplied \/ AcceptTextCompleted
               \/ AcceptUsage
      BY <2>1 DEF BeginStarted, StartedWritten, DeferredApplied, AcceptTextCompleted,
                  AcceptUsage, decisionVars
    <2>2. CASE RejectTransaction \/ TeardownTransaction
      <3>1. Unselected \/ ByForce
        BY <2>2, ChoosingSelects, ForcedOutcomes
        DEF RejectTransaction, TeardownTransaction, decisionVars
      <3>2. Unlocks
        BY <2>2 DEF RejectTransaction, TeardownTransaction, LockIsFree
      <3> QED
        BY <3>1, <3>2
    <2>3. CASE DeltaWritten \/ UsageRecorded
      <3>1. Unselected \/ ByForce
        BY <2>3, ChoosingSelects, ForcedOutcomes
        DEF DeltaWritten, UsageRecorded, decisionVars
      <3>2. decisionLock' = "free" /\ decisionLock # "cancel"
        BY <2>3 DEF DeltaWritten, UsageRecorded, Release, PlacesInv, LockAgrees
      <3> QED
        BY <3>1, <3>2
    <2>4. CASE AcceptNothing \/ AcceptDelta \/ AcceptToolCall
      <3>1. "assistant_output" \in Exhaustions /\ "tool_calls" \in Exhaustions
        BY DEF Exhaustions
      <3>2. Unselected \/ (Unlocks /\ ByForce)
        BY <2>4, <3>1, ChoosingSelects, ForcedOutcomes
        DEF AcceptNothing, AcceptDelta, AcceptToolCall, Admitting, LockIsFree,
            decisionVars
      <3> QED
        BY <3>2
    <2>5. CASE AcceptOutcome
      BY <2>5, ChoosingSelects DEF AcceptOutcome, Admitting, LockIsFree
    <2> QED
      BY <1>3, <2>1, <2>2, <2>3, <2>4, <2>5 DEF TransactionStep
  <1>4. CASE FinalizationStep
    <2>1. UNCHANGED selection
      BY <1>4
      DEF FinalizationStep, FinalizerStarts, FinalizerStopsWatcher,
          FinalizerStartsCleanup, FinalizerJoinsCleanup, FinalizerReaps,
          FinalizerReports, TerminalBegins, SealWritten, TerminalWritten, FinalizerStep
    <2> QED
      BY <1>4, <2>1
  <1>5. ASSUME NEW c \in Cancels, RequestCancellation(c) \/ CancellationStep(c)
        PROVE  \/ Unselected
               \/ Unlocks /\ \/ ByForce
                             \/ /\ CancelDecide(c) \/ CancelSelect(c)
                                /\ Selecting(CancelledBy(c))
    <2>1. CASE RequestCancellation(c) \/ CancelJoined(c)
      BY <2>1 DEF RequestCancellation, CancelJoined, decisionVars
    <2>2. CASE CancelDecide(c) \/ CancelSelect(c)
      <3>1. \/ UNCHANGED decisionVars
            \/ SelectCandidate(CancelledBy(c)) /\ Unlocks
        BY <2>2 DEF CancelDecide, CancelSelect, Release
      <3> QED
        BY <2>2, <3>1, ChoosingSelects, ForcedOutcomes DEF decisionVars
    <2> QED
      BY <1>5, <2>1, <2>2 DEF CancellationStep
  <1>6. CASE \E c \in Cancels : RequestCancellation(c) \/ CancellationStep(c)
    BY <1>5, <1>6
  <1>7. CASE RequestTeardown \/ TeardownStep
    <2>1. Unselected \/ (ByForce /\ Unlocks)
      BY <1>7, ChoosingSelects, ForcedOutcomes
      DEF RequestTeardown, TeardownStep, TeardownDecide, TeardownRequestJoined,
          LockIsFree, decisionVars
    <2> QED
      BY <2>1
  <1>8. CASE \/ ProviderYields \/ ReadAnswersCancel \/ Tick \/ WatcherFires
             \/ CleanupReturns \/ GraceExpires \/ ForceReturns \/ OuterCancel
    BY <1>8
    DEF ProviderYields, ReadAnswersCancel, Tick, WatcherFires, CleanupReturns,
        GraceExpires, ForceReturns, CleanupStep, OuterCancel, EnvironmentStep
  <1> QED
    BY <1>1, <1>2, <1>3, <1>4, <1>6, <1>7, <1>8 DEF Next, Finished

(* The reducer hears of an event that was written, or of a cancellation.   *)
LEMMA WhoPublishes ==
  ASSUME [Next]_vars
  PROVE  \/ UNCHANGED <<lifecycle, sequence>>
         \/ StartedWritten \/ DeferredApplied \/ DeltaWritten
         \/ SealWritten \/ TerminalWritten
         \/ \E c \in Cancels : CancelDecide(c)
PROOF
  <1> DEFINE Still == UNCHANGED <<lifecycle, sequence>>
  <1>1. UNCHANGED vars => Still
    BY DEF vars, publishVars
  <1>2. RunnerStep => Still
    BY
    DEF RunnerStep, Run, PublishResumes, AcceptResumes, RejectResumes, ResumeFrom,
        JoinResumes, TeardownJoined, FailureSelected, FailureJoined, Leave,
        StartIsCancelled, StartRefused, StartOperation, ReadIsCancelled, WakeExpired,
        WakeStopped, WakeReaped, WakeWithoutEvent, WakeWithEvent, ReadWakes,
        RunnerReaps, SelectIsCancelled, SelectProviderDeadline, publishVars
  <1>3. TransactionStep => Still \/ StartedWritten \/ DeferredApplied \/ DeltaWritten
    BY
    DEF TransactionStep, BeginStarted, RejectTransaction, TeardownTransaction,
        Accepting, Admitting, AcceptNothing, AcceptDelta, AcceptTextCompleted,
        AcceptUsage, AcceptOutcome, AcceptToolCall, UsageRecorded, publishVars
  <1>4. FinalizationStep => Still \/ SealWritten \/ TerminalWritten
    BY
    DEF FinalizationStep, FinalizerStarts, FinalizerStopsWatcher,
        FinalizerStartsCleanup, FinalizerJoinsCleanup, FinalizerReaps,
        FinalizerReports, TerminalBegins, publishVars
  <1>5. \A c \in Cancels : RequestCancellation(c) \/ CancellationStep(c) =>
          Still \/ CancelDecide(c)
    BY DEF RequestCancellation, CancellationStep, CancelSelect, CancelJoined, publishVars
  <1>6. RequestTeardown \/ TeardownStep => Still
    BY DEF RequestTeardown, TeardownStep, TeardownDecide, TeardownRequestJoined,
           publishVars
  <1>7. ASSUME \/ ProviderYields \/ ReadAnswersCancel \/ Tick \/ WatcherFires
               \/ CleanupReturns \/ GraceExpires \/ ForceReturns \/ OuterCancel
        PROVE  Still
    BY <1>7
    DEF ProviderYields, ReadAnswersCancel, Tick, WatcherFires, CleanupReturns,
        GraceExpires, ForceReturns, CleanupStep, OuterCancel, EnvironmentStep,
        publishVars
  <1> QED
    BY <1>1, <1>2, <1>3, <1>4, <1>5, <1>6, <1>7 DEF Next, Finished
-----------------------------------------------------------------------------
(* Part three: the text.                                                   *)

(* What was accepted is what was published, a completed text has confirmed *)
(* all of it, and a delta under way is the one observation that run() has. *)
TextAgrees ==
  /\ text = lifecycle.assistant_text
  /\ completedText # None => completedText = text
  /\ selection.kind = "completed" => completedText # None /\ completedText # << >>
  /\ txn = "writing" => completedText = None /\ result.kind = "delta"
  /\ runner = "accepting" => ~ReadInFlight

(* The constructor. *)
LEMMA InitText == Init => TextAgrees
PROOF
  <1> SUFFICES ASSUME Init PROVE TextAgrees
    OBVIOUS
  <1>1. lifecycle.assistant_text = << >>
    BY TaskAccepted, SessionAssumption DEF Init
  <1> QED
    BY <1>1 DEF Init, TextAgrees, NoSelection, Outcome

(* Each of the three things that TextAgrees relates has one author.        *)
LEMMA WhoAccepts ==
  ASSUME [Next]_vars
  PROVE  /\ UNCHANGED text \/ DeltaWritten
         /\ UNCHANGED completedText \/ AcceptTextCompleted
         /\ txn' = "writing" => txn = "writing" \/ AcceptDelta
PROOF
  <1> DEFINE Same == UNCHANGED <<text, completedText>>
             Quiet == txn' = "writing" => txn = "writing"
  <1>1. CASE UNCHANGED vars
    BY <1>1 DEF vars, acceptVars, runVars
  <1>2. CASE RunnerStep
    <2>1. Same
      BY <1>2
      DEF RunnerStep, Run, PublishResumes, AcceptResumes, RejectResumes, ResumeFrom,
          JoinResumes, TeardownJoined, FailureSelected, FailureJoined, Leave,
          StartIsCancelled, StartRefused, StartOperation, ReadIsCancelled, WakeExpired,
          WakeStopped, WakeReaped, WakeWithoutEvent, WakeWithEvent, ReadWakes,
          RunnerReaps, SelectIsCancelled, SelectProviderDeadline, acceptVars
    <2>2. CASE \/ Run \/ PublishResumes \/ AcceptResumes \/ RejectResumes \/ JoinResumes
               \/ TeardownJoined \/ FailureSelected \/ FailureJoined
      <3>1. Quiet
        BY <2>2
        DEF Run, PublishResumes, AcceptResumes, RejectResumes, ResumeFrom, JoinResumes,
            TeardownJoined, FailureSelected, FailureJoined, Leave, RunRaised,
            RunCancelled, EnterHandler
      <3> QED
        BY <2>1, <3>1
    <2>3. CASE \/ StartIsCancelled \/ StartRefused \/ StartOperation \/ ReadIsCancelled
               \/ WakeExpired \/ WakeStopped \/ WakeReaped \/ WakeWithoutEvent
               \/ WakeWithEvent \/ RunnerReaps
               \/ SelectIsCancelled \/ SelectProviderDeadline
      <3>1. Quiet
        BY <2>3
        DEF StartIsCancelled, StartRefused, StartOperation, ReadIsCancelled,
            WakeExpired, WakeStopped, WakeReaped, WakeWithoutEvent, WakeWithEvent,
            ReadWakes, RunnerReaps, SelectIsCancelled, SelectProviderDeadline,
            RunCancelled, EnterHandler
      <3> QED
        BY <2>1, <3>1
    <2> QED
      BY <1>2, <2>2, <2>3 DEF RunnerStep
  <1>3. CASE TransactionStep
    BY <1>3
    DEF TransactionStep, BeginStarted, StartedWritten, DeferredApplied, StartSettles,
        RejectTransaction, TeardownTransaction, Accepting, Admitting, AcceptNothing,
        AcceptUsage, AcceptOutcome, AcceptToolCall, AcceptDelta, AcceptTextCompleted,
        DeltaWritten, UsageRecorded, acceptVars
  <1>4. CASE FinalizationStep
    BY <1>4
    DEF FinalizationStep, FinalizerStarts, FinalizerStopsWatcher,
        FinalizerStartsCleanup, FinalizerJoinsCleanup, FinalizerReaps,
        FinalizerReports, TerminalBegins, SealWritten, TerminalWritten, FinalizerStep,
        acceptVars, runVars
  <1>5. CASE \/ \E c \in Cancels : RequestCancellation(c) \/ CancellationStep(c)
             \/ RequestTeardown \/ TeardownStep
    BY <1>5
    DEF RequestCancellation, CancellationStep, CancelDecide, CancelSelect,
        CancelJoined, RequestTeardown, TeardownStep, TeardownDecide,
        TeardownRequestJoined, RequestStep, acceptVars, runVars
  <1>6. CASE \/ ProviderYields \/ ReadAnswersCancel \/ Tick \/ WatcherFires
             \/ CleanupReturns \/ GraceExpires \/ ForceReturns \/ OuterCancel
    BY <1>6
    DEF ProviderYields, ReadAnswersCancel, Tick, WatcherFires, CleanupReturns,
        GraceExpires, ForceReturns, CleanupStep, OuterCancel, EnvironmentStep, acceptVars
  <1> QED
    BY <1>1, <1>2, <1>3, <1>4, <1>5, <1>6 DEF Next, Finished

(* No read is under way while an observation is being accepted, so the     *)
(* observation stays what it is.                                           *)
LEMMA AcceptingHoldsResult ==
  ASSUME TextAgrees, TypeOK, [Next]_vars, runner' = "accepting"
  PROVE  /\ ~ReadInFlight'
         /\ runner = "accepting" => UNCHANGED result
         /\ runner = "accepting" \/ WakeWithEvent
PROOF
  <1> DEFINE Held == /\ runner = "accepting" /\ UNCHANGED result
                     /\ read' \in {read, "reaped"}
  <1>1. Held => ~ReadInFlight' /\ runner = "accepting" /\ UNCHANGED result
    BY DEF TextAgrees, ReadInFlight
  <1>2. CASE UNCHANGED vars
    <2>1. Held
      BY <1>2 DEF vars, readVars, runVars
    <2> QED
      BY <1>1, <2>1
  <1>3. CASE RunnerStep
    <2>1. WakeWithEvent
      BY <1>3
      DEF RunnerStep, Run, PublishResumes, AcceptResumes, RejectResumes, ResumeFrom,
          JoinResumes, TeardownJoined, FailureSelected, FailureJoined, Leave,
          StartIsCancelled, StartRefused, StartOperation, ReadIsCancelled, WakeExpired,
          WakeStopped, WakeReaped, WakeWithoutEvent, ReadWakes, RunnerReaps,
          SelectIsCancelled, SelectProviderDeadline, RunRaised, RunCancelled,
          EnterHandler
    <2> QED
      BY <2>1 DEF WakeWithEvent, TakeRead, ReadWakes, ReadInFlight
  <1>4. CASE TransactionStep
    <2>1. Held
      BY <1>4
      DEF TransactionStep, BeginStarted, StartedWritten, DeferredApplied,
          RejectTransaction, TeardownTransaction, Accepting, Admitting, AcceptNothing,
          AcceptUsage, AcceptOutcome, AcceptToolCall, AcceptDelta, AcceptTextCompleted,
          DeltaWritten, UsageRecorded, readVars
    <2> QED
      BY <1>1, <2>1
  <1>5. CASE FinalizationStep
    <2>1. runner = "accepting"
      BY <1>5
      DEF FinalizationStep, FinalizerStarts, FinalizerStopsWatcher,
          FinalizerStartsCleanup, FinalizerJoinsCleanup, FinalizerReaps,
          FinalizerReports, TerminalBegins, SealWritten, TerminalWritten, FinalizerStep,
          runVars
    <2>2. read # "waiting"
      BY <2>1 DEF TextAgrees, ReadInFlight
    <2>3. UNCHANGED result /\ read' \in {read, "reaped"}
      BY <1>5, <2>2
      DEF FinalizationStep, FinalizerStarts, FinalizerStopsWatcher,
          FinalizerStartsCleanup, FinalizerJoinsCleanup, FinalizerReaps,
          FinalizerReports, TerminalBegins, SealWritten, TerminalWritten, CancelRead,
          ReapRead, readVars
    <2> QED
      BY <1>1, <2>1, <2>3
  <1>6. CASE \/ \E c \in Cancels : RequestCancellation(c) \/ CancellationStep(c)
             \/ RequestTeardown \/ TeardownStep
    <2>1. Held
      BY <1>6
      DEF RequestCancellation, CancellationStep, CancelDecide, CancelSelect,
          CancelJoined, RequestTeardown, TeardownStep, TeardownDecide,
          TeardownRequestJoined, RequestStep, readVars, runVars
    <2> QED
      BY <1>1, <2>1
  <1>7. CASE \/ ProviderYields \/ ReadAnswersCancel \/ Tick \/ WatcherFires
             \/ CleanupReturns \/ GraceExpires \/ ForceReturns \/ OuterCancel
    <2>1. runner = "accepting"
      BY <1>7
      DEF ProviderYields, ReadAnswersCancel, Tick, WatcherFires, CleanupReturns,
          GraceExpires, ForceReturns, CleanupStep, OuterCancel, EnvironmentStep
    <2>2. read \notin {"waiting", "cancelling"}
      BY <2>1 DEF TextAgrees, ReadInFlight
    <2>3. Held
      BY <1>7, <2>1, <2>2
      DEF ProviderYields, ReadAnswersCancel, Tick, WatcherFires, CleanupReturns,
          GraceExpires, ForceReturns, CleanupStep, OuterCancel, readVars
    <2> QED
      BY <1>1, <2>3
  <1> QED
    BY <1>2, <1>3, <1>4, <1>5, <1>6, <1>7 DEF Next, Finished

(* The reducer's text grows by an accepted delta and by nothing else.      *)
LEMMA ReducedText ==
  ASSUME TypeOK, PublishingInv, DecisionInv, [Next]_vars, ~DeltaWritten
  PROVE  lifecycle'.assistant_text = lifecycle.assistant_text
PROOF
  <1> DEFINE Same == lifecycle'.assistant_text = lifecycle.assistant_text
  <1>1. lifecycle \in SessionState
    BY DEF TypeOK, WireTypes
  <1>2. \A type \in EventTypes : \A correlation, payload, code :
          type # "assistant.delta"
            /\ lifecycle' = After(lifecycle, Event(type, correlation, payload, code))
          => Same
    BY <1>1, EventText DEF Event
  <1>3. \A c : lifecycle' = After(lifecycle, CancelRequested(c, SessionId)) => Same
    BY <1>1, CancellationText
  <1>4. CASE StartedWritten
    BY <1>2, <1>4 DEF StartedWritten, Publish, StartedEvent, publishVars, EventTypes
  <1>5. CASE DeferredApplied
    BY <1>3, <1>5 DEF DeferredApplied
  <1>6. CASE SealWritten
    BY <1>2, <1>6 DEF SealWritten, Publish, AssistantCompletedEvent, publishVars,
                      EventTypes
  <1>7. CASE TerminalWritten
    <2>1. UNCHANGED lifecycle \/ lifecycle' = After(lifecycle, TerminalEvent)
      BY <1>7 DEF TerminalWritten, Publish, publishVars
    <2>2. selection \in Outcomes /\ selection.kind # "teardown"
      BY <1>7 DEF TerminalWritten, PublishingInv, DecisionInv, ChoiceTypes, Undecided
    <2>3. selection.kind \in {"completed", "failed", "cancelled"}
      BY <2>2, OutcomeFields
    <2> QED
      BY <1>2, <2>1, <2>3 DEF TerminalEvent, EventTypes
  <1>8. CASE \E c \in Cancels : CancelDecide(c)
    BY <1>3, <1>8 DEF CancelDecide
  <1> QED
    BY <1>4, <1>5, <1>6, <1>7, <1>8, WhoPublishes

(* The written delta, if the reducer accepts it, is what is accepted.      *)
LEMMA DeltaText ==
  ASSUME TextAgrees, TypeOK, DeltaWritten
  PROVE  text' = lifecycle'.assistant_text
PROOF
  <1>1. lifecycle \in SessionState /\ sequence \in Nat
    BY DEF TypeOK, WireTypes
  <1>2. After(lifecycle, DeltaEvent).assistant_text =
          IF Accepts(lifecycle, DeltaEvent) THEN lifecycle.assistant_text \o result.text
          ELSE lifecycle.assistant_text
    BY <1>1, EventText DEF DeltaEvent, Event, EventTypes
  <1>3. CASE sequence' # sequence /\ Accepts(lifecycle, DeltaEvent)
    BY <1>2, <1>3 DEF DeltaWritten, Publish, publishVars, TextAgrees
  <1>4. CASE ~(sequence' # sequence /\ Accepts(lifecycle, DeltaEvent))
    <2>1. UNCHANGED text
      BY <1>4 DEF DeltaWritten
    <2>2. \/ UNCHANGED lifecycle
          \/ sequence' = sequence + 1 /\ lifecycle' = After(lifecycle, DeltaEvent)
      BY DEF DeltaWritten, Publish, publishVars
    <2> QED
      BY <1>1, <1>2, <1>4, <2>1, <2>2 DEF TextAgrees
  <1> QED
    BY <1>3, <1>4

(* The text the session accepted from the provider is the text the reducer *)
(* accepted, and a selected completion has reconciled all of it.           *)
THEOREM TextInvariant == Spec => []TextAgrees
PROOF
  <1>1. Init => TextAgrees
    BY InitText
  <1>2. TextAgrees /\ PlacesInv /\ TypeOK /\ PublishingInv /\ DecisionInv /\ [Next]_vars
          => TextAgrees'
    <2> SUFFICES ASSUME TextAgrees, PlacesInv, TypeOK, PublishingInv, DecisionInv,
                        [Next]_vars
                 PROVE  TextAgrees'
      OBVIOUS
    <2>1. txn = "writing" => runner = "accepting" /\ completedText = None
      BY DEF PlacesInv, TxnAgrees, TextAgrees
    <2>2. (text = lifecycle.assistant_text)'
      BY WhoAccepts, ReducedText, DeltaText DEF TextAgrees
    <2>3. (completedText # None => completedText = text)'
      <3>1. CASE AcceptTextCompleted
        <4>1. UNCHANGED text /\ completedText' = result.text /\ result.text = text
          BY <3>1 DEF AcceptTextCompleted, Admitting, Accepting, OutOfOrder
        <4> QED
          BY <4>1
      <3>2. CASE UNCHANGED completedText
        BY <2>1, <3>2, WhoAccepts DEF TextAgrees, DeltaWritten
      <3> QED
        BY <3>1, <3>2, WhoAccepts
    <2>4. (selection.kind = "completed" => completedText # None /\ completedText # << >>)'
      <3>1. CASE UNCHANGED selection
        <4>1. selection.kind = "completed" => ~AcceptTextCompleted
          BY DEF AcceptTextCompleted, Admitting, Undecided, NoSelection, Outcome
        <4> QED
          BY <3>1, <4>1, WhoAccepts DEF TextAgrees
      <3>2. CASE \E o \in Forced : Selecting(o)
        BY <3>2 DEF Selecting, Forced
      <3>3. CASE AcceptOutcome /\ Selecting(IF result.kind = "completed" THEN Completed
                                            ELSE ProviderReported)
        <4>1. UNCHANGED completedText
          BY <3>3 DEF AcceptOutcome
        <4>2. result.kind = "completed" => completedText # None /\ text # << >>
          BY <3>3 DEF AcceptOutcome, Admitting, OutOfOrder
        <4>3. result.kind # "completed" => selection'.kind = "failed"
          BY <3>3 DEF Selecting, ProviderReported, Outcome
        <4> QED
          BY <4>1, <4>2, <4>3 DEF TextAgrees
      <3>4. CASE \E c \in Cancels : Selecting(CancelledBy(c))
        BY <3>4 DEF Selecting, CancelledBy, Outcome
      <3> QED
        BY <3>1, <3>2, <3>3, <3>4, WhoSelects
    <2>5. (txn = "writing" => completedText = None /\ result.kind = "delta")'
      <3>1. CASE AcceptDelta
        BY <3>1 DEF AcceptDelta, Admitting, Accepting, OutOfOrder, readVars
      <3>2. CASE txn = "writing" /\ txn' = "writing"
        <4>1. UNCHANGED completedText
          BY <3>2, WhoAccepts DEF AcceptTextCompleted, Admitting, Accepting
        <4>2. UNCHANGED runner => UNCHANGED result
          BY <2>1, <3>2, AcceptingHoldsResult
        <4>3. PlacesInv'
          BY PlacesStep
        <4>4. UNCHANGED runner
          BY <2>1, <3>2, <4>3 DEF PlacesInv, TxnAgrees
        <4> QED
          BY <3>2, <4>1, <4>2, <4>4 DEF TextAgrees
      <3> QED
        BY <3>1, <3>2, WhoAccepts
    <2>6. (runner = "accepting" => ~ReadInFlight)'
      BY AcceptingHoldsResult
    <2> QED
      BY <2>2, <2>3, <2>4, <2>5, <2>6 DEF TextAgrees
  <1> QED
    BY <1>1, <1>2, PlacesInvariant, TypeInvariant, DecisionInvariant, PTL DEF Spec
-----------------------------------------------------------------------------
(* Part four: how the reducer's status follows the decision.               *)

(* The reducer has heard of exactly what was committed, and is past its    *)
(* start exactly when the start succeeded.                                 *)
StatusAgrees ==
  /\ lifecycle.start_command_id = StartCommand
  /\ lifecycle.last_sequence = sequence
  /\ lifecycle.status # "starting" => lifecycle.session_id = SessionId
  /\ startedOk => lifecycle.status # "starting"
  /\ ~startedOk => lifecycle.status = IF txn = "deferring" THEN "running" ELSE "starting"
  /\ lifecycle.status # "failed" => lifecycle.session_failure = None
  /\ lifecycle.status \in {"starting", "running", "cancelling"} \cup TerminalStatuses

(* A cancellation reaches the reducer before it is selected, unless the    *)
(* session is still starting; then it is kept for after the start.         *)
CancellationAgrees ==
  /\ \A c \in Cancels : cancelReq[c] # "rejected"
  /\ \A c \in Cancels : cancelReq[c] = "observing" =>
       /\ Undecided /\ lifecycle.status = "cancelling"
       /\ lifecycle.cancel_command_id = c
  /\ deferred # None => ~startedOk /\ selection \in {CancelledBy(deferred), DeadlineOutcome}
  /\ selection.kind = "cancelled" /\ ~startedOk => selection = CancelledBy(deferred)
  /\ selection.kind = "cancelled" /\ startedOk =>
       /\ lifecycle.status \in {"cancelling", "cancelled"}
       /\ lifecycle.cancel_command_id = selection.correlation
  /\ lifecycle.status = "cancelling" =>
       \/ Undecided /\ decisionLock = "cancel"
       \/ selection.kind = "cancelled" \/ selection = DeadlineOutcome
  /\ txn \in {"writing", "observing"} => Undecided
  /\ selection.kind = "completed" => lifecycle.status \in {"running", "completed"}

(* The finalizer ends a session that started, once, and as was selected.   *)
TerminalAgrees ==
  /\ finalizer \notin {"none", "await_start", "done"} /\ selection.kind # "teardown" =>
       startedOk
  /\ finalizer \in {"sealing", "ending"} => lifecycle.status \in {"running", "cancelling"}
  /\ finalizer = "sealing" => selection.kind = "completed"
  /\ lifecycle.assistant_completed =>
       selection.kind = "completed" /\ finalizer \in {"ending", "done", "raised"}
  /\ finalizer = "ending" /\ selection.kind = "completed" => lifecycle.assistant_completed
  /\ Ended => /\ finalizer = "done"
              /\ lifecycle.status = selection.kind
              /\ lifecycle.session_failure = selection.code

StatusInv == StatusAgrees /\ CancellationAgrees /\ TerminalAgrees

(* What the parts before this one have established. *)
Established == PlacesInv /\ TextAgrees /\ TypeOK /\ PublishingInv /\ DecisionInv

(* What an outcome's kind says of the rest of it. *)
LEMMA OutcomeKinds ==
  \A o \in Outcomes :
    /\ o.kind \in {"completed", "failed", "cancelled", "teardown"}
    /\ o.kind = "completed" => o.correlation = StartCommand /\ o.code = None
    /\ o.kind = "failed" => o.correlation = StartCommand
    /\ o.kind = "cancelled" =>
         /\ o.correlation \in Commands /\ o.correlation # None /\ o.code = None
         /\ o = CancelledBy(o.correlation)
PROOF
  BY NoneAssumption
  DEF Outcomes, Outcome, Completed, ProviderReported, FailedWith, CancelledBy, Teardown

(* The outcomes the code names, by kind.                                   *)
LEMMA FixedOutcomes ==
  /\ Completed.kind = "completed" /\ ProviderReported.kind = "failed"
  /\ DeadlineOutcome.kind = "failed" /\ NoSelection.kind = "none"
  /\ \A c : CancelledBy(c).kind = "cancelled" /\ CancelledBy(c).correlation = c
PROOF
  BY DEF Completed, ProviderReported, DeadlineOutcome, FailedWith, NoSelection,
         CancelledBy, Outcome

(* The constructor. *)
LEMMA InitStatus == Init => StatusInv
PROOF
  <1> SUFFICES ASSUME Init PROVE StatusInv
    OBVIOUS
  <1>1. /\ lifecycle.status = "starting" /\ lifecycle.start_command_id = StartCommand
        /\ lifecycle.last_sequence = 0 /\ lifecycle.session_failure = None
        /\ lifecycle.assistant_completed = FALSE
    BY TaskAccepted, SessionAssumption DEF Init
  <1> QED
    BY <1>1, FixedOutcomes
    DEF Init, StatusInv, StatusAgrees, CancellationAgrees, TerminalAgrees, Ended,
        TerminalStatuses

(* While nothing is decided and no cancellation holds the lock, a session  *)
(* that started is running, and has shown nothing it cannot add to.        *)
LEMMA UndecidedRuns ==
  ASSUME StatusInv, Established, Undecided
  PROVE  /\ startedOk /\ decisionLock # "cancel" => lifecycle.status = "running"
         /\ lifecycle.status \in {"starting", "running", "cancelling"}
         /\ lifecycle.assistant_completed = FALSE
         /\ deferred = None
PROOF
  <1>1. selection = NoSelection /\ finalizer = "none"
    BY DEF Undecided, Established, DecisionInv
  <1>2. ~Ended
    BY <1>1 DEF StatusInv, TerminalAgrees
  <1>3. ~lifecycle.assistant_completed /\ lifecycle \in SessionState
    BY <1>1 DEF StatusInv, TerminalAgrees, Established, TypeOK, WireTypes
  <1>4. lifecycle.assistant_completed = FALSE
    BY <1>3 DEF SessionState
  <1>5. deferred = None
    BY <1>1, FixedOutcomes DEF StatusInv, CancellationAgrees
  <1> QED
    BY <1>1, <1>2, <1>4, <1>5, FixedOutcomes
    DEF StatusInv, StatusAgrees, CancellationAgrees, Ended

(* session.started is accepted (_publish_started). *)
LEMMA StartedFacts ==
  ASSUME StatusInv, Established, StartedWritten
  PROVE  /\ txn = "publishing" /\ ~startedOk /\ decisionLock = "txn"
         /\ lifecycle.status = "starting"
         /\ UNCHANGED <<selection, finalizer, cancelReq, deferred>>
         /\ \/ /\ UNCHANGED <<lifecycle, sequence, startedOk>>
               /\ txn' = "raised" /\ decisionLock' = "free" /\ SinkFaults
            \/ /\ lifecycle'.status = "running" /\ lifecycle'.session_id = SessionId
               /\ lifecycle'.last_sequence = sequence' /\ sequence' = sequence + 1
               /\ lifecycle'.session_failure = lifecycle.session_failure
               /\ SameTask(lifecycle, lifecycle') /\ SameText(lifecycle, lifecycle')
               /\ IF deferred # None
                    THEN txn' = "deferring" /\ UNCHANGED <<startedOk, decisionLock>>
                    ELSE /\ txn' = "settled" /\ startedOk' = TRUE
                         /\ decisionLock' = "free"
PROOF
  <1>1. txn = "publishing" /\ ~startedOk /\ decisionLock = "txn"
    BY DEF StartedWritten, Established, PlacesInv, StartAgrees, LockAgrees, Unstarted
  <1>2. lifecycle.status = "starting" /\ lifecycle \in SessionState
    BY <1>1 DEF StatusInv, StatusAgrees, Established, TypeOK, WireTypes
  <1>3. StartedEvent = WireEvent("session.started", lifecycle.start_command_id, SessionId,
                                 lifecycle.last_sequence + 1, << >>, None)
    BY DEF StartedEvent, Event, StatusInv, StatusAgrees
  <1>4. /\ Accepts(lifecycle, StartedEvent)
        /\ LET t == After(lifecycle, StartedEvent)
           IN /\ t.status = "running" /\ t.session_id = SessionId
              /\ t.last_sequence = sequence + 1
              /\ t.session_failure = lifecycle.session_failure
              /\ SameTask(lifecycle, t) /\ SameText(lifecycle, t)
    BY <1>2, <1>3, StartedAccepted, SessionAssumption DEF StatusInv, StatusAgrees
  <1>5. UNCHANGED <<selection, finalizer, cancelReq, deferred>>
    BY DEF StartedWritten, decisionVars, requestVars, startVars
  <1> QED
    BY <1>1, <1>2, <1>4, <1>5
    DEF StartedWritten, WriteOutcomes, Publish, StartSettles, Release, publishVars,
        startVars

(* The cancellation that came before the start is accepted after it.       *)
LEMMA DeferredFacts ==
  ASSUME StatusInv, Established, DeferredApplied
  PROVE  /\ txn = "deferring" /\ ~startedOk /\ decisionLock = "txn"
         /\ deferred \in Cancels
         /\ lifecycle.status = "running"
         /\ UNCHANGED <<sequence, selection, finalizer, cancelReq>>
         /\ lifecycle'.status = "cancelling" /\ lifecycle'.cancel_command_id = deferred
         /\ lifecycle'.session_id = SessionId
         /\ lifecycle'.last_sequence = lifecycle.last_sequence
         /\ lifecycle'.session_failure = lifecycle.session_failure
         /\ SameTask(lifecycle, lifecycle') /\ SameText(lifecycle, lifecycle')
         /\ txn' = "settled" /\ startedOk' = TRUE /\ deferred' = None
         /\ decisionLock' = "free"
PROOF
  <1>1. /\ txn = "deferring" /\ ~startedOk /\ decisionLock = "txn"
        /\ deferred \in Cancels
    BY DEF DeferredApplied, Established, PlacesInv, StartAgrees, LockAgrees, Unstarted,
           PublishingInv
  <1>2. /\ lifecycle.status = "running" /\ lifecycle \in SessionState
        /\ lifecycle.session_id = SessionId
    BY <1>1 DEF StatusInv, StatusAgrees, Established, TypeOK, WireTypes
  <1>3. deferred \in Commands
    BY <1>1 DEF Cancels
  <1>4. LET u == CancelRequested(deferred, SessionId)
            t == After(lifecycle, u)
        IN /\ Accepts(lifecycle, u)
           /\ t.status = "cancelling" /\ t.cancel_command_id = deferred
           /\ t.session_id = SessionId
           /\ t.last_sequence = lifecycle.last_sequence
           /\ t.session_failure = lifecycle.session_failure
           /\ SameTask(lifecycle, t) /\ SameText(lifecycle, t)
    BY <1>2, <1>3, CancellationAccepted
  <1> QED
    BY <1>1, <1>2, <1>4 DEF DeferredApplied, StartSettles, Release, decisionVars,
                            requestVars

(* What a step that is not about the status leaves of the projection.      *)
SameProjection ==
  /\ lifecycle'.status = lifecycle.status
  /\ lifecycle'.start_command_id = lifecycle.start_command_id
  /\ lifecycle'.session_id = lifecycle.session_id
  /\ lifecycle'.cancel_command_id = lifecycle.cancel_command_id
  /\ lifecycle'.session_failure = lifecycle.session_failure
  /\ lifecycle'.assistant_completed = lifecycle.assistant_completed
  /\ lifecycle'.last_sequence = sequence'

(* A delta that was charged is accepted once it is written.                *)
LEMMA DeltaFacts ==
  ASSUME StatusInv, Established, DeltaWritten
  PROVE  /\ SameProjection
         /\ \/ UNCHANGED <<lifecycle, sequence>> /\ txn' = "raised" /\ SinkFaults
            \/ /\ lifecycle.status = "running" /\ txn' = "settled"
               /\ lifecycle.assistant_completed = FALSE
               /\ \E f \in Fragments :
                    lifecycle'.assistant_text = lifecycle.assistant_text \o <<f>>
PROOF
  <1>1. /\ txn = "writing" /\ Undecided /\ decisionLock = "txn" /\ startedOk
        /\ result.kind = "delta" /\ result.text \in Seq(Fragments)
        /\ \E f \in Fragments : result.text = <<f>>
    BY DEF DeltaWritten, Established, PlacesInv, LockAgrees, StartAgrees, TxnAgrees,
           StatusInv, CancellationAgrees, TextAgrees, DecisionInv, ChoiceTypes, TypeOK,
           ObservationTypes, Results
  <1>2. /\ lifecycle.status = "running" /\ lifecycle \in SessionState
        /\ lifecycle.assistant_completed = FALSE /\ lifecycle.session_id = SessionId
    BY <1>1, UndecidedRuns
    DEF StatusInv, StatusAgrees, Established, TypeOK, WireTypes
  <1>3. DeltaEvent = WireEvent("assistant.delta", lifecycle.start_command_id,
                               lifecycle.session_id, lifecycle.last_sequence + 1,
                               result.text, None)
    BY <1>2 DEF DeltaEvent, Event, StatusInv, StatusAgrees
  <1>4. /\ Accepts(lifecycle, DeltaEvent)
        /\ LET t == After(lifecycle, DeltaEvent)
           IN /\ t.assistant_text = lifecycle.assistant_text \o result.text
              /\ t.last_sequence = sequence + 1
              /\ t.status = lifecycle.status
              /\ t.session_failure = lifecycle.session_failure
              /\ t.assistant_completed = lifecycle.assistant_completed
              /\ SameIdentity(lifecycle, t)
    BY <1>1, <1>2, <1>3, DeltaAccepted DEF StatusInv, StatusAgrees
  <1>5. sequence \in Nat
    BY DEF Established, TypeOK, WireTypes
  <1>6. CASE Publish(DeltaEvent)
    BY <1>1, <1>2, <1>4, <1>5, <1>6
    DEF Publish, DeltaWritten, SameProjection, SameIdentity, SameTask
  <1>7. CASE UNCHANGED publishVars /\ SinkFaults
    BY <1>7 DEF publishVars, DeltaWritten, SameProjection, StatusInv, StatusAgrees
  <1> QED
    BY <1>6, <1>7 DEF DeltaWritten, WriteOutcomes

(* assistant.completed is accepted: the completed text is the reduced one. *)
LEMMA SealFacts ==
  ASSUME StatusInv, Established, SealWritten
  PROVE  /\ finalizer = "sealing" /\ lifecycle.status = "running"
         /\ selection.kind = "completed" /\ startedOk
         /\ lifecycle.assistant_completed = FALSE /\ lifecycle.assistant_text # << >>
         /\ UNCHANGED <<selection, startedOk, deferred, txn, cancelReq>>
         /\ \/ /\ UNCHANGED <<lifecycle, sequence, evidence>> /\ finalizer' = "raised"
               /\ SinkFaults /\ decisionLock' = "free"
            \/ /\ lifecycle'.assistant_completed = TRUE
               /\ lifecycle'.last_sequence = sequence'
               /\ lifecycle'.status = "running"
               /\ lifecycle'.session_failure = lifecycle.session_failure
               /\ lifecycle'.assistant_text = lifecycle.assistant_text
               /\ SameIdentity(lifecycle, lifecycle')
               /\ ReportLimits
PROOF
  <1>1. /\ finalizer = "sealing" /\ selection.kind = "completed" /\ startedOk
        /\ UNCHANGED <<selection, startedOk, deferred, txn, cancelReq>>
    BY DEF SealWritten, FinalizerStep, startVars, runVars, requestVars, StatusInv,
           TerminalAgrees
  <1>2. /\ lifecycle.status = "running" /\ lifecycle \in SessionState
        /\ lifecycle.session_id = SessionId
    BY <1>1 DEF StatusInv, StatusAgrees, CancellationAgrees, TerminalAgrees,
                Established, TypeOK, WireTypes
  <1>3. lifecycle.assistant_completed = FALSE
    BY <1>1, <1>2 DEF StatusInv, TerminalAgrees, SessionState
  <1>4. completedText = lifecycle.assistant_text /\ lifecycle.assistant_text # << >>
    BY <1>1 DEF Established, TextAgrees
  <1>5. AssistantCompletedEvent =
          WireEvent("assistant.completed", lifecycle.start_command_id,
                    lifecycle.session_id, lifecycle.last_sequence + 1,
                    lifecycle.assistant_text, None)
    BY <1>2, <1>4 DEF AssistantCompletedEvent, Event, StatusInv, StatusAgrees
  <1>6. /\ Accepts(lifecycle, AssistantCompletedEvent)
        /\ LET t == After(lifecycle, AssistantCompletedEvent)
           IN /\ t.assistant_completed = TRUE
              /\ t.last_sequence = sequence + 1
              /\ t.status = lifecycle.status
              /\ t.session_failure = lifecycle.session_failure
              /\ t.assistant_text = lifecycle.assistant_text
              /\ SameIdentity(lifecycle, t)
    BY <1>2, <1>3, <1>5, SealAccepted DEF StatusInv, StatusAgrees
  <1>7. \/ Publish(AssistantCompletedEvent) /\ ReportLimits
        \/ /\ UNCHANGED <<lifecycle, sequence, evidence>> /\ finalizer' = "raised"
           /\ SinkFaults /\ decisionLock' = "free"
    BY <1>6 DEF SealWritten, WriteOutcomes, Release, publishVars
  <1> QED
    BY <1>1, <1>2, <1>3, <1>4, <1>6, <1>7 DEF Publish

(* The terminal event of whatever was selected is accepted.                *)
LEMMA TerminalFacts ==
  ASSUME StatusInv, Established, TerminalWritten
  PROVE  /\ finalizer = "ending" /\ startedOk
         /\ selection.kind \in {"completed", "failed", "cancelled"}
         /\ lifecycle.status \in {"running", "cancelling"}
         /\ lifecycle.assistant_completed <=> selection.kind = "completed"
         /\ selection.kind = "completed" => lifecycle.status = "running"
         /\ selection.kind = "cancelled" => lifecycle.status = "cancelling"
         /\ UNCHANGED <<selection, startedOk, deferred, txn, cancelReq, evidence>>
         /\ decisionLock' = "free"
         /\ \/ /\ UNCHANGED <<lifecycle, sequence>> /\ finalizer' = "raised"
               /\ SinkFaults
            \/ /\ lifecycle'.status = selection.kind
               /\ lifecycle'.last_sequence = sequence'
               /\ lifecycle'.session_failure = selection.code
               /\ SameText(lifecycle, lifecycle') /\ SameIdentity(lifecycle, lifecycle')
               /\ finalizer' = "done"
PROOF
  <1>1. /\ finalizer = "ending" /\ decisionLock' = "free"
        /\ UNCHANGED <<selection, startedOk, deferred, txn, cancelReq, evidence>>
    BY DEF TerminalWritten, FinalizerStep, startVars, runVars, requestVars, reportVars,
           Release
  <1>2. selection \in Outcomes /\ selection.kind # "teardown"
    BY <1>1 DEF Established, PublishingInv, DecisionInv, ChoiceTypes, Undecided
  <1>3. selection.kind \in {"completed", "failed", "cancelled"} /\ startedOk
    BY <1>1, <1>2, OutcomeKinds DEF StatusInv, TerminalAgrees
  <1>4. /\ lifecycle.status \in {"running", "cancelling"} /\ lifecycle \in SessionState
        /\ lifecycle.session_id = SessionId /\ lifecycle.session_failure = None
        /\ lifecycle.start_command_id = StartCommand
        /\ lifecycle.last_sequence = sequence
    BY <1>1 DEF StatusInv, StatusAgrees, TerminalAgrees, Established, TypeOK, WireTypes
  <1>5. lifecycle.assistant_completed <=> selection.kind = "completed"
    BY <1>1 DEF StatusInv, TerminalAgrees
  <1>6. selection.kind = "cancelled" =>
          /\ lifecycle.status = "cancelling"
          /\ lifecycle.cancel_command_id = selection.correlation
    BY <1>3, <1>4 DEF StatusInv, CancellationAgrees
  <1>7. selection.kind = "completed" => lifecycle.status = "running"
    BY <1>4 DEF StatusInv, CancellationAgrees
  <1> DEFINE type == CASE selection.kind = "completed" -> "session.completed"
                       [] selection.kind = "failed" -> "session.failed"
                       [] selection.kind = "cancelled" -> "session.cancelled"
             code == IF selection.kind = "failed" THEN selection.code ELSE None
  <1>8. TerminalEvent = WireEvent(type, selection.correlation, lifecycle.session_id,
                                  lifecycle.last_sequence + 1, << >>, code)
    BY <1>3, <1>4 DEF TerminalEvent, Event
  <1>9. /\ type \in {"session.completed", "session.failed", "session.cancelled"}
        /\ type = "session.completed" <=> selection.kind = "completed"
        /\ type = "session.failed" <=> selection.kind = "failed"
        /\ type = "session.cancelled" <=> selection.kind = "cancelled"
        /\ TerminalStatus(type) = selection.kind
    BY <1>3 DEF TerminalStatus
  <1>10. /\ selection.kind # "cancelled" =>
              selection.correlation = lifecycle.start_command_id
         /\ selection.kind # "failed" => selection.code = None
    BY <1>2, <1>3, <1>4, OutcomeKinds
  <1> HIDE DEF type, code
  <1>11. /\ Accepts(lifecycle, TerminalEvent)
         /\ LET t == After(lifecycle, TerminalEvent)
            IN /\ t.status = TerminalStatus(type)
               /\ t.last_sequence = lifecycle.last_sequence + 1
               /\ t.session_failure = IF type = "session.failed" THEN code
                                      ELSE lifecycle.session_failure
               /\ SameText(lifecycle, t) /\ SameIdentity(lifecycle, t)
    <2>1. /\ type = "session.completed" => lifecycle.assistant_completed
          /\ type = "session.cancelled" =>
               /\ lifecycle.status = "cancelling"
               /\ selection.correlation = lifecycle.cancel_command_id
          /\ type # "session.cancelled" =>
               selection.correlation = lifecycle.start_command_id
      BY <1>5, <1>6, <1>9, <1>10
    <2> QED
      BY <1>4, <1>8, <1>9, <2>1, TerminalAccepted
  <1>12. \/ /\ Publish(TerminalEvent) /\ finalizer' = "done"
         \/ UNCHANGED <<lifecycle, sequence>> /\ finalizer' = "raised" /\ SinkFaults
    BY <1>11 DEF TerminalWritten, WriteOutcomes, publishVars
  <1>13. selection.code = IF type = "session.failed" THEN code
                          ELSE lifecycle.session_failure
    BY <1>4, <1>9, <1>10 DEF code
  <1>14. CASE Publish(TerminalEvent) /\ finalizer' = "done"
    <2>1. /\ lifecycle'.status = selection.kind
          /\ lifecycle'.last_sequence = sequence'
          /\ lifecycle'.session_failure = selection.code
          /\ SameText(lifecycle, lifecycle') /\ SameIdentity(lifecycle, lifecycle')
      BY <1>4, <1>9, <1>11, <1>13, <1>14 DEF Publish
    <2> QED
      BY <1>1, <1>3, <1>4, <1>5, <1>6, <1>7, <1>14, <2>1
  <1> QED
    BY <1>1, <1>3, <1>4, <1>5, <1>6, <1>7, <1>12, <1>14

(* A cancellation is accepted by the reducer before it is selected, unless *)
(* the session is still starting (request_cancellation).                   *)
LEMMA CancelFacts ==
  ASSUME StatusInv, Established, NEW c \in Cancels, CancelDecide(c)
  PROVE  /\ UNCHANGED <<sequence, startedOk, txn>> /\ decisionLock = "free"
         /\ \/ /\ UNCHANGED <<lifecycle, deferred, decisionLock>> /\ ~Undecided
               /\ \E place \in {"returned", "joining"} :
                    cancelReq' = [cancelReq EXCEPT ![c] = place]
               /\ UNCHANGED <<selection, finalizer>>
            \/ /\ UNCHANGED <<lifecycle, decisionLock>>
               /\ deferred = None /\ deferred' = c
               /\ ~startedOk /\ lifecycle.status = "starting"
               /\ \E place \in {"returned", "joining"} :
                    cancelReq' = [cancelReq EXCEPT ![c] = place]
               /\ Selecting(DeadlineOutcome) \/ Selecting(CancelledBy(c))
            \/ /\ lifecycle.status = "running" /\ startedOk /\ Undecided
               /\ lifecycle.assistant_completed = FALSE
               /\ lifecycle'.status = "cancelling" /\ lifecycle'.cancel_command_id = c
               /\ lifecycle'.session_id = lifecycle.session_id
               /\ lifecycle'.last_sequence = lifecycle.last_sequence
               /\ lifecycle'.session_failure = lifecycle.session_failure
               /\ SameTask(lifecycle, lifecycle') /\ SameText(lifecycle, lifecycle')
               /\ cancelReq' = [cancelReq EXCEPT ![c] = "observing"]
               /\ decisionLock' = "cancel"
               /\ UNCHANGED <<selection, finalizer, deferred>>
PROOF
  <1>1. UNCHANGED <<sequence, startedOk, txn>> /\ decisionLock = "free"
    BY DEF CancelDecide, RequestStep, runVars
  <1>2. CASE ~Undecided
    BY <1>1, <1>2 DEF CancelDecide, AnswerCancellation, AnswerState, decisionVars
  <1>3. CASE Undecided /\ lifecycle.status = "starting"
    <2>1. ~startedOk /\ deferred = None
      BY <1>3, UndecidedRuns DEF StatusInv, StatusAgrees
    <2>2. /\ UNCHANGED <<lifecycle, decisionLock>> /\ deferred' = c
          /\ SelectCandidate(CancelledBy(c))
          /\ \E place \in {"returned", "joining"} :
               cancelReq' = [cancelReq EXCEPT ![c] = place]
      BY <1>3 DEF CancelDecide, AnswerCancellation, AnswerState
    <2>3. Selecting(DeadlineOutcome) \/ Selecting(CancelledBy(c))
      BY <1>3, <2>2, ChoosingSelects DEF Established, SelectCandidate
    <2> QED
      BY <1>1, <1>3, <2>1, <2>2, <2>3
  <1>4. CASE Undecided /\ lifecycle.status # "starting"
    <2>1. startedOk
      <3>1. txn # "deferring"
        BY <1>1 DEF Established, PlacesInv, LockAgrees
      <3> QED
        BY <1>4, <3>1 DEF StatusInv, StatusAgrees
    <2>2. /\ lifecycle.status = "running" /\ lifecycle.assistant_completed = FALSE
          /\ lifecycle \in SessionState /\ lifecycle.session_id = SessionId
      BY <1>1, <1>4, <2>1, UndecidedRuns
      DEF StatusInv, StatusAgrees, Established, TypeOK, WireTypes
    <2>3. LET u == CancelRequested(c, SessionId)
              t == After(lifecycle, u)
          IN /\ Accepts(lifecycle, u)
             /\ t.status = "cancelling" /\ t.cancel_command_id = c
             /\ t.session_id = SessionId
             /\ t.last_sequence = lifecycle.last_sequence
             /\ t.session_failure = lifecycle.session_failure
             /\ SameTask(lifecycle, t) /\ SameText(lifecycle, t)
      BY <2>2, CancellationAccepted DEF Cancels
    <2>4. /\ lifecycle' = After(lifecycle, CancelRequested(c, SessionId))
          /\ cancelReq' = [cancelReq EXCEPT ![c] = "observing"]
          /\ decisionLock' = "cancel"
          /\ UNCHANGED <<selection, finalizer, deferred>>
      BY <1>4, <2>3 DEF CancelDecide, Acquire, decisionVars
    <2> QED
      BY <1>1, <1>4, <2>1, <2>2, <2>3, <2>4
  <1> QED
    BY <1>2, <1>3, <1>4

(* Who moves the rest of what the status depends on. *)
StartFrame ==
  /\ UNCHANGED startedOk \/ StartedWritten \/ DeferredApplied
  /\ txn' = "deferring" => txn = "deferring" \/ StartedWritten
  /\ txn = "deferring" => txn' = "deferring" \/ DeferredApplied
RequestFrame ==
  /\ UNCHANGED deferred \/ DeferredApplied \/ \E c \in Cancels : CancelDecide(c)
  /\ \A c \in Cancels :
       /\ cancelReq'[c] = "observing" =>
            cancelReq[c] = "observing" \/ \E d \in Cancels : CancelDecide(d)
       /\ cancelReq'[c] = "rejected" =>
            cancelReq[c] = "rejected" \/ \E d \in Cancels : CancelDecide(d)
LockFrame ==
  /\ txn' \in {"writing", "observing"} =>
       \/ txn \in {"writing", "observing"}
       \/ Undecided /\ UNCHANGED selection
  /\ decisionLock = "cancel" =>
       decisionLock' = "cancel" \/ \E c \in Cancels : CancelSelect(c)

(* What no step but the named ones does to the start, the requests and the *)
(* lock.                                                                   *)
LEMMA WhoMoves ==
  ASSUME PlacesInv, TypeOK, [Next]_vars
  PROVE  StartFrame /\ RequestFrame /\ LockFrame
PROOF
  <1> DEFINE Quiet == /\ UNCHANGED <<startedOk, deferred, cancelReq>>
                      /\ txn' = "deferring" <=> txn = "deferring"
                      /\ txn' \in {"writing", "observing"} =>
                           txn \in {"writing", "observing"}
                      /\ decisionLock = "cancel" => decisionLock' = "cancel"
  <1>1. ASSUME Quiet PROVE StartFrame /\ RequestFrame /\ LockFrame
    BY <1>1 DEF StartFrame, RequestFrame, LockFrame
  <1>2. CASE UNCHANGED vars
    <2>1. Quiet
      BY <1>2 DEF vars, startVars, requestVars, runVars
    <2> QED
      BY <1>1, <2>1
  <1>3. CASE RunnerStep
    <2>1. CASE \/ Run \/ PublishResumes \/ AcceptResumes \/ RejectResumes \/ JoinResumes
               \/ TeardownJoined \/ FailureSelected \/ FailureJoined
      <3>1. txn \notin {"deferring", "writing", "observing"}
        BY <2>1
        DEF Run, PublishResumes, AcceptResumes, RejectResumes, ResumeFrom, JoinResumes,
            TeardownJoined, FailureSelected, FailureJoined, PlacesInv, TxnAgrees
      <3>2. Quiet
        BY <2>1, <3>1
        DEF Run, PublishResumes, AcceptResumes, RejectResumes, ResumeFrom, JoinResumes,
            TeardownJoined, FailureSelected, FailureJoined, Leave, RunRaised,
            RunCancelled, EnterHandler, startVars, requestVars
      <3> QED
        BY <1>1, <3>2
    <2>2. CASE \/ StartIsCancelled \/ StartRefused \/ StartOperation \/ ReadIsCancelled
               \/ WakeExpired \/ WakeStopped \/ WakeReaped \/ WakeWithoutEvent
               \/ WakeWithEvent \/ RunnerReaps
               \/ SelectIsCancelled \/ SelectProviderDeadline
      <3>1. txn \notin {"deferring", "writing", "observing"}
        BY <2>2
        DEF StartIsCancelled, StartRefused, StartOperation, ReadIsCancelled,
            WakeExpired, WakeStopped, WakeReaped, WakeWithoutEvent, WakeWithEvent,
            ReadWakes, RunnerReaps, SelectIsCancelled, SelectProviderDeadline,
            PlacesInv, TxnAgrees
      <3>2. Quiet
        BY <2>2, <3>1
        DEF StartIsCancelled, StartRefused, StartOperation, ReadIsCancelled,
            WakeExpired, WakeStopped, WakeReaped, WakeWithoutEvent, WakeWithEvent,
            ReadWakes, RunnerReaps, SelectIsCancelled, SelectProviderDeadline,
            RunCancelled, EnterHandler, LockIsFree, startVars, requestVars
      <3> QED
        BY <1>1, <3>2
    <2> QED
      BY <1>3, <2>1, <2>2 DEF RunnerStep
  <1>4. CASE TransactionStep
    <2>1. CASE StartedWritten \/ DeferredApplied
      BY <2>1
      DEF StartedWritten, DeferredApplied, StartFrame, RequestFrame, LockFrame,
          StartSettles, PlacesInv, LockAgrees, startVars, requestVars
    <2>2. CASE BeginStarted \/ RejectTransaction \/ TeardownTransaction
               \/ DeltaWritten \/ UsageRecorded
      <3>1. Quiet
        BY <2>2
        DEF BeginStarted, RejectTransaction, TeardownTransaction, DeltaWritten,
            UsageRecorded, Acquire, LockIsFree, PlacesInv, LockAgrees, startVars,
            requestVars
      <3> QED
        BY <1>1, <3>1
    <2>3. CASE \/ AcceptNothing \/ AcceptDelta \/ AcceptTextCompleted \/ AcceptUsage
               \/ AcceptOutcome \/ AcceptToolCall
      <3>1. /\ UNCHANGED <<startedOk, deferred, cancelReq>>
            /\ txn = "accept" /\ txn' # "deferring" /\ decisionLock = "free"
        BY <2>3
        DEF AcceptNothing, AcceptDelta, AcceptTextCompleted, AcceptUsage,
            AcceptOutcome, AcceptToolCall, Admitting, Accepting, Acquire, LockIsFree,
            startVars, requestVars
      <3>2. txn' \in {"writing", "observing"} => Undecided /\ UNCHANGED selection
        BY <2>3
        DEF AcceptNothing, AcceptDelta, AcceptTextCompleted, AcceptUsage,
            AcceptOutcome, AcceptToolCall, Admitting, decisionVars
      <3> QED
        BY <3>1, <3>2 DEF StartFrame, RequestFrame, LockFrame
    <2> QED
      BY <1>4, <2>1, <2>2, <2>3 DEF TransactionStep
  <1>5. CASE FinalizationStep
    <2>1. UNCHANGED <<startedOk, deferred, cancelReq, txn>>
      BY <1>5
      DEF FinalizationStep, FinalizerStarts, FinalizerStopsWatcher,
          FinalizerStartsCleanup, FinalizerJoinsCleanup, FinalizerReaps,
          FinalizerReports, TerminalBegins, SealWritten, TerminalWritten, FinalizerStep,
          startVars, runVars, requestVars
    <2>2. UNCHANGED decisionLock \/ decisionLock # "cancel"
      BY <1>5
      DEF FinalizationStep, FinalizerStarts, FinalizerStopsWatcher,
          FinalizerStartsCleanup, FinalizerJoinsCleanup, FinalizerReaps,
          FinalizerReports, TerminalBegins, SealWritten, TerminalWritten, PlacesInv,
          LockAgrees
    <2> QED
      BY <1>1, <2>1, <2>2
  <1>6. ASSUME NEW c \in Cancels, RequestCancellation(c) \/ CancellationStep(c)
        PROVE  StartFrame /\ RequestFrame /\ LockFrame
    <2>1. UNCHANGED <<startedOk, txn>>
      BY <1>6
      DEF RequestCancellation, CancellationStep, CancelDecide, CancelSelect,
          CancelJoined, RequestStep, runVars
    <2>2. CASE CancelDecide(c)
      BY <2>1, <2>2 DEF StartFrame, RequestFrame, LockFrame, CancelDecide
    <2>3. CASE RequestCancellation(c) \/ CancelJoined(c) \/ CancelSelect(c)
      <3>1. /\ UNCHANGED deferred
            /\ UNCHANGED decisionLock \/ CancelSelect(c)
            /\ \E place \in {"waiting", "returned", "joining", "raised"} :
                 cancelReq' = [cancelReq EXCEPT ![c] = place]
        BY <2>3 DEF RequestCancellation, CancelJoined, CancelSelect, JoinEnds,
                    AnswerCancellation, AnswerState
      <3> QED
        BY <2>1, <3>1 DEF StartFrame, RequestFrame, LockFrame, TypeOK, RequestTypes
    <2> QED
      BY <1>6, <2>2, <2>3 DEF CancellationStep
  <1>7. CASE \E c \in Cancels : RequestCancellation(c) \/ CancellationStep(c)
    BY <1>6, <1>7
  <1>8. CASE RequestTeardown \/ TeardownStep
    <2>1. Quiet
      BY <1>8
      DEF RequestTeardown, TeardownStep, TeardownDecide, TeardownRequestJoined,
          RequestStep, LockIsFree, runVars
    <2> QED
      BY <1>1, <2>1
  <1>9. CASE \/ ProviderYields \/ ReadAnswersCancel \/ Tick \/ WatcherFires
             \/ CleanupReturns \/ GraceExpires \/ ForceReturns \/ OuterCancel
    <2>1. Quiet
      BY <1>9
      DEF ProviderYields, ReadAnswersCancel, Tick, WatcherFires, CleanupReturns,
          GraceExpires, ForceReturns, CleanupStep, OuterCancel, EnvironmentStep,
          startVars, requestVars
    <2> QED
      BY <1>1, <2>1
  <1> QED
    BY <1>2, <1>3, <1>4, <1>5, <1>7, <1>8, <1>9 DEF Next, Finished

(* How the finalizer moves before its last write. *)
LEMMA FinalizerMoves ==
  ASSUME FinalizationStep, ~SealWritten, ~TerminalWritten
  PROVE  /\ UNCHANGED <<selection, startedOk>>
         /\ \/ /\ finalizer = "await_start"
               /\ finalizer' = IF startedOk THEN "stop_watcher" ELSE "done"
            \/ /\ finalizer \in {"stop_watcher", "start_cleanup", "join_cleanup", "reap",
                                 "report"}
               /\ \/ finalizer' \in {"start_cleanup", "join_cleanup", "reap", "report",
                                     "terminal", "raised"}
                  \/ finalizer' = "done" /\ selection.kind = "teardown"
            \/ /\ finalizer = "terminal"
               /\ \/ finalizer' = "raised"
                  \/ finalizer' = IF selection.kind = "completed" THEN "sealing"
                                  ELSE "ending"
PROOF
  <1>1. UNCHANGED <<selection, startedOk>>
    BY
    DEF FinalizationStep, FinalizerStarts, FinalizerStopsWatcher,
        FinalizerStartsCleanup, FinalizerJoinsCleanup, FinalizerReaps,
        FinalizerReports, TerminalBegins, FinalizerStep, startVars
  <1> QED
    BY <1>1
    DEF FinalizationStep, FinalizerStarts, FinalizerStopsWatcher,
        FinalizerStartsCleanup, FinalizerJoinsCleanup, FinalizerReaps, AfterCleanup,
        FinalizerReports, TerminalBegins

(* A step that publishes nothing about the status, and decides nothing.    *)
LEMMA MovingKeepsStatus ==
  ASSUME StatusInv, Established, [Next]_vars, PlacesInv', SameProjection,
         UNCHANGED selection, ~StartedWritten, ~DeferredApplied,
         ~SealWritten, ~TerminalWritten, \A c \in Cancels : ~CancelDecide(c),
         UNCHANGED finalizer \/ FinalizationStep
  PROVE  StatusInv'
PROOF
  <1>1. StartFrame /\ RequestFrame /\ LockFrame
    BY WhoMoves DEF Established
  <1>2. StatusAgrees'
    BY <1>1 DEF StatusInv, StatusAgrees, StartFrame, SameProjection
  <1>3. \A c \in Cancels : ~CancelSelect(c)
    <2> SUFFICES ASSUME NEW c \in Cancels, CancelSelect(c) PROVE FALSE
      OBVIOUS
    <2>1. Undecided /\ SelectCandidate(CancelledBy(c))
      BY DEF CancelSelect, StatusInv, CancellationAgrees
    <2>2. selection' # NoSelection
      BY <2>1, FixedOutcomes
      DEF SelectCandidate, ChooseDeadline, ChooseCharging, Choose
    <2> QED
      BY <2>1, <2>2 DEF Undecided
  <1>4. CancellationAgrees'
    <2>1. UNCHANGED <<startedOk, deferred>>
      BY <1>1 DEF StartFrame, RequestFrame
    <2>2. \A c \in Cancels : cancelReq'[c] # "rejected"
      BY <1>1 DEF RequestFrame, StatusInv, CancellationAgrees
    <2>3. \A c \in Cancels : cancelReq'[c] = "observing" => cancelReq[c] = "observing"
      BY <1>1 DEF RequestFrame
    <2>4. (lifecycle.status = "cancelling" =>
             \/ Undecided /\ decisionLock = "cancel"
             \/ selection.kind = "cancelled" \/ selection = DeadlineOutcome)'
      BY <1>1, <1>3
      DEF LockFrame, StatusInv, CancellationAgrees, SameProjection, Undecided
    <2>5. (txn \in {"writing", "observing"} => Undecided)'
      BY <1>1 DEF LockFrame, StatusInv, CancellationAgrees, Undecided
    <2> QED
      BY <2>1, <2>2, <2>3, <2>4, <2>5
      DEF StatusInv, CancellationAgrees, SameProjection, Undecided
  <1>5. TerminalAgrees'
    <2>1. UNCHANGED startedOk
      BY <1>1 DEF StartFrame
    <2>2. CASE UNCHANGED finalizer
      BY <2>1, <2>2 DEF StatusInv, TerminalAgrees, SameProjection, Ended
    <2>3. CASE FinalizationStep
      <3>1. /\ finalizer \in {"await_start", "stop_watcher", "start_cleanup",
                              "join_cleanup", "reap", "report", "terminal"}
            /\ ~Ended /\ ~lifecycle.assistant_completed
        BY <2>3, FinalizerMoves DEF StatusInv, TerminalAgrees
      <3>2. selection.kind # "teardown" /\ finalizer # "await_start" =>
              lifecycle.status \in {"running", "cancelling"}
        BY <3>1 DEF StatusInv, StatusAgrees, TerminalAgrees, Ended
      <3>3. finalizer = "terminal" => selection.kind # "teardown"
        BY DEF Established, PublishingInv
      <3>4. /\ ~Ended' /\ ~lifecycle'.assistant_completed
            /\ lifecycle'.status = lifecycle.status
        BY <3>1 DEF SameProjection, Ended
      <3> QED
        BY <2>1, <2>3, <3>1, <3>2, <3>3, <3>4, FinalizerMoves
        DEF StatusInv, TerminalAgrees
    <2> QED
      BY <2>2, <2>3
  <1> QED
    BY <1>2, <1>4, <1>5 DEF StatusInv

(* A step that decides, and publishes nothing about the status.            *)
LEMMA SelectingKeepsStatus ==
  ASSUME StatusInv, Established, [Next]_vars, PlacesInv', SameProjection,
         ~StartedWritten, ~DeferredApplied, \A c \in Cancels : ~CancelDecide(c),
         decisionLock' = "free",
         decisionLock = "cancel" => \E c \in Cancels : CancelSelect(c),
         \/ \E o \in Forced : Selecting(o)
         \/ AcceptOutcome /\ Selecting(IF result.kind = "completed" THEN Completed
                                       ELSE ProviderReported)
         \/ \E c \in Cancels : CancelSelect(c) /\ Selecting(CancelledBy(c))
  PROVE  StatusInv'
PROOF
  <1> DEFINE o == selection'
  <1>1. StartFrame /\ RequestFrame /\ LockFrame
    BY WhoMoves DEF Established
  <1>2. /\ Undecided /\ finalizer = "none" /\ finalizer' \in {"await_start", "stop_watcher"}
        /\ finalizer' = "stop_watcher" => o.kind = "teardown"
    BY DEF Selecting
  <1>3. ~Ended /\ lifecycle.assistant_completed = FALSE /\ deferred = None
    BY <1>2, UndecidedRuns DEF StatusInv, TerminalAgrees
  <1>4. StatusAgrees'
    BY <1>1 DEF StatusInv, StatusAgrees, StartFrame, SameProjection
  <1>5. TerminalAgrees'
    BY <1>2, <1>3 DEF TerminalAgrees, SameProjection, Ended
  <1>6. UNCHANGED <<startedOk, deferred>>
    BY <1>1 DEF StartFrame, RequestFrame
  <1>7. /\ txn' \notin {"writing", "observing"}
        /\ \A c \in Cancels : cancelReq'[c] # "observing" /\ cancelReq'[c] # "rejected"
    BY <1>1 DEF PlacesInv, LockAgrees, RequestFrame, StatusInv, CancellationAgrees
  <1>8. \A c \in Cancels : CancelSelect(c) =>
          /\ lifecycle.status = "cancelling" /\ lifecycle.cancel_command_id = c
          /\ startedOk
          /\ o \in {CancelledBy(c), DeadlineOutcome}
    <2> SUFFICES ASSUME NEW c \in Cancels, CancelSelect(c)
                 PROVE  /\ lifecycle.status = "cancelling"
                        /\ lifecycle.cancel_command_id = c /\ startedOk
                        /\ o \in {CancelledBy(c), DeadlineOutcome}
      OBVIOUS
    <2>1. lifecycle.status = "cancelling" /\ lifecycle.cancel_command_id = c
      BY DEF CancelSelect, StatusInv, CancellationAgrees
    <2>2. startedOk
      BY <2>1 DEF StatusInv, StatusAgrees
    <2>3. SelectCandidate(CancelledBy(c))
      BY DEF CancelSelect
    <2>4. o \in {CancelledBy(c), DeadlineOutcome}
      BY <1>2, <2>3 DEF SelectCandidate, ChooseDeadline, ChooseCharging, Choose
    <2> QED
      BY <2>1, <2>2, <2>4
  <1>9. decisionLock # "cancel" => lifecycle.status # "cancelling"
    BY <1>2, FixedOutcomes DEF StatusInv, CancellationAgrees, Undecided
  <1>10. lifecycle.status = "cancelling" =>
           o.kind = "cancelled" \/ o = DeadlineOutcome
    BY <1>8, <1>9, FixedOutcomes
  <1>11. o.kind = "cancelled" => \E c \in Cancels : CancelSelect(c) /\ o = CancelledBy(c)
    BY FixedOutcomes DEF Selecting, Forced
  <1>12. o.kind = "completed" => lifecycle.status = "running"
    <2>1. ASSUME o.kind = "completed" PROVE AcceptOutcome
      BY <2>1, FixedOutcomes DEF Selecting, Forced
    <2>2. AcceptOutcome => startedOk /\ decisionLock # "cancel"
      BY DEF AcceptOutcome, Admitting, Accepting, LockIsFree, Established, PlacesInv,
             TxnAgrees, StartAgrees
    <2> QED
      BY <1>2, <2>1, <2>2, UndecidedRuns
  <1>13. CancellationAgrees'
    <2>1. (selection.kind = "cancelled" /\ startedOk =>
             /\ lifecycle.status \in {"cancelling", "cancelled"}
             /\ lifecycle.cancel_command_id = selection.correlation)'
      BY <1>8, <1>11, FixedOutcomes DEF SameProjection
    <2>2. (selection.kind = "cancelled" /\ ~startedOk => selection = CancelledBy(deferred))'
      BY <1>6, <1>8, <1>11
    <2>3. (deferred # None =>
             ~startedOk /\ selection \in {CancelledBy(deferred), DeadlineOutcome})'
      BY <1>3, <1>6
    <2> QED
      BY <1>7, <1>10, <1>12, <2>1, <2>2, <2>3 DEF CancellationAgrees, SameProjection
  <1> QED
    BY <1>4, <1>5, <1>13 DEF StatusInv

(* The start's own write, and the cancellation it had deferred.            *)
LEMMA StartKeepsStatus ==
  ASSUME StatusInv, Established, StartedWritten \/ DeferredApplied
  PROVE  StatusInv'
PROOF
  <1>1. finalizer \notin {"sealing", "ending"}
    <2>1. decisionLock = "txn"
      BY StartedFacts, DeferredFacts
    <2> QED
      BY <2>1 DEF Established, PlacesInv, LockAgrees
  <1>2. ~startedOk /\ UNCHANGED <<selection, finalizer, cancelReq>> /\ decisionLock = "txn"
    BY StartedFacts, DeferredFacts
  <1>3. ~Ended /\ ~lifecycle.assistant_completed
    <2>1. lifecycle.status \in {"starting", "running"}
      BY StartedFacts, DeferredFacts
    <2>2. StartedWritten => selection.kind # "completed"
      BY StartedFacts DEF StatusInv, CancellationAgrees
    <2>3. DeferredApplied => selection.kind # "completed"
      BY DeferredFacts, NoneAssumption, FixedOutcomes
      DEF StatusInv, CancellationAgrees, Cancels
    <2> QED
      BY <2>1, <2>2, <2>3 DEF StatusInv, TerminalAgrees, Ended, TerminalStatuses
  <1>4. lifecycle.session_failure = None
    BY <1>3 DEF StatusInv, StatusAgrees, Ended, TerminalStatuses
  <1>5. \A c \in Cancels : cancelReq[c] # "observing"
    BY <1>2 DEF Established, PlacesInv, LockAgrees
  <1>6. CASE StartedWritten
    <2>1. StatusAgrees'
      <3>1. CASE UNCHANGED <<lifecycle, sequence, startedOk>> /\ txn' = "raised"
        BY <1>6, <3>1, StartedFacts DEF StatusInv, StatusAgrees
      <3>2. CASE lifecycle'.status = "running" /\ txn' = "deferring" /\ UNCHANGED startedOk
        BY <1>2, <1>4, <1>6, <3>2, StartedFacts DEF StatusInv, StatusAgrees, SameTask
      <3>3. CASE lifecycle'.status = "running" /\ startedOk' = TRUE
        BY <1>4, <1>6, <3>3, StartedFacts DEF StatusInv, StatusAgrees, SameTask
      <3> QED
        BY <1>6, <3>1, <3>2, <3>3, StartedFacts
    <2>2. selection.kind = "cancelled" => selection = CancelledBy(deferred)
      BY <1>2 DEF StatusInv, CancellationAgrees
    <2>3. selection.kind = "cancelled" => deferred # None
      BY <2>2, OutcomeKinds, FixedOutcomes
      DEF Established, DecisionInv, ChoiceTypes
    <2>4. UNCHANGED deferred /\ txn' \notin {"writing", "observing"}
      BY <1>6, StartedFacts
    <2>5. selection.kind # "completed"
      BY <1>6, StartedFacts DEF StatusInv, CancellationAgrees
    <2>6. CancellationAgrees'
      BY <1>2, <1>5, <1>6, <2>2, <2>3, <2>4, <2>5, StartedFacts
      DEF StatusInv, CancellationAgrees
    <2>7. TerminalAgrees'
      BY <1>1, <1>2, <1>3, <1>6, StartedFacts
      DEF StatusInv, TerminalAgrees, SameText, Ended, TerminalStatuses
    <2> QED
      BY <2>1, <2>6, <2>7 DEF StatusInv
  <1>7. CASE DeferredApplied
    <2>1. StatusAgrees'
      BY <1>2, <1>3, <1>4, <1>7, DeferredFacts
      DEF StatusInv, StatusAgrees, SameTask, Ended, TerminalStatuses
    <2>2. deferred # None /\ selection \in {CancelledBy(deferred), DeadlineOutcome}
      BY <1>7, DeferredFacts, NoneAssumption
      DEF StatusInv, CancellationAgrees, Cancels
    <2>3. CancellationAgrees'
      BY <1>2, <1>5, <1>7, <2>2, DeferredFacts, FixedOutcomes
      DEF StatusInv, CancellationAgrees
    <2>4. TerminalAgrees'
      BY <1>1, <1>2, <1>3, <1>7, DeferredFacts
      DEF StatusInv, TerminalAgrees, SameText, Ended, TerminalStatuses
    <2> QED
      BY <2>1, <2>3, <2>4 DEF StatusInv
  <1> QED
    BY <1>6, <1>7

(* assistant.completed and the terminal event.                             *)
LEMMA EndingKeepsStatus ==
  ASSUME StatusInv, Established, PlacesInv', SealWritten \/ TerminalWritten
  PROVE  StatusInv'
PROOF
  <1>1. /\ UNCHANGED <<selection, startedOk, deferred, txn, cancelReq>> /\ startedOk
        /\ decisionLock = "finalizer" /\ finalizer # "done"
    BY SealFacts, TerminalFacts DEF Established, PlacesInv, LockAgrees
  <1>2. \A c \in Cancels : cancelReq[c] # "observing"
    BY <1>1 DEF Established, PlacesInv, LockAgrees
  <1>3. txn \notin {"writing", "observing"} /\ ~Ended
    BY <1>1 DEF Established, PlacesInv, LockAgrees, StatusInv, TerminalAgrees
  <1>4. lifecycle.session_failure = None
    BY <1>3 DEF StatusInv, StatusAgrees, Ended, TerminalStatuses
  <1>5. CASE SealWritten
    <2>1. finalizer' \in {"ending", "raised"}
      BY <1>5, SealFacts DEF ReportLimits
    <2>2. StatusAgrees'
      BY <1>1, <1>4, <1>5, SealFacts
      DEF StatusInv, StatusAgrees, SameIdentity, SameTask
    <2>3. CancellationAgrees'
      BY <1>1, <1>2, <1>3, <1>5, SealFacts DEF StatusInv, CancellationAgrees
    <2>4. TerminalAgrees'
      BY <1>1, <1>3, <1>5, <2>1, SealFacts
      DEF StatusInv, TerminalAgrees, Ended, TerminalStatuses, ReportLimits
    <2> QED
      BY <2>2, <2>3, <2>4 DEF StatusInv
  <1>6. CASE TerminalWritten
    <2>1. StatusAgrees'
      <3>1. selection \in Outcomes
        BY <1>6, TerminalFacts, FixedOutcomes DEF Established, DecisionInv, ChoiceTypes
      <3>2. selection.kind # "failed" => selection.code = None
        BY <1>6, <3>1, TerminalFacts, OutcomeKinds
      <3> QED
        BY <1>1, <1>4, <1>6, <3>2, TerminalFacts
        DEF StatusInv, StatusAgrees, SameIdentity, SameTask, TerminalStatuses
    <2>2. CancellationAgrees'
      BY <1>1, <1>2, <1>3, <1>6, TerminalFacts
      DEF StatusInv, CancellationAgrees, SameIdentity
    <2>3. TerminalAgrees'
      BY <1>1, <1>3, <1>6, TerminalFacts
      DEF StatusInv, TerminalAgrees, SameText, Ended, TerminalStatuses
    <2> QED
      BY <2>1, <2>2, <2>3 DEF StatusInv
  <1> QED
    BY <1>5, <1>6

(* request_cancellation, up to what it awaits.                             *)
LEMMA DecidingKeepsStatus ==
  ASSUME StatusInv, Established, PlacesInv', NEW c \in Cancels, CancelDecide(c)
  PROVE  StatusInv'
PROOF
  <1>1. /\ UNCHANGED <<sequence, startedOk, txn>> /\ decisionLock = "free"
        /\ cancelReq \in [Cancels -> RequestPlaces]
        /\ \A d \in Cancels : cancelReq[d] \notin {"observing", "rejected"}
        /\ txn \notin {"writing", "observing"}
        /\ lifecycle.status = "starting" => ~startedOk
    BY CancelFacts
    DEF Established, PlacesInv, LockAgrees, TypeOK, RequestTypes, StatusInv,
        StatusAgrees, CancellationAgrees
  <1>2. CASE UNCHANGED <<lifecycle, selection, finalizer, deferred, decisionLock>>
    <2>1. \A d \in Cancels : cancelReq'[d] \notin {"observing", "rejected"}
      BY <1>1, <1>2, CancelFacts
    <2> QED
      BY <1>1, <1>2, <2>1
      DEF StatusInv, StatusAgrees, CancellationAgrees, TerminalAgrees, Ended, Undecided
  <1>3. CASE /\ UNCHANGED <<lifecycle, decisionLock>>
             /\ deferred = None /\ deferred' = c
             /\ ~startedOk /\ lifecycle.status = "starting"
             /\ \E place \in {"returned", "joining"} :
                  cancelReq' = [cancelReq EXCEPT ![c] = place]
             /\ Selecting(DeadlineOutcome) \/ Selecting(CancelledBy(c))
    <2>1. \A d \in Cancels : cancelReq'[d] \notin {"observing", "rejected"}
      BY <1>1, <1>3
    <2>2. /\ selection' \in {DeadlineOutcome, CancelledBy(c)} /\ Undecided
          /\ finalizer = "none" /\ finalizer' = "await_start"
      BY <1>3, FixedOutcomes DEF Selecting
    <2>3. lifecycle.assistant_completed = FALSE
      BY <2>2, UndecidedRuns
    <2>4. StatusAgrees' /\ TerminalAgrees'
      BY <1>1, <1>3, <2>2, <2>3
      DEF StatusInv, StatusAgrees, TerminalAgrees, Ended, TerminalStatuses
    <2>5. CancellationAgrees'
      BY <1>1, <1>3, <2>1, <2>2, FixedOutcomes DEF StatusInv, CancellationAgrees
    <2> QED
      BY <2>4, <2>5 DEF StatusInv
  <1>4. CASE /\ lifecycle.status = "running" /\ startedOk /\ Undecided
             /\ UNCHANGED <<selection, finalizer, deferred>>
             /\ cancelReq' = [cancelReq EXCEPT ![c] = "observing"]
             /\ decisionLock' = "cancel"
             /\ lifecycle'.status = "cancelling" /\ lifecycle'.cancel_command_id = c
    <2>1. /\ lifecycle'.session_id = lifecycle.session_id
          /\ lifecycle'.last_sequence = lifecycle.last_sequence
          /\ lifecycle'.session_failure = lifecycle.session_failure
          /\ SameTask(lifecycle, lifecycle') /\ SameText(lifecycle, lifecycle')
      BY <1>4, CancelFacts
    <2>2. /\ selection = NoSelection /\ finalizer = "none" /\ deferred = None
          /\ lifecycle.assistant_completed = FALSE
      BY <1>4, UndecidedRuns DEF Undecided, Established, DecisionInv
    <2>3. StatusAgrees'
      BY <1>1, <1>4, <2>1 DEF StatusInv, StatusAgrees, SameTask
    <2>4. CancellationAgrees'
      <3>1. \A d \in Cancels : cancelReq'[d] = "observing" => d = c
        BY <1>1, <1>4
      <3>2. \A d \in Cancels : cancelReq'[d] # "rejected"
        BY <1>1, <1>4
      <3> QED
        BY <1>1, <1>4, <2>2, <3>1, <3>2, FixedOutcomes DEF CancellationAgrees, Undecided
    <2>5. TerminalAgrees'
      BY <1>4, <2>1, <2>2 DEF TerminalAgrees, SameText, Ended, TerminalStatuses
    <2> QED
      BY <2>3, <2>4, <2>5 DEF StatusInv
  <1> QED
    BY <1>2, <1>3, <1>4, CancelFacts

(* Every step keeps the status with the decision. *)
LEMMA StatusStep ==
  ASSUME StatusInv, Established, [Next]_vars
  PROVE  StatusInv'
PROOF
  <1>1. PlacesInv'
    BY PlacesStep DEF Established
  <1>2. CASE \/ StartedWritten \/ DeferredApplied \/ SealWritten \/ TerminalWritten
             \/ \E c \in Cancels : CancelDecide(c)
    BY <1>1, <1>2, StartKeepsStatus, EndingKeepsStatus, DecidingKeepsStatus
  <1>3. CASE ~ \/ StartedWritten \/ DeferredApplied \/ SealWritten \/ TerminalWritten
               \/ \E c \in Cancels : CancelDecide(c)
    <2>1. SameProjection
      BY <1>3, WhoPublishes, DeltaFacts DEF SameProjection, StatusInv, StatusAgrees
    <2> QED
      BY <1>1, <1>3, <2>1, WhoSelects, MovingKeepsStatus, SelectingKeepsStatus
      DEF Established
  <1> QED
    BY <1>2, <1>3

(* The reducer's status follows the decision, through every interleaving   *)
(* of the start, the requests, the deadline and the finalizer.             *)
THEOREM StatusInvariant == Spec => [](StatusInv /\ Established)
PROOF
  <1>1. Init => StatusInv
    BY InitStatus
  <1>2. StatusInv /\ Established /\ [Next]_vars => StatusInv'
    BY StatusStep
  <1>3. Spec => []Established
    BY PlacesInvariant, TextInvariant, TypeInvariant, DecisionInvariant, PTL
    DEF Established
  <1> QED
    BY <1>1, <1>2, <1>3, PTL DEF Spec

(* Every event written to the wire was accepted by the reducer and no      *)
(* trusted fact was refused: the projection never falls behind what the    *)
(* user was shown (emit_session, then _accept_lifecycle_locked;            *)
(* ProjectionFollowsWire).                                                 *)
THEOREM ProviderProjectionFollowsWire == Spec => []ProjectionFollowsWire
PROOF
  <1>1. StatusInv => ProjectionFollowsWire
    BY DEF StatusInv, StatusAgrees, CancellationAgrees, ProjectionFollowsWire
  <1> QED
    BY <1>1, StatusInvariant, PTL

(* The text the session accepted from the provider is the text the reducer *)
(* accepted (_accept_observation; AcceptedTextIsPublished).                *)
THEOREM AcceptedTextIsThePublishedText == Spec => []AcceptedTextIsPublished
PROOF
  <1>1. TextAgrees => AcceptedTextIsPublished
    BY DEF TextAgrees, AcceptedTextIsPublished
  <1> QED
    BY <1>1, TextInvariant, PTL

(* The terminal the user sees is the outcome that was selected, with its   *)
(* code and correlation (_emit_selected_terminal; TerminalIsSelected).     *)
THEOREM TerminalIsTheSelectedOutcome == Spec => []TerminalIsSelected
PROOF
  <1>1. StatusInv => TerminalIsSelected
    <2> SUFFICES ASSUME StatusInv, Ended
                 PROVE  /\ selection.kind = lifecycle.status
                        /\ lifecycle.session_failure = selection.code
                        /\ selection.kind = "cancelled" =>
                             lifecycle.cancel_command_id = selection.correlation
      BY DEF TerminalIsSelected
    <2>1. /\ selection.kind = lifecycle.status
          /\ lifecycle.session_failure = selection.code
      BY DEF StatusInv, TerminalAgrees
    <2>2. selection.kind = "cancelled" => startedOk
      BY <2>1 DEF StatusInv, StatusAgrees
    <2> QED
      BY <2>1, <2>2 DEF StatusInv, CancellationAgrees
  <1> QED
    BY <1>1, StatusInvariant, PTL
-----------------------------------------------------------------------------
(* Part five: the budgets and the evidence.                                *)

(* Output is refused for a fragment that does not fit the rest.            *)
OverrunTold(t) ==
  t.exhausted = "assistant_output" =>
    \E f \in Fragments : FragmentBytes[f] > MaxOutputBytes - t.bytes

(* The exhausted budget is the one a failure names; any other outcome      *)
(* leaves none exhausted.                                                  *)
BudgetTells(t, code) ==
  IF code \in LimitFailureCodes
    THEN /\ t.exhausted \in Exhaustions /\ LimitFailureCode(t.exhausted) = code
         /\ OverrunTold(t)
    ELSE t.exhausted = Unexhausted

(* The tracker always forms a record the observer can build, and tells the *)
(* story of what was selected.                                             *)
BudgetTold ==
  /\ ValidEvidence(tracker)
  /\ operation => tracker.turns # 0
  /\ ~Undecided => BudgetTells(tracker, selection.code)

(* The evidence is taken last, and stays true.                             *)
EvidenceTaken ==
  /\ evidence # None =>
       evidence = tracker /\ finalizer \in {"ending", "done", "raised"}
  /\ finalizer = "ending" \/ Ended => evidence # None

EvidenceAgrees == BudgetTold /\ EvidenceTaken

(* No two budgets share a failure code, and no other failure has one. *)
LEMMA LimitCodes ==
  /\ \A x \in Exhaustions : LimitFailureCode(x) \in LimitFailureCodes
  /\ InvalidResponse \notin LimitFailureCodes
  /\ ToolUnavailable \notin LimitFailureCodes
  /\ ProviderError \notin LimitFailureCodes
  /\ None \notin LimitFailureCodes
  /\ {"model_turns", "provider_work", "assistant_output", "tool_calls"} = Exhaustions
  /\ Unexhausted \notin Exhaustions
PROOF
  <1>1. /\ \A x \in Exhaustions : LimitFailureCode(x) \in LimitFailureCodes
        /\ {"model_turns", "provider_work", "assistant_output", "tool_calls"} = Exhaustions
        /\ Unexhausted \notin Exhaustions
    BY DEF LimitFailureCodes, Exhaustions, Unexhausted
  <1>2. \A x \in Exhaustions :
          LimitFailureCode(x) \in {"model_turn_limit_exceeded",
            "provider_work_deadline_exceeded", "assistant_output_limit_exceeded",
            "tool_call_limit_exceeded"}
    BY DEF LimitFailureCode, Exhaustions
  <1>3. /\ InvalidResponse \notin LimitFailureCodes
        /\ ToolUnavailable \notin LimitFailureCodes
        /\ ProviderError \notin LimitFailureCodes
    BY <1>2 DEF LimitFailureCodes, InvalidResponse, ToolUnavailable, ProviderError
  <1>4. None \notin LimitFailureCodes
    BY SessionAssumption, NoneAssumption DEF SessionCodes
  <1> QED
    BY <1>1, <1>3, <1>4

(* A turn is admitted within its limit, or refused at it (admit_model_turn).*)
LEMMA AdmittingKeepsEvidence ==
  ASSUME NEW t \in Trackers, t.exhausted = Unexhausted, ValidEvidence(t)
  PROVE  LET a == AdmitModelTurn(t)
         IN /\ ValidEvidence(a.tracker)
            /\ a.granted => a.tracker.turns # 0 /\ a.tracker.exhausted = Unexhausted
            /\ ~a.granted => a.tracker.turns # 0 /\ a.tracker.exhausted = "model_turns"
            /\ a.tracker \in Trackers
PROOF
  <1>1. /\ t.turns \in Nat /\ t.bytes \in Nat /\ t.tools \in Nat
        /\ t.turns <= MaxModelTurns
    BY DEF Trackers, ValidEvidence
  <1>2. CASE t.turns >= MaxModelTurns
    <2> DEFINE u == [t EXCEPT !.exhausted = "model_turns"]
    <2>1. AdmitModelTurn(t) = Refused(u)
      BY <1>2 DEF AdmitModelTurn, Spent
    <2>2. /\ u.turns = t.turns /\ u.bytes = t.bytes /\ u.tools = t.tools
          /\ u.exhausted = "model_turns" /\ u \in Trackers
      BY DEF Trackers, Exhaustions
    <2>3. t.turns = MaxModelTurns /\ t.turns # 0
      BY <1>1, <1>2, LimitsAssumption
    <2> HIDE DEF u
    <2>4. ValidEvidence(u)
      BY <2>2, <2>3 DEF ValidEvidence, Exhaustions, Unexhausted
    <2> QED
      BY <2>1, <2>2, <2>3, <2>4 DEF Refused
  <1>3. CASE t.turns < MaxModelTurns
    <2> DEFINE u == [t EXCEPT !.turns = @ + 1]
    <2>1. AdmitModelTurn(t) = Granted(u)
      BY <1>1, <1>3, LimitsAssumption DEF AdmitModelTurn, Spent
    <2>2. /\ u.turns = t.turns + 1 /\ u.bytes = t.bytes /\ u.tools = t.tools
          /\ u.exhausted = Unexhausted /\ u \in Trackers
      BY DEF Trackers
    <2> HIDE DEF u
    <2>3. ValidEvidence(u)
      BY <1>1, <1>3, <2>2, LimitsAssumption DEF ValidEvidence, Exhaustions, Unexhausted
    <2>4. u.turns # 0
      BY <1>1, <2>2
    <2> QED
      BY <2>1, <2>2, <2>3, <2>4 DEF Granted
  <1> QED
    BY <1>1, <1>2, <1>3, LimitsAssumption

(* Output is reserved within its limit, or refused                         *)
(* (reserve_assistant_output).                                             *)
LEMMA ReservingKeepsEvidence ==
  ASSUME NEW t \in Trackers, t.exhausted = Unexhausted, ValidEvidence(t),
         t.turns # 0, NEW bytes \in Nat
  PROVE  LET r == ReserveAssistantOutput(t, bytes)
         IN /\ ValidEvidence(r.tracker) /\ r.tracker.turns # 0
            /\ r.granted => r.tracker.exhausted = Unexhausted
            /\ ~r.granted => /\ r.tracker.exhausted = "assistant_output"
                             /\ bytes > MaxOutputBytes - r.tracker.bytes
PROOF
  <1>1. /\ t.turns \in Nat /\ t.bytes \in Nat /\ t.tools \in Nat
        /\ t.bytes <= MaxOutputBytes
    BY DEF Trackers, ValidEvidence
  <1>2. CASE bytes > MaxOutputBytes - t.bytes
    <2> DEFINE u == [t EXCEPT !.exhausted = "assistant_output"]
    <2>1. ReserveAssistantOutput(t, bytes) = Refused(u)
      BY <1>2 DEF ReserveAssistantOutput, Spent
    <2>2. /\ u.turns = t.turns /\ u.bytes = t.bytes /\ u.tools = t.tools
          /\ u.exhausted = "assistant_output"
      BY DEF Trackers
    <2> HIDE DEF u
    <2>3. ValidEvidence(u)
      BY <2>2 DEF ValidEvidence, Exhaustions, Unexhausted
    <2> QED
      BY <1>2, <2>1, <2>2, <2>3 DEF Refused
  <1>3. CASE ~(bytes > MaxOutputBytes - t.bytes)
    <2> DEFINE u == [t EXCEPT !.bytes = @ + bytes]
    <2>1. ReserveAssistantOutput(t, bytes) = Granted(u)
      BY <1>3 DEF ReserveAssistantOutput, Spent
    <2>2. /\ u.turns = t.turns /\ u.bytes = t.bytes + bytes /\ u.tools = t.tools
          /\ u.exhausted = Unexhausted
      BY DEF Trackers
    <2> HIDE DEF u
    <2>3. u.bytes \in 0 .. MaxOutputBytes
      BY <1>1, <1>3, <2>2, LimitsAssumption
    <2>4. ValidEvidence(u)
      BY <2>2, <2>3 DEF ValidEvidence, Exhaustions, Unexhausted
    <2> QED
      BY <2>1, <2>2, <2>4 DEF Granted
  <1> QED
    BY <1>2, <1>3

(* A tool call is counted within its limit, or is the one over it          *)
(* (observe_tool_call).                                                    *)
LEMMA ObservingKeepsEvidence ==
  ASSUME NEW t \in Trackers, t.exhausted = Unexhausted, ValidEvidence(t), t.turns # 0
  PROVE  LET r == ObserveToolCall(t)
         IN /\ ValidEvidence(r.tracker) /\ r.tracker.turns # 0
            /\ r.granted => r.tracker.exhausted = Unexhausted
            /\ ~r.granted => r.tracker.exhausted = "tool_calls"
PROOF
  <1> DEFINE u == [t EXCEPT !.tools = @ + 1]
             v == [u EXCEPT !.exhausted = "tool_calls"]
  <1>1. /\ t.turns \in Nat /\ t.bytes \in Nat /\ t.tools \in Nat
        /\ t.tools <= MaxToolCalls
    BY LimitsAssumption DEF Trackers, ValidEvidence, Unexhausted
  <1>2. /\ u.turns = t.turns /\ u.bytes = t.bytes /\ u.tools = t.tools + 1
        /\ u.exhausted = Unexhausted
        /\ v.turns = t.turns /\ v.bytes = t.bytes /\ v.tools = t.tools + 1
        /\ v.exhausted = "tool_calls"
    BY DEF Trackers
  <1>3. ObserveToolCall(t) = IF u.tools > MaxToolCalls THEN Refused(v) ELSE Granted(u)
    BY DEF ObserveToolCall, Spent
  <1> HIDE DEF u, v
  <1>4. u.tools > MaxToolCalls => ValidEvidence(v)
    <2> SUFFICES ASSUME u.tools > MaxToolCalls PROVE ValidEvidence(v)
      OBVIOUS
    <2>1. v.tools = MaxToolCalls + 1
      BY <1>1, <1>2, LimitsAssumption
    <2>2. v.tools \in 0 .. (MaxToolCalls + 1)
      BY <2>1, LimitsAssumption
    <2> QED
      BY <1>2, <2>1, <2>2 DEF ValidEvidence, Exhaustions, Unexhausted
  <1>5. ~(u.tools > MaxToolCalls) => ValidEvidence(u)
    <2> SUFFICES ASSUME ~(u.tools > MaxToolCalls) PROVE ValidEvidence(u)
      OBVIOUS
    <2>1. u.tools \in 0 .. (MaxToolCalls + 0)
      BY <1>1, <1>2, LimitsAssumption
    <2> QED
      BY <1>2, <2>1 DEF ValidEvidence, Exhaustions, Unexhausted
  <1> QED
    BY <1>2, <1>3, <1>4, <1>5 DEF Refused, Granted

(* Expiry exhausts provider work, whatever was used of the rest.           *)
LEMMA MarkingKeepsEvidence ==
  ASSUME NEW t \in Trackers, t.exhausted = Unexhausted, ValidEvidence(t)
  PROVE  LET u == MarkProviderWorkExhausted(t)
         IN ValidEvidence(u) /\ u.turns = t.turns /\ u.exhausted = "provider_work"
PROOF
  <1> DEFINE u == [t EXCEPT !.exhausted = "provider_work"]
  <1>1. MarkProviderWorkExhausted(t) = u
    BY DEF MarkProviderWorkExhausted, Spent
  <1>2. /\ u.turns = t.turns /\ u.bytes = t.bytes /\ u.tools = t.tools
        /\ u.exhausted = "provider_work"
    BY DEF Trackers
  <1> HIDE DEF u
  <1>3. ValidEvidence(u)
    BY <1>2 DEF ValidEvidence, Exhaustions, Unexhausted
  <1> QED
    BY <1>1, <1>2, <1>3

(* Selecting the deadline marks provider work exhausted, if the watcher    *)
(* has not (_latch_provider_deadline_locked).                              *)
LEMMA DeadlineTells ==
  ASSUME DecisionInv, Undecided, NEW t \in Trackers, t.exhausted = tracker.exhausted,
         ValidEvidence(t), NEW started
  PROVE  /\ Latch(t, started) =>
              ValidEvidence(tracker') /\ tracker'.turns = t.turns
         /\ ChooseDeadline(t, started) =>
              /\ ValidEvidence(tracker') /\ tracker'.turns = t.turns
              /\ BudgetTells(tracker', selection'.code)
PROOF
  <1>1. latched => t.exhausted = "provider_work"
    BY DEF DecisionInv, BudgetAgrees
  <1>2. ~latched => t.exhausted = Unexhausted
    BY DEF DecisionInv, BudgetAgrees
  <1>3. Latch(t, started) => /\ ValidEvidence(tracker') /\ tracker'.turns = t.turns
                             /\ tracker'.exhausted = "provider_work"
    BY <1>1, <1>2, MarkingKeepsEvidence DEF Latch
  <1>4. ChooseDeadline(t, started) =>
          selection'.code = LimitFailureCode("provider_work") /\ Latch(t, started)
    BY DEF ChooseDeadline, Choose, DeadlineOutcome, FailedWith, Outcome
  <1>5. "provider_work" \in Exhaustions
    BY LimitCodes
  <1> QED
    BY <1>3, <1>4, <1>5, LimitCodes DEF BudgetTells, OverrunTold

(* Any other selection leaves the budget it names exhausted, or none.      *)
LEMMA ChargingTells ==
  ASSUME NEW o, NEW t, ChooseCharging(o, t), BudgetTells(t, o.code), ValidEvidence(t)
  PROVE  /\ ValidEvidence(tracker') /\ tracker' = t
         /\ BudgetTells(tracker', selection'.code)
PROOF
  BY DEF ChooseCharging, Choose

(* What an unspent tracker tells of, and one that refused. *)
LEMMA TellingCodes ==
  /\ \A t, o : t.exhausted = Unexhausted
                 /\ \/ o \in {Completed, ProviderReported, Teardown,
                              FailedWith(InvalidResponse), FailedWith(ToolUnavailable)}
                    \/ \E c : o = CancelledBy(c)
               => BudgetTells(t, o.code)
  /\ \A t, x : x \in Exhaustions /\ t.exhausted = x /\ OverrunTold(t) =>
       BudgetTells(t, FailedWith(LimitFailureCode(x)).code)
PROOF
  <1>1. /\ Completed.code = None /\ Teardown.code = None
        /\ ProviderReported.code = ProviderError
        /\ \A code : FailedWith(code).code = code
        /\ \A c : CancelledBy(c).code = None
    BY DEF Completed, Teardown, ProviderReported, FailedWith, CancelledBy, Outcome
  <1> QED
    BY <1>1, LimitCodes DEF BudgetTells

(* What SelectCandidate and SelectDeadlineIfDue leave, given an outcome    *)
(* that names no budget.                                                   *)
LEMMA CandidateTells ==
  ASSUME BudgetTold, DecisionInv, UNCHANGED operation
  PROVE  /\ \A o : SelectCandidate(o)
                   /\ (tracker.exhausted = Unexhausted => BudgetTells(tracker, o.code))
                 => BudgetTold'
         /\ SelectDeadlineIfDue => BudgetTold'
         /\ UNCHANGED <<selection, tracker>> => BudgetTold'
         /\ Undecided /\ ChooseDeadline(tracker, operation) => BudgetTold'
PROOF
  <1>1. UNCHANGED <<selection, tracker>> => BudgetTold'
    BY DEF BudgetTold, Undecided
  <1>2. tracker \in Trackers
    BY DEF DecisionInv, ChoiceTypes
  <1>3. Undecided /\ ChooseDeadline(tracker, operation) => BudgetTold'
    BY <1>2, DeadlineTells DEF BudgetTold
  <1>4. ASSUME NEW o, Undecided, ~Expired, ChooseCharging(o, tracker),
               tracker.exhausted = Unexhausted => BudgetTells(tracker, o.code)
        PROVE  BudgetTold'
    BY <1>4, AdmittingBudget, ChargingTells DEF BudgetTold
  <1> QED
    BY <1>1, <1>3, <1>4 DEF SelectCandidate, SelectDeadlineIfDue, decisionVars

(* The operation's turn is charged before it starts, and refused at the    *)
(* limit (_start_provider_operation).                                      *)
LEMMA StartTells ==
  ASSUME BudgetTold, DecisionInv, StartRefused \/ StartOperation
  PROVE  BudgetTold'
PROOF
  <1> DEFINE admitted == AdmitModelTurn(tracker)
  <1>1. tracker \in Trackers /\ ValidEvidence(tracker)
    BY DEF DecisionInv, ChoiceTypes, BudgetTold
  <1>2. Undecided /\ ~Expired =>
          /\ tracker.exhausted = Unexhausted
          /\ ValidEvidence(admitted.tracker) /\ admitted.tracker \in Trackers
          /\ admitted.granted =>
               admitted.tracker.turns # 0 /\ admitted.tracker.exhausted = Unexhausted
          /\ ~admitted.granted =>
               admitted.tracker.turns # 0 /\ admitted.tracker.exhausted = "model_turns"
    BY <1>1, AdmittingBudget, AdmittingKeepsEvidence
  <1> HIDE DEF admitted
  <1>3. CASE StartRefused
    <2>1. UNCHANGED operation
      BY <1>3 DEF StartRefused
    <2>2. CASE \/ ~Undecided /\ UNCHANGED decisionVars
               \/ Undecided /\ Expired /\ ChooseDeadline(tracker, operation)
      BY <2>1, <2>2, CandidateTells DEF decisionVars
    <2>3. CASE /\ Undecided /\ ~Expired /\ ~admitted.granted
               /\ ChooseCharging(FailedWith(LimitFailureCode("model_turns")),
                                 admitted.tracker)
      <3>1. "model_turns" \in Exhaustions
        BY LimitCodes
      <3>2. BudgetTells(admitted.tracker,
                        FailedWith(LimitFailureCode("model_turns")).code)
        BY <1>2, <2>3, <3>1, TellingCodes DEF OverrunTold
      <3> QED
        BY <1>2, <2>1, <2>3, <3>2, ChargingTells DEF BudgetTold
    <2> QED
      BY <1>3, <2>2, <2>3 DEF StartRefused, admitted
  <1>4. CASE StartOperation
    <2>1. /\ Undecided /\ ~Expired /\ admitted.granted
          /\ \/ \E started : ChooseDeadline(admitted.tracker, started)
             \/ ChooseCharging(FailedWith(InvalidResponse), admitted.tracker)
             \/ tracker' = admitted.tracker /\ UNCHANGED selection
      BY <1>4 DEF StartOperation, admitted
    <2>2. admitted.tracker.exhausted = tracker.exhausted
      BY <1>2, <2>1
    <2>3. CASE \E started : ChooseDeadline(admitted.tracker, started)
      BY <1>2, <2>1, <2>2, <2>3, DeadlineTells DEF BudgetTold
    <2>4. CASE ChooseCharging(FailedWith(InvalidResponse), admitted.tracker)
      <3>1. BudgetTells(admitted.tracker, FailedWith(InvalidResponse).code)
        BY <1>2, <2>1, TellingCodes
      <3> QED
        BY <1>2, <2>1, <2>4, <3>1, ChargingTells DEF BudgetTold
    <2>5. CASE tracker' = admitted.tracker /\ UNCHANGED selection
      BY <1>2, <2>1, <2>5 DEF BudgetTold, Undecided
    <2> QED
      BY <2>1, <2>3, <2>4, <2>5
  <1> QED
    BY <1>3, <1>4

(* An observation is charged for output and for tool calls, and comes from *)
(* an operation whose turn was charged (_accept_observation).              *)
LEMMA AcceptTells ==
  ASSUME BudgetTold, DecisionInv, Established, WorkInv,
         \/ AcceptNothing \/ AcceptDelta \/ AcceptTextCompleted \/ AcceptUsage
         \/ AcceptOutcome \/ AcceptToolCall
  PROVE  BudgetTold'
PROOF
  <1>1. /\ UNCHANGED operation /\ txn = "accept"
        /\ tracker \in Trackers /\ ValidEvidence(tracker)
    BY DEF AcceptNothing, AcceptDelta, AcceptTextCompleted, AcceptUsage, AcceptOutcome,
           AcceptToolCall, Admitting, Accepting, DecisionInv, ChoiceTypes, BudgetTold
  <1>2. operation /\ tracker.turns # 0
    BY <1>1
    DEF Established, PlacesInv, TxnAgrees, WorkInv, WorkBegins, BudgetTold
  <1>3. Undecided /\ ~Expired => tracker.exhausted = Unexhausted
    BY AdmittingBudget
  <1>4. CASE AcceptNothing
    <2>1. BudgetTells(tracker, FailedWith(InvalidResponse).code)
            \/ tracker.exhausted # Unexhausted
      BY TellingCodes
    <2>2. CASE \/ ~Undecided /\ UNCHANGED decisionVars
               \/ Undecided /\ Expired /\ ChooseDeadline(tracker, operation)
      BY <1>1, <2>2, CandidateTells DEF decisionVars
    <2>3. CASE /\ Undecided /\ ~Expired
               /\ ChooseCharging(FailedWith(InvalidResponse), tracker)
      BY <1>1, <1>2, <1>3, <2>1, <2>3, ChargingTells DEF BudgetTold
    <2> QED
      BY <1>4, <2>2, <2>3 DEF AcceptNothing
  <1>5. CASE AcceptDelta
    <2> DEFINE bytes == FragmentBytes[result.text[1]]
               reserved == ReserveAssistantOutput(tracker, bytes)
    <2>1. bytes \in Nat /\ \E f \in Fragments : bytes = FragmentBytes[f]
      <3>1. PICK f \in Fragments : result.text = <<f>>
        BY <1>5 DEF AcceptDelta, Admitting, DecisionInv, ChoiceTypes
      <3> QED
        BY <3>1, SessionAssumption
    <2>2. Undecided /\ ~Expired /\ tracker.exhausted = Unexhausted
      BY <1>3, <1>5 DEF AcceptDelta, Admitting
    <2>3. /\ ValidEvidence(reserved.tracker) /\ reserved.tracker.turns # 0
          /\ reserved.granted => reserved.tracker.exhausted = Unexhausted
          /\ ~reserved.granted => /\ reserved.tracker.exhausted = "assistant_output"
                                   /\ bytes > MaxOutputBytes - reserved.tracker.bytes
      BY <1>1, <1>2, <2>1, <2>2, ReservingKeepsEvidence
    <2> HIDE DEF bytes, reserved
    <2>4. \/ tracker' = reserved.tracker /\ UNCHANGED selection
          \/ ~reserved.granted
             /\ ChooseCharging(FailedWith(LimitFailureCode("assistant_output")),
                               reserved.tracker)
      BY <1>5 DEF AcceptDelta, reserved, bytes
    <2>5. "assistant_output" \in Exhaustions
      BY LimitCodes
    <2>6. ~reserved.granted =>
            BudgetTells(reserved.tracker,
                        FailedWith(LimitFailureCode("assistant_output")).code)
      BY <2>1, <2>3, <2>5, TellingCodes DEF OverrunTold
    <2> QED
      BY <1>1, <2>2, <2>3, <2>4, <2>6, ChargingTells DEF BudgetTold, Undecided
  <1>6. CASE AcceptTextCompleted \/ AcceptUsage
    BY <1>1, <1>6, CandidateTells DEF AcceptTextCompleted, AcceptUsage, decisionVars
  <1>7. CASE AcceptOutcome
    <2>1. PICK o \in {Completed, ProviderReported} : ChooseCharging(o, tracker)
      BY <1>7 DEF AcceptOutcome
    <2>2. Undecided /\ ~Expired
      BY <1>7 DEF AcceptOutcome, Admitting
    <2>3. BudgetTells(tracker, o.code)
      BY <1>3, <2>1, <2>2, TellingCodes
    <2> QED
      BY <1>1, <1>2, <2>1, <2>3, ChargingTells DEF BudgetTold
  <1>8. CASE AcceptToolCall
    <2> DEFINE observed == ObserveToolCall(tracker)
    <2>1. Undecided /\ ~Expired /\ tracker.exhausted = Unexhausted
      BY <1>3, <1>8 DEF AcceptToolCall, Admitting
    <2>2. /\ ValidEvidence(observed.tracker) /\ observed.tracker.turns # 0
          /\ observed.granted => observed.tracker.exhausted = Unexhausted
          /\ ~observed.granted => observed.tracker.exhausted = "tool_calls"
      BY <1>1, <1>2, <2>1, ObservingKeepsEvidence
    <2> DEFINE o == FailedWith(IF observed.granted THEN ToolUnavailable
                               ELSE LimitFailureCode("tool_calls"))
    <2>3. ChooseCharging(o, observed.tracker)
      BY <1>8 DEF AcceptToolCall
    <2>4. "tool_calls" \in Exhaustions
      BY LimitCodes
    <2>5. BudgetTells(observed.tracker, o.code)
      <3>1. CASE observed.granted
        BY <2>2, <3>1, TellingCodes
      <3>2. CASE ~observed.granted
        BY <2>2, <2>4, <3>2, TellingCodes DEF OverrunTold
      <3> QED
        BY <3>1, <3>2
    <2> HIDE DEF observed, o
    <2> QED
      BY <1>1, <2>2, <2>3, <2>5, ChargingTells DEF BudgetTold
  <1> QED
    BY <1>4, <1>5, <1>6, <1>7, <1>8

(* Every step keeps the budgets telling. *)
LEMMA BudgetStep ==
  ASSUME BudgetTold, DecisionInv, Established, WorkInv, [Next]_vars
  PROVE  BudgetTold'
PROOF
  <1>1. tracker.exhausted = Unexhausted =>
          /\ BudgetTells(tracker, FailedWith(InvalidResponse).code)
          /\ BudgetTells(tracker, Teardown.code)
          /\ \A c : BudgetTells(tracker, CancelledBy(c).code)
    BY TellingCodes
  <1>2. CASE RunnerStep
    <2>1. CASE StartRefused \/ StartOperation
      BY <2>1, StartTells
    <2>2. CASE SelectProviderDeadline
      BY <2>2, CandidateTells DEF SelectProviderDeadline, decisionVars
    <2>3. CASE ~ \/ StartRefused \/ StartOperation \/ SelectProviderDeadline
      <3>1. UNCHANGED <<selection, tracker, operation>>
        BY <1>2, <2>3
        DEF RunnerStep, Run, PublishResumes, AcceptResumes, RejectResumes, ResumeFrom,
            JoinResumes, TeardownJoined, FailureSelected, FailureJoined, Leave,
            StartIsCancelled, ReadIsCancelled, WakeExpired, WakeStopped, WakeReaped,
            WakeWithoutEvent, WakeWithEvent, ReadWakes, RunnerReaps, SelectIsCancelled,
            decisionVars
      <3> QED
        BY <3>1, CandidateTells
    <2> QED
      BY <2>1, <2>2, <2>3
  <1>3. CASE TransactionStep
    <2>1. CASE \/ BeginStarted \/ StartedWritten \/ DeferredApplied
               \/ RejectTransaction \/ TeardownTransaction \/ DeltaWritten \/ UsageRecorded
      BY <1>1, <2>1, CandidateTells
      DEF BeginStarted, StartedWritten, DeferredApplied, RejectTransaction,
          TeardownTransaction, DeltaWritten, UsageRecorded, decisionVars
    <2> QED
      BY <1>3, <2>1, AcceptTells DEF TransactionStep
  <1>4. CASE FinalizationStep
    <2>1. UNCHANGED <<selection, tracker, operation>>
      BY <1>4
      DEF FinalizationStep, FinalizerStarts, FinalizerStopsWatcher,
          FinalizerStartsCleanup, FinalizerJoinsCleanup, FinalizerReaps,
          FinalizerReports, TerminalBegins, SealWritten, TerminalWritten, FinalizerStep
    <2> QED
      BY <2>1, CandidateTells
  <1>5. ASSUME NEW c \in Cancels, RequestCancellation(c) \/ CancellationStep(c)
        PROVE  BudgetTold'
    BY <1>1, <1>5, CandidateTells
    DEF RequestCancellation, CancellationStep, CancelDecide, CancelSelect, CancelJoined,
        RequestStep, decisionVars
  <1>6. CASE \E c \in Cancels : RequestCancellation(c) \/ CancellationStep(c)
    BY <1>5, <1>6
  <1>7. CASE RequestTeardown \/ TeardownStep
    BY <1>1, <1>7, CandidateTells
    DEF RequestTeardown, TeardownStep, TeardownDecide, TeardownRequestJoined,
        RequestStep, decisionVars
  <1>8. CASE WatcherFires
    <2>1. /\ UNCHANGED <<selection, operation>>
          /\ \/ UNCHANGED tracker
             \/ Undecided /\ Latch(tracker, operation)
      BY <1>8 DEF WatcherFires, EnvironmentStep
    <2>2. tracker \in Trackers
      BY DEF DecisionInv, ChoiceTypes
    <2> QED
      BY <2>1, <2>2, CandidateTells, DeadlineTells DEF BudgetTold, Undecided
  <1>9. CASE \/ ProviderYields \/ ReadAnswersCancel \/ Tick
             \/ CleanupReturns \/ GraceExpires \/ ForceReturns \/ OuterCancel
    <2>1. UNCHANGED <<selection, tracker, operation>>
      BY <1>9
      DEF ProviderYields, ReadAnswersCancel, Tick, CleanupReturns, GraceExpires,
          ForceReturns, CleanupStep, OuterCancel, EnvironmentStep
    <2> QED
      BY <2>1, CandidateTells
  <1>10. CASE UNCHANGED vars
    BY <1>10, CandidateTells DEF vars, decisionVars
  <1> QED
    BY <1>2, <1>3, <1>4, <1>6, <1>7, <1>8, <1>9, <1>10 DEF Next, Finished

(* Nothing is charged, started or selected once an outcome is: every path  *)
(* to the tracker, the provider's start or _select_locked looks first.     *)
LEMMA DecidedStands ==
  ASSUME DecisionInv, PlacesInv, ~Undecided, [Next]_vars
  PROVE  UNCHANGED <<selection, tracker, operation>>
PROOF
  <1>1. UNCHANGED selection
    BY WhoSelects DEF Selecting
  <1>2. \A o : SelectCandidate(o) => UNCHANGED tracker
    BY DEF SelectCandidate, decisionVars
  <1>3. SelectDeadlineIfDue => UNCHANGED tracker
    BY DEF SelectDeadlineIfDue, decisionVars
  <1> DEFINE Stands == UNCHANGED <<tracker, operation>>
  <1>4. CASE RunnerStep
    <2>1. CASE \/ Run \/ PublishResumes \/ AcceptResumes \/ RejectResumes \/ JoinResumes
               \/ TeardownJoined \/ FailureSelected \/ FailureJoined
               \/ StartRefused \/ StartOperation \/ SelectProviderDeadline
      BY <2>1
      DEF Run, PublishResumes, AcceptResumes, RejectResumes, ResumeFrom, JoinResumes,
          TeardownJoined, FailureSelected, FailureJoined, Leave, StartRefused,
          StartOperation, SelectProviderDeadline, decisionVars
    <2>2. CASE \/ StartIsCancelled \/ ReadIsCancelled \/ SelectIsCancelled
               \/ WakeExpired \/ WakeStopped \/ WakeReaped
               \/ WakeWithoutEvent \/ WakeWithEvent \/ RunnerReaps
      BY <2>2
      DEF StartIsCancelled, ReadIsCancelled, WakeExpired, WakeStopped, WakeReaped,
          WakeWithoutEvent, WakeWithEvent, ReadWakes, RunnerReaps, SelectIsCancelled,
          decisionVars
    <2> QED
      BY <1>1, <1>4, <2>1, <2>2 DEF RunnerStep
  <1>5. CASE TransactionStep
    BY <1>1, <1>2, <1>3, <1>5
    DEF TransactionStep, BeginStarted, StartedWritten, DeferredApplied,
        RejectTransaction, TeardownTransaction, AcceptNothing, AcceptDelta,
        AcceptTextCompleted, AcceptUsage, AcceptOutcome, AcceptToolCall, Admitting,
        Accepting, DeltaWritten, UsageRecorded, decisionVars
  <1>6. CASE FinalizationStep
    BY <1>1, <1>6
    DEF FinalizationStep, FinalizerStarts, FinalizerStopsWatcher,
        FinalizerStartsCleanup, FinalizerJoinsCleanup, FinalizerReaps,
        FinalizerReports, TerminalBegins, SealWritten, TerminalWritten, FinalizerStep
  <1>7. ASSUME NEW c \in Cancels, RequestCancellation(c) \/ CancellationStep(c)
        PROVE  Stands
    BY <1>2, <1>7
    DEF RequestCancellation, CancellationStep, CancelDecide, CancelSelect, CancelJoined,
        RequestStep, decisionVars
  <1>8. CASE \E c \in Cancels : RequestCancellation(c) \/ CancellationStep(c)
    BY <1>1, <1>7, <1>8
  <1>9. CASE RequestTeardown \/ TeardownStep
    BY <1>1, <1>2, <1>9
    DEF RequestTeardown, TeardownStep, TeardownDecide, TeardownRequestJoined,
        RequestStep, decisionVars
  <1>10. CASE \/ ProviderYields \/ ReadAnswersCancel \/ Tick \/ WatcherFires
              \/ CleanupReturns \/ GraceExpires \/ ForceReturns \/ OuterCancel
    BY <1>1, <1>10
    DEF ProviderYields, ReadAnswersCancel, Tick, WatcherFires, CleanupReturns,
        GraceExpires, ForceReturns, CleanupStep, OuterCancel, EnvironmentStep
  <1>11. CASE UNCHANGED vars
    BY <1>11 DEF vars, decisionVars
  <1> QED
    BY <1>4, <1>5, <1>6, <1>8, <1>9, <1>10, <1>11 DEF Next, Finished

(* The evidence is taken by the finalizer alone, on its way to the         *)
(* terminal event (_notify_loop_limits_once).                              *)
LEMMA WhoTakesEvidence ==
  ASSUME [Next]_vars
  PROVE  \/ UNCHANGED evidence
         \/ /\ finalizer \in {"terminal", "sealing"}
            /\ evidence' = tracker /\ finalizer' = "ending"
PROOF
  <1>1. RunnerStep => UNCHANGED evidence
    BY
    DEF RunnerStep, Run, PublishResumes, AcceptResumes, RejectResumes, ResumeFrom,
        JoinResumes, TeardownJoined, FailureSelected, FailureJoined, Leave,
        StartIsCancelled, StartRefused, StartOperation, ReadIsCancelled, WakeExpired,
        WakeStopped, WakeReaped, WakeWithoutEvent, WakeWithEvent, ReadWakes,
        RunnerReaps, SelectIsCancelled, SelectProviderDeadline, reportVars
  <1>2. TransactionStep => UNCHANGED evidence
    BY
    DEF TransactionStep, BeginStarted, StartedWritten, DeferredApplied,
        RejectTransaction, TeardownTransaction, Accepting, Admitting, AcceptNothing,
        AcceptDelta, AcceptTextCompleted, AcceptUsage, AcceptOutcome, AcceptToolCall,
        DeltaWritten, UsageRecorded, reportVars
  <1>3. ASSUME FinalizationStep
        PROVE  \/ UNCHANGED evidence
               \/ /\ finalizer \in {"terminal", "sealing"}
                  /\ evidence' = tracker /\ finalizer' = "ending"
    BY <1>3
    DEF FinalizationStep, FinalizerStarts, FinalizerStopsWatcher,
        FinalizerStartsCleanup, FinalizerJoinsCleanup, FinalizerReaps,
        FinalizerReports, TerminalBegins, SealWritten, TerminalWritten, ReportLimits,
        reportVars
  <1>4. \A c \in Cancels : RequestCancellation(c) \/ CancellationStep(c) =>
          UNCHANGED evidence
    BY DEF RequestCancellation, CancellationStep, CancelDecide, CancelSelect,
           CancelJoined, RequestStep, reportVars
  <1>5. RequestTeardown \/ TeardownStep => UNCHANGED evidence
    BY DEF RequestTeardown, TeardownStep, TeardownDecide, TeardownRequestJoined,
           RequestStep, reportVars
  <1>6. ASSUME \/ ProviderYields \/ ReadAnswersCancel \/ Tick \/ WatcherFires
               \/ CleanupReturns \/ GraceExpires \/ ForceReturns \/ OuterCancel
        PROVE  UNCHANGED evidence
    BY <1>6
    DEF ProviderYields, ReadAnswersCancel, Tick, WatcherFires, CleanupReturns,
        GraceExpires, ForceReturns, CleanupStep, OuterCancel, EnvironmentStep,
        reportVars
  <1>7. UNCHANGED vars => UNCHANGED evidence
    BY DEF vars, reportVars
  <1> QED
    BY <1>1, <1>2, <1>3, <1>4, <1>5, <1>6, <1>7 DEF Next, Finished

(* The finalizer's last places are reached by its own steps, with the      *)
(* evidence taken.                                                         *)
LEMMA EndingTakesEvidence ==
  ASSUME StatusInv, Established, BudgetTold, FinalizationStep
  PROVE  /\ finalizer \in EndedPlaces => FALSE
         /\ finalizer = "ending" => finalizer' \in EndedPlaces
         /\ finalizer' = "ending" => evidence' = tracker
         /\ Ended' => finalizer = "ending"
PROOF
  <1>1. tracker.exhausted \in Exhaustions \cup {Unexhausted} /\ ValidEvidence(tracker)
    BY DEF BudgetTold, ValidEvidence
  <1>2. CASE TerminalWritten
    BY <1>2 DEF TerminalWritten, EndedPlaces
  <1>3. CASE SealWritten
    <2>1. /\ finalizer = "sealing" /\ ~Ended'
          /\ finalizer' = "raised" \/ ReportLimits
      BY <1>3, SealFacts DEF Ended, TerminalStatuses
    <2> QED
      BY <2>1 DEF ReportLimits, EndedPlaces
  <1>4. CASE ~SealWritten /\ ~TerminalWritten
    <2>1. UNCHANGED lifecycle
      BY <1>4
      DEF FinalizationStep, FinalizerStarts, FinalizerStopsWatcher,
          FinalizerStartsCleanup, FinalizerJoinsCleanup, FinalizerReaps,
          FinalizerReports, TerminalBegins, publishVars
    <2>2. /\ finalizer \in {"await_start", "stop_watcher", "start_cleanup",
                            "join_cleanup", "reap", "report", "terminal"}
          /\ finalizer' = "ending" => finalizer = "terminal"
      BY <1>4, FinalizerMoves
    <2>3. finalizer' = "ending" => TerminalBegins
      BY <1>4, <2>2
      DEF FinalizationStep, FinalizerStarts, FinalizerStopsWatcher,
          FinalizerStartsCleanup, FinalizerJoinsCleanup, FinalizerReaps,
          FinalizerReports, TerminalBegins
    <2>4. finalizer' = "ending" => evidence' = tracker
      BY <2>3 DEF TerminalBegins
    <2>5. ~Ended'
      BY <2>1, <2>2 DEF StatusInv, TerminalAgrees, Ended
    <2> QED
      BY <2>2, <2>4, <2>5 DEF EndedPlaces
  <1> QED
    BY <1>2, <1>3, <1>4

(* Only the finalizer's last write ends a session. *)
LEMMA WhoEnds ==
  ASSUME StatusInv, Established, [Next]_vars
  PROVE  Ended' => Ended \/ TerminalWritten
PROOF
  <1>1. CASE UNCHANGED <<lifecycle, sequence>>
    BY <1>1 DEF Ended
  <1>2. CASE StartedWritten
    BY <1>2, StartedFacts DEF Ended, TerminalStatuses
  <1>3. CASE DeferredApplied
    BY <1>3, DeferredFacts DEF Ended, TerminalStatuses
  <1>4. CASE DeltaWritten
    BY <1>4, DeltaFacts DEF SameProjection, Ended
  <1>5. CASE SealWritten
    BY <1>5, SealFacts DEF Ended, TerminalStatuses
  <1>6. ASSUME NEW c \in Cancels, CancelDecide(c) PROVE Ended' => Ended
    BY <1>6, CancelFacts DEF Ended, TerminalStatuses
  <1> QED
    BY <1>1, <1>2, <1>3, <1>4, <1>5, <1>6, WhoPublishes

(* The evidence, step by step.                                             *)
LEMMA EvidenceStep ==
  ASSUME EvidenceAgrees, StatusInv, Established, WorkInv, [Next]_vars
  PROVE  EvidenceAgrees'
PROOF
  <1>1. BudgetTold'
    BY BudgetStep DEF EvidenceAgrees, Established
  <1>2. /\ DecisionInv /\ PlacesInv /\ tracker \in Trackers
        /\ Undecided <=> finalizer = "none"
        /\ tracker # None
    BY SessionAssumption DEF Established, DecisionInv, ChoiceTypes
  <1>3. evidence # None =>
          evidence = tracker /\ ~Undecided /\ UNCHANGED <<selection, tracker, operation>>
    BY <1>2, DecidedStands DEF EvidenceAgrees, EvidenceTaken
  <1>4. Ended => finalizer \in {"done"}
    BY DEF StatusInv, TerminalAgrees
  <1>5. ~Undecided => ~Undecided'
    BY <1>2, DecidedStands DEF Undecided
  <1>6. EvidenceTaken'
    <2>1. CASE FinalizationStep
      <3>1. /\ finalizer \notin EndedPlaces
            /\ finalizer = "ending" => finalizer' \in EndedPlaces
            /\ finalizer' = "ending" => evidence' = tracker
            /\ Ended' => finalizer = "ending"
        BY <2>1, EndingTakesEvidence DEF EvidenceAgrees
      <3>2. finalizer # "none"
        BY <2>1 DEF FinalizationStep, FinalizerStarts, FinalizerStopsWatcher,
          FinalizerStartsCleanup, FinalizerJoinsCleanup, FinalizerReaps,
          FinalizerReports, TerminalBegins, SealWritten, TerminalWritten
      <3>3. UNCHANGED tracker
        BY <1>2, <3>2, DecidedStands
      <3>4. \/ UNCHANGED evidence
            \/ evidence' = tracker /\ finalizer' = "ending"
        BY WhoTakesEvidence
      <3> QED
        BY <1>2, <3>1, <3>3, <3>4
        DEF EvidenceAgrees, EvidenceTaken, EndedPlaces
    <2>2. CASE ~FinalizationStep
      <3>1. ~TerminalWritten
        BY <2>2 DEF FinalizationStep
      <3>2. Ended' => Ended
        BY <3>1, WhoEnds
      <3>3. \/ UNCHANGED finalizer
            \/ finalizer = "none" /\ finalizer' \in {"await_start", "stop_watcher"}
        BY <1>2, <2>2, WhoSelects DEF Selecting
      <3>4. UNCHANGED evidence
        BY <3>3, WhoTakesEvidence
      <3> QED
        BY <1>3, <1>4, <3>2, <3>3, <3>4 DEF EvidenceAgrees, EvidenceTaken
    <2> QED
      BY <2>1, <2>2
  <1> QED
    BY <1>1, <1>6 DEF EvidenceAgrees

(* The constructor, given a tracker that has not been spent.               *)
LEMMA InitEvidence == Init => EvidenceAgrees
PROOF
  <1> SUFFICES ASSUME Init PROVE EvidenceAgrees
    OBVIOUS
  <1>1. lifecycle.status = "starting"
    BY TaskAccepted, SessionAssumption DEF Init
  <1>2. /\ ValidEvidence(tracker) /\ ~operation /\ Undecided /\ evidence = None
        /\ finalizer = "none"
    BY SessionAssumption DEF Init, Undecided
  <1> QED
    BY <1>1, <1>2 DEF EvidenceAgrees, BudgetTold, EvidenceTaken, Ended, TerminalStatuses

(* The evidence follows the selection, and the selection the budgets       *)
(* (_notify_loop_limits_once runs once, in the finalizer).                 *)
THEOREM EvidenceInvariant == Spec => [](EvidenceAgrees /\ StatusInv /\ Established /\ WorkInv)
PROOF
  <1>1. Init => EvidenceAgrees
    BY InitEvidence
  <1>2. EvidenceAgrees /\ StatusInv /\ Established /\ WorkInv /\ [Next]_vars
          => EvidenceAgrees'
    BY EvidenceStep
  <1> QED
    BY <1>1, <1>2, StatusInvariant, WorkInvariant, PTL DEF Spec

(* The limits evidence recorded beside a terminal is one the observer can  *)
(* build, and tells the story of that terminal; a failed cleanup was       *)
(* reported before it (_notify_loop_limits_once and                        *)
(* _loop_limits_match_terminal; EvidenceMatchesTerminal).                  *)
THEOREM EvidenceTellsOfTheTerminal == Spec => []EvidenceMatchesTerminal
PROOF
  <1>1. EvidenceAgrees /\ StatusInv /\ Established /\ WorkInv => EvidenceMatchesTerminal
    <2> SUFFICES ASSUME EvidenceAgrees, StatusInv, Established, WorkInv
                 PROVE  EvidenceMatchesTerminal
      OBVIOUS
    <2>1. evidence # None => evidence = tracker /\ ValidEvidence(evidence)
      BY DEF EvidenceAgrees, EvidenceTaken, BudgetTold
    <2>2. ASSUME Ended
          PROVE  /\ evidence # None /\ evidence = tracker
                 /\ BudgetTells(evidence, lifecycle.session_failure)
                 /\ diagnosed <=> (cleanup = "failed" \/ readCleanupFailed)
      <3>1. finalizer = "done" /\ lifecycle.session_failure = selection.code
        BY <2>2 DEF StatusInv, TerminalAgrees
      <3>2. ~Undecided
        BY <3>1 DEF Established, DecisionInv
      <3>3. diagnosed <=> (cleanup = "failed" \/ readCleanupFailed)
        BY <3>1 DEF WorkInv, FailureReported, FromTerminal, EndedPlaces
      <3> QED
        BY <2>2, <3>1, <3>2, <3>3 DEF EvidenceAgrees, EvidenceTaken, BudgetTold
    <2> QED
      BY <2>1, <2>2 DEF EvidenceMatchesTerminal, BudgetTells, OverrunTold
  <1> QED
    BY <1>1, EvidenceInvariant, PTL

(* The terminal event, the assistant.completed before it and the evidence  *)
(* come after the pending read, the watcher and the provider's cleanup     *)
(* have stopped (_finalize; TerminalAfterProviderStops).                   *)
THEOREM TerminalComesAfterTheProvider == Spec => []TerminalAfterProviderStops
PROOF
  <1>1. EvidenceAgrees /\ StatusInv /\ Established /\ WorkInv => TerminalAfterProviderStops
    <2> SUFFICES ASSUME EvidenceAgrees, StatusInv, Established, WorkInv,
                        Ended \/ lifecycle.assistant_completed \/ evidence # None
                 PROVE  /\ ~ReadInFlight /\ watcher # "waiting"
                        /\ operation => cleanup \in {"clean", "failed"}
      BY DEF TerminalAfterProviderStops
    <2>1. finalizer \in {"ending", "done", "raised"}
      BY DEF EvidenceAgrees, EvidenceTaken, StatusInv, TerminalAgrees
    <2>2. /\ watcher # "waiting" /\ read \in {"none", "reaped"}
          /\ cleanup \notin {"waiting", "forcing"}
          /\ operation => cleanup # "none"
      BY <2>1 DEF WorkInv, WorkStops, FromStartCleanup, FromJoin, FromReap, FromReport,
                  FromTerminal, EndedPlaces, CleanupInFlight
    <2>3. cleanup \in {"none", "waiting", "forcing", "clean", "failed"}
      BY DEF Established, TypeOK, WorkTypes
    <2>4. ~ReadInFlight
      BY <2>2 DEF ReadInFlight
    <2>5. operation => cleanup \in {"clean", "failed"}
      BY <2>2, <2>3
    <2> QED
      BY <2>2, <2>4, <2>5
  <1> QED
    BY <1>1, EvidenceInvariant, PTL

(* Once an outcome is selected it stands, no more text is published, no    *)
(* provider operation is started and no budget is charged                  *)
(* (_accept_observation and _start_provider_operation look at _selection   *)
(* first; NothingAfterSelection).                                          *)
THEOREM NothingFollowsASelection == Spec => NothingAfterSelection
PROOF
  <1>1. StatusInv /\ Established /\ [Next]_vars =>
          [~Undecided => /\ selection' = selection
                         /\ lifecycle'.assistant_text = lifecycle.assistant_text
                         /\ operation' = operation
                         /\ tracker' = tracker]_vars
    <2> SUFFICES ASSUME StatusInv, Established, [Next]_vars, ~Undecided
                 PROVE  /\ selection' = selection
                        /\ lifecycle'.assistant_text = lifecycle.assistant_text
                        /\ operation' = operation
                        /\ tracker' = tracker
      OBVIOUS
    <2>1. ~DeltaWritten
      BY DEF DeltaWritten, StatusInv, CancellationAgrees
    <2>2. lifecycle'.assistant_text = lifecycle.assistant_text
      BY <2>1, ReducedText DEF Established
    <2> QED
      BY <2>2, DecidedStands DEF Established
  <1> QED
    BY <1>1, StatusInvariant, PTL DEF Spec, NothingAfterSelection

(* The provider session implements SessionContract, its reducer's state    *)
(* being the refinement mapping (KeepsContract): each write or accepted    *)
(* cancellation is a step of the contract, and every other step leaves it  *)
(* alone.                                                                  *)
THEOREM ProviderKeepsContract == Spec => KeepsContract
PROOF
  <1>1. Init => Contract!Init
    BY TaskAccepted, SessionAssumption DEF Init, Contract!Init
  <1>2. StatusInv /\ Established /\ [Next]_vars => [Contract!Next]_(Contract!contract)
    <2> SUFFICES ASSUME StatusInv, Established, [Next]_vars
                 PROVE  Contract!Next \/ UNCHANGED Contract!contract
      OBVIOUS
    <2> USE DEF Contract!Next, Contract!contract
    <2>1. CASE UNCHANGED <<lifecycle, sequence>>
      BY <2>1
    <2>2. CASE StartedWritten
      BY <2>2, StartedFacts DEF Contract!Start, SameText
    <2>3. CASE DeferredApplied
      <3>1. selection.kind \in {"cancelled", "failed"}
        BY <2>3, DeferredFacts, FixedOutcomes, NoneAssumption
        DEF StatusInv, CancellationAgrees, Cancels
      <3>2. ~lifecycle.assistant_completed
        BY <3>1 DEF StatusInv, TerminalAgrees
      <3> QED
        BY <2>3, <3>2, DeferredFacts DEF Contract!AcceptCancellation, SameText
    <2>4. CASE DeltaWritten
      <3>1. \/ UNCHANGED lifecycle
            \/ /\ lifecycle.status = "running" /\ lifecycle'.status = "running"
               /\ ~lifecycle.assistant_completed
               /\ lifecycle'.assistant_completed = lifecycle.assistant_completed
               /\ \E f \in Fragments :
                    lifecycle'.assistant_text = lifecycle.assistant_text \o <<f>>
        BY <2>4, DeltaFacts DEF SameProjection
      <3>2. lifecycle.assistant_text \in Seq(Fragments)
        BY DEF Established, TypeOK, WireTypes, SessionState
      <3>3. \A f \in Fragments :
              lifecycle.assistant_text \o <<f>> = Append(lifecycle.assistant_text, f)
        BY <3>2
      <3> QED
        BY <3>1, <3>3 DEF Contract!Say
    <2>5. CASE SealWritten
      BY <2>5, SealFacts DEF Contract!Seal
    <2>6. CASE TerminalWritten
      BY <2>6, TerminalFacts DEF Contract!Complete, Contract!Fail, Contract!Cancel, SameText
    <2>7. ASSUME NEW c \in Cancels, CancelDecide(c)
          PROVE  Contract!Next \/ UNCHANGED Contract!contract
      <3>1. \/ UNCHANGED lifecycle
            \/ /\ lifecycle.status = "running" /\ lifecycle.assistant_completed = FALSE
               /\ lifecycle'.status = "cancelling" /\ SameText(lifecycle, lifecycle')
        BY <2>7, CancelFacts
      <3> QED
        BY <3>1 DEF Contract!AcceptCancellation, SameText
    <2>8. CASE \E c \in Cancels : CancelDecide(c)
      BY <2>7, <2>8
    <2> QED
      BY <2>1, <2>2, <2>3, <2>4, <2>5, <2>6, <2>8, WhoPublishes
  <1> QED
    BY <1>1, <1>2, StatusInvariant, PTL DEF Spec, KeepsContract, Contract!Spec
-----------------------------------------------------------------------------
(* Part six: how run() is left, and what only a failing sink can cause.    *)

(* Without a sink fault no task of the session raises. *)
NeverRaised ==
  /\ txn # "raised" /\ finalizer # "raised"
  /\ runner \notin {"failing", "fail_join", "raised"}
  /\ runner = "cancelled" => startedOk

(* run() is left after its finalizer ended, unless a cancellation arrives  *)
(* while its handler selects the teardown of a session that failed; and a  *)
(* finalizer that ended carried its selection out.                         *)
LeavesAgree ==
  /\ ~SinkFaults => NeverRaised
  /\ MaxOuterCancels = 0 => ~outerCancel
  /\ RunEnded => FinalizerEnded \/ (SinkFaults /\ MaxOuterCancels # 0)
  /\ finalizer = "done" /\ selection.kind # "teardown" =>
       startSettled /\ (startedOk => Ended)

(* What all the parts together establish. *)
SafetyInv == LeavesAgree /\ EvidenceAgrees /\ StatusInv /\ Established /\ WorkInv

(* Nothing is left before run() starts.                                    *)
LEMMA InitLeaves == Init => LeavesAgree
PROOF
  BY DEF Init, LeavesAgree, NeverRaised, RunEnded

(* An ended session publishes nothing more. *)
LEMMA TerminalStands ==
  ASSUME StatusInv, Established, [Next]_vars, Ended
  PROVE  UNCHANGED lifecycle
PROOF
  <1>1. lifecycle.status \notin {"starting", "running", "cancelling"}
    BY DEF Ended, TerminalStatuses
  <1>2. ~StartedWritten /\ ~DeferredApplied
    BY <1>1, StartedFacts, DeferredFacts
  <1>3. DeltaWritten => UNCHANGED lifecycle
    BY <1>1, DeltaFacts
  <1>4. ~SealWritten /\ ~TerminalWritten
    BY <1>1, SealFacts, TerminalFacts
  <1>5. \A c \in Cancels : CancelDecide(c) => UNCHANGED lifecycle
    BY <1>1, CancelFacts
  <1> QED
    BY <1>2, <1>3, <1>4, <1>5, WhoPublishes

(* The start settles once; only OuterCancel cancels run(); a transaction   *)
(* raises only where it writes; and run() itself moves run().              *)
LEMMA WhoLeaves ==
  ASSUME TypeOK, [Next]_vars
  PROVE  /\ startSettled => startSettled'
         /\ outerCancel' => outerCancel \/ OuterCancel
         /\ UNCHANGED runner \/ RunnerStep
         /\ txn' = "raised" =>
              txn = "raised" \/ StartedWritten \/ DeferredApplied \/ DeltaWritten
PROOF
  <1> DEFINE Quiet == /\ UNCHANGED <<startSettled, runner>>
                      /\ outerCancel' => outerCancel
                      /\ txn' = "raised" => txn = "raised"
  <1>1. CASE RunnerStep
    <2>1. CASE \/ Run \/ PublishResumes \/ AcceptResumes \/ RejectResumes \/ JoinResumes
      BY <1>1, <2>1
      DEF Run, PublishResumes, AcceptResumes, RejectResumes, ResumeFrom, JoinResumes,
          RunRaised, RunCancelled, EnterHandler, startVars
    <2>2. CASE TeardownJoined \/ FailureSelected \/ FailureJoined
      BY <1>1, <2>2 DEF TeardownJoined, FailureSelected, FailureJoined, Leave, startVars
    <2>3. CASE \/ StartIsCancelled \/ StartRefused \/ StartOperation \/ ReadIsCancelled
               \/ WakeExpired \/ WakeStopped \/ WakeReaped \/ WakeWithoutEvent
               \/ WakeWithEvent \/ RunnerReaps
               \/ SelectIsCancelled \/ SelectProviderDeadline
      BY <1>1, <2>3
      DEF StartIsCancelled, StartRefused, StartOperation, ReadIsCancelled,
          WakeExpired, WakeStopped, WakeReaped, WakeWithoutEvent, WakeWithEvent,
          ReadWakes, RunnerReaps, SelectIsCancelled, SelectProviderDeadline,
          RunCancelled, EnterHandler, startVars
    <2> QED
      BY <1>1, <2>1, <2>2, <2>3 DEF RunnerStep
  <1>2. CASE TransactionStep
    <2>1. UNCHANGED <<runner, outerCancel>>
      BY <1>2
      DEF TransactionStep, BeginStarted, StartedWritten, DeferredApplied,
          RejectTransaction, TeardownTransaction, AcceptNothing, AcceptDelta,
          AcceptTextCompleted, AcceptUsage, AcceptOutcome, AcceptToolCall, Admitting,
          Accepting, DeltaWritten, UsageRecorded
    <2>2. startSettled => startSettled'
      BY <1>2
      DEF TransactionStep, BeginStarted, StartedWritten, DeferredApplied, StartSettles,
          RejectTransaction, TeardownTransaction, AcceptNothing, AcceptDelta,
          AcceptTextCompleted, AcceptUsage, AcceptOutcome, AcceptToolCall, Admitting,
          Accepting, DeltaWritten, UsageRecorded, startVars
    <2>3. txn' = "raised" => StartedWritten \/ DeferredApplied \/ DeltaWritten
      BY <1>2
      DEF TransactionStep, BeginStarted, RejectTransaction, TeardownTransaction,
          AcceptNothing, AcceptDelta, AcceptTextCompleted, AcceptUsage, AcceptOutcome,
          AcceptToolCall, UsageRecorded
    <2> QED
      BY <2>1, <2>2, <2>3
  <1>3. CASE FinalizationStep
    <2>1. Quiet
      BY <1>3
      DEF FinalizationStep, FinalizerStarts, FinalizerStopsWatcher,
          FinalizerStartsCleanup, FinalizerJoinsCleanup, FinalizerReaps,
          FinalizerReports, TerminalBegins, SealWritten, TerminalWritten, FinalizerStep,
          startVars, runVars
    <2> QED
      BY <2>1
  <1>4. ASSUME NEW c \in Cancels, RequestCancellation(c) \/ CancellationStep(c)
        PROVE  Quiet
    BY <1>4
    DEF RequestCancellation, CancellationStep, CancelDecide, CancelSelect,
        CancelJoined, RequestStep, runVars
  <1>5. CASE \E c \in Cancels : RequestCancellation(c) \/ CancellationStep(c)
    BY <1>4, <1>5
  <1>6. CASE RequestTeardown \/ TeardownStep
    BY <1>6 DEF RequestTeardown, TeardownStep, TeardownDecide, TeardownRequestJoined,
                RequestStep, runVars
  <1>7. CASE \/ ProviderYields \/ ReadAnswersCancel \/ Tick \/ WatcherFires
             \/ CleanupReturns \/ GraceExpires \/ ForceReturns \/ OuterCancel
    BY <1>7
    DEF ProviderYields, ReadAnswersCancel, Tick, WatcherFires, CleanupReturns,
        GraceExpires, ForceReturns, CleanupStep, OuterCancel, EnvironmentStep, startVars
  <1>8. CASE UNCHANGED vars
    BY <1>8 DEF vars, startVars, runVars
  <1> QED
    BY <1>1, <1>2, <1>3, <1>5, <1>6, <1>7, <1>8 DEF Next, Finished

(* Where run() goes when something raised, and when it is left. *)
LEMMA RunnerLeaves ==
  ASSUME RunnerStep
  PROVE  /\ runner \notin {"returned", "cancelled", "raised"}
         /\ runner' \in {"failing", "fail_join", "raised"} =>
              \/ runner \in {"failing", "fail_join"}
              \/ txn = "raised" \/ finalizer = "raised"
         /\ RunEnded' => FinalizerEnded \/ (runner = "failing" /\ outerCancel)
         /\ runner' = "cancelled" => runner \in {"tearing", "failing", "fail_join"}
PROOF
  <1>1. CASE \/ Run \/ PublishResumes \/ AcceptResumes \/ RejectResumes \/ JoinResumes
    BY <1>1
    DEF Run, PublishResumes, AcceptResumes, RejectResumes, ResumeFrom, JoinResumes,
        RunRaised, RunCancelled, EnterHandler, RunEnded
  <1>2. CASE TeardownJoined \/ FailureSelected \/ FailureJoined
    BY <1>2
    DEF TeardownJoined, FailureSelected, FailureJoined, Leave, RunEnded, FinalizerEnded
  <1>3. CASE \/ StartIsCancelled \/ StartRefused \/ StartOperation \/ ReadIsCancelled
             \/ WakeExpired \/ WakeStopped \/ WakeReaped \/ WakeWithoutEvent
             \/ WakeWithEvent \/ RunnerReaps
             \/ SelectIsCancelled \/ SelectProviderDeadline
    BY <1>3
    DEF StartIsCancelled, StartRefused, StartOperation, ReadIsCancelled,
        WakeExpired, WakeStopped, WakeReaped, WakeWithoutEvent, WakeWithEvent,
        ReadWakes, RunnerReaps, SelectIsCancelled, SelectProviderDeadline,
        RunCancelled, EnterHandler, RunEnded
  <1> QED
    BY <1>1, <1>2, <1>3 DEF RunnerStep

(* Only the sink can make the finalizer raise: the cleanup is in its mode, *)
(* a completion has reconciled text, the evidence is valid and its events  *)
(* are accepted.                                                           *)
LEMMA FinalizerRaises ==
  ASSUME EvidenceAgrees, StatusInv, Established, FinalizationStep, finalizer' = "raised"
  PROVE  SinkFaults
PROOF
  <1>1. ValidEvidence(tracker)
    BY DEF EvidenceAgrees, BudgetTold
  <1>2. DecisionInv
    BY DEF Established
  <1>3. ~ \/ FinalizerStarts \/ FinalizerStopsWatcher \/ FinalizerStartsCleanup
          \/ FinalizerJoinsCleanup \/ FinalizerReaps
    BY <1>2, FinalizerStartsItsCleanup
    DEF FinalizerStarts, FinalizerStopsWatcher, FinalizerJoinsCleanup, FinalizerReaps,
        AfterCleanup
  <1>4. CASE FinalizerReports
    BY <1>4 DEF FinalizerReports, WriteOutcomes, AfterCleanup
  <1>5. ~TerminalBegins
    BY <1>1 DEF TerminalBegins, Established, TextAgrees
  <1>6. CASE SealWritten
    BY <1>1, <1>6, SealFacts DEF ReportLimits
  <1>7. CASE TerminalWritten
    BY <1>7, TerminalFacts
  <1> QED
    BY <1>3, <1>4, <1>5, <1>6, <1>7 DEF FinalizationStep

(* How run() is left, step by step.                                        *)
LEMMA LeavesStep ==
  ASSUME SafetyInv, Established', [Next]_vars
  PROVE  LeavesAgree'
PROOF
  <1>1. /\ LeavesAgree /\ EvidenceAgrees /\ StatusInv /\ Established /\ WorkInv
        /\ DecisionInv /\ PlacesInv /\ TypeOK
    BY DEF SafetyInv, Established
  <1>2. /\ startSettled => startSettled'
        /\ outerCancel' => outerCancel \/ OuterCancel
        /\ UNCHANGED runner \/ RunnerStep
        /\ txn' = "raised" =>
             txn = "raised" \/ StartedWritten \/ DeferredApplied \/ DeltaWritten
    BY <1>1, WhoLeaves
  <1>3. \/ UNCHANGED <<selection, finalizer>>
        \/ UNCHANGED selection /\ FinalizationStep
        \/ finalizer = "none" /\ finalizer' \in {"await_start", "stop_watcher"}
    BY <1>1, WhoSelects DEF Selecting
  <1>4. StartFrame
    BY <1>1, WhoMoves
  <1>5. ~SinkFaults => NeverRaised'
    <2> SUFFICES ASSUME ~SinkFaults PROVE NeverRaised'
      OBVIOUS
    <2>1. NeverRaised
      BY <1>1 DEF LeavesAgree
    <2>2. txn' # "raised"
      BY <1>1, <1>2, <2>1, StartedFacts, DeferredFacts, DeltaFacts DEF NeverRaised
    <2>3. finalizer' # "raised"
      BY <1>1, <1>3, <2>1, FinalizerRaises DEF NeverRaised
    <2>4. runner' \notin {"failing", "fail_join", "raised"}
      BY <1>2, <2>1, RunnerLeaves DEF NeverRaised
    <2>5. startedOk => startedOk'
      BY <1>1, <1>4, StartedFacts, DeferredFacts DEF StartFrame
    <2>6. runner' = "cancelled" => startedOk
      BY <1>1, <1>2, <2>1, RunnerLeaves DEF NeverRaised, PlacesInv, StartAgrees
    <2> QED
      BY <2>2, <2>3, <2>4, <2>5, <2>6 DEF NeverRaised
  <1>6. MaxOuterCancels = 0 => ~outerCancel'
    <2>1. MaxOuterCancels = 0 => ~OuterCancel
      BY <1>1 DEF OuterCancel, TypeOK, RunTypes
    <2> QED
      BY <1>1, <1>2, <2>1 DEF LeavesAgree
  <1>7. FinalizerEnded => FinalizerEnded'
    <2>1. FinalizationStep => ~FinalizerEnded
      BY <1>1, EndingTakesEvidence DEF EvidenceAgrees, EndedPlaces, FinalizerEnded
    <2> QED
      BY <1>3, <2>1 DEF FinalizerEnded
  <1>8. RunEnded' => FinalizerEnded' \/ (SinkFaults /\ MaxOuterCancels # 0)
    <2>1. RunEnded' => FinalizerEnded \/ (SinkFaults /\ MaxOuterCancels # 0)
      <3>1. CASE UNCHANGED runner
        BY <1>1, <3>1 DEF LeavesAgree, RunEnded
      <3>2. CASE RunnerStep
        BY <1>1, <3>2, RunnerLeaves DEF LeavesAgree, NeverRaised
      <3> QED
        BY <1>2, <3>1, <3>2
    <2> QED
      BY <1>7, <2>1
  <1>9. (finalizer = "done" /\ selection.kind # "teardown" =>
           startSettled /\ (startedOk => Ended))'
    <2> SUFFICES ASSUME finalizer' = "done", selection'.kind # "teardown"
                 PROVE  startSettled' /\ (startedOk' => Ended')
      OBVIOUS
    <2>1. CASE UNCHANGED <<selection, finalizer>>
      <3>1. startSettled /\ (startedOk => Ended)
        BY <1>1, <2>1 DEF LeavesAgree
      <3>2. UNCHANGED startedOk
        BY <1>1, <1>4, <3>1
        DEF StartFrame, StartedWritten, DeferredApplied, PlacesInv, StartAgrees,
            Unstarted
      <3> QED
        BY <1>1, <1>2, <3>1, <3>2, TerminalStands DEF Ended
    <2>2. CASE UNCHANGED selection /\ FinalizationStep
      <3>1. CASE TerminalWritten
        <4>1. startedOk /\ Ended'
          BY <1>1, <3>1, TerminalFacts DEF Ended, TerminalStatuses
        <4> QED
          BY <1>1, <1>2, <4>1 DEF PlacesInv, StartAgrees
      <3>2. CASE ~TerminalWritten
        <4>1. ~SealWritten
          BY <1>1, SealFacts DEF ReportLimits
        <4>2. finalizer = "await_start" /\ ~startedOk /\ UNCHANGED startedOk
          BY <2>2, <3>2, <4>1, FinalizerMoves
        <4>3. startSettled
          BY <2>2, <4>2
          DEF FinalizationStep, FinalizerStarts, FinalizerStopsWatcher,
              FinalizerStartsCleanup, FinalizerJoinsCleanup, FinalizerReaps,
              FinalizerReports, TerminalBegins, SealWritten, TerminalWritten
        <4> QED
          BY <1>2, <4>2, <4>3
      <3> QED
        BY <3>1, <3>2
    <2> QED
      BY <1>3, <2>1, <2>2
  <1> QED
    BY <1>5, <1>6, <1>8, <1>9 DEF LeavesAgree

(* How run() is left agrees with what it leaves behind: every part of the  *)
(* invariant together (run, its handlers and _finalize).                   *)
THEOREM SafetyInvariant == Spec => []SafetyInv
PROOF
  <1>1. Init => LeavesAgree
    BY InitLeaves
  <1>2. SafetyInv /\ Established' /\ [Next]_vars => LeavesAgree'
    BY LeavesStep
  <1> QED
    BY <1>1, <1>2, EvidenceInvariant, PTL DEF Spec, SafetyInv

(* The finalizer never raises while the sink works (_finalize and          *)
(* _emit_selected_terminal; FinalizerNeverFails).                          *)
THEOREM OnlyTheSinkFailsTheFinalizer ==
  ASSUME SinkFaults = FALSE
  PROVE  Spec => []FinalizerNeverFails
PROOF
  <1>1. SafetyInv => FinalizerNeverFails
    BY DEF SafetyInv, LeavesAgree, NeverRaised, FinalizerNeverFails
  <1> QED
    BY <1>1, SafetyInvariant, PTL

(* When run() is left, nothing it started is still running, unless both    *)
(* the sink fails and run() is cancelled while it handles that             *)
(* (run and its handlers; RunJoinsProviderWork).                           *)
THEOREM RunLeavesNothingBehind ==
  ASSUME SinkFaults = FALSE \/ MaxOuterCancels = 0
  PROVE  Spec => []RunJoinsProviderWork
PROOF
  <1>1. SafetyInv => RunJoinsProviderWork
    <2> SUFFICES ASSUME SafetyInv, RunEnded PROVE AllJoined
      BY DEF RunJoinsProviderWork
    <2>1. FinalizerEnded
      BY DEF SafetyInv, LeavesAgree
    <2>2. /\ watcher # "waiting" /\ read \in {"none", "reaped"} /\ ~CleanupInFlight
      BY <2>1 DEF SafetyInv, WorkInv, WorkStops, FromStartCleanup, FromJoin, FromReap,
                  FromReport, FromTerminal, EndedPlaces, FinalizerEnded
    <2>3. txn = "idle"
      BY DEF RunEnded, SafetyInv, Established, PlacesInv, TxnAgrees
    <2> QED
      BY <2>1, <2>2, <2>3 DEF AllJoined, ReadInFlight
  <1> QED
    BY <1>1, SafetyInvariant, PTL
-----------------------------------------------------------------------------
(* Part seven: what the requests are told.                                 *)

(* An answer is about the outcome that was really selected, whatever the   *)
(* sink does.                                                              *)
CancellationTold(c, answer) ==
  /\ answer = "accepted" => selection = CancelledBy(c)
  /\ answer = "already_requested" => selection.kind = "cancelled"
  /\ answer = "terminal" => selection.kind \notin {"none", "cancelled"}
TeardownTold(answer) ==
  /\ answer \in {"accepted", "already_requested"} => selection.kind = "teardown"
  /\ answer = "terminal" => selection.kind \notin {"none", "teardown"}
AnswersAgree ==
  /\ \A c \in Cancels : CancellationTold(c, cancelResult[c])
  /\ TeardownTold(teardownResult)

(* No request is answered yet.                                             *)
LEMMA InitAnswers == Init => AnswersAgree
PROOF
  BY DEF Init, AnswersAgree, CancellationTold, TeardownTold

(* A selection offered while nothing is decided is answered by what was    *)
(* selected: the deadline may have won (_select_candidate_locked).         *)
LEMMA OfferIsAnswered ==
  ASSUME NEW o, Undecided, SelectCandidate(o)
  PROVE  selection' = IF OfferedOutcome = "accepted" THEN o ELSE DeadlineOutcome
PROOF
  BY DEF SelectCandidate, OfferedOutcome, ChooseDeadline, ChooseCharging, Choose

(* What each request is told, step by step.                                *)
LEMMA AnswersStep ==
  ASSUME AnswersAgree, StatusInv, Established, [Next]_vars
  PROVE  AnswersAgree'
PROOF
  <1>1. DecisionInv /\ PlacesInv /\ TypeOK
    BY DEF Established
  <1>2. /\ DeadlineOutcome.kind = "failed" /\ NoSelection.kind = "none"
        /\ Teardown.kind = "teardown"
        /\ \A c : CancelledBy(c).kind = "cancelled"
    BY FixedOutcomes DEF Teardown, Outcome
  <1>3. ~Undecided => selection.kind \in {"completed", "failed", "cancelled", "teardown"}
    BY <1>1, OutcomeKinds DEF DecisionInv, ChoiceTypes, Undecided
  <1>4. /\ cancelResult \in [Cancels -> Answers] /\ teardownResult \in Answers
        /\ cancelReq \in [Cancels -> RequestPlaces]
    BY <1>1 DEF TypeOK, RequestTypes
  <1>5. Undecided => /\ \A c \in Cancels : cancelResult[c] = "none"
                     /\ teardownResult = "none"
    BY <1>2, <1>4 DEF Undecided, AnswersAgree, CancellationTold, TeardownTold, Answers
  <1>6. ~Undecided => UNCHANGED selection
    BY <1>1, DecidedStands
  <1>7. \A c \in Cancels : CancellationTold(c, cancelResult[c])'
          \/ cancelResult'[c] # cancelResult[c]
    BY <1>5, <1>6 DEF AnswersAgree, CancellationTold
  <1>8. TeardownTold(teardownResult)' \/ teardownResult' # teardownResult
    BY <1>5, <1>6 DEF AnswersAgree, TeardownTold
  <1>9. CASE RunnerStep \/ TransactionStep \/ FinalizationStep
    <2>1. RunnerStep => UNCHANGED <<cancelResult, teardownResult>>
      BY
      DEF RunnerStep, Run, PublishResumes, AcceptResumes, RejectResumes, ResumeFrom,
          JoinResumes, TeardownJoined, FailureSelected, FailureJoined, Leave,
          StartIsCancelled, StartRefused, StartOperation, ReadIsCancelled, WakeExpired,
          WakeStopped, WakeReaped, WakeWithoutEvent, WakeWithEvent, ReadWakes,
          RunnerReaps, SelectIsCancelled, SelectProviderDeadline, requestVars
    <2>2. TransactionStep => UNCHANGED <<cancelResult, teardownResult>>
      BY
      DEF TransactionStep, BeginStarted, StartedWritten, DeferredApplied,
          RejectTransaction, TeardownTransaction, Accepting, Admitting, AcceptNothing,
          AcceptDelta, AcceptTextCompleted, AcceptUsage, AcceptOutcome, AcceptToolCall,
          DeltaWritten, UsageRecorded, requestVars
    <2>3. FinalizationStep => UNCHANGED <<cancelResult, teardownResult>>
      BY
      DEF FinalizationStep, FinalizerStarts, FinalizerStopsWatcher,
          FinalizerStartsCleanup, FinalizerJoinsCleanup, FinalizerReaps,
          FinalizerReports, TerminalBegins, SealWritten, TerminalWritten,
          FinalizerStep, requestVars
    <2> QED
      BY <1>7, <1>8, <1>9, <2>1, <2>2, <2>3 DEF AnswersAgree
  <1>10. ASSUME NEW c \in Cancels, RequestCancellation(c) \/ CancellationStep(c)
         PROVE  AnswersAgree'
    <2>1. TeardownTold(teardownResult)'
      BY <1>8, <1>10
      DEF RequestCancellation, CancellationStep, CancelDecide, CancelSelect, CancelJoined
    <2>2. \/ UNCHANGED cancelResult
          \/ \E answer \in Answers :
               /\ cancelResult' = [cancelResult EXCEPT ![c] = answer]
               /\ CancellationTold(c, answer)'
      <3>1. CASE RequestCancellation(c) \/ CancelJoined(c)
        BY <3>1 DEF RequestCancellation, CancelJoined
      <3>2. CASE CancelSelect(c)
        <4>1. Undecided
          BY <3>2 DEF CancelSelect, StatusInv, CancellationAgrees
        <4>2. selection' = IF OfferedOutcome = "accepted" THEN CancelledBy(c)
                           ELSE DeadlineOutcome
          BY <3>2, <4>1, OfferIsAnswered DEF CancelSelect
        <4>3. cancelResult' = [cancelResult EXCEPT ![c] = OfferedOutcome]
          BY <3>2 DEF CancelSelect, AnswerCancellation
        <4>4. OfferedOutcome \in {"accepted", "terminal"}
          BY DEF OfferedOutcome
        <4>5. CASE OfferedOutcome = "accepted"
          BY <1>2, <4>2, <4>3, <4>5 DEF CancellationTold, Answers
        <4>6. CASE OfferedOutcome = "terminal"
          BY <1>2, <4>2, <4>3, <4>6 DEF CancellationTold, Answers
        <4> QED
          BY <4>4, <4>5, <4>6
      <3>3. CASE CancelDecide(c)
        <4>1. CASE ~Undecided
          <5> DEFINE answer == IF selection.kind = "cancelled" THEN "already_requested"
                               ELSE "terminal"
          <5>1. cancelResult' = [cancelResult EXCEPT ![c] = answer]
            BY <3>3, <4>1 DEF CancelDecide, AnswerCancellation
          <5>2. selection' = selection /\ selection.kind # "none"
            BY <1>3, <1>6, <4>1
          <5> QED
            BY <5>1, <5>2 DEF CancellationTold, Answers
        <4>2. CASE Undecided /\ lifecycle.status = "starting"
          <5>1. SelectCandidate(CancelledBy(c))
            BY <3>3, <4>2 DEF CancelDecide
          <5>2. selection' = IF OfferedOutcome = "accepted" THEN CancelledBy(c)
                             ELSE DeadlineOutcome
            BY <4>2, <5>1, OfferIsAnswered
          <5>3. cancelResult' = [cancelResult EXCEPT ![c] = OfferedOutcome]
            BY <3>3, <4>2 DEF CancelDecide, AnswerCancellation
          <5>4. OfferedOutcome \in {"accepted", "terminal"}
            BY DEF OfferedOutcome
          <5>5. CASE OfferedOutcome = "accepted"
            BY <1>2, <5>2, <5>3, <5>5 DEF CancellationTold, Answers
          <5>6. CASE OfferedOutcome = "terminal"
            BY <1>2, <5>2, <5>3, <5>6 DEF CancellationTold, Answers
          <5> QED
            BY <5>4, <5>5, <5>6
        <4>3. CASE Undecided /\ lifecycle.status # "starting"
          BY <3>3, <4>3 DEF CancelDecide
        <4> QED
          BY <4>1, <4>2, <4>3
      <3> QED
        BY <1>10, <3>1, <3>2, <3>3 DEF CancellationStep
    <2>3. \A d \in Cancels : CancellationTold(d, cancelResult[d])'
      <3> TAKE d \in Cancels
      <3>1. CASE cancelResult'[d] = cancelResult[d]
        BY <1>7, <3>1
      <3>2. CASE cancelResult'[d] # cancelResult[d]
        <4>1. PICK answer \in Answers :
                /\ cancelResult' = [cancelResult EXCEPT ![c] = answer]
                /\ CancellationTold(c, answer)'
          BY <2>2, <3>2
        <4>2. d = c /\ cancelResult'[c] = answer
          BY <1>4, <3>2, <4>1
        <4> QED
          BY <4>1, <4>2 DEF CancellationTold
      <3> QED
        BY <3>1, <3>2
    <2> QED
      BY <2>1, <2>3 DEF AnswersAgree
  <1>11. CASE \E c \in Cancels : RequestCancellation(c) \/ CancellationStep(c)
    BY <1>10, <1>11
  <1>12. CASE RequestTeardown \/ TeardownStep
    <2>1. UNCHANGED cancelResult
      BY <1>12 DEF RequestTeardown, TeardownStep, TeardownDecide, TeardownRequestJoined
    <2>2. CASE TeardownDecide
      <3>1. CASE Undecided
        <4>1. SelectCandidate(Teardown) /\ teardownResult' = OfferedOutcome
          BY <2>2, <3>1 DEF TeardownDecide
        <4>2. selection' = IF OfferedOutcome = "accepted" THEN Teardown
                           ELSE DeadlineOutcome
          BY <3>1, <4>1, OfferIsAnswered
        <4>3. OfferedOutcome \in {"accepted", "terminal"}
          BY DEF OfferedOutcome
        <4>4. TeardownTold(teardownResult)'
          BY <1>2, <4>1, <4>2, <4>3 DEF TeardownTold
        <4> QED
          BY <1>7, <2>1, <4>4 DEF AnswersAgree
      <3>2. CASE ~Undecided
        <4>1. teardownResult' = IF selection.kind = "teardown" THEN "already_requested"
                                ELSE "terminal"
          BY <2>2, <3>2 DEF TeardownDecide
        <4>2. TeardownTold(teardownResult)'
          BY <1>3, <1>6, <3>2, <4>1 DEF TeardownTold
        <4> QED
          BY <1>7, <2>1, <4>2 DEF AnswersAgree
      <3> QED
        BY <3>1, <3>2
    <2>3. CASE RequestTeardown \/ TeardownRequestJoined
      BY <1>7, <1>8, <2>1, <2>3
      DEF AnswersAgree, RequestTeardown, TeardownRequestJoined
    <2> QED
      BY <1>12, <2>2, <2>3 DEF TeardownStep
  <1>13. CASE \/ ProviderYields \/ ReadAnswersCancel \/ Tick \/ WatcherFires
              \/ CleanupReturns \/ GraceExpires \/ ForceReturns \/ OuterCancel
    <2>1. UNCHANGED <<cancelResult, teardownResult>>
      BY <1>13
      DEF ProviderYields, ReadAnswersCancel, Tick, WatcherFires, CleanupReturns,
          GraceExpires, ForceReturns, CleanupStep, OuterCancel, EnvironmentStep,
          requestVars
    <2> QED
      BY <1>7, <1>8, <2>1 DEF AnswersAgree
  <1>14. CASE UNCHANGED vars
    BY <1>7, <1>8, <1>14 DEF AnswersAgree, vars, requestVars
  <1> QED
    BY <1>9, <1>11, <1>12, <1>13, <1>14 DEF Next, Finished

(* What each request is told agrees with who was selected and with what    *)
(* the reducer accepted (request_cancellation and request_teardown).       *)
THEOREM AnswersInvariant == Spec => []AnswersAgree
PROOF
  <1>1. Init => AnswersAgree
    BY InitAnswers
  <1>2. AnswersAgree /\ StatusInv /\ Established /\ [Next]_vars => AnswersAgree'
    BY AnswersStep
  <1> QED
    BY <1>1, <1>2, StatusInvariant, PTL DEF Spec

(* At most one cancellation wins, and the session then ends cancelled by   *)
(* it; a repeated one is told so only if some cancellation did win         *)
(* (request_cancellation and request_teardown; RequestsAnsweredTruly).     *)
THEOREM RequestsAreAnsweredTruly ==
  ASSUME SinkFaults = FALSE
  PROVE  Spec => []RequestsAnsweredTruly
PROOF
  <1>1. SafetyInv /\ AnswersAgree => RequestsAnsweredTruly
    <2> SUFFICES ASSUME SafetyInv, AnswersAgree PROVE RequestsAnsweredTruly
      OBVIOUS
    <2>1. ASSUME NEW c \in Cancels, cancelResult[c] = "accepted", FinalizerEnded
          PROVE  Ended /\ lifecycle.cancel_command_id = c
      <3>1. selection.kind = "cancelled" /\ selection.correlation = c
        BY <2>1, FixedOutcomes DEF AnswersAgree, CancellationTold
      <3>2. finalizer = "done" /\ NeverRaised
        BY <2>1 DEF SafetyInv, LeavesAgree, NeverRaised, FinalizerEnded
      <3>3. startSettled /\ (startedOk => Ended)
        BY <3>1, <3>2 DEF SafetyInv, LeavesAgree
      <3>4. startedOk
        <4>1. runner \notin {"created", "publishing"} \/ startedOk
          BY <3>2, <3>3
          DEF SafetyInv, Established, PlacesInv, StartAgrees, TxnAgrees, Unstarted,
              NeverRaised
        <4> QED
          BY <3>2, <4>1 DEF SafetyInv, Established, PlacesInv, StartAgrees, NeverRaised
      <3> QED
        BY <3>1, <3>3, <3>4 DEF SafetyInv, StatusInv, CancellationAgrees
    <2> QED
      BY <2>1 DEF RequestsAnsweredTruly, AnswersAgree, CancellationTold, TeardownTold
  <1> QED
    BY <1>1, SafetyInvariant, AnswersInvariant, PTL
-----------------------------------------------------------------------------
(* Part eight: the session as the command loop sees it.                    *)

(* A session that has published nothing is starting; run() leaves a        *)
(* session that is not decided only when it is cancelled, and its handler  *)
(* decides it.                                                             *)
SeenAgrees ==
  /\ sequence = 0 <=> lifecycle.status = "starting"
  /\ runner \in {"returned", "raised"} => FinalizerEnded
  /\ runner = "failing" /\ txn = "settled" => ~Undecided

(* The constructor. *)
LEMMA InitSeen == Init => SeenAgrees
PROOF
  BY TaskAccepted, SessionAssumption DEF Init, SeenAgrees

(* What the loop sees is counted in what was published.                    *)
LEMMA ShownStep ==
  ASSUME SafetyInv, SeenAgrees, [Next]_vars
  PROVE  /\ sequence' = 0 <=> lifecycle'.status = "starting"
         /\ \/ UNCHANGED ShownStatus
            \/ /\ StartedWritten /\ txn = "publishing"
               /\ ShownStatus = "nothing" /\ ShownStatus' = "running"
            \/ TerminalWritten /\ finalizer' = "done"
         /\ TerminalWritten /\ finalizer' = "done" =>
              /\ ShownStatus = "running" /\ ShownStatus' = selection.kind
              /\ selection.kind \in TerminalStatuses
PROOF
  <1> DEFINE Begun == sequence' = 0 <=> lifecycle'.status = "starting"
             Shows == Begun /\ \/ UNCHANGED ShownStatus
                               \/ /\ StartedWritten /\ txn = "publishing"
                                  /\ ShownStatus = "nothing" /\ ShownStatus' = "running"
  <1>1. /\ StatusInv /\ Established /\ sequence \in Nat
        /\ sequence = lifecycle.last_sequence
        /\ TerminalStatuses = {"completed", "cancelled", "failed"}
    BY DEF SafetyInv, Established, TypeOK, WireTypes, StatusInv, StatusAgrees,
           TerminalStatuses
  <1>2. ASSUME UNCHANGED <<lifecycle, sequence>> PROVE Shows
    BY <1>2 DEF SeenAgrees, ShownStatus, Ended
  <1>3. ASSUME StartedWritten PROVE Shows
    <2>1. /\ txn = "publishing" /\ lifecycle.status = "starting"
          /\ \/ UNCHANGED <<lifecycle, sequence>>
             \/ lifecycle'.status = "running" /\ sequence' = sequence + 1
      BY <1>1, <1>3, StartedFacts
    <2> QED
      BY <1>1, <1>2, <1>3, <2>1 DEF SeenAgrees, ShownStatus, Ended
  <1>4. ASSUME DeferredApplied PROVE Shows
    <2>1. /\ lifecycle.status = "running" /\ lifecycle'.status = "cancelling"
          /\ UNCHANGED sequence
      BY <1>1, <1>4, DeferredFacts
    <2> QED
      BY <1>1, <2>1 DEF SeenAgrees, ShownStatus, Ended
  <1>5. ASSUME DeltaWritten PROVE Shows
    <2>1. /\ lifecycle'.status = lifecycle.status
          /\ UNCHANGED sequence \/ lifecycle.status = "running"
      BY <1>1, <1>5, DeltaFacts DEF SameProjection
    <2>2. UNCHANGED sequence \/ sequence' = sequence + 1
      BY <1>5 DEF DeltaWritten, Publish, publishVars
    <2> QED
      BY <1>1, <2>1, <2>2 DEF SeenAgrees, ShownStatus, Ended
  <1>6. ASSUME SealWritten PROVE Shows
    <2>1. lifecycle.status = "running" /\ lifecycle'.status = "running"
      BY <1>1, <1>6, SealFacts
    <2>2. UNCHANGED sequence \/ sequence' = sequence + 1
      BY <1>6 DEF SealWritten, Publish, publishVars
    <2> QED
      BY <1>1, <2>1, <2>2 DEF SeenAgrees, ShownStatus, Ended
  <1>7. ASSUME TerminalWritten
        PROVE  /\ Begun
               /\ IF finalizer' = "done"
                    THEN /\ ShownStatus = "running" /\ ShownStatus' = selection.kind
                         /\ selection.kind \in TerminalStatuses
                    ELSE UNCHANGED ShownStatus
    <2>1. /\ lifecycle.status \in {"running", "cancelling"}
          /\ selection.kind \in {"completed", "failed", "cancelled"}
          /\ \/ UNCHANGED <<lifecycle, sequence>> /\ finalizer' = "raised"
             \/ lifecycle'.status = selection.kind /\ finalizer' = "done"
      BY <1>1, <1>7, TerminalFacts
    <2>2. UNCHANGED sequence \/ sequence' = sequence + 1
      BY <1>7 DEF TerminalWritten, Publish, publishVars
    <2>3. sequence # 0 /\ sequence' # 0
      BY <1>1, <2>1, <2>2 DEF SeenAgrees
    <2>4. lifecycle'.status # "starting"
      BY <2>1
    <2>5. ShownStatus = "running"
      BY <1>1, <2>1, <2>3 DEF ShownStatus, Ended
    <2>6. finalizer' = "done" => ShownStatus' = selection.kind
      BY <1>1, <2>1, <2>3 DEF ShownStatus, Ended
    <2>7. finalizer' # "done" => UNCHANGED ShownStatus
      BY <2>1 DEF ShownStatus, Ended
    <2> QED
      BY <1>1, <2>1, <2>3, <2>4, <2>5, <2>6, <2>7
  <1>8. ASSUME NEW c \in Cancels, CancelDecide(c)
        PROVE  Begun /\ UNCHANGED ShownStatus
    <2>1. /\ UNCHANGED sequence
          /\ \/ UNCHANGED lifecycle
             \/ lifecycle.status = "running" /\ lifecycle'.status = "cancelling"
      BY <1>1, <1>8, CancelFacts
    <2> QED
      BY <1>1, <2>1 DEF SeenAgrees, ShownStatus, Ended
  <1> QED
    BY <1>2, <1>3, <1>4, <1>5, <1>6, <1>7, <1>8, WhoPublishes

(* Reading a view, and changing one thing in it. *)
LEMMA Sights ==
  ASSUME NEW a, NEW b, NEW c, NEW d, NEW e
  PROVE  /\ View!Sight(a, b, c, d, e).shown = a
         /\ View!Sight(a, b, c, d, e).selected = b
         /\ View!Sight(a, b, c, d, e).settled = c
         /\ View!Sight(a, b, c, d, e).task = d
         /\ View!Sight(a, b, c, d, e).interrupt = e
         /\ \A x : [View!Sight(a, b, c, d, e) EXCEPT !.shown = x] = View!Sight(x, b, c, d, e)
         /\ \A x : [View!Sight(a, b, c, d, e) EXCEPT !.selected = x] = View!Sight(a, x, c, d, e)
         /\ \A x : [View!Sight(a, b, c, d, e) EXCEPT !.settled = x] = View!Sight(a, b, x, d, e)
         /\ \A x : [View!Sight(a, b, c, d, e) EXCEPT !.task = x] = View!Sight(a, b, c, x, e)
         /\ \A x : [View!Sight(a, b, c, d, e) EXCEPT !.interrupt = x] =
                     View!Sight(a, b, c, d, x)
PROOF
  <1>1. \A x : [View!Sight(a, b, c, d, e) EXCEPT !.shown = x] = View!Sight(x, b, c, d, e)
    BY DEF View!Sight
  <1>2. \A x : [View!Sight(a, b, c, d, e) EXCEPT !.selected = x] = View!Sight(a, x, c, d, e)
    BY DEF View!Sight
  <1>3. \A x : [View!Sight(a, b, c, d, e) EXCEPT !.settled = x] = View!Sight(a, b, x, d, e)
    BY DEF View!Sight
  <1>4. \A x : [View!Sight(a, b, c, d, e) EXCEPT !.task = x] = View!Sight(a, b, c, x, e)
    BY DEF View!Sight
  <1>5. \A x : [View!Sight(a, b, c, d, e) EXCEPT !.interrupt = x] = View!Sight(a, b, c, d, x)
    BY DEF View!Sight
  <1>6. /\ View!Sight(a, b, c, d, e).shown = a /\ View!Sight(a, b, c, d, e).selected = b
        /\ View!Sight(a, b, c, d, e).settled = c /\ View!Sight(a, b, c, d, e).task = d
        /\ View!Sight(a, b, c, d, e).interrupt = e
    BY DEF View!Sight
  <1> QED
    BY <1>1, <1>2, <1>3, <1>4, <1>5, <1>6

(* Two moves, and three, are a few. *)
LEMMA FewMoves ==
  ASSUME NEW kind, NEW v, NEW w
  PROVE  /\ View!InAFewMoves(kind, v, v)
         /\ w \in View!Moves(kind, v) => View!InAFewMoves(kind, v, w)
         /\ \A x : x \in View!Moves(kind, v) /\ w \in View!Moves(kind, x) =>
              View!InAFewMoves(kind, v, w)
         /\ \A x, y : x \in View!Moves(kind, v) /\ y \in View!Moves(kind, x)
                     /\ w \in View!Moves(kind, y) => View!InAFewMoves(kind, v, w)
PROOF
  BY DEF View!InAFewMoves

(* A decision is a grant, or what run() selects itself.                    *)
LEMMA ViewDecides ==
  ASSUME NEW s, NEW d, NEW t, NEW i, t \in {"running", "failing", "cancelled"}
  PROVE  /\ \A k \in {"failed", "cancelled", "teardown"} :
              View!InAFewMoves("provider", View!Sight(s, "none", d, t, i),
                                           View!Sight(s, k, d, t, i))
         /\ View!InAFewMoves("provider", View!Sight("running", "none", d, "running", i),
                                         View!Sight("running", "completed", d, "running", i))
PROOF
  <1> DEFINE v == View!Sight(s, "none", d, t, i)
             u == View!Sight("running", "none", d, "running", i)
  <1>1. v.selected = "none" /\ v.task = t
    BY Sights
  <1>2. View!Working("provider", v) /\ View!Working("provider", u)
    BY <1>1, Sights DEF View!Working
  <1>3. View!Sight(s, "failed", d, t, i) \in View!Moves("provider", v)
    <2>1. View!Sight(s, "failed", d, t, i) \in View!SelectsItself("provider", v)
      BY <1>1, <1>2, Sights DEF View!SelectsItself, View!When
    <2> QED
      BY <2>1 DEF View!Moves
  <1>4. View!Sight(s, "cancelled", d, t, i) \in View!Moves("provider", v)
    <2>1. View!Sight(s, "cancelled", d, t, i) \in View!Granted("provider", v, "cancelled")
      BY <1>1, <1>2, Sights DEF View!Granted, View!When
    <2> QED
      BY <2>1 DEF View!Moves
  <1>5. View!Sight(s, "teardown", d, t, i) \in View!Moves("provider", v)
    <2>1. View!Sight(s, "teardown", d, t, i) \in View!Granted("provider", v, "teardown")
      BY <1>1, <1>2, Sights DEF View!Granted, View!When
    <2> QED
      BY <2>1 DEF View!Moves, View!When
  <1>6. View!Sight("running", "completed", d, "running", i) \in View!Moves("provider", u)
    <2>1. View!Sight("running", "completed", d, "running", i) \in
            View!SelectsItself("provider", u)
      BY <1>2, Sights DEF View!SelectsItself, View!When
    <2> QED
      BY <2>1 DEF View!Moves
  <1> HIDE DEF v, u
  <1>7. /\ View!InAFewMoves("provider", v, View!Sight(s, "failed", d, t, i))
        /\ View!InAFewMoves("provider", v, View!Sight(s, "cancelled", d, t, i))
        /\ View!InAFewMoves("provider", v, View!Sight(s, "teardown", d, t, i))
        /\ View!InAFewMoves("provider", u,
                            View!Sight("running", "completed", d, "running", i))
    BY <1>3, <1>4, <1>5, <1>6, FewMoves
  <1> QED
    BY <1>7 DEF v, u

(* The first event, and how a finalization ends.                           *)
LEMMA ViewSettles ==
  ASSUME NEW s, NEW o, NEW t, NEW i, t \in {"running", "failing", "cancelled"},
         o # "none"
  PROVE  /\ o \in View!Terminals =>
              View!InAFewMoves("provider", View!Sight("running", o, "no", t, i),
                                           View!Sight(o, o, "done", t, i))
         /\ o = "teardown" \/ (t # "running" /\ s = "nothing") =>
              View!InAFewMoves("provider", View!Sight(s, o, "no", t, i),
                                           View!Sight(s, o, "done", t, i))
         /\ View!InAFewMoves("provider", View!Sight(s, o, "no", t, i),
                                         View!Sight(s, o, "raised", t, i))
PROOF
  <1> DEFINE v == View!Sight(s, o, "no", t, i)
             u == View!Sight("running", o, "no", t, i)
             w == View!Sight(o, o, "done", t, i)
  <1>1. /\ v.shown = s /\ v.selected = o /\ v.settled = "no" /\ v.task = t
        /\ u.shown = "running" /\ u.selected = o /\ u.settled = "no" /\ u.task = t
    BY Sights
  <1>2. View!Unsettled("provider", v) /\ View!Unsettled("provider", u)
    BY <1>1 DEF View!Unsettled, View!Working
  <1>3. ASSUME o \in View!Terminals PROVE View!InAFewMoves("provider", u, w)
    <2>1. [u EXCEPT !.shown = o] = View!Sight(o, o, "no", t, i)
      BY DEF View!Sight
    <2>2. [View!Sight(o, o, "no", t, i) EXCEPT !.settled = "done"] = w
      BY DEF View!Sight
    <2>3. [u EXCEPT !.shown = u.selected, !.settled = "done"] = w
      BY <1>1, <2>1, <2>2
    <2>4. w \in View!ShowsTerminal("provider", u)
      BY <1>1, <1>2, <1>3, <2>3 DEF View!ShowsTerminal, View!When
    <2>5. w \in View!Moves("provider", u)
      BY <2>4 DEF View!Moves
    <2> HIDE DEF u, w
    <2> QED
      BY <2>5, FewMoves
  <1>4. ASSUME o = "teardown" \/ (t # "running" /\ s = "nothing")
        PROVE  View!InAFewMoves("provider", v, View!Sight(s, o, "done", t, i))
    <2>1. View!Sight(s, o, "done", t, i) \in View!SettlesSilently(v)
      BY <1>1, <1>2, <1>4, Sights DEF View!SettlesSilently, View!When
    <2>2. View!Sight(s, o, "done", t, i) \in View!Moves("provider", v)
      BY <2>1 DEF View!Moves, View!When
    <2> HIDE DEF v
    <2> QED
      BY <2>2, FewMoves
  <1>5. View!InAFewMoves("provider", v, View!Sight(s, o, "raised", t, i))
    <2>1. View!Sight(s, o, "raised", t, i) \in View!FinalizationRaises(v)
      BY <1>1, <1>2, Sights DEF View!FinalizationRaises, View!When
    <2>2. View!Sight(s, o, "raised", t, i) \in View!Moves("provider", v)
      BY <2>1 DEF View!Moves, View!When
    <2> HIDE DEF v
    <2> QED
      BY <2>2, FewMoves
  <1> QED
    BY <1>3, <1>4, <1>5

(* The start is announced. *)
LEMMA ViewAnnounces ==
  ASSUME NEW o, NEW d, NEW i
  PROVE  View!InAFewMoves("provider", View!Sight("nothing", o, d, "running", i),
                                      View!Sight("running", o, d, "running", i))
PROOF
  <1> DEFINE v == View!Sight("nothing", o, d, "running", i)
             w == View!Sight("running", o, d, "running", i)
  <1>1. w \in View!Announces(v)
    BY Sights DEF View!Announces, View!When
  <1>2. w \in View!Moves("provider", v)
    BY <1>1 DEF View!Moves
  <1> HIDE DEF v, w
  <1>3. View!InAFewMoves("provider", v, w)
    BY <1>2, FewMoves
  <1> QED
    BY <1>3 DEF v, w

(* How run() moves. *)
LEMMA ViewRuns ==
  ASSUME NEW s, NEW o, NEW d, NEW i, i \in {"none", "pending"}
  PROVE  /\ View!InAFewMoves("provider", View!Sight(s, o, d, "running", i),
                                         View!Sight(s, o, d, "failing", "none"))
         /\ d # "no" =>
              View!InAFewMoves("provider", View!Sight(s, o, d, "running", i),
                                           View!Sight(s, o, d, "failed", "none"))
         /\ View!InAFewMoves("provider", View!Sight(s, o, d, "running", i),
                                         View!Sight(s, o, d, "running", "none"))
         /\ View!InAFewMoves("provider", View!Sight(s, o, "done", "running", "none"),
                                         View!Sight(s, o, "done", "returned", "none"))
PROOF
  <1> DEFINE v(t, j) == View!Sight(s, o, d, t, j)
             Few(x, y) == View!InAFewMoves("provider", x, y)
  <1>1. v("running", "none") \in View!Moves("provider", v("running", "pending"))
    <2>1. v("running", "none") \in View!SwallowsInterrupt(v("running", "pending"))
      BY Sights DEF View!SwallowsInterrupt, View!When
    <2> QED
      BY <2>1 DEF View!Moves, View!When
  <1>2. \A j : v("failing", j) \in View!Moves("provider", v("running", j))
    <2> TAKE j
    <2>1. v("failing", j) \in View!Stumbles("provider", v("running", j))
      BY Sights DEF View!Stumbles, View!When
    <2> QED
      BY <2>1 DEF View!Moves
  <1>3. ASSUME d # "no", NEW j
        PROVE  v("failed", "none") \in View!Moves("provider", v("failing", j))
    <2>1. [v("failing", j) EXCEPT !.task = "failed"] = v("failed", j)
      BY DEF View!Sight
    <2>2. [v("failed", j) EXCEPT !.interrupt = "none"] = v("failed", "none")
      BY DEF View!Sight
    <2>3. v("failing", j).task = "failing" /\ v("failing", j).settled = d
      BY Sights
    <2>4. [v("failing", j) EXCEPT !.task = "failed", !.interrupt = "none"] =
            v("failed", "none")
      BY <2>1, <2>2
    <2>5. v("failed", "none") \in View!Fails("provider", v("failing", j))
      BY <1>3, <2>3, <2>4 DEF View!Fails, View!When
    <2> QED
      BY <2>5 DEF View!Moves
  <1>4. View!Sight(s, o, "done", "returned", "none") \in
          View!Moves("provider", View!Sight(s, o, "done", "running", "none"))
    <2>1. View!Sight(s, o, "done", "returned", "none") \in
            View!Returns(View!Sight(s, o, "done", "running", "none"))
      BY Sights DEF View!Returns, View!When
    <2> QED
      BY <2>1 DEF View!Moves
  <1>5. Few(View!Sight(s, o, "done", "running", "none"),
            View!Sight(s, o, "done", "returned", "none"))
    BY <1>4, FewMoves
  <1> HIDE DEF v
  <1>6. Few(v("running", i), v("failing", "none"))
    <2>1. i = "none" \/ i = "pending"
      OBVIOUS
    <2>2. Few(v("running", "none"), v("failing", "none"))
      BY <1>2, FewMoves
    <2>3. Few(v("running", "pending"), v("failing", "none"))
      BY <1>1, <1>2, FewMoves
    <2> QED
      BY <2>1, <2>2, <2>3
  <1>7. d # "no" => Few(v("running", i), v("failed", "none"))
    BY <1>2, <1>3, FewMoves
  <1>8. Few(v("running", i), v("running", "none"))
    <2>1. i = "none" \/ i = "pending"
      OBVIOUS
    <2>2. Few(v("running", "none"), v("running", "none"))
      BY FewMoves
    <2>3. Few(v("running", "pending"), v("running", "none"))
      BY <1>1, FewMoves
    <2> QED
      BY <2>1, <2>2, <2>3
  <1> QED
    BY <1>5, <1>6, <1>7, <1>8 DEF v

(* How it is cancelled, and how its exception handler ends.                *)
LEMMA ViewInterrupts ==
  ASSUME NEW s, NEW o, NEW d, NEW i
  PROVE  /\ \A t \in {"running", "failing"} :
              View!InAFewMoves("provider", View!Sight(s, o, d, t, i),
                                           View!Sight(s, o, d, t, "pending"))
         /\ d # "no" =>
              View!InAFewMoves("provider", View!Sight(s, o, d, "running", "pending"),
                                           View!Sight(s, o, d, "cancelled", "none"))
         /\ o # "none" =>
              View!InAFewMoves("provider", View!Sight(s, o, d, "failing", "pending"),
                                           View!Sight(s, o, d, "cancelled", "none"))
         /\ d # "no" =>
              View!InAFewMoves("provider", View!Sight(s, o, d, "failing", i),
                                           View!Sight(s, o, d, "failed", "none"))
PROOF
  <1> DEFINE v(t, j) == View!Sight(s, o, d, t, j)
             Few(x, y) == View!InAFewMoves("provider", x, y)
  <1>1. ASSUME NEW t, t \in {"running", "failing"}
        PROVE  v(t, "pending") \in View!Moves("provider", v(t, i))
    <2>1. v(t, "pending") \in View!Interrupts(v(t, i))
      BY <1>1, Sights DEF View!Interrupts, View!When
    <2> QED
      BY <2>1 DEF View!Moves
  <1>2. ASSUME NEW t, (t = "running" /\ d # "no") \/ (t = "failing" /\ o # "none")
        PROVE  v("cancelled", "none") \in View!Moves("provider", v(t, "pending"))
    <2>1. [v(t, "pending") EXCEPT !.task = "cancelled"] = v("cancelled", "pending")
      BY DEF View!Sight
    <2>2. [v("cancelled", "pending") EXCEPT !.interrupt = "none"] = v("cancelled", "none")
      BY DEF View!Sight
    <2>3. /\ v(t, "pending").task = t /\ v(t, "pending").interrupt = "pending"
          /\ v(t, "pending").settled = d /\ v(t, "pending").selected = o
      BY Sights
    <2>4. [v(t, "pending") EXCEPT !.task = "cancelled", !.interrupt = "none"] =
            v("cancelled", "none")
      BY <2>1, <2>2
    <2>5. v("cancelled", "none") \in View!ObeysInterrupt("provider", v(t, "pending"))
      BY <1>2, <2>3, <2>4 DEF View!ObeysInterrupt, View!When
    <2> QED
      BY <2>5 DEF View!Moves
  <1>3. ASSUME d # "no"
        PROVE  v("failed", "none") \in View!Moves("provider", v("failing", i))
    <2>1. [v("failing", i) EXCEPT !.task = "failed"] = v("failed", i)
      BY DEF View!Sight
    <2>2. [v("failed", i) EXCEPT !.interrupt = "none"] = v("failed", "none")
      BY DEF View!Sight
    <2>3. v("failing", i).task = "failing" /\ v("failing", i).settled = d
      BY Sights
    <2>4. [v("failing", i) EXCEPT !.task = "failed", !.interrupt = "none"] =
            v("failed", "none")
      BY <2>1, <2>2
    <2>5. v("failed", "none") \in View!Fails("provider", v("failing", i))
      BY <1>3, <2>3, <2>4 DEF View!Fails, View!When
    <2> QED
      BY <2>5 DEF View!Moves
  <1> HIDE DEF v
  <1>4. \A t \in {"running", "failing"} : Few(v(t, i), v(t, "pending"))
    BY <1>1, FewMoves
  <1>5. d # "no" => Few(v("running", "pending"), v("cancelled", "none"))
    BY <1>2, FewMoves
  <1>6. o # "none" => Few(v("failing", "pending"), v("cancelled", "none"))
    BY <1>2, FewMoves
  <1>7. d # "no" => Few(v("failing", i), v("failed", "none"))
    BY <1>3, FewMoves
  <1> QED
    BY <1>4, <1>5, <1>6, <1>7 DEF v

(* run() alone moves run(), and but for OuterCancel what the loop sees of  *)
(* it.                                                                     *)
LEMMA WhoRuns ==
  ASSUME TypeOK, [Next]_vars
  PROVE  \/ UNCHANGED <<runner, outerCancel>>
         \/ OuterCancel /\ UNCHANGED <<runner, txn, selection, finalizer>>
         \/ RunnerStep
PROOF
  <1> DEFINE Quiet == UNCHANGED <<runner, outerCancel>>
  <1>1. TransactionStep => Quiet
    BY
    DEF TransactionStep, BeginStarted, StartedWritten, DeferredApplied,
        RejectTransaction, TeardownTransaction, AcceptNothing, AcceptDelta,
        AcceptTextCompleted, AcceptUsage, AcceptOutcome, AcceptToolCall, Admitting,
        Accepting, DeltaWritten, UsageRecorded
  <1>2. FinalizationStep => Quiet
    BY
    DEF FinalizationStep, FinalizerStarts, FinalizerStopsWatcher,
        FinalizerStartsCleanup, FinalizerJoinsCleanup, FinalizerReaps,
        FinalizerReports, TerminalBegins, SealWritten, TerminalWritten, FinalizerStep,
        runVars
  <1>3. \A c \in Cancels : RequestCancellation(c) \/ CancellationStep(c) => Quiet
    BY DEF RequestCancellation, CancellationStep, CancelDecide, CancelSelect,
           CancelJoined, RequestStep, runVars
  <1>4. RequestTeardown \/ TeardownStep => Quiet
    BY DEF RequestTeardown, TeardownStep, TeardownDecide, TeardownRequestJoined,
           RequestStep, runVars
  <1>5. ASSUME \/ ProviderYields \/ ReadAnswersCancel \/ Tick \/ WatcherFires
               \/ CleanupReturns \/ GraceExpires \/ ForceReturns
        PROVE  Quiet
    BY <1>5
    DEF ProviderYields, ReadAnswersCancel, Tick, WatcherFires, CleanupReturns,
        GraceExpires, ForceReturns, CleanupStep, EnvironmentStep
  <1>6. OuterCancel => UNCHANGED <<runner, txn, selection, finalizer>>
    BY DEF OuterCancel, EnvironmentStep
  <1>7. UNCHANGED vars => Quiet
    BY DEF vars, runVars
  <1> QED
    BY <1>1, <1>2, <1>3, <1>4, <1>5, <1>6, <1>7 DEF Next, Finished

(* How run() goes on, as the loop sees it. *)
RunMoves ==
  \/ UNCHANGED <<TaskState, Interruption>>
  \/ /\ TaskState = "running" /\ Interruption' = "none"
     /\ \/ TaskState' = "failing"
        \/ TaskState' = "failed" /\ FinalizerEnded
        \/ TaskState' = "running"
        \/ TaskState' = "returned" /\ finalizer = "done" /\ Interruption = "none"
        \/ TaskState' = "cancelled" /\ FinalizerEnded /\ Interruption = "pending"
  \/ /\ TaskState = "failing" /\ Interruption' = "none"
     /\ \/ TaskState' = "cancelled" /\ ~Undecided /\ Interruption = "pending"
        \/ TaskState' = "failed" /\ FinalizerEnded

(* It moves so or decides, and is left once its finalizer ended, unless it *)
(* is cancelled.                                                           *)
LEMMA RunnerMoves ==
  ASSUME SafetyInv, SeenAgrees, RunnerStep
  PROVE  /\ RunMoves
         /\ UNCHANGED <<selection, finalizer>> \/ UNCHANGED <<TaskState, Interruption>>
         /\ runner' = "returned" => finalizer' = "done"
         /\ runner' = "raised" => finalizer' \in {"done", "raised"}
         /\ runner' = "failing" => txn' # "settled"
PROOF
  <1> USE DEF TaskState, Interruption, FinalizerEnded, RunMoves
  <1>1. FinalizerEnded => ~Undecided
    BY DEF SafetyInv, Established, DecisionInv
  <1>2. CASE Run
    BY <1>2 DEF Run, decisionVars
  <1>3. CASE \/ PublishResumes \/ AcceptResumes \/ RejectResumes \/ JoinResumes
    <2> USE DEF ResumeFrom, RunRaised, RunCancelled, EnterHandler, decisionVars
    <2>1. CASE PublishResumes
      BY <2>1 DEF PublishResumes
    <2>2. CASE AcceptResumes
      BY <2>2 DEF AcceptResumes
    <2>3. CASE RejectResumes
      BY <2>3 DEF RejectResumes
    <2>4. CASE JoinResumes
      BY <1>1, <2>4 DEF JoinResumes
    <2> QED
      BY <1>3, <2>1, <2>2, <2>3, <2>4
  <1>4. CASE TeardownJoined \/ FailureSelected \/ FailureJoined
    <2> USE DEF Leave, decisionVars
    <2>1. CASE TeardownJoined
      BY <2>1 DEF TeardownJoined
    <2>2. CASE FailureSelected
      BY <2>2 DEF FailureSelected, SeenAgrees
    <2>3. CASE FailureJoined
      BY <1>1, <2>3 DEF FailureJoined
    <2> QED
      BY <1>4, <2>1, <2>2, <2>3
  <1>5. CASE StartIsCancelled \/ ReadIsCancelled \/ SelectIsCancelled
    BY <1>5 DEF StartIsCancelled, ReadIsCancelled, SelectIsCancelled, RunCancelled,
                EnterHandler, decisionVars
  <1>6. CASE StartRefused \/ StartOperation \/ SelectProviderDeadline
    BY <1>6 DEF StartRefused, StartOperation, SelectProviderDeadline
  <1>7. CASE \/ WakeExpired \/ WakeStopped \/ WakeReaped \/ WakeWithoutEvent
             \/ WakeWithEvent
    BY <1>7 DEF WakeExpired, WakeStopped, WakeReaped, WakeWithoutEvent, WakeWithEvent,
                ReadWakes, decisionVars
  <1>8. CASE RunnerReaps
    BY <1>8 DEF RunnerReaps, decisionVars
  <1> QED
    BY <1>2, <1>3, <1>4, <1>5, <1>6, <1>7, <1>8 DEF RunnerStep

(* A finalization goes on at most once from what the loop sees of it.      *)
LEMMA SettlementMoves ==
  ASSUME SafetyInv, SeenAgrees, FinalizationStep, [Next]_vars
  PROVE  /\ UNCHANGED <<selection, runner, txn, outerCancel>>
         /\ ~FinalizerEnded /\ ~Undecided
         /\ \/ UNCHANGED Settlement
            \/ Settlement' = "raised"
            \/ Settlement' = "done" /\ \/ TerminalWritten
                                       \/ selection.kind = "teardown"
                                       \/ /\ TaskState \in {"failing", "cancelled", "failed"}
                                          /\ ShownStatus = "nothing"
PROOF
  <1>1. UNCHANGED <<selection, runner, txn, outerCancel>>
    BY
    DEF FinalizationStep, FinalizerStarts, FinalizerStopsWatcher,
        FinalizerStartsCleanup, FinalizerJoinsCleanup, FinalizerReaps,
        FinalizerReports, TerminalBegins, SealWritten, TerminalWritten, FinalizerStep,
        runVars
  <1>2. finalizer \notin {"none", "done", "raised"}
    BY
    DEF FinalizationStep, FinalizerStarts, FinalizerStopsWatcher,
        FinalizerStartsCleanup, FinalizerJoinsCleanup, FinalizerReaps,
        FinalizerReports, TerminalBegins, SealWritten, TerminalWritten
  <1>3. ~FinalizerEnded /\ ~Undecided
    BY <1>2 DEF FinalizerEnded, SafetyInv, Established, DecisionInv
  <1>4. SealWritten => finalizer' # "done"
    BY DEF SealWritten, ReportLimits
  <1>5. ASSUME finalizer' = "done", ~TerminalWritten, selection.kind # "teardown"
        PROVE  /\ TaskState \in {"failing", "cancelled", "failed"}
               /\ ShownStatus = "nothing"
    <2>1. finalizer = "await_start" /\ ~startedOk
      BY <1>4, <1>5, FinalizerMoves
    <2>2. startSettled
      BY <2>1
      DEF FinalizationStep, FinalizerStarts, FinalizerStopsWatcher,
          FinalizerStartsCleanup, FinalizerJoinsCleanup, FinalizerReaps,
          FinalizerReports, TerminalBegins, SealWritten, TerminalWritten
    <2>3. runner \in {"failing", "fail_join", "cancelled", "raised"} /\ txn # "deferring"
      BY <2>1, <2>2 DEF SafetyInv, Established, PlacesInv, StartAgrees, TxnAgrees,
                        Unstarted, StartFailed
    <2>4. sequence = 0
      BY <2>1, <2>3 DEF SafetyInv, StatusInv, StatusAgrees, SeenAgrees
    <2> QED
      BY <2>3, <2>4 DEF TaskState, ShownStatus
  <1>6. Settlement' \in {"no", "done", "raised"} /\ Settlement = "no"
    BY <1>3 DEF Settlement, FinalizerEnded
  <1>7. Settlement' = "done" => finalizer' = "done"
    BY DEF Settlement, FinalizerEnded
  <1> QED
    BY <1>1, <1>3, <1>5, <1>6, <1>7

(* The invariant of this part, step by step.                               *)
LEMMA SeenStep ==
  ASSUME SafetyInv, SafetyInv', SeenAgrees, [Next]_vars
  PROVE  SeenAgrees'
PROOF
  <1>1. sequence' = 0 <=> lifecycle'.status = "starting"
    BY ShownStep
  <1>2. TypeOK /\ PlacesInv /\ DecisionInv
    BY DEF SafetyInv, Established
  <1>3. FinalizerEnded => finalizer' = finalizer
    <2>1. ~Undecided \/ ~FinalizerEnded
      BY <1>2 DEF FinalizerEnded, DecisionInv
    <2>2. UNCHANGED finalizer \/ FinalizationStep \/ Undecided
      BY <1>2, WhoSelects DEF Selecting
    <2> QED
      BY <2>1, <2>2, SettlementMoves
  <1>4. ~Undecided => ~Undecided'
    <2>1. ~Undecided => UNCHANGED selection
      BY <1>2, DecidedStands
    <2> QED
      BY <2>1 DEF Undecided
  <1>5. runner' \in {"returned", "raised"} => FinalizerEnded'
    <2>1. CASE UNCHANGED runner
      BY <1>3, <2>1 DEF SeenAgrees, FinalizerEnded
    <2>2. CASE RunnerStep
      BY <2>2, RunnerMoves DEF FinalizerEnded
    <2> QED
      BY <1>2, <2>1, <2>2, WhoRuns
  <1>6. runner' = "failing" /\ txn' = "settled" => ~Undecided'
    <2>1. CASE runner = "failing" /\ txn = "settled"
      BY <1>4, <2>1 DEF SeenAgrees
    <2>2. CASE RunnerStep
      BY <2>2, RunnerMoves
    <2>3. CASE TeardownTransaction
      <3>1. Undecided => selection' \in {DeadlineOutcome, Teardown}
        BY <2>3 DEF TeardownTransaction, SelectCandidate, ChooseDeadline, ChooseCharging,
                    Choose
      <3>2. DeadlineOutcome # NoSelection /\ Teardown # NoSelection
        BY DEF DeadlineOutcome, FailedWith, Teardown, NoSelection, Outcome
      <3> QED
        BY <1>4, <3>1, <3>2 DEF Undecided
    <2>4. CASE UNCHANGED <<runner, txn>>
      BY <2>1, <2>4
    <2>5. CASE TransactionStep
      <3>1. UNCHANGED runner
        BY <2>5
        DEF TransactionStep, BeginStarted, StartedWritten, DeferredApplied,
            RejectTransaction, TeardownTransaction, AcceptNothing, AcceptDelta,
            AcceptTextCompleted, AcceptUsage, AcceptOutcome, AcceptToolCall, Admitting,
            Accepting, DeltaWritten, UsageRecorded
      <3>2. runner = "failing" => txn \in {"teardown", "settled"}
        BY <1>2 DEF PlacesInv, TxnAgrees
      <3>3. txn \in {"teardown", "settled"} => TeardownTransaction
        BY <2>5
        DEF TransactionStep, BeginStarted, StartedWritten, DeferredApplied,
            RejectTransaction, AcceptNothing, AcceptDelta,
            AcceptTextCompleted, AcceptUsage, AcceptOutcome, AcceptToolCall, Admitting,
            Accepting, DeltaWritten, UsageRecorded
      <3> QED
        BY <2>3, <3>1, <3>2, <3>3
    <2>6. RunnerStep \/ TransactionStep \/ UNCHANGED <<runner, txn>>
      <3>1. FinalizationStep => UNCHANGED <<runner, txn>>
        BY SettlementMoves
      <3>2. \A c \in Cancels : RequestCancellation(c) \/ CancellationStep(c) =>
              UNCHANGED <<runner, txn>>
        BY DEF RequestCancellation, CancellationStep, CancelDecide, CancelSelect,
               CancelJoined, RequestStep, runVars
      <3>3. RequestTeardown \/ TeardownStep => UNCHANGED <<runner, txn>>
        BY DEF RequestTeardown, TeardownStep, TeardownDecide, TeardownRequestJoined,
               RequestStep, runVars
      <3>4. ASSUME \/ ProviderYields \/ ReadAnswersCancel \/ Tick \/ WatcherFires
                   \/ CleanupReturns \/ GraceExpires \/ ForceReturns \/ OuterCancel
            PROVE  UNCHANGED <<runner, txn>>
        BY <3>4
        DEF ProviderYields, ReadAnswersCancel, Tick, WatcherFires, CleanupReturns,
            GraceExpires, ForceReturns, CleanupStep, OuterCancel, EnvironmentStep
      <3>5. UNCHANGED vars => UNCHANGED <<runner, txn>>
        BY DEF vars, runVars
      <3> QED
        BY <3>1, <3>2, <3>3, <3>4, <3>5 DEF Next, Finished
    <2> QED
      BY <2>2, <2>4, <2>5, <2>6
  <1> QED
    BY <1>1, <1>5, <1>6 DEF SeenAgrees

(* What the loop sees of each step is a few moves.                         *)
LEMMA SeenMoves ==
  ASSUME SafetyInv, SafetyInv', SeenAgrees, [Next]_vars
  PROVE  View!InAFewMoves("provider", Seen, Seen')
PROOF
  <1> DEFINE sel == selection.kind
             Few(v, w) == View!InAFewMoves("provider", v, w)
  <1>1. /\ Seen = View!Sight(ShownStatus, sel, Settlement, TaskState, Interruption)
        /\ Seen' = View!Sight(ShownStatus', sel', Settlement', TaskState', Interruption')
    BY DEF Seen
  <1>2. /\ TypeOK /\ PlacesInv /\ DecisionInv /\ StatusInv /\ Established
        /\ Interruption \in {"none", "pending"}
        /\ TaskState \in {"running", "failing", "returned", "cancelled", "failed"}
    BY DEF SafetyInv, Established, Interruption, TaskState
  <1>3. /\ ~FinalizerEnded => /\ TaskState \in {"running", "failing", "cancelled"}
                              /\ Settlement = "no"
        /\ FinalizerEnded => ~Undecided /\ Settlement # "no" /\ Settlement = finalizer
    BY <1>2 DEF TaskState, SeenAgrees, Settlement, FinalizerEnded, DecisionInv, TypeOK,
                RunTypes, RunnerPlaces
  <1>4. ~Undecided => sel # "none"
    BY <1>2, OutcomeKinds DEF DecisionInv, ChoiceTypes, Undecided
  <1>5. StartedWritten => /\ UNCHANGED <<selection, finalizer, runner, outerCancel>>
                          /\ txn' # "publishing"
    BY <1>2, StartedFacts DEF StartedWritten
  <1>6. /\ UNCHANGED Settlement \/ ~UNCHANGED finalizer
        /\ UNCHANGED <<runner, outerCancel>> => UNCHANGED <<TaskState, Interruption>>
    BY DEF Settlement, FinalizerEnded, TaskState, Interruption
  <1>7. ASSUME FinalizationStep PROVE Few(Seen, Seen')
    <2>1. /\ UNCHANGED <<sel, TaskState, Interruption, txn>> /\ ~FinalizerEnded
          /\ ~Undecided
      BY <1>6, <1>7, SettlementMoves
    <2>2. ~TerminalWritten \/ finalizer' # "done" => UNCHANGED ShownStatus
      BY <1>5, <2>1, ShownStep
    <2>3. Settlement' = "done" => finalizer' = "done"
      BY DEF Settlement, FinalizerEnded
    <2>4. CASE UNCHANGED Settlement
      <3>1. finalizer' # "done"
        BY <1>3, <2>1, <2>4 DEF Settlement, FinalizerEnded
      <3> QED
        BY <1>1, <2>1, <2>2, <2>4, <3>1, FewMoves
    <2>5. CASE Settlement' = "raised"
      <3>1. finalizer' # "done"
        BY <2>5 DEF Settlement, FinalizerEnded
      <3> QED
        BY <1>1, <1>3, <1>4, <2>1, <2>2, <2>5, <3>1, ViewSettles
    <2>6. CASE Settlement' = "done" /\ TerminalWritten
      <3>1. /\ ShownStatus = "running" /\ ShownStatus' = sel /\ sel \in View!Terminals
        BY <2>3, <2>6, ShownStep DEF View!Terminals, TerminalStatuses
      <3> QED
        BY <1>1, <1>3, <1>4, <2>1, <2>6, <3>1, ViewSettles
    <2>7. CASE Settlement' = "done" /\ ~TerminalWritten
      <3>1. \/ sel = "teardown"
            \/ TaskState \in {"failing", "cancelled", "failed"} /\ ShownStatus = "nothing"
        BY <1>3, <1>7, <2>1, <2>7, SettlementMoves
      <3> QED
        BY <1>1, <1>3, <1>4, <2>1, <2>2, <2>7, <3>1, ViewSettles
    <2> QED
      BY <1>7, <2>4, <2>5, <2>6, <2>7, SettlementMoves
  <1>8. ASSUME NEW o, Selecting(o), o # NoSelection, ~FinalizationStep
        PROVE  /\ UNCHANGED <<ShownStatus, Settlement, TaskState, Interruption>>
               /\ Settlement = "no" /\ TaskState \in {"running", "failing", "cancelled"}
               /\ sel = "none" /\ sel' = o.kind
    <2>1. /\ selection = NoSelection /\ selection' = o /\ finalizer = "none"
          /\ finalizer' \in {"stop_watcher", "await_start"}
      BY <1>8 DEF Selecting, Undecided
    <2>2. UNCHANGED ShownStatus
      BY <1>5, <1>8, <2>1, ShownStep DEF FinalizationStep
    <2>3. UNCHANGED Settlement /\ Settlement = "no"
      BY <2>1 DEF Settlement, FinalizerEnded
    <2>4. UNCHANGED <<TaskState, Interruption>>
      BY <1>2, <1>6, <1>8, <2>1, WhoRuns, RunnerMoves
    <2>5. ~FinalizerEnded
      BY <2>1 DEF FinalizerEnded
    <2> QED
      BY <1>3, <2>1, <2>2, <2>3, <2>4, <2>5, FixedOutcomes
  <1>9. ASSUME NEW o \in Forced, Selecting(o), ~FinalizationStep PROVE Few(Seen, Seen')
    <2>1. o # NoSelection /\ o.kind \in {"failed", "teardown"}
      BY FixedOutcomes DEF Forced
    <2> QED
      BY <1>1, <1>8, <1>9, <2>1, ViewDecides
  <1>10. ASSUME NEW c \in Cancels, Selecting(CancelledBy(c)), ~FinalizationStep
         PROVE  Few(Seen, Seen')
    <2>1. CancelledBy(c) # NoSelection /\ CancelledBy(c).kind = "cancelled"
      BY FixedOutcomes
    <2> QED
      BY <1>1, <1>8, <1>10, <2>1, ViewDecides
  <1>11. ASSUME AcceptOutcome, ~FinalizationStep,
                Selecting(IF result.kind = "completed" THEN Completed ELSE ProviderReported)
         PROVE  Few(Seen, Seen')
    <2>1. CASE result.kind # "completed"
      <3>1. Selecting(ProviderReported) /\ ProviderReported # NoSelection
        BY <1>11, <2>1, FixedOutcomes
      <3> QED
        BY <1>1, <1>8, <1>11, <3>1, FixedOutcomes, ViewDecides
    <2>2. CASE result.kind = "completed"
      <3>1. Selecting(Completed) /\ Completed # NoSelection
        BY <1>11, <2>2, FixedOutcomes
      <3>2. txn = "accept" /\ runner = "accepting" /\ startedOk
        BY <1>2, <1>11
        DEF AcceptOutcome, Admitting, Accepting, PlacesInv, TxnAgrees, StartAgrees,
            TypeOK, RunTypes, RunnerPlaces
      <3>3. TaskState = "running"
        BY <3>2 DEF TaskState
      <3>4. sequence # 0
        BY <1>2, <3>2 DEF SeenAgrees, StatusInv, StatusAgrees
      <3>5. ~Ended
        BY <1>2, <3>1 DEF Selecting, StatusInv, TerminalAgrees
      <3>6. ShownStatus = "running"
        BY <3>4, <3>5 DEF ShownStatus
      <3> QED
        BY <1>1, <1>8, <1>11, <3>1, <3>3, <3>6, FixedOutcomes, ViewDecides
    <2> QED
      BY <2>1, <2>2
  <1>12. ASSUME UNCHANGED <<selection, finalizer>>, ~FinalizationStep
         PROVE  Few(Seen, Seen')
    <2>1. UNCHANGED <<sel, Settlement>>
      BY <1>6, <1>12
    <2>2. CASE StartedWritten /\ ~UNCHANGED ShownStatus
      <3>1. /\ txn = "publishing" /\ ShownStatus = "nothing" /\ ShownStatus' = "running"
            /\ UNCHANGED <<TaskState, Interruption>>
        BY <1>5, <1>6, <1>12, <2>2, ShownStep DEF FinalizationStep
      <3>2. TaskState = "running"
        BY <1>2, <3>1 DEF PlacesInv, TxnAgrees, TaskState
      <3> QED
        BY <1>1, <2>1, <3>1, <3>2, ViewAnnounces
    <2>3. CASE UNCHANGED ShownStatus
      <3>1. CASE UNCHANGED <<TaskState, Interruption>>
        BY <1>1, <2>1, <2>3, <3>1, FewMoves
      <3>2. CASE OuterCancel
        <4>1. /\ UNCHANGED TaskState /\ TaskState \in {"running", "failing"}
              /\ Interruption' = "pending"
          BY <3>2 DEF OuterCancel, EnvironmentStep, RunEnded, TaskState, Interruption
        <4> QED
          BY <1>1, <2>1, <2>3, <4>1, ViewInterrupts
      <3>3. CASE RunMoves /\ TaskState = "running" /\ ~UNCHANGED <<TaskState, Interruption>>
        <4>1. Interruption' = "none"
          BY <3>3 DEF RunMoves
        <4>2. CASE TaskState' \in {"failing", "running"}
          BY <1>1, <1>2, <2>1, <2>3, <3>3, <4>1, <4>2, ViewRuns
        <4>3. CASE TaskState' = "failed" /\ FinalizerEnded
          BY <1>1, <1>2, <1>3, <2>1, <2>3, <3>3, <4>1, <4>3, ViewRuns
        <4>4. CASE TaskState' = "returned" /\ finalizer = "done" /\ Interruption = "none"
          <5>1. Settlement = "done"
            BY <1>3, <4>4 DEF FinalizerEnded
          <5> QED
            BY <1>1, <2>1, <2>3, <3>3, <4>1, <4>4, <5>1, ViewRuns
        <4>5. CASE TaskState' = "cancelled" /\ FinalizerEnded /\ Interruption = "pending"
          BY <1>1, <1>3, <2>1, <2>3, <3>3, <4>1, <4>5, ViewInterrupts
        <4> QED
          BY <3>3, <4>2, <4>3, <4>4, <4>5 DEF RunMoves
      <3>4. CASE RunMoves /\ TaskState = "failing"
        BY <1>1, <1>3, <1>4, <2>1, <2>3, <3>1, <3>4, ViewInterrupts DEF RunMoves
      <3>5. UNCHANGED <<TaskState, Interruption>> \/ OuterCancel \/ RunMoves
        BY <1>2, <1>6, WhoRuns, RunnerMoves
      <3> QED
        BY <3>1, <3>2, <3>3, <3>4, <3>5 DEF RunMoves
    <2>4. UNCHANGED ShownStatus \/ StartedWritten
      BY <1>12, ShownStep DEF FinalizationStep
    <2> QED
      BY <2>2, <2>3, <2>4
  <1> QED
    BY <1>2, <1>7, <1>9, <1>10, <1>11, <1>12, WhoSelects

(* Seen from the command loop the provider session makes the moves         *)
(* RuntimeLoop's sessions make, and no others (KeepsView): what that       *)
(* module says of the loop and its sessions is said of this one.           *)
THEOREM ProviderKeepsView == Spec => KeepsView
PROOF
  <1>1. Init => SeenAgrees
    BY InitSeen
  <1>2. SafetyInv /\ SafetyInv' /\ SeenAgrees /\ [Next]_vars => SeenAgrees'
    BY SeenStep
  <1>3. Init => Seen = View!Born
    BY DEF Init, Seen, View!Born, ShownStatus, NoSelection, Outcome, Settlement,
           FinalizerEnded, TaskState, Interruption
  <1>4. SafetyInv /\ SafetyInv' /\ SeenAgrees /\ [Next]_vars =>
          [View!InAFewMoves("provider", Seen, Seen')]_Seen
    BY SeenMoves
  <1> QED
    BY <1>1, <1>2, <1>3, <1>4, SafetyInvariant, PTL DEF Spec, KeepsView
=============================================================================
