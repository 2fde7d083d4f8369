------------------------- MODULE SessionLifecycleTs -------------------------
(***************************************************************************)
(* The terminal client's copy of the lifecycle reducer, as written in      *)
(* session-lifecycle.ts.  It is a separate program in another language:    *)
(* it looks up one transition table before it looks at the input, and the  *)
(* checks on facts and on events are split differently.  The states and    *)
(* inputs are those of SessionLifecycle (camelCase fields renamed).        *)
(***************************************************************************)
EXTENDS SessionLifecycle

(* isLegalTransition, the table as a relation *)
TsLegalTransitions ==
  ({"task.submitted"} \X {"idle"})
    \cup ({"session.started"} \X {"starting"})
    \cup ({"assistant.delta", "assistant.completed", "session.completed"}
            \X {"running", "cancelling"})
    \cup ({"approval.requested"} \X {"running"})
    \cup ({"approval.resolved"} \X {"awaiting_approval"})
    \cup ({"cancel.requested"} \X {"running", "awaiting_approval"})
    \cup ({"session.cancelled"} \X {"cancelling"})
    \cup ({"session.failed"} \X {"running", "awaiting_approval", "cancelling"})

TsIsTerminal(status) == status \in {"completed", "cancelled", "failed"}

(* slip: a gap is let through *)
TsSequenceFailureLax(last, n) ==
  IF n < last + 1 THEN "sequence_regression" ELSE None

TsSequenceFailureCode(last, n) ==
  LET expected == last + 1
  IN IF n < expected THEN "sequence_regression"
     ELSE IF n > expected THEN "sequence_gap"
     ELSE None

(* the switch of reduceSessionEvent, once identity and order are settled   *)
TsReduceOrderedEvent(s, e) ==
  CASE e.type = "assistant.delta" ->
         IF s.assistant_completed THEN Reject(s, "assistant_after_completion")
         ELSE Accept([s EXCEPT !.assistant_text = @ \o e.text,
                               !.last_sequence = e.sequence])
    [] e.type = "assistant.completed" ->
         IF s.assistant_completed THEN Reject(s, "assistant_already_completed")
         ELSE IF e.text # s.assistant_text
           THEN Reject(s, "assistant_completion_mismatch")
         ELSE Accept([s EXCEPT !.assistant_completed = TRUE,
                               !.last_sequence = e.sequence])
    [] e.type = "session.completed" ->
         IF ~s.assistant_completed
           THEN Reject(s, "session_completion_before_assistant")
         ELSE Accept([s EXCEPT !.status = "completed", !.last_sequence = e.sequence])
    [] e.type = "session.cancelled" ->
         Accept([s EXCEPT !.status = "cancelled", !.last_sequence = e.sequence])
    [] e.type = "session.failed" ->
         Accept([s EXCEPT !.status = "failed", !.last_sequence = e.sequence,
                          !.session_failure = e.code])

TsReduceSessionEvent(s, e) ==
  LET expectedCorrelationId ==
        IF e.type = "session.cancelled" THEN s.cancel_command_id
        ELSE s.start_command_id
      sequenceFailure == TsSequenceFailureCode(s.last_sequence, e.sequence)
  IN IF e.correlation_id # expectedCorrelationId
       THEN Reject(s, "correlation_mismatch")
     ELSE IF e.type = "session.started"
       THEN IF sequenceFailure # None THEN Reject(s, sequenceFailure)
            ELSE Accept([s EXCEPT !.status = "running",
                                  !.session_id = e.session_id,
                                  !.last_sequence = e.sequence])
     ELSE IF e.session_id # s.session_id THEN Reject(s, "session_mismatch")
     ELSE IF sequenceFailure # None THEN Reject(s, sequenceFailure)
     ELSE TsReduceOrderedEvent(s, e)

TsReduceFact(s, u) ==
  IF u.type = "task.submitted"
    THEN Accept([InitialSessionState EXCEPT !.status = "starting",
                                            !.start_command_id = u.command_id])
  ELSE IF u.session_id # s.session_id THEN Reject(s, "session_mismatch")
  ELSE Accept(CASE u.type = "cancel.requested" ->
                     [s EXCEPT !.status = "cancelling",
                               !.cancel_command_id = u.command_id]
                [] u.type = "approval.requested" ->
                     [s EXCEPT !.status = "awaiting_approval"]
                [] u.type = "approval.resolved" -> [s EXCEPT !.status = "running"])

(* reduceSessionLifecycle *)
TsReduceSessionLifecycle(s, u) ==
  IF TsIsTerminal(s.status) THEN Reject(s, "terminal_state_absorbing")
  ELSE IF <<u.type, s.status>> \notin TsLegalTransitions
    THEN Reject(s, "illegal_transition")
  ELSE IF u.type \in EventTypes THEN TsReduceSessionEvent(s, u)
  ELSE TsReduceFact(s, u)
=============================================================================
