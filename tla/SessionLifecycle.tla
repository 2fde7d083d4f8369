-------------------------- MODULE SessionLifecycle --------------------------
(***************************************************************************)
(* The lifecycle reducer that owns the meaning of one session, as written  *)
(* in session_state.py.  Both session implementations feed it every fact   *)
(* they accept and every event they have written; the transcript replays   *)
(* it; the terminal client carries a second copy (SessionLifecycleTs).     *)
(*                                                                         *)
(* A text is a sequence of fragments, so that appending and comparing      *)
(* texts keep their meaning while characters disappear.  The task text and *)
(* the failure message are carried by the code and never examined: they    *)
(* are left out.                                                           *)
(***************************************************************************)
EXTENDS Integers, Sequences

CONSTANTS
  Commands,   \* command ids: of the task, and of its cancellations
  Sessions,   \* session ids
  Fragments,  \* pieces of assistant text
  Codes,      \* codes carried by session.failed
  None        \* an identity or failure that is not set

(* InvariantFailureCode *)
FailureCodes ==
  {"illegal_transition", "correlation_mismatch", "session_mismatch",
   "sequence_regression", "sequence_gap", "assistant_after_completion",
   "assistant_already_completed", "assistant_completion_mismatch",
   "session_completion_before_assistant", "terminal_state_absorbing"}

ASSUME NoneAssumption ==
  None \notin Commands \cup Sessions \cup Codes \cup FailureCodes

TerminalStatuses == {"completed", "cancelled", "failed"}
Statuses ==
  {"idle", "starting", "running", "awaiting_approval", "cancelling"}
    \cup TerminalStatuses

EventTypes == {"session.started", "assistant.delta", "assistant.completed",
               "session.completed", "session.cancelled", "session.failed"}

SessionState ==
  [status : Statuses,
   start_command_id : Commands \cup {None},
   session_id : Sessions \cup {None},
   cancel_command_id : Commands \cup {None},
   last_sequence : Nat,
   assistant_text : Seq(Fragments),
   assistant_completed : BOOLEAN,
   session_failure : Codes \cup {None}]

InitialSessionState ==
  [status |-> "idle", start_command_id |-> None, session_id |-> None,
   cancel_command_id |-> None, last_sequence |-> 0, assistant_text |-> << >>,
   assistant_completed |-> FALSE, session_failure |-> None]

(* Trusted local facts ... *)
TaskSubmitted(c) == [type |-> "task.submitted", command_id |-> c]
CancelRequested(c, s) ==
  [type |-> "cancel.requested", command_id |-> c, session_id |-> s]
ApprovalRequested(s) == [type |-> "approval.requested", session_id |-> s]
ApprovalResolved(s) == [type |-> "approval.resolved", session_id |-> s]

(* ... and wire events.  text is the payload of the two assistant events,  *)
(* code that of session.failed.                                            *)
WireEvent(t, corr, s, n, text, code) ==
  [type |-> t, correlation_id |-> corr, session_id |-> s, sequence |-> n,
   text |-> text, code |-> code]

Facts ==
  [type : {"task.submitted"}, command_id : Commands]
    \cup [type : {"cancel.requested"}, command_id : Commands, session_id : Sessions]
    \cup [type : {"approval.requested", "approval.resolved"}, session_id : Sessions]

WireEvents ==
  [type : EventTypes, correlation_id : Commands, session_id : Sessions,
   sequence : Nat, text : Seq(Fragments), code : Codes \cup {None}]

Accept(s) == [state |-> s, failure |-> None]
Reject(s, f) == [state |-> s, failure |-> f]

-----------------------------------------------------------------------------
(* _reduce_session_event: the checks in the order the code makes them.     *)

LegalStatuses(type) ==
  CASE type = "session.started" -> {"starting"}
    [] type \in {"assistant.delta", "assistant.completed", "session.completed"} ->
         {"running", "cancelling"}
    [] type = "session.cancelled" -> {"cancelling"}
    [] type = "session.failed" -> {"running", "awaiting_approval", "cancelling"}

ExpectedCorrelation(s, e) ==
  IF e.type = "session.cancelled" THEN s.cancel_command_id ELSE s.start_command_id

SequenceFailure(s, n) ==
  IF n < s.last_sequence + 1 THEN "sequence_regression"
  ELSE IF n > s.last_sequence + 1 THEN "sequence_gap"
  ELSE None

(* slips: text after assistant.completed; a completion without it *)
PayloadFailureLateText(s, e) ==
  IF e.type = "assistant.completed" /\ s.assistant_completed
    THEN "assistant_already_completed"
  ELSE IF e.type = "assistant.completed" /\ e.text # s.assistant_text
    THEN "assistant_completion_mismatch"
  ELSE IF e.type = "session.completed" /\ ~s.assistant_completed
    THEN "session_completion_before_assistant"
  ELSE None
PayloadFailureUnsealed(s, e) ==
  IF e.type = "assistant.delta" /\ s.assistant_completed
    THEN "assistant_after_completion"
  ELSE IF e.type = "assistant.completed" /\ s.assistant_completed
    THEN "assistant_already_completed"
  ELSE IF e.type = "assistant.completed" /\ e.text # s.assistant_text
    THEN "assistant_completion_mismatch"
  ELSE None

PayloadFailure(s, e) ==
  IF e.type = "assistant.delta" /\ s.assistant_completed
    THEN "assistant_after_completion"
  ELSE IF e.type = "assistant.completed" /\ s.assistant_completed
    THEN "assistant_already_completed"
  ELSE IF e.type = "assistant.completed" /\ e.text # s.assistant_text
    THEN "assistant_completion_mismatch"
  ELSE IF e.type = "session.completed" /\ ~s.assistant_completed
    THEN "session_completion_before_assistant"
  ELSE None

EventFailure(s, e) ==
  IF s.status \notin LegalStatuses(e.type) THEN "illegal_transition"
  ELSE IF e.correlation_id # ExpectedCorrelation(s, e) THEN "correlation_mismatch"
  ELSE IF e.type # "session.started" /\ e.session_id # s.session_id
    THEN "session_mismatch"
  ELSE IF SequenceFailure(s, e.sequence) # None THEN SequenceFailure(s, e.sequence)
  ELSE PayloadFailure(s, e)

ApplyEvent(s, e) ==
  LET t == [s EXCEPT !.last_sequence = e.sequence]
  IN CASE e.type = "session.started" ->
            [t EXCEPT !.status = "running", !.session_id = e.session_id]
       [] e.type = "assistant.delta" -> [t EXCEPT !.assistant_text = @ \o e.text]
       [] e.type = "assistant.completed" -> [t EXCEPT !.assistant_completed = TRUE]
       [] e.type = "session.completed" -> [t EXCEPT !.status = "completed"]
       [] e.type = "session.cancelled" -> [t EXCEPT !.status = "cancelled"]
       [] e.type = "session.failed" ->
            [t EXCEPT !.status = "failed", !.session_failure = e.code]

ReduceSessionEvent(s, e) ==
  IF EventFailure(s, e) = None THEN Accept(ApplyEvent(s, e))
  ELSE Reject(s, EventFailure(s, e))

-----------------------------------------------------------------------------
(* reduce_session_state *)

(* The three session-scoped facts differ in their legal statuses and in    *)
(* the fields they replace.                                                *)
ReduceSessionFact(s, u, legal, next) ==
  IF s.status \notin legal THEN Reject(s, "illegal_transition")
  ELSE IF u.session_id # s.session_id THEN Reject(s, "session_mismatch")
  ELSE Accept(next)

ReduceSessionState(s, u) ==
  IF s.status \in TerminalStatuses THEN Reject(s, "terminal_state_absorbing")
  ELSE CASE u.type = "task.submitted" ->
              IF s.status # "idle" THEN Reject(s, "illegal_transition")
              ELSE Accept([InitialSessionState EXCEPT
                             !.status = "starting", !.start_command_id = u.command_id])
         [] u.type = "cancel.requested" ->
              ReduceSessionFact(s, u, {"running", "awaiting_approval"},
                [s EXCEPT !.status = "cancelling", !.cancel_command_id = u.command_id])
         [] u.type = "approval.requested" ->
              ReduceSessionFact(s, u, {"running"},
                [s EXCEPT !.status = "awaiting_approval"])
         [] u.type = "approval.resolved" ->
              ReduceSessionFact(s, u, {"awaiting_approval"},
                [s EXCEPT !.status = "running"])
         [] u.type \in EventTypes -> ReduceSessionEvent(s, u)

Accepts(s, u) == ReduceSessionState(s, u).failure = None
After(s, u) == ReduceSessionState(s, u).state
=============================================================================
