----------------------- MODULE SessionLifecycleProofs -----------------------
(***************************************************************************)
(* What the reducer does to every well-typed state and input, and the      *)
(* induction its folds need.                                               *)
(***************************************************************************)
EXTENDS SessionLifecycle, TLAPS, WellFoundedInduction

(* A session-scoped fact leaves a typed state if its replacement is one.   *)
LEMMA FactKeepsType ==
  ASSUME NEW s \in SessionState, NEW u, NEW legal, NEW next \in SessionState
  PROVE  ReduceSessionFact(s, u, legal, next).state \in SessionState
PROOF
  BY DEF ReduceSessionFact, Accept, Reject

(* An event that passes its checks leaves a typed state                    *)
(* (_reduce_session_event).                                                *)
LEMMA ApplyEventKeepsType ==
  ASSUME NEW s \in SessionState, NEW e, e.type \in EventTypes,
         e.session_id \in Sessions, e.sequence \in Nat, e.text \in Seq(Fragments),
         e.code \in Codes \cup {None}
  PROVE  ApplyEvent(s, e) \in SessionState
PROOF
  <1> DEFINE t == [s EXCEPT !.last_sequence = e.sequence]
  <1>1. t \in SessionState
    BY DEF SessionState
  <1>2. [t EXCEPT !.status = "running", !.session_id = e.session_id] \in SessionState
    BY <1>1 DEF SessionState, Statuses
  <1>3. [t EXCEPT !.assistant_text = @ \o e.text] \in SessionState
    <2>1. t.assistant_text \o e.text \in Seq(Fragments)
      BY <1>1 DEF SessionState
    <2> HIDE DEF t
    <2> QED
      BY <1>1, <2>1 DEF SessionState
  <1>4. [t EXCEPT !.assistant_completed = TRUE] \in SessionState
    BY <1>1 DEF SessionState
  <1>5. /\ [t EXCEPT !.status = "completed"] \in SessionState
        /\ [t EXCEPT !.status = "cancelled"] \in SessionState
    BY <1>1 DEF SessionState, Statuses, TerminalStatuses
  <1>6. [t EXCEPT !.status = "failed", !.session_failure = e.code] \in SessionState
    BY <1>1 DEF SessionState, Statuses, TerminalStatuses
  <1> HIDE DEF t
  <1> QED
    BY <1>2, <1>3, <1>4, <1>5, <1>6 DEF ApplyEvent, EventTypes, t

(* reduce_session_state leaves a typed state, whatever it is given: a fact *)
(* or an event, accepted or refused.                                       *)
LEMMA ReducerKeepsType ==
  ASSUME NEW s \in SessionState, NEW u \in Facts \cup WireEvents
  PROVE  After(s, u) \in SessionState
PROOF
  <1>1. CASE s.status \in TerminalStatuses
    BY <1>1 DEF After, ReduceSessionState, Reject
  <1>2. CASE s.status \notin TerminalStatuses /\ u \in WireEvents
    <2>1. u.type \in EventTypes
      BY <1>2 DEF WireEvents
    <2>2. ReduceSessionState(s, u) = ReduceSessionEvent(s, u)
      BY <1>2, <2>1 DEF ReduceSessionState, EventTypes
    <2>3. ApplyEvent(s, u) \in SessionState
      BY <1>2, ApplyEventKeepsType DEF WireEvents
    <2>4. ReduceSessionEvent(s, u).state \in SessionState
      BY <2>3 DEF ReduceSessionEvent, Accept, Reject
    <2> QED
      BY <2>2, <2>4 DEF After
  <1>3. CASE s.status \notin TerminalStatuses /\ u \in Facts /\ u.type = "task.submitted"
    <2>1. u.command_id \in Commands
      BY <1>3 DEF Facts
    <2>2. InitialSessionState \in SessionState
      BY DEF InitialSessionState, SessionState, Statuses
    <2>3. [InitialSessionState EXCEPT !.status = "starting",
                                      !.start_command_id = u.command_id] \in SessionState
      BY <2>1, <2>2 DEF SessionState, Statuses
    <2> QED
      BY <1>3, <2>3 DEF After, ReduceSessionState, Accept, Reject, EventTypes
  <1>4. CASE s.status \notin TerminalStatuses /\ u \in Facts /\ u.type = "cancel.requested"
    <2>1. u.command_id \in Commands
      BY <1>4 DEF Facts
    <2>2. [s EXCEPT !.status = "cancelling", !.cancel_command_id = u.command_id]
            \in SessionState
      BY <2>1 DEF SessionState, Statuses
    <2> QED
      BY <1>4, <2>2, FactKeepsType DEF After, ReduceSessionState, EventTypes
  <1>5. CASE /\ s.status \notin TerminalStatuses
             /\ u.type \in {"approval.requested", "approval.resolved"}
    <2>1. /\ [s EXCEPT !.status = "awaiting_approval"] \in SessionState
          /\ [s EXCEPT !.status = "running"] \in SessionState
      BY DEF SessionState, Statuses
    <2> QED
      BY <1>5, <2>1, FactKeepsType DEF After, ReduceSessionState, EventTypes
  <1>6. u \in Facts => u.type \in {"task.submitted", "cancel.requested",
                                   "approval.requested", "approval.resolved"}
    BY DEF Facts
  <1> QED
    BY <1>1, <1>2, <1>3, <1>4, <1>5, <1>6

(* An event is accepted when it passes its checks, and then it is applied; *)
(* refused, it changes nothing.                                            *)
LEMMA EventVerdict ==
  ASSUME NEW s, NEW e, e.type \in EventTypes
  PROVE  /\ Accepts(s, e) <=>
              s.status \notin TerminalStatuses /\ EventFailure(s, e) = None
         /\ After(s, e) = IF Accepts(s, e) THEN ApplyEvent(s, e) ELSE s
PROOF
  <1>1. CASE s.status \in TerminalStatuses
    <2>1. ReduceSessionState(s, e) = Reject(s, "terminal_state_absorbing")
      BY <1>1 DEF ReduceSessionState
    <2>2. ~Accepts(s, e) /\ After(s, e) = s
      BY <2>1, NoneAssumption DEF Accepts, After, Reject, FailureCodes
    <2> QED
      BY <1>1, <2>2
  <1>2. CASE s.status \notin TerminalStatuses
    <2>1. ReduceSessionState(s, e) = ReduceSessionEvent(s, e)
      BY <1>2 DEF ReduceSessionState, EventTypes
    <2>2. IF EventFailure(s, e) = None
            THEN Accepts(s, e) /\ After(s, e) = ApplyEvent(s, e)
            ELSE ~Accepts(s, e) /\ After(s, e) = s
      BY <2>1 DEF ReduceSessionEvent, Accepts, After, Accept, Reject
    <2> QED
      BY <1>2, <2>2
  <1> QED
    BY <1>1, <1>2

-----------------------------------------------------------------------------
(* What the reducer says of the inputs a session gives it, and what it     *)
(* leaves, field by field: the facts about the reducer that both session   *)
(* implementations are proved from.  In each the event carries the next    *)
(* sequence, and s is any typed state in the status the event needs.       *)

(* What no accepted input but a task ever touches.                         *)
SameTask(s, t) == t.start_command_id = s.start_command_id
SameText(s, t) ==
  /\ t.assistant_text = s.assistant_text
  /\ t.assistant_completed = s.assistant_completed
SameIdentity(s, t) ==
  /\ SameTask(s, t)
  /\ t.session_id = s.session_id
  /\ t.cancel_command_id = s.cancel_command_id

(* TaskSubmitted, to a fresh state.                                        *)
LEMMA TaskAccepted ==
  ASSUME NEW c \in Commands
  PROVE  LET t == After(InitialSessionState, TaskSubmitted(c))
         IN /\ t.status = "starting" /\ t.start_command_id = c
            /\ t.session_id = None /\ t.cancel_command_id = None
            /\ t.last_sequence = 0 /\ t.session_failure = None
            /\ t.assistant_text = << >> /\ t.assistant_completed = FALSE
PROOF
  <1>1. After(InitialSessionState, TaskSubmitted(c)) =
          [InitialSessionState EXCEPT !.status = "starting", !.start_command_id = c]
    BY DEF After, ReduceSessionState, TaskSubmitted, InitialSessionState, Accept,
           EventTypes, TerminalStatuses
  <1> QED
    BY <1>1 DEF InitialSessionState

(* session.started, and no other event, is accepted while starting.        *)
LEMMA StartedAccepted ==
  ASSUME NEW s \in SessionState, s.status = "starting", NEW sid \in Sessions
  PROVE  LET e == WireEvent("session.started", s.start_command_id, sid,
                            s.last_sequence + 1, << >>, None)
             t == After(s, e)
         IN /\ Accepts(s, e)
            /\ t.status = "running" /\ t.session_id = sid
            /\ t.last_sequence = s.last_sequence + 1
            /\ t.cancel_command_id = s.cancel_command_id
            /\ t.session_failure = s.session_failure
            /\ SameTask(s, t) /\ SameText(s, t)
PROOF
  <1> DEFINE e == WireEvent("session.started", s.start_command_id, sid,
                            s.last_sequence + 1, << >>, None)
  <1>1. EventFailure(s, e) = None
    BY DEF EventFailure, LegalStatuses, ExpectedCorrelation, SequenceFailure,
           PayloadFailure, WireEvent, SessionState
  <1>2. ReduceSessionState(s, e) = Accept(ApplyEvent(s, e))
    BY <1>1 DEF ReduceSessionState, ReduceSessionEvent, WireEvent, EventTypes,
                TerminalStatuses
  <1>3. Accepts(s, e) /\ After(s, e) = ApplyEvent(s, e)
    BY <1>2 DEF Accepts, After, Accept
  <1> QED
    BY <1>3 DEF ApplyEvent, WireEvent, SessionState, SameTask, SameText

(* assistant.delta, until the text is completed, whether or not a          *)
(* cancellation is pending.                                                *)
LEMMA DeltaAccepted ==
  ASSUME NEW s \in SessionState, s.status \in {"running", "cancelling"},
         ~s.assistant_completed, NEW text \in Seq(Fragments)
  PROVE  LET e == WireEvent("assistant.delta", s.start_command_id, s.session_id,
                            s.last_sequence + 1, text, None)
             t == After(s, e)
         IN /\ Accepts(s, e)
            /\ t.assistant_text = s.assistant_text \o text
            /\ t.last_sequence = s.last_sequence + 1
            /\ t.status = s.status /\ t.session_failure = s.session_failure
            /\ t.assistant_completed = s.assistant_completed
            /\ SameIdentity(s, t)
PROOF
  <1> DEFINE e == WireEvent("assistant.delta", s.start_command_id, s.session_id,
                            s.last_sequence + 1, text, None)
  <1>1. EventFailure(s, e) = None
    BY DEF EventFailure, LegalStatuses, ExpectedCorrelation, SequenceFailure,
           PayloadFailure, WireEvent, SessionState
  <1>2. ReduceSessionState(s, e) = Accept(ApplyEvent(s, e))
    BY <1>1 DEF ReduceSessionState, ReduceSessionEvent, WireEvent, EventTypes,
                TerminalStatuses
  <1>3. Accepts(s, e) /\ After(s, e) = ApplyEvent(s, e)
    BY <1>2 DEF Accepts, After, Accept
  <1> QED
    BY <1>3 DEF ApplyEvent, WireEvent, SessionState, SameTask, SameIdentity

(* assistant.completed, once, with exactly the text that was reduced.      *)
LEMMA SealAccepted ==
  ASSUME NEW s \in SessionState, s.status \in {"running", "cancelling"},
         ~s.assistant_completed
  PROVE  LET e == WireEvent("assistant.completed", s.start_command_id, s.session_id,
                            s.last_sequence + 1, s.assistant_text, None)
             t == After(s, e)
         IN /\ Accepts(s, e)
            /\ t.assistant_completed = TRUE
            /\ t.last_sequence = s.last_sequence + 1
            /\ t.status = s.status /\ t.session_failure = s.session_failure
            /\ t.assistant_text = s.assistant_text
            /\ SameIdentity(s, t)
PROOF
  <1> DEFINE e == WireEvent("assistant.completed", s.start_command_id, s.session_id,
                            s.last_sequence + 1, s.assistant_text, None)
  <1>1. EventFailure(s, e) = None
    BY DEF EventFailure, LegalStatuses, ExpectedCorrelation, SequenceFailure,
           PayloadFailure, WireEvent, SessionState
  <1>2. ReduceSessionState(s, e) = Accept(ApplyEvent(s, e))
    BY <1>1 DEF ReduceSessionState, ReduceSessionEvent, WireEvent, EventTypes,
                TerminalStatuses
  <1>3. Accepts(s, e) /\ After(s, e) = ApplyEvent(s, e)
    BY <1>2 DEF Accepts, After, Accept
  <1> QED
    BY <1>3 DEF ApplyEvent, WireEvent, SessionState, SameTask, SameIdentity

(* The status a terminal event leaves.                                     *)
TerminalStatus(type) ==
  CASE type = "session.completed" -> "completed"
    [] type = "session.failed" -> "failed"
    [] type = "session.cancelled" -> "cancelled"

(* A terminal event: a completion of a completed text, a failure, or the   *)
(* end of the cancellation that is pending.                                *)
LEMMA TerminalAccepted ==
  ASSUME NEW s \in SessionState, s.status \in {"running", "cancelling"},
         NEW type \in {"session.completed", "session.failed", "session.cancelled"},
         NEW correlation, NEW code,
         type = "session.completed" => s.assistant_completed,
         type = "session.cancelled" =>
           s.status = "cancelling" /\ correlation = s.cancel_command_id,
         type # "session.cancelled" => correlation = s.start_command_id
  PROVE  LET e == WireEvent(type, correlation, s.session_id, s.last_sequence + 1,
                            << >>, code)
             t == After(s, e)
         IN /\ Accepts(s, e)
            /\ t.status = TerminalStatus(type)
            /\ t.last_sequence = s.last_sequence + 1
            /\ t.session_failure = IF type = "session.failed" THEN code
                                   ELSE s.session_failure
            /\ SameText(s, t) /\ SameIdentity(s, t)
PROOF
  <1> DEFINE e == WireEvent(type, correlation, s.session_id, s.last_sequence + 1,
                            << >>, code)
  <1>1. EventFailure(s, e) = None
    BY DEF EventFailure, LegalStatuses, ExpectedCorrelation, SequenceFailure,
           PayloadFailure, WireEvent, SessionState
  <1>2. ReduceSessionState(s, e) = Accept(ApplyEvent(s, e))
    BY <1>1 DEF ReduceSessionState, ReduceSessionEvent, WireEvent, EventTypes,
                TerminalStatuses
  <1>3. Accepts(s, e) /\ After(s, e) = ApplyEvent(s, e)
    BY <1>2 DEF Accepts, After, Accept
  <1> DEFINE next == [s EXCEPT !.last_sequence = e.sequence]
  <1>4. After(s, e) = IF type = "session.failed"
                        THEN [next EXCEPT !.status = "failed", !.session_failure = e.code]
                        ELSE [next EXCEPT !.status = TerminalStatus(type)]
    BY <1>3 DEF ApplyEvent, WireEvent, TerminalStatus
  <1> QED
    BY <1>3, <1>4 DEF WireEvent, SessionState, SameTask, SameText, SameIdentity,
                      TerminalStatus

(* CancelRequested, while running.                                         *)
LEMMA CancellationAccepted ==
  ASSUME NEW s \in SessionState, s.status = "running", NEW c \in Commands
  PROVE  LET u == CancelRequested(c, s.session_id)
             t == After(s, u)
         IN /\ Accepts(s, u)
            /\ t.status = "cancelling" /\ t.cancel_command_id = c
            /\ t.session_id = s.session_id
            /\ t.last_sequence = s.last_sequence
            /\ t.session_failure = s.session_failure
            /\ SameTask(s, t) /\ SameText(s, t)
PROOF
  <1> DEFINE u == CancelRequested(c, s.session_id)
  <1>1. ReduceSessionState(s, u) =
          Accept([s EXCEPT !.status = "cancelling", !.cancel_command_id = c])
    BY DEF ReduceSessionState, ReduceSessionFact, CancelRequested, TerminalStatuses,
           EventTypes
  <1>2. /\ Accepts(s, u)
        /\ After(s, u) = [s EXCEPT !.status = "cancelling", !.cancel_command_id = c]
    BY <1>1 DEF Accepts, After, Accept
  <1> QED
    BY <1>2 DEF SessionState, SameTask, SameText

-----------------------------------------------------------------------------
(* What the reducer does to the text, whether or not it accepts.           *)

(* An event is text, or leaves the text alone; refused, it leaves it alone *)
(* in any case.                                                            *)
LEMMA EventText ==
  ASSUME NEW s \in SessionState, NEW type \in EventTypes, NEW correlation,
         NEW sid, NEW n, NEW text, NEW code
  PROVE  LET e == WireEvent(type, correlation, sid, n, text, code)
         IN After(s, e).assistant_text =
              IF Accepts(s, e) /\ type = "assistant.delta"
                THEN s.assistant_text \o text ELSE s.assistant_text
PROOF
  <1> DEFINE e == WireEvent(type, correlation, sid, n, text, code)
  <1>1. e.type = type /\ e.text = text
    BY DEF WireEvent
  <1> HIDE DEF e
  <1>2. After(s, e) = IF Accepts(s, e) THEN ApplyEvent(s, e) ELSE s
    BY <1>1, EventVerdict
  <1>3. ApplyEvent(s, e).assistant_text =
          IF type = "assistant.delta" THEN s.assistant_text \o text
          ELSE s.assistant_text
    BY <1>1 DEF ApplyEvent, EventTypes, SessionState
  <1> QED
    BY <1>2, <1>3 DEF e

(* A cancellation leaves the text alone. *)
LEMMA CancellationText ==
  ASSUME NEW s \in SessionState, NEW c, NEW sid
  PROVE  After(s, CancelRequested(c, sid)).assistant_text = s.assistant_text
PROOF
  BY DEF After, ReduceSessionState, ReduceSessionFact, CancelRequested, Accept, Reject,
         EventTypes, SessionState

(* Induction over a set of numbers, from the well-foundedness of their     *)
(* order.                                                                  *)
LEMMA SetInduction ==
  ASSUME NEW S, 0 \in S, \A n \in Nat : n \in S => n + 1 \in S
  PROVE  Nat \subseteq S
PROOF
  <1> DEFINE T == Nat \ S
  <1> DEFINE R == {p \in Nat \X Nat : p[1] < p[2]}
  <1>1. IsWellFoundedOn(R, Nat)
    BY NatLessThanWellFounded DEF OpToRel
  <1>2. SUFFICES ASSUME T # {} PROVE FALSE
    OBVIOUS
  <1>3. T \subseteq Nat
    OBVIOUS
  <1>4. PICK x \in T : \A y \in T : <<y, x>> \notin R
    <2> HIDE DEF R, T
    <2> QED
      BY <1>1, <1>2, <1>3, WFMin
  <1>5. x # 0 /\ x \in Nat
    OBVIOUS
  <1>6. x - 1 \in Nat /\ x - 1 < x
    BY <1>5
  <1>7. x - 1 \notin T
    BY <1>4, <1>5, <1>6
  <1> QED
    BY <1>5, <1>6, <1>7
=============================================================================
