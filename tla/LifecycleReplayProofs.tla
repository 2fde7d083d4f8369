------------------------ MODULE LifecycleReplayProofs ------------------------
(***************************************************************************)
(* The two reducers, folded over one stream of any length: they are one    *)
(* function, and it accepts exactly the histories of one session.  The two *)
(* line readers, fed one stream in any chunks: both report what it means.  *)
(***************************************************************************)
EXTENDS LifecycleReplay, LineReaders, SessionLifecycleProofs, FiniteSetTheorems,
        SequenceTheorems

-----------------------------------------------------------------------------
(* Part one: the Python reducer and its TypeScript copy. *)

(* The checks of an event fail alike, and at their end it is applied       *)
(* alike, though one program asks the transition table first and the other *)
(* keeps its statuses beside each kind.                                    *)
LEMMA TwinsReduceEvents ==
  ASSUME NEW s \in SessionState, s.status \notin TerminalStatuses,
         NEW e, e.type \in EventTypes
  PROVE  ReduceSessionState(s, e) = TsReduceSessionLifecycle(s, e)
PROOF
  <1>1. ReduceSessionState(s, e) = ReduceSessionEvent(s, e)
    BY DEF ReduceSessionState, EventTypes
  <1>2. /\ ~TsIsTerminal(s.status)
        /\ <<e.type, s.status>> \in TsLegalTransitions
             <=> s.status \in LegalStatuses(e.type)
    BY DEF TsIsTerminal, TerminalStatuses, TsLegalTransitions, LegalStatuses, EventTypes
  <1>3. CASE s.status \notin LegalStatuses(e.type)
    <2>1. EventFailure(s, e) = "illegal_transition"
      BY <1>3 DEF EventFailure
    <2>2. ReduceSessionEvent(s, e) = Reject(s, "illegal_transition")
      BY <2>1, NoneAssumption DEF ReduceSessionEvent, FailureCodes
    <2>3. TsReduceSessionLifecycle(s, e) = Reject(s, "illegal_transition")
      BY <1>2, <1>3 DEF TsReduceSessionLifecycle
    <2> QED
      BY <1>1, <2>2, <2>3
  <1>4. CASE s.status \in LegalStatuses(e.type)
    <2>1. TsReduceSessionLifecycle(s, e) = TsReduceSessionEvent(s, e)
      BY <1>2, <1>4 DEF TsReduceSessionLifecycle
    <2>2. TsSequenceFailureCode(s.last_sequence, e.sequence)
            = SequenceFailure(s, e.sequence)
      BY DEF TsSequenceFailureCode, SequenceFailure
    <2>3. CASE e.correlation_id # ExpectedCorrelation(s, e)
      <3>1. EventFailure(s, e) = "correlation_mismatch"
        BY <1>4, <2>3 DEF EventFailure
      <3>2. ReduceSessionEvent(s, e) = Reject(s, "correlation_mismatch")
        BY <3>1, NoneAssumption DEF ReduceSessionEvent, FailureCodes
      <3>3. TsReduceSessionEvent(s, e) = Reject(s, "correlation_mismatch")
        BY <2>3 DEF TsReduceSessionEvent, ExpectedCorrelation
      <3> QED
        BY <1>1, <2>1, <3>2, <3>3
    <2>4. CASE /\ e.correlation_id = ExpectedCorrelation(s, e)
               /\ e.type # "session.started" /\ e.session_id # s.session_id
      <3>1. EventFailure(s, e) = "session_mismatch"
        BY <1>4, <2>4 DEF EventFailure
      <3>2. ReduceSessionEvent(s, e) = Reject(s, "session_mismatch")
        BY <3>1, NoneAssumption DEF ReduceSessionEvent, FailureCodes
      <3>3. TsReduceSessionEvent(s, e) = Reject(s, "session_mismatch")
        BY <2>4 DEF TsReduceSessionEvent, ExpectedCorrelation
      <3> QED
        BY <1>1, <2>1, <3>2, <3>3
    <2>5. CASE /\ e.correlation_id = ExpectedCorrelation(s, e)
               /\ e.type = "session.started" \/ e.session_id = s.session_id
               /\ SequenceFailure(s, e.sequence) # None
      <3>1. EventFailure(s, e) = SequenceFailure(s, e.sequence)
        BY <1>4, <2>5 DEF EventFailure
      <3>2. ReduceSessionEvent(s, e) = Reject(s, SequenceFailure(s, e.sequence))
        BY <2>5, <3>1 DEF ReduceSessionEvent
      <3>3. TsReduceSessionEvent(s, e) = Reject(s, SequenceFailure(s, e.sequence))
        BY <2>2, <2>5 DEF TsReduceSessionEvent, ExpectedCorrelation
      <3> QED
        BY <1>1, <2>1, <3>2, <3>3
    <2>6. CASE /\ e.correlation_id = ExpectedCorrelation(s, e)
               /\ e.type = "session.started" \/ e.session_id = s.session_id
               /\ SequenceFailure(s, e.sequence) = None
      <3>1. EventFailure(s, e) = PayloadFailure(s, e)
        BY <1>4, <2>6 DEF EventFailure
      <3>2. ReduceSessionEvent(s, e) =
              IF PayloadFailure(s, e) = None THEN Accept(ApplyEvent(s, e))
              ELSE Reject(s, PayloadFailure(s, e))
        BY <3>1 DEF ReduceSessionEvent
      <3>3. CASE e.type = "session.started"
        <4>1. PayloadFailure(s, e) = None
          BY <3>3 DEF PayloadFailure
        <4>2. TsReduceSessionEvent(s, e) =
                Accept([s EXCEPT !.status = "running", !.session_id = e.session_id,
                                 !.last_sequence = e.sequence])
          BY <2>2, <2>6, <3>3 DEF TsReduceSessionEvent, ExpectedCorrelation
        <4>3. ApplyEvent(s, e) =
                [s EXCEPT !.status = "running", !.session_id = e.session_id,
                          !.last_sequence = e.sequence]
          BY <3>3 DEF ApplyEvent, SessionState
        <4> QED
          BY <1>1, <2>1, <3>2, <4>1, <4>2, <4>3
      <3>4. CASE e.type # "session.started"
        <4>1. TsReduceSessionEvent(s, e) = TsReduceOrderedEvent(s, e)
          BY <2>2, <2>6, <3>4 DEF TsReduceSessionEvent, ExpectedCorrelation
        <4>2. CASE e.type = "assistant.delta"
          <5>1. ApplyEvent(s, e) = [s EXCEPT !.assistant_text = @ \o e.text,
                                             !.last_sequence = e.sequence]
            BY <4>2 DEF ApplyEvent, SessionState
          <5>2. PayloadFailure(s, e) =
                  IF s.assistant_completed THEN "assistant_after_completion" ELSE None
            BY <4>2 DEF PayloadFailure
          <5> QED
            BY <1>1, <2>1, <3>2, <4>1, <4>2, <5>1, <5>2, NoneAssumption
            DEF TsReduceOrderedEvent, FailureCodes
        <4>3. CASE e.type = "assistant.completed"
          <5>1. ApplyEvent(s, e) = [s EXCEPT !.assistant_completed = TRUE,
                                             !.last_sequence = e.sequence]
            BY <4>3 DEF ApplyEvent, SessionState
          <5>2. PayloadFailure(s, e) =
                  IF s.assistant_completed THEN "assistant_already_completed"
                  ELSE IF e.text # s.assistant_text THEN "assistant_completion_mismatch"
                  ELSE None
            BY <4>3 DEF PayloadFailure
          <5> QED
            BY <1>1, <2>1, <3>2, <4>1, <4>3, <5>1, <5>2, NoneAssumption
            DEF TsReduceOrderedEvent, FailureCodes
        <4>4. CASE e.type = "session.completed"
          <5>1. ApplyEvent(s, e) = [s EXCEPT !.status = "completed",
                                             !.last_sequence = e.sequence]
            BY <4>4 DEF ApplyEvent, SessionState
          <5>2. PayloadFailure(s, e) =
                  IF ~s.assistant_completed THEN "session_completion_before_assistant"
                  ELSE None
            BY <4>4 DEF PayloadFailure
          <5> QED
            BY <1>1, <2>1, <3>2, <4>1, <4>4, <5>1, <5>2, NoneAssumption
            DEF TsReduceOrderedEvent, FailureCodes
        <4>5. CASE e.type = "session.cancelled"
          <5>1. ApplyEvent(s, e) = [s EXCEPT !.status = "cancelled",
                                             !.last_sequence = e.sequence]
            BY <4>5 DEF ApplyEvent, SessionState
          <5>2. PayloadFailure(s, e) = None
            BY <4>5 DEF PayloadFailure
          <5> QED
            BY <1>1, <2>1, <3>2, <4>1, <4>5, <5>1, <5>2 DEF TsReduceOrderedEvent
        <4>6. CASE e.type = "session.failed"
          <5>1. ApplyEvent(s, e) = [s EXCEPT !.status = "failed",
                                             !.last_sequence = e.sequence,
                                             !.session_failure = e.code]
            BY <4>6 DEF ApplyEvent, SessionState
          <5>2. PayloadFailure(s, e) = None
            BY <4>6 DEF PayloadFailure
          <5> QED
            BY <1>1, <2>1, <3>2, <4>1, <4>6, <5>1, <5>2 DEF TsReduceOrderedEvent
        <4> QED
          BY <3>4, <4>2, <4>3, <4>4, <4>5, <4>6 DEF EventTypes
      <3> QED
        BY <3>3, <3>4
    <2> QED
      BY <2>3, <2>4, <2>5, <2>6
  <1> QED
    BY <1>3, <1>4

(* The two programs are one function of every state and every input.       *)
LEMMA TwinsReduceAlike ==
  ASSUME NEW s \in SessionState, NEW u \in Facts \cup WireEvents
  PROVE  ReduceSessionState(s, u) = TsReduceSessionLifecycle(s, u)
PROOF
  <1>1. u \in Facts => u.type \in {"task.submitted", "cancel.requested",
                                   "approval.requested", "approval.resolved"}
    BY DEF Facts
  <1>2. u \in WireEvents => u.type \in EventTypes
    BY DEF WireEvents
  <1>3. CASE s.status \in TerminalStatuses
    BY <1>3 DEF ReduceSessionState, TsReduceSessionLifecycle, TsIsTerminal,
                TerminalStatuses
  <1>4. CASE s.status \notin TerminalStatuses /\ u \in WireEvents
    BY <1>2, <1>4, TwinsReduceEvents
  <1>5. CASE s.status \notin TerminalStatuses /\ u.type = "task.submitted"
    BY <1>5 DEF ReduceSessionState, TsReduceSessionLifecycle, TsIsTerminal,
                TerminalStatuses, TsLegalTransitions, TsReduceFact, EventTypes
  <1>6. CASE s.status \notin TerminalStatuses /\ u.type = "cancel.requested"
    BY <1>6 DEF ReduceSessionState, ReduceSessionFact, TsReduceSessionLifecycle,
                TsIsTerminal, TerminalStatuses, TsLegalTransitions, TsReduceFact,
                EventTypes
  <1>7. CASE s.status \notin TerminalStatuses /\ u.type = "approval.requested"
    BY <1>7 DEF ReduceSessionState, ReduceSessionFact, TsReduceSessionLifecycle,
                TsIsTerminal, TerminalStatuses, TsLegalTransitions, TsReduceFact,
                EventTypes
  <1>8. CASE s.status \notin TerminalStatuses /\ u.type = "approval.resolved"
    BY <1>8 DEF ReduceSessionState, ReduceSessionFact, TsReduceSessionLifecycle,
                TsIsTerminal, TerminalStatuses, TsLegalTransitions, TsReduceFact,
                EventTypes
  <1> QED
    BY <1>1, <1>3, <1>4, <1>5, <1>6, <1>7, <1>8

(* What is offered to a typed projection are facts and wire events.        *)
LEMMA InputsAreTyped ==
  ASSUME python \in SessionState
  PROVE  Inputs \subseteq Facts \cup WireEvents
PROOF
  <1> SUFFICES ASSUME NEW u \in Inputs, u \notin Facts PROVE u \in WireEvents
    OBVIOUS
  <1>1. PICK t \in EventTypes :
          u \in [type : {t}, correlation_id : Commands, session_id : Sessions,
                 sequence : NearSequences, text : PayloadTexts(t), code : Codes]
    BY DEF Inputs
  <1>2. NearSequences \subseteq Nat
    BY DEF NearSequences, SessionState
  <1>3. CompletionTexts \subseteq Seq(Fragments)
    <2> SUFFICES ASSUME NEW x \in CompletionTexts PROVE x \in Seq(Fragments)
      OBVIOUS
    <2>1. python.assistant_text \in Seq(Fragments)
      BY DEF SessionState
    <2>2. \/ x = python.assistant_text
          \/ x = << >>
          \/ \E f \in Fragments : x = Append(python.assistant_text, f)
      BY DEF CompletionTexts
    <2>3. /\ << >> \in Seq(Fragments)
          /\ \A q \in Seq(Fragments), f \in Fragments : Append(q, f) \in Seq(Fragments)
      OBVIOUS
    <2> QED
      BY <2>1, <2>2, <2>3
  <1>4. PayloadTexts(t) \subseteq Seq(Fragments)
    <2> SUFFICES ASSUME NEW x \in PayloadTexts(t) PROVE x \in Seq(Fragments)
      OBVIOUS
    <2>1. \/ x \in CompletionTexts
          \/ x = << >>
          \/ \E f \in Fragments : x = <<f>>
      BY <1>1 DEF PayloadTexts, EventTypes
    <2>2. << >> \in Seq(Fragments) /\ \A f \in Fragments : <<f>> \in Seq(Fragments)
      OBVIOUS
    <2> QED
      BY <1>3, <2>1, <2>2
  <1> QED
    BY <1>1, <1>2, <1>4 DEF WireEvents

(* Both programs are folded over one stream, so they hold one projection.  *)
Twins == python \in SessionState /\ typescript = python

(* ReducersAgree: whatever stream session_state.py and its copy in the     *)
(* terminal client were folded over, they hold the same projection and     *)
(* give every next input the same verdict, failure code included.          *)
THEOREM TwinReducersAgree == Spec => []ReducersAgree
PROOF
  <1>1. Init => Twins
    <2>1. InitialSessionState \in SessionState
      BY DEF InitialSessionState, SessionState, Statuses
    <2> QED
      BY <2>1 DEF Init, Twins
  <1>2. Twins /\ [Next]_vars => Twins'
    <2> SUFFICES ASSUME Twins, [Next]_vars PROVE Twins'
      OBVIOUS
    <2>1. CASE Next
      <3>1. PICK u \in Inputs : Replay(u)
        BY <2>1 DEF Next
      <3>2. u \in Facts \cup WireEvents
        BY InputsAreTyped DEF Twins
      <3> QED
        BY <3>1, <3>2, TwinsReduceAlike, ReducerKeepsType DEF Twins, Replay, After
    <2>2. CASE UNCHANGED vars
      BY <2>2 DEF Twins, vars
    <2> QED
      BY <2>1, <2>2
  <1>3. Twins => ReducersAgree
    <2> SUFFICES ASSUME Twins, NEW u \in Inputs
                 PROVE  ReduceSessionState(python, u)
                          = TsReduceSessionLifecycle(typescript, u)
      BY DEF ReducersAgree, Twins
    <2>1. u \in Facts \cup WireEvents
      BY InputsAreTyped DEF Twins
    <2> QED
      BY <2>1, TwinsReduceAlike DEF Twins
  <1> QED
    BY <1>1, <1>2, <1>3, PTL DEF Spec

-----------------------------------------------------------------------------
(* Part two: what an update writes into the projection. *)

(* _reduce_session_event, field by field.                                  *)
LEMMA EventWrites ==
  ASSUME NEW s \in SessionState, NEW e, e.type \in EventTypes
  PROVE  LET t == ApplyEvent(s, e)
         IN /\ t.last_sequence = e.sequence
            /\ t.start_command_id = s.start_command_id
            /\ t.cancel_command_id = s.cancel_command_id
            /\ t.session_id =
                 IF e.type = "session.started" THEN e.session_id ELSE s.session_id
            /\ t.status = CASE e.type = "session.started" -> "running"
                            [] e.type = "session.completed" -> "completed"
                            [] e.type = "session.cancelled" -> "cancelled"
                            [] e.type = "session.failed" -> "failed"
                            [] OTHER -> s.status
            /\ t.assistant_text = IF e.type = "assistant.delta"
                                    THEN s.assistant_text \o e.text
                                    ELSE s.assistant_text
            /\ t.assistant_completed =
                 IF e.type = "assistant.completed" THEN TRUE ELSE s.assistant_completed
PROOF
  BY DEF ApplyEvent, SessionState, EventTypes

(* The same of the facts a session owner accepts.                          *)
LEMMA FactVerdict ==
  ASSUME NEW s \in SessionState, NEW u \in Facts, s.status \notin TerminalStatuses
  PROVE  /\ u.type \in {"task.submitted", "cancel.requested",
                        "approval.requested", "approval.resolved"}
         /\ u.type \notin EventTypes
         /\ Accepts(s, u) <=>
              /\ u.type = "task.submitted" => s.status = "idle"
              /\ u.type = "cancel.requested" =>
                   s.status \in {"running", "awaiting_approval"}
              /\ u.type = "approval.requested" => s.status = "running"
              /\ u.type = "approval.resolved" => s.status = "awaiting_approval"
              /\ u.type # "task.submitted" => u.session_id = s.session_id
         /\ ~Accepts(s, u) => After(s, u) = s
PROOF
  <1>1. u.type \in {"task.submitted", "cancel.requested",
                    "approval.requested", "approval.resolved"}
    BY DEF Facts
  <1>2. "illegal_transition" # None /\ "session_mismatch" # None
    BY NoneAssumption DEF FailureCodes
  <1>3. u.type \notin EventTypes
    BY <1>1 DEF EventTypes
  <1>4. CASE u.type = "task.submitted"
    BY <1>2, <1>3, <1>4 DEF Accepts, After, ReduceSessionState, Accept, Reject
  <1>5. CASE u.type = "cancel.requested"
    BY <1>2, <1>3, <1>5 DEF Accepts, After, ReduceSessionState, ReduceSessionFact, Accept,
                            Reject
  <1>6. CASE u.type = "approval.requested"
    BY <1>2, <1>3, <1>6 DEF Accepts, After, ReduceSessionState, ReduceSessionFact, Accept,
                            Reject
  <1>7. CASE u.type = "approval.resolved"
    BY <1>2, <1>3, <1>7 DEF Accepts, After, ReduceSessionState, ReduceSessionFact, Accept,
                            Reject
  <1> QED
    BY <1>1, <1>3, <1>4, <1>5, <1>6, <1>7

(* An accepted fact, field by field.                                       *)
LEMMA FactWrites ==
  ASSUME NEW s \in SessionState, NEW u \in Facts, s.status \notin TerminalStatuses,
         Accepts(s, u)
  PROVE  LET t == After(s, u)
         IN /\ t.status = CASE u.type = "task.submitted" -> "starting"
                            [] u.type = "cancel.requested" -> "cancelling"
                            [] u.type = "approval.requested" -> "awaiting_approval"
                            [] u.type = "approval.resolved" -> "running"
            /\ IF u.type = "task.submitted"
                 THEN /\ t.start_command_id = u.command_id
                      /\ t.session_id = None /\ t.cancel_command_id = None
                      /\ t.last_sequence = 0 /\ t.assistant_text = << >>
                      /\ t.assistant_completed = FALSE
                 ELSE /\ t.start_command_id = s.start_command_id
                      /\ t.session_id = s.session_id
                      /\ t.cancel_command_id = IF u.type = "cancel.requested"
                                                 THEN u.command_id
                                                 ELSE s.cancel_command_id
                      /\ t.last_sequence = s.last_sequence
                      /\ t.assistant_text = s.assistant_text
                      /\ t.assistant_completed = s.assistant_completed
PROOF
  <1>1. /\ u.type \in {"task.submitted", "cancel.requested",
                       "approval.requested", "approval.resolved"}
        /\ u.type \notin EventTypes
        /\ u.type = "task.submitted" => s.status = "idle"
        /\ u.type = "cancel.requested" => s.status \in {"running", "awaiting_approval"}
        /\ u.type = "approval.requested" => s.status = "running"
        /\ u.type = "approval.resolved" => s.status = "awaiting_approval"
        /\ u.type # "task.submitted" => u.session_id = s.session_id
    BY FactVerdict
  <1>4. CASE u.type = "task.submitted"
    BY <1>1, <1>4 DEF After, ReduceSessionState, Accept, InitialSessionState
  <1>5. CASE u.type = "cancel.requested"
    BY <1>1, <1>5 DEF After, ReduceSessionState, ReduceSessionFact, Accept, SessionState
  <1>6. CASE u.type = "approval.requested"
    BY <1>1, <1>6 DEF After, ReduceSessionState, ReduceSessionFact, Accept, SessionState
  <1>7. CASE u.type = "approval.resolved"
    BY <1>1, <1>7 DEF After, ReduceSessionState, ReduceSessionFact, Accept, SessionState
  <1> QED
    BY <1>1, <1>4, <1>5, <1>6, <1>7

(* A projection before session.started holds nothing of a session yet, and *)
(* only a cancellation names its command.                                  *)
Fresh(s) ==
  /\ s.status \in {"idle", "starting"} =>
       /\ s.session_id = None /\ s.cancel_command_id = None /\ s.last_sequence = 0
       /\ s.assistant_text = << >> /\ s.assistant_completed = FALSE
  /\ s.status \in {"running", "awaiting_approval"} => s.cancel_command_id = None

Keeps(s, t) ==
  /\ s.status \in TerminalStatuses => t = s
  /\ t.last_sequence >= s.last_sequence
  /\ IsPrefix(s.assistant_text, t.assistant_text)
  /\ s.assistant_completed =>
       t.assistant_completed /\ t.assistant_text = s.assistant_text
  /\ s.session_id # None => t.session_id = s.session_id
  /\ s.cancel_command_id # None => t.cancel_command_id = s.cancel_command_id

(* A text that grows by appending keeps what it was.                       *)
LEMMA PrefixOfLonger ==
  ASSUME NEW s \in Seq(Fragments), NEW t \in Seq(Fragments)
  PROVE  IsPrefix(s, s) /\ IsPrefix(s, s \o t)
PROOF
  <1>1. IsPrefix(s, s)
    BY DEF IsPrefix
  <1>2. Len(s) <= Len(s \o t)
    OBVIOUS
  <1>3. SubSeq(s, 1, Len(s)) = SubSeq(s \o t, 1, Len(s))
    OBVIOUS
  <1> QED
    BY <1>1, <1>2, <1>3 DEF IsPrefix

(* An event in sequence is applied to what is there, and nothing else.     *)
LEMMA AcceptedEvent ==
  ASSUME NEW s \in SessionState, NEW e \in WireEvents, Accepts(s, e)
  PROVE  /\ e.type \in EventTypes /\ s.status \notin TerminalStatuses
         /\ After(s, e) = ApplyEvent(s, e)
         /\ s.status \in LegalStatuses(e.type)
         /\ e.correlation_id = ExpectedCorrelation(s, e)
         /\ e.type # "session.started" => e.session_id = s.session_id
         /\ e.sequence = s.last_sequence + 1
         /\ PayloadFailure(s, e) = None
PROOF
  <1>1. e.type \in EventTypes /\ e.sequence \in Nat /\ s.last_sequence \in Nat
    BY DEF WireEvents, SessionState
  <1>2. /\ s.status \notin TerminalStatuses /\ EventFailure(s, e) = None
        /\ After(s, e) = ApplyEvent(s, e)
    BY <1>1, EventVerdict
  <1>3. /\ "illegal_transition" # None /\ "correlation_mismatch" # None
        /\ "session_mismatch" # None /\ "sequence_regression" # None
        /\ "sequence_gap" # None
    BY NoneAssumption DEF FailureCodes
  <1>4. /\ s.status \in LegalStatuses(e.type)
        /\ e.correlation_id = ExpectedCorrelation(s, e)
        /\ e.type # "session.started" => e.session_id = s.session_id
        /\ SequenceFailure(s, e.sequence) = None
        /\ PayloadFailure(s, e) = None
    BY <1>2, <1>3 DEF EventFailure
  <1>5. e.sequence = s.last_sequence + 1
    BY <1>1, <1>3, <1>4 DEF SequenceFailure
  <1> QED
    BY <1>1, <1>2, <1>4, <1>5

(* An accepted event only adds to the projection.                          *)
LEMMA EventForgetsNothing ==
  ASSUME NEW s \in SessionState, Fresh(s), NEW e \in WireEvents, Accepts(s, e)
  PROVE  Keeps(s, After(s, e)) /\ Fresh(After(s, e))
PROOF
  <1> DEFINE t == After(s, e)
  <1>1. /\ e.type \in EventTypes /\ s.status \notin TerminalStatuses
        /\ t = ApplyEvent(s, e) /\ s.status \in LegalStatuses(e.type)
        /\ e.sequence = s.last_sequence + 1 /\ PayloadFailure(s, e) = None
    BY AcceptedEvent
  <1>2. /\ t.last_sequence = s.last_sequence + 1
        /\ t.cancel_command_id = s.cancel_command_id
        /\ t.session_id = IF e.type = "session.started" THEN e.session_id ELSE s.session_id
        /\ t.assistant_text = IF e.type = "assistant.delta"
                                THEN s.assistant_text \o e.text ELSE s.assistant_text
        /\ t.assistant_completed =
             IF e.type = "assistant.completed" THEN TRUE ELSE s.assistant_completed
        /\ t.status = CASE e.type = "session.started" -> "running"
                        [] e.type = "session.completed" -> "completed"
                        [] e.type = "session.cancelled" -> "cancelled"
                        [] e.type = "session.failed" -> "failed"
                        [] OTHER -> s.status
    <2> HIDE DEF t
    <2>1. e.sequence = t.last_sequence
      BY <1>1, EventWrites
    <2>2. /\ t.cancel_command_id = s.cancel_command_id
          /\ t.session_id = IF e.type = "session.started"
                              THEN e.session_id ELSE s.session_id
          /\ t.assistant_text = IF e.type = "assistant.delta"
                                  THEN s.assistant_text \o e.text ELSE s.assistant_text
          /\ t.assistant_completed =
               IF e.type = "assistant.completed" THEN TRUE ELSE s.assistant_completed
      BY <1>1, EventWrites
    <2>3. t.status = CASE e.type = "session.started" -> "running"
                       [] e.type = "session.completed" -> "completed"
                       [] e.type = "session.cancelled" -> "cancelled"
                       [] e.type = "session.failed" -> "failed"
                       [] OTHER -> s.status
      BY <1>1, EventWrites
    <2> QED
      BY <1>1, <2>1, <2>2, <2>3
  <1> HIDE DEF t
  <1>3. "assistant_after_completion" # None
    BY NoneAssumption DEF FailureCodes
  <1>4. e.type = "assistant.delta" => ~s.assistant_completed
    BY <1>1, <1>3 DEF PayloadFailure
  <1>5. s.assistant_text \in Seq(Fragments) /\ e.text \in Seq(Fragments)
        /\ s.last_sequence \in Nat /\ s.assistant_completed \in BOOLEAN
    BY DEF SessionState, WireEvents
  <1>6. IsPrefix(s.assistant_text, t.assistant_text)
    BY <1>2, <1>5, PrefixOfLonger
  <1>7. t.last_sequence >= s.last_sequence
    BY <1>2, <1>5
  <1>8. s.assistant_completed =>
          t.assistant_completed /\ t.assistant_text = s.assistant_text
    BY <1>2, <1>4, <1>5
  <1>9. e.type = "session.started" => s.status = "starting"
    BY <1>1 DEF LegalStatuses
  <1>10. s.session_id # None => t.session_id = s.session_id
    BY <1>2, <1>9 DEF Fresh
  <1>11. Keeps(s, t)
    BY <1>1, <1>2, <1>6, <1>7, <1>8, <1>10 DEF Keeps
  <1>12. t.status \notin {"idle", "starting"}
    BY <1>1, <1>2 DEF LegalStatuses, EventTypes
  <1>13. t.status \in {"running", "awaiting_approval"} => t.cancel_command_id = None
    BY <1>1, <1>2, <1>9 DEF LegalStatuses, EventTypes, Fresh
  <1>14. Fresh(t)
    BY <1>12, <1>13 DEF Fresh
  <1> QED
    BY <1>11, <1>14 DEF t

(* An accepted fact only adds to the projection: a task is submitted when  *)
(* there is nothing to lose.                                               *)
LEMMA FactForgetsNothing ==
  ASSUME NEW s \in SessionState, Fresh(s), NEW u \in Facts,
         s.status \notin TerminalStatuses, Accepts(s, u)
  PROVE  Keeps(s, After(s, u)) /\ Fresh(After(s, u))
PROOF
  <1> DEFINE t == After(s, u)
  <1>1. s.assistant_text \in Seq(Fragments) /\ s.last_sequence \in Nat
    BY DEF SessionState
  <1>2. IsPrefix(s.assistant_text, s.assistant_text)
    BY <1>1, PrefixOfLonger
  <1>3. s.last_sequence >= s.last_sequence
    BY <1>1
  <1>4. /\ u.type \in {"task.submitted", "cancel.requested",
                       "approval.requested", "approval.resolved"}
        /\ u.type = "task.submitted" => s.status = "idle"
        /\ u.type = "cancel.requested" => s.status \in {"running", "awaiting_approval"}
        /\ u.type = "approval.requested" => s.status = "running"
        /\ u.type = "approval.resolved" => s.status = "awaiting_approval"
    BY FactVerdict
  <1>5. CASE u.type = "task.submitted"
    <2>1. /\ t.status = "starting" /\ t.session_id = None /\ t.cancel_command_id = None
          /\ t.last_sequence = 0 /\ t.assistant_text = << >>
          /\ t.assistant_completed = FALSE
      BY <1>5, FactWrites
    <2> HIDE DEF t
    <2>2. Keeps(s, t) /\ Fresh(t)
      BY <1>2, <1>3, <1>4, <1>5, <2>1 DEF Keeps, Fresh
    <2> QED
      BY <2>2 DEF t
  <1>6. CASE u.type # "task.submitted"
    <2>1. /\ t.status = CASE u.type = "cancel.requested" -> "cancelling"
                          [] u.type = "approval.requested" -> "awaiting_approval"
                          [] u.type = "approval.resolved" -> "running"
          /\ t.session_id = s.session_id
          /\ t.cancel_command_id = IF u.type = "cancel.requested"
                                     THEN u.command_id ELSE s.cancel_command_id
          /\ t.last_sequence = s.last_sequence
          /\ t.assistant_text = s.assistant_text
          /\ t.assistant_completed = s.assistant_completed
      <3> HIDE DEF t
      <3>1. t.status = CASE u.type = "task.submitted" -> "starting"
                         [] u.type = "cancel.requested" -> "cancelling"
                         [] u.type = "approval.requested" -> "awaiting_approval"
                         [] u.type = "approval.resolved" -> "running"
        BY FactWrites DEF t
      <3> QED
        BY <1>4, <1>6, <3>1, FactWrites DEF t
    <2> HIDE DEF t
    <2>2. Keeps(s, t)
      BY <1>2, <1>3, <1>4, <1>6, <2>1 DEF Keeps, Fresh
    <2>3. Fresh(t)
      BY <1>4, <1>6, <2>1 DEF Fresh
    <2> QED
      BY <2>2, <2>3 DEF t
  <1> QED
    BY <1>5, <1>6

(* A refused update leaves the projection alone, an accepted one only adds *)
(* to it.                                                                  *)
LEMMA ReducerForgetsNothing ==
  ASSUME NEW s \in SessionState, Fresh(s), NEW u \in Facts \cup WireEvents
  PROVE  Keeps(s, After(s, u)) /\ Fresh(After(s, u))
PROOF
  <1>1. s.assistant_text \in Seq(Fragments) /\ s.last_sequence \in Nat
    BY DEF SessionState
  <1>2. Keeps(s, s)
    BY <1>1, PrefixOfLonger DEF Keeps
  <1>3. CASE s.status \in TerminalStatuses
    BY <1>2, <1>3 DEF After, ReduceSessionState, Reject
  <1>4. CASE s.status \notin TerminalStatuses /\ u \in Facts
    BY <1>2, <1>4, FactVerdict, FactForgetsNothing
  <1>5. CASE u \in WireEvents
    <2>1. u.type \in EventTypes
      BY <1>5 DEF WireEvents
    <2>2. ~Accepts(s, u) => After(s, u) = s
      BY <2>1, EventVerdict
    <2> QED
      BY <1>2, <1>5, <2>2, EventForgetsNothing
  <1> QED
    BY <1>3, <1>4, <1>5

(* ProjectionIsMonotone: a session's projection never forgets. Its text    *)
(* only grows, its sequence and identities stay, a terminal one is final.  *)
THEOREM ProjectionNeverForgets == Spec => ProjectionIsMonotone
PROOF
  <1> DEFINE I == python \in SessionState /\ Fresh(python)
  <1>1. Init => I
    BY DEF Init, Fresh, InitialSessionState, SessionState, Statuses
  <1>2. I /\ [Next]_vars => I' /\ (python' = python \/ Keeps(python, python'))
    <2> SUFFICES ASSUME I, [Next]_vars
                 PROVE  I' /\ (python' = python \/ Keeps(python, python'))
      OBVIOUS
    <2>1. CASE Next
      <3>1. PICK u \in Inputs : Replay(u)
        BY <2>1 DEF Next
      <3>2. u \in Facts \cup WireEvents
        BY InputsAreTyped
      <3>3. python' = After(python, u)
        BY <3>1 DEF Replay
      <3>4. After(python, u) \in SessionState
        BY <3>2, ReducerKeepsType
      <3>5. Keeps(python, After(python, u)) /\ Fresh(After(python, u))
        BY <3>2, ReducerForgetsNothing
      <3> QED
        BY <3>3, <3>4, <3>5
    <2>2. CASE UNCHANGED vars
      BY <2>2 DEF vars
    <2> QED
      BY <2>1, <2>2
  <1>3. I /\ [Next]_vars =>
          [/\ python.status \in TerminalStatuses => python' = python
           /\ python'.last_sequence >= python.last_sequence
           /\ IsPrefix(python.assistant_text, python'.assistant_text)
           /\ python.assistant_completed =>
                /\ python'.assistant_completed
                /\ python'.assistant_text = python.assistant_text
           /\ python.session_id # None => python'.session_id = python.session_id
           /\ python.cancel_command_id # None =>
                python'.cancel_command_id = python.cancel_command_id]_vars
    <2> SUFFICES ASSUME I, Keeps(python, python') \/ python' = python
                 PROVE  Keeps(python, python')
      BY <1>2 DEF Keeps
    <2>1. python.assistant_text \in Seq(Fragments) /\ python.last_sequence \in Nat
      BY DEF SessionState
    <2> QED
      BY <2>1, PrefixOfLonger DEF Keeps
  <1> QED
    BY <1>1, <1>2, <1>3, PTL DEF Spec, ProjectionIsMonotone

-----------------------------------------------------------------------------
(* Part three: what one update more does to a history.  g is h extended    *)
(* by u.                                                                   *)

Longer(h, g, u) ==
  /\ Len(h) \in Nat /\ Len(g) = Len(h) + 1
  /\ DOMAIN h = 1 .. Len(h) /\ DOMAIN g = 1 .. Len(h) + 1
  /\ g[Len(h) + 1] = u
  /\ \A i \in 1 .. Len(h) : g[i] = h[i]

(* Appending is extending.                                                 *)
LEMMA AppendIsLonger ==
  ASSUME NEW X, NEW h \in Seq(X), NEW u \in X
  PROVE  Longer(h, Append(h, u), u)
PROOF
  BY DEF Longer

(* The positions of a kind of update, and how many there are.              *)
LEMMA PositionsGrow ==
  ASSUME NEW h, NEW g, NEW u, Longer(h, g, u), NEW type
  PROVE  /\ Positions(h, type) \subseteq 1 .. Len(h)
         /\ IsFiniteSet(Positions(h, type)) /\ Cardinality(Positions(h, type)) \in Nat
         /\ u.type = type => Positions(g, type) = Positions(h, type) \cup {Len(h) + 1}
         /\ u.type # type => Positions(g, type) = Positions(h, type)
         /\ Cardinality(Positions(g, type)) =
              IF u.type = type THEN Cardinality(Positions(h, type)) + 1
              ELSE Cardinality(Positions(h, type))
         /\ \A i \in 1 .. Len(h) : Before(g, i, type) = Before(h, i, type)
         /\ Before(g, Len(h) + 1, type) = Positions(h, type)
PROOF
  <1>1. Positions(h, type) \subseteq 1 .. Len(h)
    BY DEF Positions, Longer
  <1>2. IsFiniteSet(1 .. Len(h))
    BY FS_Interval DEF Longer
  <1>3. IsFiniteSet(Positions(h, type)) /\ Cardinality(Positions(h, type)) \in Nat
    BY <1>1, <1>2, FS_Subset, FS_CardinalityType
  <1>4. u.type = type => Positions(g, type) = Positions(h, type) \cup {Len(h) + 1}
    BY DEF Positions, Longer
  <1>5. u.type # type => Positions(g, type) = Positions(h, type)
    BY DEF Positions, Longer
  <1>6. Len(h) + 1 \notin Positions(h, type)
    BY <1>1 DEF Longer
  <1>7. Cardinality(Positions(h, type) \cup {Len(h) + 1})
          = Cardinality(Positions(h, type)) + 1
    BY <1>3, <1>6, FS_AddElement
  <1>8. \A i \in 1 .. Len(h) : Before(g, i, type) = Before(h, i, type)
    BY DEF Before, Positions, Longer
  <1>9. Before(g, Len(h) + 1, type) = Positions(h, type)
    BY DEF Before, Positions, Longer
  <1> QED
    BY <1>1, <1>3, <1>4, <1>5, <1>7, <1>8, <1>9

(* The same for every kind at once.                                        *)
LEMMA PositionsOfOneMore ==
  ASSUME NEW h, NEW g, NEW u, Longer(h, g, u)
  PROVE  \A type :
           /\ Positions(h, type) \subseteq 1 .. Len(h)
           /\ u.type = type => Positions(g, type) = Positions(h, type) \cup {Len(h) + 1}
           /\ u.type # type => Positions(g, type) = Positions(h, type)
PROOF
  BY PositionsGrow

EventsUpTo(h, i) == {j \in 1 .. i : IsEvent(h[j])}

(* A wire event is one more to number.                                     *)
LEMMA EventsGrow ==
  ASSUME NEW h, NEW g, NEW u, Longer(h, g, u)
  PROVE  /\ Cardinality(EventsUpTo(h, Len(h))) \in Nat
         /\ \A i \in 1 .. Len(h) : EventsUpTo(g, i) = EventsUpTo(h, i)
         /\ Cardinality(EventsUpTo(g, Len(h) + 1)) =
              IF IsEvent(u) THEN Cardinality(EventsUpTo(h, Len(h))) + 1
              ELSE Cardinality(EventsUpTo(h, Len(h)))
PROOF
  <1> DEFINE E == EventsUpTo(h, Len(h))
  <1>1. IsFiniteSet(1 .. Len(h))
    BY FS_Interval DEF Longer
  <1>2. IsFiniteSet(E) /\ Cardinality(E) \in Nat
    BY <1>1, FS_Subset, FS_CardinalityType DEF EventsUpTo
  <1>3. Len(h) + 1 \notin E
    BY DEF EventsUpTo, Longer
  <1>4. Cardinality(E \cup {Len(h) + 1}) = Cardinality(E) + 1
    BY <1>2, <1>3, FS_AddElement
  <1>5. IsEvent(u) => EventsUpTo(g, Len(h) + 1) = E \cup {Len(h) + 1}
    BY DEF EventsUpTo, Longer
  <1>6. ~IsEvent(u) => EventsUpTo(g, Len(h) + 1) = E
    BY DEF EventsUpTo, Longer
  <1>7. \A i \in 1 .. Len(h) : EventsUpTo(g, i) = EventsUpTo(h, i)
    BY DEF EventsUpTo, Longer
  <1> QED
    BY <1>2, <1>4, <1>5, <1>6, <1>7

(* The texts of a stream, flattened, are one text.                         *)
LEMMA FlattenDefined ==
  ASSUME NEW S, NEW seqs \in Seq(Seq(S)), seqs # << >>
  PROVE  \E f : /\ f = [i \in 1 .. Len(seqs) |->
                          IF i = 1 THEN seqs[i] ELSE f[i - 1] \o seqs[i]]
                /\ FlattenSeq(seqs) = f[Len(seqs)]
PROOF
  <1> DEFINE Runs(f, m) ==
        f = [i \in 1 .. m |-> IF i = 1 THEN seqs[i] ELSE f[i - 1] \o seqs[i]]
  <1> DEFINE T == {m \in Nat : \E f : Runs(f, m)}
  <1>1. 0 \in T
    <2> DEFINE f == [i \in 1 .. 0 |-> seqs[i]]
    <2>1. Runs(f, 0)
      OBVIOUS
    <2> QED
      BY <2>1
  <1>2. ASSUME NEW m \in Nat, m \in T PROVE m + 1 \in T
    <2>1. PICK f : Runs(f, m)
      BY <1>2
    <2> DEFINE k == [i \in 1 .. m + 1 |->
                       IF i <= m THEN f[i]
                       ELSE IF m = 0 THEN seqs[1] ELSE f[m] \o seqs[m + 1]]
    <2>2. ASSUME NEW i \in 1 .. m + 1
          PROVE  k[i] = IF i = 1 THEN seqs[i] ELSE k[i - 1] \o seqs[i]
      <3>1. CASE i <= m
        <4>1. i \in 1 .. m
          BY <3>1
        <4>2. f[i] = IF i = 1 THEN seqs[i] ELSE f[i - 1] \o seqs[i]
          BY <2>1, <4>1
        <4>3. k[i] = f[i]
          BY <3>1
        <4>4. i # 1 => k[i - 1] = f[i - 1]
          BY <3>1
        <4> QED
          BY <4>2, <4>3, <4>4
      <3>2. CASE i = m + 1
        <4>1. CASE m = 0
          BY <3>2, <4>1
        <4>2. CASE m # 0
          <5>1. k[i - 1] = f[m]
            BY <3>2, <4>2
          <5>2. k[m + 1] = IF m + 1 <= m THEN f[m + 1]
                           ELSE IF m = 0 THEN seqs[1] ELSE f[m] \o seqs[m + 1]
            OBVIOUS
          <5>3. ~(m + 1 <= m)
            OBVIOUS
          <5>4. k[m + 1] = f[m] \o seqs[m + 1]
            BY <4>2, <5>2, <5>3
          <5> HIDE DEF k
          <5>5. i # 1 /\ seqs[i] = seqs[m + 1] /\ k[i] = k[m + 1]
            BY <3>2, <4>2
          <5> QED
            BY <5>1, <5>4, <5>5
        <4> QED
          BY <4>1, <4>2
      <3> QED
        BY <3>1, <3>2
    <2>3. Runs(k, m + 1)
      BY <2>2
    <2> HIDE DEF Runs, k
    <2> QED
      BY <2>3
  <1>3. Len(seqs) \in T
    <2>1. Len(seqs) \in Nat
      OBVIOUS
    <2> HIDE DEF T
    <2> QED
      BY <1>1, <1>2, <2>1, SetInduction
  <1> DEFINE flat == CHOOSE f : Runs(f, Len(seqs))
  <1>4. Runs(flat, Len(seqs))
    <2>1. \E f : Runs(f, Len(seqs))
      BY <1>3
    <2> HIDE DEF Runs
    <2> QED
      BY <2>1
  <1>5. FlattenSeq(seqs) = flat[Len(seqs)]
    <2>1. Len(seqs) # 0
      OBVIOUS
    <2> QED
      BY <2>1 DEF FlattenSeq
  <1> HIDE DEF flat
  <1> QED
    BY <1>4, <1>5

(* Appending a text to a stream of texts appends it to the whole.          *)
LEMMA FlattenOneMore ==
  ASSUME NEW S, NEW seqs \in Seq(Seq(S)), NEW x \in Seq(S)
  PROVE  /\ FlattenSeq(seqs) \in Seq(S)
         /\ FlattenSeq(Append(seqs, x)) = FlattenSeq(seqs) \o x
PROOF
  <1> DEFINE n == Len(seqs)
  <1> DEFINE more == Append(seqs, x)
  <1>1. /\ n \in Nat /\ more \in Seq(Seq(S)) /\ more # << >> /\ Len(more) = n + 1
        /\ more[n + 1] = x
        /\ \A i \in 1 .. n : more[i] = seqs[i] /\ seqs[i] \in Seq(S)
    <2>1. n \in Nat /\ \A i \in 1 .. n : seqs[i] \in Seq(S)
      OBVIOUS
    <2>2. more \in Seq(Seq(S)) /\ Len(more) = n + 1 /\ more[n + 1] = x
      OBVIOUS
    <2>3. \A i \in 1 .. n : more[i] = seqs[i]
      OBVIOUS
    <2>4. Len(<< >>) = 0
      OBVIOUS
    <2> HIDE DEF more, n
    <2> QED
      BY <2>1, <2>2, <2>3, <2>4
  <1> HIDE DEF more
  <1>2. PICK k : /\ k = [i \in 1 .. Len(more) |->
                           IF i = 1 THEN more[i] ELSE k[i - 1] \o more[i]]
                 /\ FlattenSeq(more) = k[Len(more)]
    BY <1>1, FlattenDefined
  <1>3. CASE n = 0
    <2>1. seqs = << >> /\ FlattenSeq(seqs) = << >>
      BY <1>3 DEF FlattenSeq
    <2>2. 1 \in 1 .. Len(more)
      BY <1>1
    <2>3. k[1] = more[1]
      BY <1>2, <2>2
    <2>4. FlattenSeq(more) = x
      BY <1>1, <1>2, <1>3, <2>3
    <2>5. << >> \in Seq(S) /\ << >> \o x = x
      OBVIOUS
    <2> QED
      BY <2>1, <2>4, <2>5 DEF more
  <1>4. CASE n # 0
    <2>1. seqs # << >> /\ n \in 1 .. n
      BY <1>1, <1>4
    <2>2. PICK f : /\ f = [i \in 1 .. Len(seqs) |->
                             IF i = 1 THEN seqs[i] ELSE f[i - 1] \o seqs[i]]
                   /\ FlattenSeq(seqs) = f[Len(seqs)]
      BY <2>1, FlattenDefined
    <2>3. ASSUME NEW i \in 1 .. n
          PROVE  f[i] = IF i = 1 THEN seqs[i] ELSE f[i - 1] \o seqs[i]
      BY <2>2
    <2>4. ASSUME NEW i \in 1 .. n + 1
          PROVE  k[i] = IF i = 1 THEN more[i] ELSE k[i - 1] \o more[i]
      BY <1>1, <1>2
    <2> DEFINE T == {m \in Nat : m \in 1 .. n => k[m] = f[m] /\ f[m] \in Seq(S)}
    <2>5. 0 \in T
      OBVIOUS
    <2>6. ASSUME NEW m \in Nat, m \in T PROVE m + 1 \in T
      <3> SUFFICES ASSUME m + 1 \in 1 .. n
                   PROVE  k[m + 1] = f[m + 1] /\ f[m + 1] \in Seq(S)
        OBVIOUS
      <3>1. m + 1 \in 1 .. n + 1 /\ more[m + 1] = seqs[m + 1] /\ seqs[m + 1] \in Seq(S)
        BY <1>1
      <3>2. f[m + 1] = IF m + 1 = 1 THEN seqs[m + 1] ELSE f[m + 1 - 1] \o seqs[m + 1]
        BY <2>3
      <3>3. k[m + 1] = IF m + 1 = 1 THEN more[m + 1] ELSE k[m + 1 - 1] \o more[m + 1]
        BY <2>4, <3>1
      <3>4. m + 1 - 1 = m
        OBVIOUS
      <3>5. CASE m = 0
        BY <3>1, <3>2, <3>3, <3>5
      <3>6. CASE m # 0
        <4>1. k[m] = f[m] /\ f[m] \in Seq(S) /\ m + 1 # 1
          BY <2>6, <3>6
        <4>2. f[m + 1] = f[m] \o seqs[m + 1] /\ k[m + 1] = k[m] \o more[m + 1]
          BY <3>2, <3>3, <3>4, <4>1
        <4>3. f[m] \o seqs[m + 1] \in Seq(S)
          BY <3>1, <4>1
        <4> QED
          BY <3>1, <4>1, <4>2, <4>3
      <3> QED
        BY <3>5, <3>6
    <2>7. n \in T
      <3> HIDE DEF T
      <3> QED
        BY <1>1, <2>5, <2>6, SetInduction
    <2>8. k[n] = f[n] /\ f[n] \in Seq(S)
      BY <2>1, <2>7
    <2>9. n + 1 \in 1 .. n + 1 /\ n + 1 # 1 /\ n + 1 - 1 = n
      BY <1>1, <1>4
    <2>10. k[n + 1] = k[n] \o more[n + 1]
      <3>1. \A i \in 1 .. n + 1 :
              k[i] = IF i = 1 THEN more[i] ELSE k[i - 1] \o more[i]
        BY <2>4
      <3>2. ASSUME NEW i \in 1 .. n + 1, i = n + 1
            PROVE  k[i] = k[n] \o more[i]
        <4>1. i # 1 /\ i - 1 = n
          BY <1>1, <2>9, <3>2
        <4>2. k[i] = IF i = 1 THEN more[i] ELSE k[i - 1] \o more[i]
          BY <3>1
        <4> QED
          BY <4>1, <4>2
      <3> QED
        BY <2>9, <3>2
    <2>11. FlattenSeq(seqs) = f[n] /\ FlattenSeq(more) = k[n + 1]
      BY <1>1, <1>2, <2>2
    <2> QED
      BY <1>1, <2>8, <2>10, <2>11 DEF more
  <1> QED
    BY <1>3, <1>4

(* The text of a stream's deltas: it is there already when an update comes.*)
LEMMA DeltasGrow ==
  ASSUME NEW h \in Seq(Facts \cup WireEvents), NEW u \in Facts \cup WireEvents
  PROVE  LET g == Append(h, u)
         IN /\ \A i \in 1 .. Len(h) : DeltasUpTo(g, i) = DeltasUpTo(h, i)
            /\ DeltasUpTo(h, Len(h)) \in Seq(Fragments)
            /\ DeltasUpTo(g, Len(h) + 1) =
                 IF u.type = "assistant.delta" THEN DeltasUpTo(h, Len(h)) \o u.text
                 ELSE DeltasUpTo(h, Len(h))
PROOF
  <1> DEFINE g == Append(h, u)
  <1> DEFINE D(v) == IF v.type = "assistant.delta" THEN v.text ELSE << >>
  <1> DEFINE S(s, i) == [k \in 1 .. i |-> D(s[k])]
  <1>1. Longer(h, g, u)
    BY AppendIsLonger
  <1>2. \A v \in Facts \cup WireEvents : D(v) \in Seq(Fragments)
    BY DEF Facts, WireEvents
  <1>3. \A s : \A i : DeltasUpTo(s, i) = FlattenSeq(S(s, i))
    BY DEF DeltasUpTo
  <1>4. Len(h) \in Nat /\ \A k \in 1 .. Len(h) : h[k] \in Facts \cup WireEvents
    OBVIOUS
  <1> HIDE DEF D, g
  <1>5. \A i \in 1 .. Len(h) : S(g, i) = S(h, i)
    BY <1>1, <1>4 DEF Longer
  <1>6. S(h, Len(h)) \in Seq(Seq(Fragments))
    BY <1>2, <1>4
  <1>7. S(g, Len(h) + 1) = Append(S(h, Len(h)), D(u))
    BY <1>1, <1>2, <1>4 DEF Longer
  <1> HIDE DEF S
  <1>8. /\ FlattenSeq(S(h, Len(h))) \in Seq(Fragments)
        /\ FlattenSeq(Append(S(h, Len(h)), D(u))) = FlattenSeq(S(h, Len(h))) \o D(u)
    BY <1>2, <1>6, FlattenOneMore
  <1>9. \A x \in Seq(Fragments) : x \o << >> = x
    OBVIOUS
  <1>10. DeltasUpTo(g, Len(h) + 1) = DeltasUpTo(h, Len(h)) \o D(u)
    BY <1>3, <1>7, <1>8
  <1>11. DeltasUpTo(h, Len(h)) \in Seq(Fragments)
    BY <1>3, <1>8
  <1>12. \A i \in 1 .. Len(h) : DeltasUpTo(g, i) = DeltasUpTo(h, i)
    BY <1>3, <1>5
  <1>13. DeltasUpTo(g, Len(h) + 1) =
           IF u.type = "assistant.delta" THEN DeltasUpTo(h, Len(h)) \o u.text
           ELSE DeltasUpTo(h, Len(h))
    BY <1>9, <1>10, <1>11 DEF D
  <1> QED
    BY <1>11, <1>12, <1>13 DEF g

-----------------------------------------------------------------------------
(* Part four: a legal history, and which update may follow it.  Each       *)
(* clause of LegalHistory asks one thing of the last update.               *)

TerminalTypes == {"session.completed", "session.cancelled", "session.failed"}

Paused(h) ==
  /\ Positions(h, "cancel.requested") = {}
  /\ Cardinality(Positions(h, "approval.requested"))
       > Cardinality(Positions(h, "approval.resolved"))

TakesItsPlace(h, u) ==
  /\ u.type = "task.submitted" <=> Len(h) = 0
  /\ u.type = "session.started" <=> Len(h) = 1
  /\ Len(h) >= 1 => h[Len(h)].type \notin TerminalTypes
  /\ Len(h) >= 2 => u.session_id = h[2].session_id
  /\ IsEvent(u) => u.sequence = Cardinality(EventsUpTo(h, Len(h))) + 1

NamesItsCommand(h, u) ==
  /\ u.type = "session.cancelled" =>
       \E j \in Positions(h, "cancel.requested") : u.correlation_id = h[j].command_id
  /\ IsEvent(u) /\ u.type # "session.cancelled" => u.correlation_id = h[1].command_id

MindsThePause(h, u) ==
  /\ Len(h) >= 2 =>
       CASE u.type = "approval.resolved" -> Paused(h)
         [] u.type \in {"cancel.requested", "session.failed"} -> TRUE
         [] OTHER -> ~Paused(h)
  /\ u.type \in {"cancel.requested", "approval.requested", "approval.resolved"} =>
       Positions(h, "cancel.requested") = {}

ConfirmsTheText(h, u) ==
  /\ u.type \in {"assistant.delta", "assistant.completed"} =>
       Positions(h, "assistant.completed") = {}
  /\ u.type = "assistant.completed" => u.text = DeltasUpTo(h, Len(h))
  /\ u.type = "session.completed" => Positions(h, "assistant.completed") # {}

MayFollow(h, u) ==
  /\ TakesItsPlace(h, u)
  /\ NamesItsCommand(h, u)
  /\ MindsThePause(h, u)
  /\ ConfirmsTheText(h, u)

(* The task, the start, the terminal, the identity and the numbering.      *)
LEMMA PlacesOfOneMore ==
  ASSUME NEW h, NEW g, NEW u, Longer(h, g, u),
         OneTaskThenOneStart(h), NothingAfterATerminal(h), OneSession(h),
         EventsAreNumbered(h)
  PROVE  TakesItsPlace(h, u) <=>
           /\ OneTaskThenOneStart(g) /\ NothingAfterATerminal(g)
           /\ OneSession(g) /\ EventsAreNumbered(g)
PROOF
  <1> DEFINE n == Len(h)
  <1>1. /\ n \in Nat /\ Len(g) = n + 1 /\ DOMAIN h = 1 .. n /\ DOMAIN g = 1 .. n + 1
        /\ g[n + 1] = u /\ \A i \in 1 .. n : g[i] = h[i]
    BY DEF Longer
  <1> HIDE DEF n
  <1>2. OneTaskThenOneStart(g) <=> /\ u.type = "task.submitted" <=> n = 0
                                   /\ u.type = "session.started" <=> n = 1
    <2>1. OneTaskThenOneStart(g) <=>
            /\ \A i \in 1 .. n : /\ h[i].type = "task.submitted" <=> i = 1
                                 /\ h[i].type = "session.started" <=> i = 2
            /\ u.type = "task.submitted" <=> n + 1 = 1
            /\ u.type = "session.started" <=> n + 1 = 2
      BY <1>1 DEF OneTaskThenOneStart
    <2>2. (n + 1 = 1 <=> n = 0) /\ (n + 1 = 2 <=> n = 1)
      BY <1>1
    <2> QED
      BY <1>1, <2>1, <2>2 DEF OneTaskThenOneStart
  <1>3. NothingAfterATerminal(g) <=> (n >= 1 => h[n].type \notin TerminalTypes)
    <2>1. NothingAfterATerminal(g) <=> \A i \in 1 .. n : h[i].type \notin TerminalTypes
      BY <1>1 DEF NothingAfterATerminal, TerminalTypes
    <2>2. \A i \in 1 .. n - 1 : h[i].type \notin TerminalTypes
      BY DEF NothingAfterATerminal, TerminalTypes, n
    <2> QED
      BY <1>1, <2>1, <2>2
  <1>4. OneSession(g) <=> (n >= 2 => u.session_id = h[2].session_id)
    BY <1>1 DEF OneSession, n
  <1>5. EventsAreNumbered(g) <=>
          (IsEvent(u) => u.sequence = Cardinality(EventsUpTo(h, n)) + 1)
    <2>1. \A i \in 1 .. n + 1 :
            {j \in 1 .. i : IsEvent(g[j])} = EventsUpTo(g, i)
      BY DEF EventsUpTo
    <2>2. EventsAreNumbered(g) <=>
            /\ \A i \in 1 .. n : IsEvent(h[i]) =>
                 h[i].sequence = Cardinality(EventsUpTo(g, i))
            /\ IsEvent(u) => u.sequence = Cardinality(EventsUpTo(g, n + 1))
      <3>1. EventsAreNumbered(g) <=>
              \A i \in 1 .. n + 1 : IsEvent(g[i]) =>
                g[i].sequence = Cardinality(EventsUpTo(g, i))
        BY <1>1, <2>1 DEF EventsAreNumbered
      <3>2. (\A i \in 1 .. n + 1 : IsEvent(g[i]) =>
               g[i].sequence = Cardinality(EventsUpTo(g, i)))
            <=> /\ \A i \in 1 .. n : IsEvent(g[i]) =>
                     g[i].sequence = Cardinality(EventsUpTo(g, i))
                /\ IsEvent(g[n + 1]) =>
                     g[n + 1].sequence = Cardinality(EventsUpTo(g, n + 1))
        <4>1. n + 1 \in 1 .. n + 1 /\ 1 .. n \subseteq 1 .. n + 1
              /\ \A i \in 1 .. n + 1 : i \in 1 .. n \/ i = n + 1
          BY <1>1
        <4> QED
          BY <4>1, Zenon
      <3> QED
        BY <1>1, <3>1, <3>2
    <2>3. \A i \in 1 .. n : EventsUpTo(g, i) = EventsUpTo(h, i)
      BY EventsGrow DEF n
    <2>4. IsEvent(u) => Cardinality(EventsUpTo(g, n + 1))
                          = Cardinality(EventsUpTo(h, n)) + 1
      BY EventsGrow DEF n
    <2>5. \A i \in 1 .. n : IsEvent(h[i]) =>
            h[i].sequence = Cardinality(EventsUpTo(h, i))
      BY <1>1 DEF EventsAreNumbered, EventsUpTo
    <2> QED
      BY <2>2, <2>3, <2>4, <2>5
  <1> QED
    BY <1>2, <1>3, <1>4, <1>5 DEF TakesItsPlace, n

(* Whom an event answers: the task, or a cancellation before it.           *)
LEMMA CommandOfOneMore ==
  ASSUME NEW h, NEW g, NEW u, Longer(h, g, u), Len(h) >= 1,
         EventsNameTheirCommand(h)
  PROVE  NamesItsCommand(h, u) <=> EventsNameTheirCommand(g)
PROOF
  <1> DEFINE n == Len(h)
  <1>1. /\ n \in Nat /\ DOMAIN h = 1 .. n /\ DOMAIN g = 1 .. n + 1
        /\ g[n + 1] = u /\ \A i \in 1 .. n : g[i] = h[i]
    BY DEF Longer
  <1>2. /\ \A i \in 1 .. n : Before(g, i, "cancel.requested")
                               = Before(h, i, "cancel.requested")
        /\ Before(g, n + 1, "cancel.requested") = Positions(h, "cancel.requested")
        /\ Positions(h, "cancel.requested") \subseteq 1 .. n
    BY PositionsGrow
  <1>3. \A i \in 1 .. n : Before(h, i, "cancel.requested") \subseteq 1 .. n
    BY <1>2 DEF Before
  <1>4. g[1] = h[1] /\ n >= 1
    BY <1>1
  <1> DEFINE Names(s, v, B) ==
        IsEvent(v) => IF v.type = "session.cancelled"
                        THEN \E j \in B : v.correlation_id = s[j].command_id
                        ELSE v.correlation_id = s[1].command_id
  <1>5. \A i \in 1 .. n : Names(h, h[i], Before(h, i, "cancel.requested"))
    BY <1>1 DEF EventsNameTheirCommand
  <1>6. EventsNameTheirCommand(g) <=>
          \A i \in 1 .. n + 1 : Names(g, g[i], Before(g, i, "cancel.requested"))
    BY <1>1 DEF EventsNameTheirCommand
  <1>7. \A v : \A B \in SUBSET (1 .. n) : Names(g, v, B) <=> Names(h, v, B)
    BY <1>1, <1>4
  <1>8. NamesItsCommand(h, u) <=> Names(h, u, Positions(h, "cancel.requested"))
    BY DEF NamesItsCommand, IsEvent, EventTypes
  <1> HIDE DEF Names, n
  <1>9. \A i \in 1 .. n : Names(g, g[i], Before(g, i, "cancel.requested"))
    BY <1>1, <1>2, <1>3, <1>5, <1>7
  <1>10. EventsNameTheirCommand(g) <=>
           Names(g, u, Positions(h, "cancel.requested"))
    BY <1>1, <1>2, <1>6, <1>9
  <1> QED
    BY <1>2, <1>7, <1>8, <1>10

(* Approvals and the one cancellation.                                     *)
LEMMA PauseOfOneMore ==
  ASSUME NEW h, NEW g, NEW u, Longer(h, g, u),
         ApprovalsBracketAPause(h), CancelledOnceAtMost(h)
  PROVE  MindsThePause(h, u) <=> ApprovalsBracketAPause(g) /\ CancelledOnceAtMost(g)
PROOF
  <1> DEFINE n == Len(h)
  <1> DEFINE C(s) == Positions(s, "cancel.requested")
  <1>1. /\ n \in Nat /\ Len(g) = n + 1
        /\ g[n + 1] = u /\ \A i \in 1 .. n : g[i] = h[i]
    BY DEF Longer
  <1>2. \A i \in 1 .. n : Awaiting(g, i) <=> Awaiting(h, i)
    <2>1. \A type : \A i \in 1 .. n : Before(g, i, type) = Before(h, i, type)
      BY PositionsGrow
    <2> QED
      BY <2>1 DEF Awaiting
  <1>3. Awaiting(g, n + 1) <=> Paused(h)
    BY PositionsGrow DEF Awaiting, Paused
  <1>4. /\ C(h) \subseteq 1 .. n
        /\ u.type = "cancel.requested" => C(g) = C(h) \cup {n + 1}
        /\ u.type # "cancel.requested" => C(g) = C(h)
    BY PositionsGrow
  <1> HIDE DEF n
  <1> DEFINE Minds(v, a) ==
        CASE v.type = "approval.resolved" -> a
          [] v.type \in {"cancel.requested", "session.failed"} -> TRUE
          [] OTHER -> ~a
  <1>5. \A i \in 3 .. n : Minds(h[i], Awaiting(h, i))
    BY DEF ApprovalsBracketAPause, n
  <1>6. ApprovalsBracketAPause(g) <=> \A i \in 3 .. n + 1 : Minds(g[i], Awaiting(g, i))
    BY <1>1 DEF ApprovalsBracketAPause
  <1>7. \A v : \A a, b : (a <=> b) => (Minds(v, a) <=> Minds(v, b))
    OBVIOUS
  <1>8. ApprovalsBracketAPause(g) <=> (n >= 2 => Minds(u, Paused(h)))
    <2> HIDE DEF Minds
    <2>1. \A i \in 3 .. n : Minds(g[i], Awaiting(g, i))
      BY <1>1, <1>2, <1>5, <1>7
    <2>2. ApprovalsBracketAPause(g) <=> (n >= 2 => Minds(u, Awaiting(g, n + 1)))
      BY <1>1, <1>6, <2>1
    <2> QED
      BY <1>3, <1>7, <2>2
  <1> DEFINE Again == {"cancel.requested", "approval.requested", "approval.resolved"}
  <1>9. \A i \in C(h) : \A j \in i + 1 .. n : h[j].type \notin Again
    BY DEF CancelledOnceAtMost, n
  <1>10. CancelledOnceAtMost(g) <=>
           \A i \in C(g) : \A j \in i + 1 .. n + 1 : g[j].type \notin Again
    BY <1>1 DEF CancelledOnceAtMost
  <1>11. CancelledOnceAtMost(g) <=> (u.type \in Again => C(h) = {})
    <2> HIDE DEF Again, C
    <2>1. (\A i \in C(g) : \A j \in i + 1 .. n + 1 : g[j].type \notin Again)
            <=> \A i \in C(h) : \A j \in i + 1 .. n + 1 : g[j].type \notin Again
      BY <1>1, <1>4
    <2>2. (\A i \in C(h) : \A j \in i + 1 .. n + 1 : g[j].type \notin Again)
            <=> (u.type \in Again => C(h) = {})
      BY <1>1, <1>4, <1>9
    <2> QED
      BY <1>10, <2>1, <2>2
  <1> QED
    BY <1>8, <1>11 DEF MindsThePause, n

(* The completion repeats the deltas, ends them, and ends the session.     *)
LEMMA TextOfOneMore ==
  ASSUME NEW h \in Seq(Facts \cup WireEvents), NEW u \in Facts \cup WireEvents,
         AssistantTextIsConfirmed(h)
  PROVE  ConfirmsTheText(h, u) <=> AssistantTextIsConfirmed(Append(h, u))
PROOF
  <1> DEFINE n == Len(h)
  <1> DEFINE g == Append(h, u)
  <1> DEFINE C(s) == Positions(s, "assistant.completed")
  <1> DEFINE E(s) == Positions(s, "session.completed")
  <1> DEFINE Late == {"assistant.delta", "assistant.completed"}
  <1>1. Longer(h, g, u)
    BY AppendIsLonger
  <1>2. /\ n \in Nat /\ Len(g) = n + 1
        /\ g[n + 1] = u /\ \A i \in 1 .. n : g[i] = h[i]
    BY <1>1 DEF Longer
  <1>3. /\ C(h) \subseteq 1 .. n
        /\ u.type = "assistant.completed" => C(g) = C(h) \cup {n + 1}
        /\ u.type # "assistant.completed" => C(g) = C(h)
        /\ \A i \in 1 .. n : Before(g, i, "assistant.completed")
                               = Before(h, i, "assistant.completed")
        /\ Before(g, n + 1, "assistant.completed") = C(h)
    BY <1>1, PositionsGrow
  <1>4. /\ E(h) \subseteq 1 .. n
        /\ u.type = "session.completed" => E(g) = E(h) \cup {n + 1}
        /\ u.type # "session.completed" => E(g) = E(h)
    BY <1>1, PositionsGrow
  <1>5. /\ \A i \in 1 .. n : DeltasUpTo(g, i) = DeltasUpTo(h, i)
        /\ u.type = "assistant.completed" => DeltasUpTo(g, n + 1) = DeltasUpTo(h, n)
    BY DeltasGrow
  <1>6. /\ \A i \in C(h) : /\ h[i].text = DeltasUpTo(h, i)
                           /\ \A j \in i + 1 .. n : h[j].type \notin Late
        /\ \A i \in E(h) : Before(h, i, "assistant.completed") # {}
    BY DEF AssistantTextIsConfirmed
  <1>7. AssistantTextIsConfirmed(g) <=>
          /\ \A i \in C(g) : /\ g[i].text = DeltasUpTo(g, i)
                             /\ \A j \in i + 1 .. n + 1 : g[j].type \notin Late
          /\ \A i \in E(g) : Before(g, i, "assistant.completed") # {}
    BY <1>2 DEF AssistantTextIsConfirmed
  <1> HIDE DEF n, g, C, E
  <1>8. (\A i \in C(g) : g[i].text = DeltasUpTo(g, i))
          <=> (u.type = "assistant.completed" => u.text = DeltasUpTo(h, n))
    <2>1. \A i \in C(h) : g[i].text = DeltasUpTo(g, i)
      BY <1>2, <1>3, <1>5, <1>6
    <2> QED
      BY <1>2, <1>3, <1>5, <2>1
  <1>9. (\A i \in C(g) : \A j \in i + 1 .. n + 1 : g[j].type \notin Late)
          <=> (u.type \in Late => C(h) = {})
    <2> HIDE DEF Late
    <2>1. (\A i \in C(g) : \A j \in i + 1 .. n + 1 : g[j].type \notin Late)
            <=> \A i \in C(h) : \A j \in i + 1 .. n + 1 : g[j].type \notin Late
      BY <1>2, <1>3
    <2> QED
      BY <1>2, <1>3, <1>6, <2>1
  <1>10. (\A i \in E(g) : Before(g, i, "assistant.completed") # {})
           <=> (u.type = "session.completed" => C(h) # {})
    <2>1. \A i \in E(h) : Before(g, i, "assistant.completed") # {}
      BY <1>3, <1>4, <1>6
    <2> QED
      BY <1>2, <1>3, <1>4, <2>1
  <1>11. AssistantTextIsConfirmed(g) <=>
           /\ u.type = "assistant.completed" => u.text = DeltasUpTo(h, n)
           /\ u.type \in Late => C(h) = {}
           /\ u.type = "session.completed" => C(h) # {}
    <2> HIDE DEF Late
    <2> QED
      BY <1>7, <1>8, <1>9, <1>10
  <1> QED
    BY <1>11 DEF ConfirmsTheText, n, g, C

(* Which updates may follow a legal history, without reading it again.     *)
LEMMA LegalIfItMayFollow ==
  ASSUME NEW h \in Seq(Facts \cup WireEvents), NEW u \in Facts \cup WireEvents,
         LegalHistory(h)
  PROVE  LegalHistory(Append(h, u)) <=> MayFollow(h, u)
PROOF
  <1> DEFINE g == Append(h, u)
  <1>1. Longer(h, g, u)
    BY AppendIsLonger
  <1>2. TakesItsPlace(h, u) <=>
          /\ OneTaskThenOneStart(g) /\ NothingAfterATerminal(g)
          /\ OneSession(g) /\ EventsAreNumbered(g)
    BY <1>1, PlacesOfOneMore DEF LegalHistory
  <1>3. MindsThePause(h, u) <=> ApprovalsBracketAPause(g) /\ CancelledOnceAtMost(g)
    BY <1>1, PauseOfOneMore DEF LegalHistory
  <1>4. ConfirmsTheText(h, u) <=> AssistantTextIsConfirmed(g)
    BY TextOfOneMore DEF LegalHistory
  <1>5. CASE Len(h) >= 1
    <2>1. NamesItsCommand(h, u) <=> EventsNameTheirCommand(g)
      BY <1>1, <1>5, CommandOfOneMore DEF LegalHistory
    <2> QED
      BY <1>2, <1>3, <1>4, <2>1 DEF LegalHistory, MayFollow
  <1>6. CASE Len(h) = 0
    <2>1. TakesItsPlace(h, u) => ~IsEvent(u)
      BY <1>6 DEF TakesItsPlace, IsEvent, EventTypes
    <2>2. ~IsEvent(u) => NamesItsCommand(h, u) /\ EventsNameTheirCommand(g)
      BY <1>1, <1>6 DEF NamesItsCommand, EventsNameTheirCommand, IsEvent, EventTypes,
                        Longer
    <2> QED
      BY <1>2, <1>3, <1>4, <2>1, <2>2 DEF LegalHistory, MayFollow
  <1> QED
    BY <1>1, <1>5, <1>6 DEF Longer

-----------------------------------------------------------------------------
(* Part five: the projection tells of the history it was folded from.      *)

PlaceAgrees(s, h) ==
  /\ s.status = "idle" <=> Len(h) = 0
  /\ s.status = "starting" <=> Len(h) = 1
  /\ Len(h) >= 1 => s.start_command_id = h[1].command_id
  /\ Len(h) >= 2 => s.session_id = h[2].session_id
  /\ Len(h) >= 1 => (s.status \in TerminalStatuses <=> h[Len(h)].type \in TerminalTypes)
  /\ s.last_sequence = Cardinality(EventsUpTo(h, Len(h)))

CancelAgrees(s, h) ==
  /\ s.status \in {"idle", "starting", "running", "awaiting_approval"} =>
       Positions(h, "cancel.requested") = {}
  /\ s.status = "cancelling" => Positions(h, "cancel.requested") # {}
  /\ \A j \in Positions(h, "cancel.requested") : h[j].command_id = s.cancel_command_id

(* An approval is open exactly while the session waits for it; after a     *)
(* cancellation nobody asks.                                               *)
PauseAgrees(s, h) ==
  s.status \in {"idle", "starting", "running", "awaiting_approval"} =>
    Cardinality(Positions(h, "approval.requested")) =
      IF s.status = "awaiting_approval"
        THEN Cardinality(Positions(h, "approval.resolved")) + 1
        ELSE Cardinality(Positions(h, "approval.resolved"))

TextAgrees(s, h) ==
  /\ s.assistant_text = DeltasUpTo(h, Len(h))
  /\ s.assistant_completed <=> Positions(h, "assistant.completed") # {}

Describes(s, h) ==
  /\ PlaceAgrees(s, h)
  /\ CancelAgrees(s, h)
  /\ PauseAgrees(s, h)
  /\ TextAgrees(s, h)

(* The reducer's verdict on an event, as conditions on its state.          *)
LEMMA EventAccepted ==
  ASSUME NEW s \in SessionState, NEW e \in WireEvents, s.status \notin TerminalStatuses
  PROVE  Accepts(s, e) <=>
           /\ s.status \in LegalStatuses(e.type)
           /\ e.correlation_id = ExpectedCorrelation(s, e)
           /\ e.type # "session.started" => e.session_id = s.session_id
           /\ e.sequence = s.last_sequence + 1
           /\ e.type \in {"assistant.delta", "assistant.completed"} =>
                ~s.assistant_completed
           /\ e.type = "assistant.completed" => e.text = s.assistant_text
           /\ e.type = "session.completed" => s.assistant_completed
PROOF
  <1>1. e.type \in EventTypes /\ e.sequence \in Nat /\ s.last_sequence \in Nat
    BY DEF WireEvents, SessionState
  <1>2. Accepts(s, e) <=> EventFailure(s, e) = None
    BY <1>1, EventVerdict
  <1>3. "illegal_transition" # None /\ "correlation_mismatch" # None
        /\ "session_mismatch" # None /\ "sequence_regression" # None
        /\ "sequence_gap" # None
    BY NoneAssumption DEF FailureCodes
  <1>4. /\ "assistant_after_completion" # None /\ "assistant_already_completed" # None
        /\ "assistant_completion_mismatch" # None
        /\ "session_completion_before_assistant" # None
    BY NoneAssumption DEF FailureCodes
  <1>5. SequenceFailure(s, e.sequence) = None <=> e.sequence = s.last_sequence + 1
    BY <1>1, <1>3 DEF SequenceFailure
  <1>6. PayloadFailure(s, e) = None <=>
          /\ e.type \in {"assistant.delta", "assistant.completed"} =>
               ~s.assistant_completed
          /\ e.type = "assistant.completed" => e.text = s.assistant_text
          /\ e.type = "session.completed" => s.assistant_completed
    BY <1>1, <1>4 DEF PayloadFailure, EventTypes
  <1>7. EventFailure(s, e) = None <=>
          /\ s.status \in LegalStatuses(e.type)
          /\ e.correlation_id = ExpectedCorrelation(s, e)
          /\ e.type # "session.started" => e.session_id = s.session_id
          /\ SequenceFailure(s, e.sequence) = None
          /\ PayloadFailure(s, e) = None
    BY <1>3 DEF EventFailure
  <1> QED
    BY <1>2, <1>5, <1>6, <1>7

(* Where the history stands, read off the projection.                      *)
LEMMA FollowingFromTheProjection ==
  ASSUME NEW s \in SessionState, NEW h \in Seq(Facts \cup WireEvents),
         NEW u \in Facts \cup WireEvents, Describes(s, h),
         s.status \notin TerminalStatuses
  PROVE  /\ TakesItsPlace(h, u) <=>
              /\ u.type = "task.submitted" <=> s.status = "idle"
              /\ u.type = "session.started" <=> s.status = "starting"
              /\ s.status \notin {"idle", "starting"} => u.session_id = s.session_id
              /\ IsEvent(u) => u.sequence = s.last_sequence + 1
         /\ s.status # "idle" =>
              (NamesItsCommand(h, u) <=>
                 /\ u.type = "session.cancelled" =>
                      /\ s.status = "cancelling"
                      /\ u.correlation_id = s.cancel_command_id
                 /\ IsEvent(u) /\ u.type # "session.cancelled" =>
                      u.correlation_id = s.start_command_id)
         /\ MindsThePause(h, u) <=>
              /\ s.status \notin {"idle", "starting"} =>
                   CASE u.type = "approval.resolved" -> s.status = "awaiting_approval"
                     [] u.type \in {"cancel.requested", "session.failed"} -> TRUE
                     [] OTHER -> s.status # "awaiting_approval"
              /\ u.type \in {"cancel.requested", "approval.requested",
                             "approval.resolved"} => s.status # "cancelling"
         /\ ConfirmsTheText(h, u) <=>
              /\ u.type \in {"assistant.delta", "assistant.completed"} =>
                   ~s.assistant_completed
              /\ u.type = "assistant.completed" => u.text = s.assistant_text
              /\ u.type = "session.completed" => s.assistant_completed
PROOF
  <1>1. Longer(h, Append(h, u), u)
    BY AppendIsLonger
  <1>2. Len(h) \in Nat
    OBVIOUS
  <1>3. s.status \in {"idle", "starting", "running", "awaiting_approval", "cancelling"}
    BY DEF SessionState, Statuses, TerminalStatuses
  <1>4. /\ s.status = "idle" <=> Len(h) = 0
        /\ s.status = "starting" <=> Len(h) = 1
        /\ s.status \notin {"idle", "starting"} <=> Len(h) >= 2
        /\ s.status # "idle" <=> Len(h) >= 1
    <2>1. s.status = "idle" <=> Len(h) = 0
      BY DEF Describes, PlaceAgrees
    <2>2. s.status = "starting" <=> Len(h) = 1
      BY DEF Describes, PlaceAgrees
    <2>3. \A n \in Nat : /\ n >= 2 <=> n # 0 /\ n # 1
                         /\ n >= 1 <=> n # 0
      OBVIOUS
    <2>4. Len(h) >= 2 <=> Len(h) # 0 /\ Len(h) # 1
      BY <1>2, <2>3
    <2>5. Len(h) >= 1 <=> Len(h) # 0
      BY <1>2, <2>3
    <2> QED
      BY <2>1, <2>2, <2>4, <2>5, Zenon
  <1>5. TakesItsPlace(h, u) <=>
          /\ u.type = "task.submitted" <=> s.status = "idle"
          /\ u.type = "session.started" <=> s.status = "starting"
          /\ s.status \notin {"idle", "starting"} => u.session_id = s.session_id
          /\ IsEvent(u) => u.sequence = s.last_sequence + 1
    <2>1. Len(h) >= 1 => h[Len(h)].type \notin TerminalTypes
      BY DEF Describes, PlaceAgrees
    <2>2. Len(h) >= 2 => s.session_id = h[2].session_id
      BY DEF Describes, PlaceAgrees
    <2>3. s.last_sequence = Cardinality(EventsUpTo(h, Len(h)))
      BY DEF Describes, PlaceAgrees
    <2> QED
      BY <1>4, <2>1, <2>2, <2>3 DEF TakesItsPlace
  <1>6. s.status # "cancelling" <=> Positions(h, "cancel.requested") = {}
    BY <1>3 DEF Describes, CancelAgrees
  <1>7. s.status # "idle" =>
          (NamesItsCommand(h, u) <=>
             /\ u.type = "session.cancelled" =>
                  s.status = "cancelling" /\ u.correlation_id = s.cancel_command_id
             /\ IsEvent(u) /\ u.type # "session.cancelled" =>
                  u.correlation_id = s.start_command_id)
    <2>1. (\E j \in Positions(h, "cancel.requested") :
             u.correlation_id = h[j].command_id)
            <=> s.status = "cancelling" /\ u.correlation_id = s.cancel_command_id
      BY <1>6 DEF Describes, CancelAgrees
    <2>2. s.status # "idle" => s.start_command_id = h[1].command_id
      BY <1>4 DEF Describes, PlaceAgrees
    <2> QED
      BY <2>1, <2>2 DEF NamesItsCommand
  <1>8. Paused(h) <=> s.status = "awaiting_approval"
    <2>1. /\ Cardinality(Positions(h, "approval.requested")) \in Nat
          /\ Cardinality(Positions(h, "approval.resolved")) \in Nat
      BY <1>1, PositionsGrow
    <2>2. CASE s.status = "cancelling"
      BY <1>6, <2>2 DEF Paused
    <2>3. CASE s.status # "cancelling"
      <3>1. Cardinality(Positions(h, "approval.requested")) =
              IF s.status = "awaiting_approval"
                THEN Cardinality(Positions(h, "approval.resolved")) + 1
                ELSE Cardinality(Positions(h, "approval.resolved"))
        BY <1>3, <2>3 DEF Describes, PauseAgrees
      <3>2. (Cardinality(Positions(h, "approval.requested"))
               > Cardinality(Positions(h, "approval.resolved")))
              <=> s.status = "awaiting_approval"
        BY <2>1, <3>1
      <3> QED
        BY <1>6, <2>3, <3>2 DEF Paused
    <2> QED
      BY <2>2, <2>3
  <1>9. MindsThePause(h, u) <=>
          /\ s.status \notin {"idle", "starting"} =>
               CASE u.type = "approval.resolved" -> s.status = "awaiting_approval"
                 [] u.type \in {"cancel.requested", "session.failed"} -> TRUE
                 [] OTHER -> s.status # "awaiting_approval"
          /\ u.type \in {"cancel.requested", "approval.requested",
                         "approval.resolved"} => s.status # "cancelling"
    BY <1>4, <1>6, <1>8 DEF MindsThePause
  <1>10. ConfirmsTheText(h, u) <=>
           /\ u.type \in {"assistant.delta", "assistant.completed"} =>
                ~s.assistant_completed
           /\ u.type = "assistant.completed" => u.text = s.assistant_text
           /\ u.type = "session.completed" => s.assistant_completed
    BY DEF Describes, TextAgrees, ConfirmsTheText
  <1> QED
    BY <1>5, <1>7, <1>9, <1>10

(* The reducer, which sees the projection only, accepts exactly what may   *)
(* follow the history.                                                     *)
LEMMA AcceptsWhatMayFollow ==
  ASSUME NEW s \in SessionState, NEW h \in Seq(Facts \cup WireEvents),
         NEW u \in Facts \cup WireEvents, Describes(s, h)
  PROVE  Accepts(s, u) <=> MayFollow(h, u)
PROOF
  <1>1. s.status \in {"idle", "starting", "running", "awaiting_approval", "cancelling"}
          \cup TerminalStatuses
    BY DEF SessionState, Statuses
  <1>2. CASE s.status \in TerminalStatuses
    <2>1. ~Accepts(s, u)
      BY <1>2, NoneAssumption DEF Accepts, ReduceSessionState, Reject, FailureCodes
    <2>2. Len(h) >= 1
      <3>1. Len(h) \in Nat /\ Len(h) # 0
        BY <1>2 DEF Describes, PlaceAgrees, TerminalStatuses
      <3> QED
        BY <3>1
    <2>3. h[Len(h)].type \in TerminalTypes
      BY <1>2, <2>2 DEF Describes, PlaceAgrees
    <2> QED
      BY <2>1, <2>2, <2>3 DEF MayFollow, TakesItsPlace
  <1>3. CASE s.status \notin TerminalStatuses /\ u \in Facts
    <2>1. /\ u.type \in {"task.submitted", "cancel.requested",
                         "approval.requested", "approval.resolved"}
          /\ ~IsEvent(u)
          /\ Accepts(s, u) <=>
               /\ u.type = "task.submitted" => s.status = "idle"
               /\ u.type = "cancel.requested" =>
                    s.status \in {"running", "awaiting_approval"}
               /\ u.type = "approval.requested" => s.status = "running"
               /\ u.type = "approval.resolved" => s.status = "awaiting_approval"
               /\ u.type # "task.submitted" => u.session_id = s.session_id
      BY <1>3, FactVerdict DEF IsEvent
    <2>2. NamesItsCommand(h, u) /\ ConfirmsTheText(h, u)
      BY <2>1 DEF NamesItsCommand, ConfirmsTheText
    <2> QED
      BY <1>1, <1>3, <2>1, <2>2, FollowingFromTheProjection DEF MayFollow
  <1>4. CASE s.status \notin TerminalStatuses /\ u \in WireEvents
    <2>1. u.type \in EventTypes /\ IsEvent(u)
      BY <1>4 DEF WireEvents, IsEvent
    <2>2. CASE s.status = "idle"
      <3>1. ~TakesItsPlace(h, u)
        BY <1>4, <2>1, <2>2, FollowingFromTheProjection DEF EventTypes
      <3>2. s.status \notin LegalStatuses(u.type)
        BY <2>1, <2>2 DEF LegalStatuses, EventTypes
      <3> QED
        BY <1>4, <3>1, <3>2, EventAccepted DEF MayFollow
    <2>3. CASE s.status # "idle"
      <3>1. MayFollow(h, u) <=>
              /\ u.type # "task.submitted"
              /\ u.type = "session.started" <=> s.status = "starting"
              /\ s.status # "starting" => u.session_id = s.session_id
              /\ u.sequence = s.last_sequence + 1
              /\ u.correlation_id = ExpectedCorrelation(s, u)
              /\ u.type = "session.cancelled" => s.status = "cancelling"
              /\ s.status # "starting" /\ u.type # "session.failed" =>
                   s.status # "awaiting_approval"
              /\ u.type \in {"assistant.delta", "assistant.completed"} =>
                   ~s.assistant_completed
              /\ u.type = "assistant.completed" => u.text = s.assistant_text
              /\ u.type = "session.completed" => s.assistant_completed
        BY <1>4, <2>1, <2>3, FollowingFromTheProjection
        DEF MayFollow, ExpectedCorrelation, EventTypes
      <3>2. /\ u.type # "task.submitted"
            /\ s.status \in LegalStatuses(u.type) <=>
                 /\ u.type = "session.started" <=> s.status = "starting"
                 /\ u.type = "session.cancelled" => s.status = "cancelling"
                 /\ s.status # "starting" /\ u.type # "session.failed" =>
                      s.status # "awaiting_approval"
        BY <1>1, <1>4, <2>1, <2>3 DEF LegalStatuses, EventTypes, TerminalStatuses
      <3>3. Accepts(s, u) <=>
              /\ s.status \in LegalStatuses(u.type)
              /\ u.correlation_id = ExpectedCorrelation(s, u)
              /\ u.type # "session.started" => u.session_id = s.session_id
              /\ u.sequence = s.last_sequence + 1
              /\ u.type \in {"assistant.delta", "assistant.completed"} =>
                   ~s.assistant_completed
              /\ u.type = "assistant.completed" => u.text = s.assistant_text
              /\ u.type = "session.completed" => s.assistant_completed
        BY <1>4, EventAccepted
      <3> QED
        BY <3>1, <3>2, <3>3
    <2> QED
      BY <2>2, <2>3
  <1> QED
    BY <1>2, <1>3, <1>4

(* Every accepted update, fact or event, field by field.                   *)
LEMMA AcceptedWrites ==
  ASSUME NEW s \in SessionState, Fresh(s), NEW u \in Facts \cup WireEvents,
         Accepts(s, u)
  PROVE  LET t == After(s, u)
         IN /\ u.type = "task.submitted" <=> s.status = "idle"
            /\ u.type = "session.started" <=> s.status = "starting"
            /\ t.start_command_id = IF u.type = "task.submitted" THEN u.command_id
                                    ELSE s.start_command_id
            /\ t.session_id = IF u.type = "session.started" THEN u.session_id
                              ELSE s.session_id
            /\ t.cancel_command_id = IF u.type = "cancel.requested" THEN u.command_id
                                     ELSE s.cancel_command_id
            /\ t.last_sequence = IF IsEvent(u) THEN s.last_sequence + 1
                                 ELSE s.last_sequence
            /\ t.assistant_text = IF u.type = "assistant.delta"
                                    THEN s.assistant_text \o u.text
                                    ELSE s.assistant_text
            /\ t.assistant_completed = IF u.type = "assistant.completed" THEN TRUE
                                       ELSE s.assistant_completed
            /\ \/ u.type = "task.submitted" /\ t.status = "starting"
               \/ u.type = "session.started" /\ t.status = "running"
               \/ /\ u.type = "cancel.requested" /\ t.status = "cancelling"
                  /\ s.status \in {"running", "awaiting_approval"}
               \/ /\ u.type = "approval.requested" /\ t.status = "awaiting_approval"
                  /\ s.status = "running"
               \/ /\ u.type = "approval.resolved" /\ t.status = "running"
                  /\ s.status = "awaiting_approval"
               \/ /\ u.type \in {"assistant.delta", "assistant.completed"}
                  /\ s.status \in {"running", "cancelling"} /\ t.status = s.status
               \/ u.type \in TerminalTypes /\ t.status \in TerminalStatuses
PROOF
  <1> DEFINE t == After(s, u)
  <1>1. s.status \notin TerminalStatuses
    BY NoneAssumption DEF Accepts, ReduceSessionState, Reject, FailureCodes
  <1>2. CASE u \in Facts
    <2>1. /\ u.type \in {"task.submitted", "cancel.requested",
                         "approval.requested", "approval.resolved"}
          /\ ~IsEvent(u)
          /\ u.type = "task.submitted" => s.status = "idle"
          /\ u.type = "cancel.requested" => s.status \in {"running", "awaiting_approval"}
          /\ u.type = "approval.requested" => s.status = "running"
          /\ u.type = "approval.resolved" => s.status = "awaiting_approval"
      BY <1>1, <1>2, FactVerdict DEF IsEvent
    <2>2. t.status = CASE u.type = "task.submitted" -> "starting"
                       [] u.type = "cancel.requested" -> "cancelling"
                       [] u.type = "approval.requested" -> "awaiting_approval"
                       [] u.type = "approval.resolved" -> "running"
      BY <1>1, <1>2, FactWrites
    <2>3. IF u.type = "task.submitted"
            THEN /\ t.start_command_id = u.command_id
                 /\ t.session_id = None /\ t.cancel_command_id = None
                 /\ t.last_sequence = 0 /\ t.assistant_text = << >>
                 /\ t.assistant_completed = FALSE
            ELSE /\ t.start_command_id = s.start_command_id
                 /\ t.session_id = s.session_id
                 /\ t.cancel_command_id = IF u.type = "cancel.requested"
                                            THEN u.command_id
                                            ELSE s.cancel_command_id
                 /\ t.last_sequence = s.last_sequence
                 /\ t.assistant_text = s.assistant_text
                 /\ t.assistant_completed = s.assistant_completed
      BY <1>1, <1>2, FactWrites
    <2>4. s.status = "idle" =>
            /\ s.session_id = None /\ s.cancel_command_id = None
            /\ s.last_sequence = 0
            /\ s.assistant_text = << >> /\ s.assistant_completed = FALSE
      BY DEF Fresh
    <2> HIDE DEF t
    <2>5. /\ t.start_command_id = IF u.type = "task.submitted" THEN u.command_id
                                  ELSE s.start_command_id
          /\ t.session_id = s.session_id
          /\ t.cancel_command_id = IF u.type = "cancel.requested" THEN u.command_id
                                   ELSE s.cancel_command_id
          /\ t.last_sequence = s.last_sequence
          /\ t.assistant_text = s.assistant_text
          /\ t.assistant_completed = s.assistant_completed
      BY <2>1, <2>3, <2>4
    <2>6. \/ u.type = "task.submitted" /\ t.status = "starting" /\ s.status = "idle"
          \/ /\ u.type = "cancel.requested" /\ t.status = "cancelling"
             /\ s.status \in {"running", "awaiting_approval"}
          \/ /\ u.type = "approval.requested" /\ t.status = "awaiting_approval"
             /\ s.status = "running"
          \/ /\ u.type = "approval.resolved" /\ t.status = "running"
             /\ s.status = "awaiting_approval"
      BY <2>1, <2>2
    <2> QED
      BY <2>1, <2>5, <2>6 DEF t
  <1>3. CASE u \in WireEvents
    <2>1. /\ u.type \in EventTypes /\ IsEvent(u)
          /\ t = ApplyEvent(s, u)
          /\ s.status \in LegalStatuses(u.type)
          /\ u.sequence = s.last_sequence + 1
      BY <1>3, AcceptedEvent DEF IsEvent
    <2> HIDE DEF t
    <2>2. /\ t.last_sequence = u.sequence
          /\ t.start_command_id = s.start_command_id
          /\ t.cancel_command_id = s.cancel_command_id
          /\ t.session_id =
               IF u.type = "session.started" THEN u.session_id ELSE s.session_id
          /\ t.assistant_text = IF u.type = "assistant.delta"
                                  THEN s.assistant_text \o u.text
                                  ELSE s.assistant_text
          /\ t.assistant_completed =
               IF u.type = "assistant.completed" THEN TRUE ELSE s.assistant_completed
      BY <2>1, EventWrites
    <2>3. t.status = CASE u.type = "session.started" -> "running"
                       [] u.type = "session.completed" -> "completed"
                       [] u.type = "session.cancelled" -> "cancelled"
                       [] u.type = "session.failed" -> "failed"
                       [] OTHER -> s.status
      BY <2>1, EventWrites
    <2>4. u.type \notin {"task.submitted", "cancel.requested"}
      BY <2>1 DEF EventTypes
    <2>5. \/ /\ u.type = "session.started" /\ t.status = "running"
             /\ s.status = "starting"
          \/ /\ u.type \in {"assistant.delta", "assistant.completed"}
             /\ s.status \in {"running", "cancelling"} /\ t.status = s.status
          \/ /\ u.type \in TerminalTypes /\ t.status \in TerminalStatuses
             /\ s.status \in {"running", "awaiting_approval", "cancelling"}
      BY <2>1, <2>3 DEF LegalStatuses, EventTypes, TerminalTypes, TerminalStatuses
    <2>6. /\ u.type = "task.submitted" <=> s.status = "idle"
          /\ u.type = "session.started" <=> s.status = "starting"
      BY <2>4, <2>5 DEF TerminalTypes
    <2> QED
      BY <2>1, <2>2, <2>4, <2>5, <2>6 DEF t
  <1> QED
    BY <1>2, <1>3

(* What the projection says stays true of the history one update longer.   *)
LEMMA DescribesMore ==
  ASSUME NEW s \in SessionState, Fresh(s), NEW h \in Seq(Facts \cup WireEvents),
         NEW u \in Facts \cup WireEvents, Describes(s, h), Accepts(s, u)
  PROVE  Describes(After(s, u), Append(h, u))
PROOF
  <1> DEFINE t == After(s, u)
  <1> DEFINE g == Append(h, u)
  <1> DEFINE n == Len(h)
  <1>1. Longer(h, g, u)
    BY AppendIsLonger
  <1>2. /\ n \in Nat /\ Len(g) = n + 1 /\ g[n + 1] = u
        /\ \A i \in 1 .. n : g[i] = h[i]
    BY <1>1 DEF Longer
  <1>3. /\ u.type = "task.submitted" <=> s.status = "idle"
        /\ u.type = "session.started" <=> s.status = "starting"
        /\ t.start_command_id = IF u.type = "task.submitted" THEN u.command_id
                                ELSE s.start_command_id
        /\ t.session_id = IF u.type = "session.started" THEN u.session_id
                          ELSE s.session_id
        /\ t.cancel_command_id = IF u.type = "cancel.requested" THEN u.command_id
                                 ELSE s.cancel_command_id
        /\ t.last_sequence = IF IsEvent(u) THEN s.last_sequence + 1
                             ELSE s.last_sequence
        /\ t.assistant_text = IF u.type = "assistant.delta"
                                THEN s.assistant_text \o u.text
                                ELSE s.assistant_text
        /\ t.assistant_completed = IF u.type = "assistant.completed" THEN TRUE
                                   ELSE s.assistant_completed
    BY AcceptedWrites
  <1>4. \/ u.type = "task.submitted" /\ t.status = "starting"
        \/ u.type = "session.started" /\ t.status = "running"
        \/ /\ u.type = "cancel.requested" /\ t.status = "cancelling"
           /\ s.status \in {"running", "awaiting_approval"}
        \/ /\ u.type = "approval.requested" /\ t.status = "awaiting_approval"
           /\ s.status = "running"
        \/ /\ u.type = "approval.resolved" /\ t.status = "running"
           /\ s.status = "awaiting_approval"
        \/ /\ u.type \in {"assistant.delta", "assistant.completed"}
           /\ s.status \in {"running", "cancelling"} /\ t.status = s.status
        \/ u.type \in TerminalTypes /\ t.status \in TerminalStatuses
    BY AcceptedWrites
  <1>5. /\ s.status = "idle" <=> n = 0
        /\ s.status = "starting" <=> n = 1
        /\ n >= 1 => s.start_command_id = h[1].command_id
        /\ n >= 2 => s.session_id = h[2].session_id
        /\ s.last_sequence = Cardinality(EventsUpTo(h, n))
    BY DEF Describes, PlaceAgrees
  <1>6. /\ s.status \in {"idle", "starting", "running", "awaiting_approval"} =>
             Positions(h, "cancel.requested") = {}
        /\ s.status = "cancelling" => Positions(h, "cancel.requested") # {}
        /\ \A j \in Positions(h, "cancel.requested") :
             h[j].command_id = s.cancel_command_id
    BY DEF Describes, CancelAgrees
  <1>11. \A type :
           /\ Positions(h, type) \subseteq 1 .. n
           /\ u.type = type => Positions(g, type) = Positions(h, type) \cup {n + 1}
           /\ u.type # type => Positions(g, type) = Positions(h, type)
    <2> HIDE DEF g
    <2> QED
      BY <1>1, PositionsOfOneMore, Zenon
  <1> HIDE DEF t, g, n
  <1>7. PlaceAgrees(t, g)
    <2>1. t.status # "idle" /\ n + 1 # 0
      BY <1>2, <1>4 DEF TerminalStatuses
    <2>2. t.status = "starting" <=> n + 1 = 1
      <3>1. t.status = "starting" <=> u.type = "task.submitted"
        BY <1>4 DEF TerminalStatuses, TerminalTypes
      <3>2. n + 1 = 1 <=> n = 0
        BY <1>2
      <3> QED
        BY <1>3, <1>5, <3>1, <3>2
    <2>3. t.start_command_id = g[1].command_id
      <3>1. CASE n = 0
        <4>1. g[1] = u
          BY <1>2, <3>1
        <4> QED
          BY <1>3, <1>5, <3>1, <4>1
      <3>2. CASE n # 0
        <4>1. n >= 1 /\ g[1] = h[1]
          BY <1>2, <3>2
        <4> QED
          BY <1>3, <1>5, <3>2, <4>1
      <3> QED
        BY <3>1, <3>2
    <2>4. n + 1 >= 2 => t.session_id = g[2].session_id
      <3>1. CASE n = 1
        <4>1. g[2] = u
          BY <1>2, <3>1
        <4> QED
          BY <1>3, <1>5, <3>1, <4>1
      <3>2. CASE n # 1 /\ n + 1 >= 2
        <4>1. n >= 2 /\ g[2] = h[2]
          BY <1>2, <3>2
        <4> QED
          BY <1>3, <1>5, <3>2, <4>1
      <3> QED
        BY <3>1, <3>2
    <2>5. t.status \in TerminalStatuses <=> u.type \in TerminalTypes
      BY <1>4 DEF TerminalStatuses, TerminalTypes
    <2>6. t.last_sequence = Cardinality(EventsUpTo(g, n + 1))
      BY <1>1, <1>3, <1>5, EventsGrow DEF n
    <2> QED
      BY <1>2, <2>1, <2>2, <2>3, <2>4, <2>5, <2>6 DEF PlaceAgrees
  <1>8. CancelAgrees(t, g)
    <2>1. /\ Positions(h, "cancel.requested") \subseteq 1 .. n
          /\ u.type = "cancel.requested" =>
               Positions(g, "cancel.requested")
                 = Positions(h, "cancel.requested") \cup {n + 1}
          /\ u.type # "cancel.requested" =>
               Positions(g, "cancel.requested") = Positions(h, "cancel.requested")
      BY <1>11
    <2>2. CASE u.type = "cancel.requested"
      <3>1. t.status = "cancelling" /\ Positions(h, "cancel.requested") = {}
        BY <1>4, <1>6, <2>2 DEF TerminalTypes
      <3>2. Positions(g, "cancel.requested") = {n + 1}
        BY <2>1, <2>2, <3>1
      <3> QED
        BY <1>2, <1>3, <2>2, <3>1, <3>2 DEF CancelAgrees
    <2>3. CASE u.type # "cancel.requested"
      <3>1. \A j \in Positions(g, "cancel.requested") : g[j] = h[j]
        BY <1>2, <2>1, <2>3
      <3>2. t.status \in {"idle", "starting", "running", "awaiting_approval"} =>
              s.status \in {"idle", "starting", "running", "awaiting_approval"}
        BY <1>3, <1>4, <2>3 DEF TerminalStatuses
      <3>3. t.status = "cancelling" => s.status = "cancelling"
        BY <1>4, <2>3 DEF TerminalStatuses
      <3> QED
        BY <1>3, <1>6, <2>1, <2>3, <3>1, <3>2, <3>3 DEF CancelAgrees
    <2> QED
      BY <2>2, <2>3
  <1>9. PauseAgrees(t, g)
    <2> DEFINE asked(x) == Cardinality(Positions(x, "approval.requested"))
    <2> DEFINE answered(x) == Cardinality(Positions(x, "approval.resolved"))
    <2>1. /\ asked(h) \in Nat /\ answered(h) \in Nat
          /\ asked(g) = IF u.type = "approval.requested" THEN asked(h) + 1 ELSE asked(h)
          /\ answered(g) = IF u.type = "approval.resolved" THEN answered(h) + 1
                           ELSE answered(h)
      BY <1>1, PositionsGrow
    <2>2. s.status \in {"idle", "starting", "running", "awaiting_approval"} =>
            asked(h) = IF s.status = "awaiting_approval" THEN answered(h) + 1
                       ELSE answered(h)
      BY DEF Describes, PauseAgrees
    <2> HIDE DEF asked, answered
    <2>3. t.status \in {"idle", "starting", "running", "awaiting_approval"} =>
            asked(g) = IF t.status = "awaiting_approval" THEN answered(g) + 1
                       ELSE answered(g)
      BY <1>3, <1>4, <2>1, <2>2 DEF TerminalStatuses
    <2> QED
      BY <2>3 DEF PauseAgrees, asked, answered
  <1>10. TextAgrees(t, g)
    <2>1. DeltasUpTo(g, n + 1) = IF u.type = "assistant.delta"
                                   THEN DeltasUpTo(h, n) \o u.text ELSE DeltasUpTo(h, n)
      BY DeltasGrow DEF g, n
    <2>2. /\ u.type = "assistant.completed" =>
               Positions(g, "assistant.completed")
                 = Positions(h, "assistant.completed") \cup {n + 1}
          /\ u.type # "assistant.completed" =>
               Positions(g, "assistant.completed") = Positions(h, "assistant.completed")
      BY <1>11
    <2>3. /\ s.assistant_text = DeltasUpTo(h, n)
          /\ s.assistant_completed <=> Positions(h, "assistant.completed") # {}
      BY DEF Describes, TextAgrees, n
    <2>4. t.assistant_text = DeltasUpTo(g, n + 1)
      BY <1>3, <2>1, <2>3
    <2>5. t.assistant_completed <=> Positions(g, "assistant.completed") # {}
      BY <1>3, <2>2, <2>3
    <2> QED
      BY <1>2, <2>4, <2>5 DEF TextAgrees
  <1> QED
    BY <1>7, <1>8, <1>9, <1>10 DEF Describes, t, g

(* Nothing accepted yet is a legal history, and the first projection tells *)
(* of it.                                                                  *)
LEMMA NothingIsLegal ==
  /\ InitialSessionState \in SessionState /\ Fresh(InitialSessionState)
  /\ LegalHistory(<< >>) /\ Describes(InitialSessionState, << >>)
PROOF
  <1> DEFINE s == InitialSessionState
  <1>1. /\ s.status = "idle" /\ s.last_sequence = 0 /\ s.assistant_text = << >>
        /\ s.assistant_completed = FALSE
    BY DEF InitialSessionState
  <1>2. s \in SessionState /\ Fresh(s)
    BY DEF InitialSessionState, SessionState, Statuses, Fresh
  <1>3. Len(<< >>) = 0 /\ DOMAIN << >> = {}
    OBVIOUS
  <1>4. \A type : Positions(<< >>, type) = {}
    BY <1>3 DEF Positions
  <1>5. EventsUpTo(<< >>, 0) = {}
    BY DEF EventsUpTo
  <1>6. Cardinality({}) = 0
    BY FS_EmptySet
  <1>7. DeltasUpTo(<< >>, 0) = << >>
    <2> DEFINE texts == [k \in 1 .. 0 |->
                           IF << >>[k].type = "assistant.delta" THEN << >>[k].text
                           ELSE << >>]
    <2>1. texts = << >>
      OBVIOUS
    <2> HIDE DEF texts
    <2>2. Len(texts) = 0
      BY <2>1, <1>3
    <2>3. FlattenSeq(texts) = << >>
      BY <2>1, <2>2 DEF FlattenSeq
    <2> QED
      BY <2>3 DEF DeltasUpTo, texts
  <1>8. LegalHistory(<< >>)
    <2>1. OneTaskThenOneStart(<< >>) /\ EventsAreNumbered(<< >>)
          /\ EventsNameTheirCommand(<< >>)
      BY <1>3 DEF OneTaskThenOneStart, EventsAreNumbered, EventsNameTheirCommand
    <2>2. NothingAfterATerminal(<< >>) /\ OneSession(<< >>)
          /\ ApprovalsBracketAPause(<< >>)
      BY <1>3 DEF NothingAfterATerminal, OneSession, ApprovalsBracketAPause
    <2>3. CancelledOnceAtMost(<< >>) /\ AssistantTextIsConfirmed(<< >>)
      BY <1>4 DEF CancelledOnceAtMost, AssistantTextIsConfirmed
    <2> QED
      BY <2>1, <2>2, <2>3 DEF LegalHistory
  <1> HIDE DEF s
  <1>9. PlaceAgrees(s, << >>)
    BY <1>1, <1>3, <1>5, <1>6 DEF PlaceAgrees
  <1>10. CancelAgrees(s, << >>) /\ PauseAgrees(s, << >>)
    BY <1>1, <1>4 DEF CancelAgrees, PauseAgrees
  <1>11. TextAgrees(s, << >>)
    BY <1>1, <1>3, <1>4, <1>7 DEF TextAgrees
  <1> QED
    BY <1>2, <1>8, <1>9, <1>10, <1>11 DEF Describes, s

Folded ==
  /\ python \in SessionState /\ Fresh(python)
  /\ history \in Seq(Facts \cup WireEvents)
  /\ LegalHistory(history)
  /\ Describes(python, history)

(* ReducerDecidesHistories: whatever was offered, what the reducer has     *)
(* accepted is the history of one session, and it accepts an update        *)
(* exactly when that update continues the history.                         *)
THEOREM ReducerDecides == Spec => []ReducerDecidesHistories
PROOF
  <1>1. Init => Folded
    BY NothingIsLegal DEF Init, Folded
  <1>2. Folded /\ [Next]_vars => Folded'
    <2> SUFFICES ASSUME Folded, [Next]_vars PROVE Folded'
      OBVIOUS
    <2>1. CASE Next
      <3>1. PICK u \in Inputs : Replay(u)
        BY <2>1 DEF Next
      <3>2. u \in Facts \cup WireEvents
        BY InputsAreTyped DEF Folded
      <3>3. python' \in SessionState /\ Fresh(python')
        <4>1. python' = After(python, u)
          BY <3>1 DEF Replay
        <4> QED
          BY <3>2, <4>1, ReducerKeepsType, ReducerForgetsNothing DEF Folded
      <3>4. CASE Accepts(python, u)
        <4>1. python' = After(python, u) /\ history' = Append(history, u)
          BY <3>1, <3>4 DEF Replay
        <4>2. Describes(python', history')
          BY <3>2, <3>4, <4>1, DescribesMore DEF Folded
        <4>3. MayFollow(history, u)
          BY <3>2, <3>4, AcceptsWhatMayFollow DEF Folded
        <4>4. LegalHistory(history')
          BY <3>2, <4>1, <4>3, LegalIfItMayFollow DEF Folded
        <4>5. history' \in Seq(Facts \cup WireEvents)
          BY <3>2, <4>1 DEF Folded
        <4> QED
          BY <3>3, <4>2, <4>4, <4>5 DEF Folded
      <3>5. CASE ~Accepts(python, u)
        <4>1. python' = python
          <5>1. python' = After(python, u)
            BY <3>1 DEF Replay
          <5>2. After(python, u) = python
            <6>1. CASE python.status \in TerminalStatuses
              BY <6>1 DEF After, ReduceSessionState, Reject
            <6>2. CASE python.status \notin TerminalStatuses /\ u \in Facts
              BY <3>5, <6>2, FactVerdict DEF Folded
            <6>3. CASE u \in WireEvents
              <7>1. u.type \in EventTypes
                BY <6>3 DEF WireEvents
              <7> QED
                BY <3>5, <7>1, EventVerdict
            <6> QED
              BY <3>2, <6>1, <6>2, <6>3
          <5> QED
            BY <5>1, <5>2
        <4>2. history' = history
          BY <3>1, <3>5 DEF Replay
        <4> QED
          BY <4>1, <4>2 DEF Folded
      <3> QED
        BY <3>4, <3>5
    <2>2. CASE UNCHANGED vars
      BY <2>2 DEF Folded, vars
    <2> QED
      BY <2>1, <2>2
  <1>3. Folded => ReducerDecidesHistories
    <2> SUFFICES ASSUME Folded, NEW u \in Inputs
                 PROVE  Accepts(python, u) <=> LegalHistory(Append(history, u))
      BY DEF ReducerDecidesHistories, Folded
    <2>1. u \in Facts \cup WireEvents
      BY InputsAreTyped DEF Folded
    <2> QED
      BY <2>1, AcceptsWhatMayFollow, LegalIfItMayFollow DEF Folded
  <1> QED
    BY <1>1, <1>2, <1>3, PTL DEF Spec
-----------------------------------------------------------------------------
(* Part six: the line readers of the two programs.  Each is shown to       *)
(* follow what the stream means; that they agree is a consequence.         *)

(* What a reader reports of a line, and the readers' own state.            *)
LineResults == Seq(Bytes) \cup {"line_too_long", "invalid_framing", "invalid_utf8"}
LineReader == [buffer : Seq(Bytes), discarding : BOOLEAN, results : Seq(LineResults)]

(* A nonempty set of numbers has a least element, which Min names.         *)
LEMMA LeastOf ==
  ASSUME NEW S \in SUBSET Nat, S # {}
  PROVE  Min(S) \in S /\ \A i \in S : Min(S) <= i
PROOF
  <1> DEFINE T == {n \in Nat : \A i \in S : i > n}
  <1>1. \E x \in S : \A y \in S : x <= y
    <2> SUFFICES ASSUME \A x \in S : \E y \in S : y < x PROVE FALSE
      OBVIOUS
    <2>1. 0 \in T
      OBVIOUS
    <2>2. ASSUME NEW n \in Nat, n \in T PROVE n + 1 \in T
      <3> SUFFICES ASSUME NEW i \in S PROVE i > n + 1
        OBVIOUS
      <3>1. i > n
        BY <2>2
      <3>2. PICK y \in S : y < i
        OBVIOUS
      <3>3. y > n
        BY <2>2
      <3> QED
        BY <3>1, <3>2, <3>3
    <2>3. PICK i \in S : TRUE
      OBVIOUS
    <2>4. i \in T
      <3> HIDE DEF T
      <3> QED
        BY <2>1, <2>2, SetInduction
    <2> QED
      BY <2>3, <2>4
  <1> QED
    BY <1>1 DEF Min

(* chunk.find: the first line feed of a chunk, or 0.                       *)
LEMMA FirstLineFeed ==
  ASSUME NEW chunk \in Seq(Bytes), NEW n, n = SelectInSeq(chunk, LAMBDA b : b = "LF")
  PROVE  \/ n = 0 /\ \A i \in 1 .. Len(chunk) : chunk[i] # "LF"
         \/ /\ n \in 1 .. Len(chunk) /\ chunk[n] = "LF"
            /\ \A i \in 1 .. n - 1 : chunk[i] # "LF"
PROOF
  <1> DEFINE S == {i \in 1 .. Len(chunk) : chunk[i] = "LF"}
  <1>1. n = IF S # {} THEN Min(S) ELSE 0
    BY DEF SelectInSeq
  <1>2. S \in SUBSET Nat
    OBVIOUS
  <1>3. CASE S = {}
    BY <1>1, <1>3
  <1>4. CASE S # {}
    <2>1. Min(S) \in S /\ \A i \in S : Min(S) <= i
      BY <1>2, <1>4, LeastOf
    <2>2. n \in S /\ \A i \in S : n <= i
      BY <1>1, <1>4, <2>1
    <2> QED
      BY <2>2
  <1> QED
    BY <1>3, <1>4

(* Before every place there is a last line feed (or the stream's start).   *)
LEMMA LineStartExists ==
  ASSUME NEW s \in Seq(Bytes), NEW i \in Nat \ {0}
  PROVE  \E j \in LineFeeds(s) : j < i /\ \A k \in LineFeeds(s) : k < i => k <= j
PROOF
  <1> DEFINE HasLast(n) == \E j \in LineFeeds(s) :
                             j < n + 1 /\ \A k \in LineFeeds(s) : k < n + 1 => k <= j
  <1> DEFINE T == {n \in Nat : HasLast(n)}
  <1>1. 0 \in LineFeeds(s) /\ LineFeeds(s) \subseteq Nat
    BY DEF LineFeeds
  <1>2. 0 \in T
    BY <1>1
  <1>3. ASSUME NEW n \in Nat, n \in T PROVE n + 1 \in T
    <2>1. PICK j \in LineFeeds(s) :
            j < n + 1 /\ \A k \in LineFeeds(s) : k < n + 1 => k <= j
      BY <1>3
    <2>2. CASE n + 1 \in LineFeeds(s)
      BY <1>1, <2>2
    <2>3. CASE n + 1 \notin LineFeeds(s)
      <3>1. \A k \in LineFeeds(s) : k < n + 1 + 1 => k < n + 1
        BY <1>1, <2>3
      <3> QED
        BY <1>1, <2>1, <3>1
    <2> QED
      BY <2>2, <2>3
  <1>4. i - 1 \in T
    <2> HIDE DEF T
    <2>1. i - 1 \in Nat
      OBVIOUS
    <2> QED
      BY <1>2, <1>3, <2>1, SetInduction
  <1>5. i - 1 + 1 = i
    OBVIOUS
  <1> QED
    BY <1>4, <1>5

(* The start of a line is that line feed and no other.                     *)
LEMMA LineStartIs ==
  ASSUME NEW s \in Seq(Bytes), NEW i \in Nat, NEW j \in LineFeeds(s), j < i,
         \A k \in LineFeeds(s) : k < i => k <= j
  PROVE  LineStart(s, i) = j
PROOF
  <1>1. LineFeeds(s) \subseteq Nat
    BY DEF LineFeeds
  <1>2. /\ LineStart(s, i) \in LineFeeds(s) /\ LineStart(s, i) < i
        /\ \A k \in LineFeeds(s) : k < i => k <= LineStart(s, i)
    BY DEF LineStart
  <1> QED
    BY <1>1, <1>2

(* LineStart names that line feed.                                         *)
LEMMA LineStartLast ==
  ASSUME NEW s \in Seq(Bytes), NEW i \in Nat \ {0}
  PROVE  /\ LineStart(s, i) \in LineFeeds(s) /\ LineStart(s, i) < i
         /\ \A k \in LineFeeds(s) : k < i => k <= LineStart(s, i)
PROOF
  BY LineStartExists DEF LineStart

(* A stream with one more byte: the bytes it had, and its line feeds.      *)
LEMMA FeedsGrow ==
  ASSUME NEW s \in Seq(Bytes), NEW b \in Bytes
  PROVE  LET g == Append(s, b)
         IN /\ g \in Seq(Bytes) /\ Len(s) \in Nat /\ Len(g) = Len(s) + 1
            /\ g[Len(s) + 1] = b
            /\ \A i \in 1 .. Len(s) : g[i] = s[i]
            /\ LineFeeds(g) = LineFeeds(s) \cup IF b = "LF" THEN {Len(s) + 1} ELSE {}
            /\ LineFeeds(s) \subseteq 0 .. Len(s)
PROOF
  <1> DEFINE g == Append(s, b)
  <1>1. /\ g \in Seq(Bytes) /\ Len(s) \in Nat /\ Len(g) = Len(s) + 1
        /\ g[Len(s) + 1] = b
        /\ \A i \in 1 .. Len(s) : g[i] = s[i]
    OBVIOUS
  <1>2. DOMAIN g = DOMAIN s \cup {Len(s) + 1} /\ DOMAIN s = 1 .. Len(s)
    BY <1>1
  <1> HIDE DEF g
  <1>3. LineFeeds(g) = LineFeeds(s) \cup IF b = "LF" THEN {Len(s) + 1} ELSE {}
    BY <1>1, <1>2 DEF LineFeeds
  <1>4. LineFeeds(s) \subseteq 0 .. Len(s)
    BY <1>1, <1>2 DEF LineFeeds
  <1> QED
    BY <1>1, <1>3, <1>4 DEF g

(* What follows a line does not change it.                                 *)
LEMMA LineUpToGrows ==
  ASSUME NEW s \in Seq(Bytes), NEW b \in Bytes, NEW i \in 1 .. Len(s) + 1
  PROVE  LineUpTo(Append(s, b), i) = LineUpTo(s, i)
PROOF
  <1> DEFINE g == Append(s, b)
  <1> DEFINE j == LineStart(s, i)
  <1>1. /\ g \in Seq(Bytes) /\ Len(s) \in Nat /\ Len(g) = Len(s) + 1
        /\ \A k \in 1 .. Len(s) : g[k] = s[k]
        /\ LineFeeds(g) = LineFeeds(s) \cup IF b = "LF" THEN {Len(s) + 1} ELSE {}
        /\ LineFeeds(s) \subseteq 0 .. Len(s)
    BY FeedsGrow
  <1>2. j \in LineFeeds(s) /\ j < i /\ \A k \in LineFeeds(s) : k < i => k <= j
    BY <1>1, LineStartLast
  <1> HIDE DEF g, j
  <1>3. j \in LineFeeds(g) /\ \A k \in LineFeeds(g) : k < i => k <= j
    BY <1>1, <1>2
  <1>4. LineStart(g, i) = j
    BY <1>1, <1>2, <1>3, LineStartIs
  <1>5. SubSeq(g, j + 1, i - 1) = SubSeq(s, j + 1, i - 1)
    <2>1. j \in 0 .. Len(s) /\ j + 1 \in Int /\ i - 1 \in Int
      BY <1>1, <1>2
    <2>2. \A k \in j + 1 .. i - 1 : s[k] \in Bytes /\ g[k] = s[k]
      BY <1>1, <2>1
    <2> DEFINE from == j + 1
    <2> DEFINE to == i - 1
    <2>3. \A k \in 1 .. to - from + 1 : from + k - 1 \in from .. to
      BY <2>1
    <2> HIDE DEF from, to
    <2>4. /\ SubSeq(g, from, to) \in Seq(Bytes) /\ SubSeq(s, from, to) \in Seq(Bytes)
          /\ Len(SubSeq(g, from, to)) = Len(SubSeq(s, from, to))
          /\ Len(SubSeq(s, from, to)) = IF from <= to THEN to - from + 1 ELSE 0
          /\ \A k \in 1 .. to - from + 1 :
               /\ SubSeq(g, from, to)[k] = g[from + k - 1]
               /\ SubSeq(s, from, to)[k] = s[from + k - 1]
      BY <2>1, <2>2, SubSeqProperties DEF from, to
    <2>5. \A k \in 1 .. Len(SubSeq(s, from, to)) :
            SubSeq(g, from, to)[k] = SubSeq(s, from, to)[k]
      BY <2>1, <2>2, <2>3, <2>4 DEF from, to
    <2> QED
      BY <2>4, <2>5, SeqEqual DEF from, to
  <1> QED
    BY <1>4, <1>5 DEF LineUpTo, g, j


(* A line is made of the stream's bytes.                                   *)
LEMMA LineUpToIsTyped ==
  ASSUME NEW s \in Seq(Bytes), NEW i \in 1 .. Len(s) + 1
  PROVE  LineUpTo(s, i) \in Seq(Bytes)
PROOF
  <1>1. LineStart(s, i) \in Nat
    BY LineStartLast DEF LineFeeds
  <1>2. \A k \in LineStart(s, i) + 1 .. i - 1 : s[k] \in Bytes
    BY <1>1
  <1> QED
    BY <1>1, <1>2, SubSeqProperties DEF LineUpTo

(* What a line means is a result.                                          *)
LEMMA MeaningIsTyped ==
  ASSUME NEW line \in Seq(Bytes)
  PROVE  Decoded(line) \in LineResults /\ Meaning(line) \in LineResults
PROOF
  BY DEF Meaning, Decoded, LineResults

(* A line, by its start.                                                   *)
LEMMA LineUpToIs ==
  ASSUME NEW s, NEW n \in Nat, NEW j \in Nat, LineStart(s, n + 1) = j
  PROVE  LineUpTo(s, n + 1) = SubSeq(s, j + 1, n)
PROOF
  <1>1. n + 1 - 1 = n
    OBVIOUS
  <1> QED
    BY <1>1 DEF LineUpTo

(* A cut of a stream grows by its last byte.                               *)
LEMMA OneMoreByte ==
  ASSUME NEW s \in Seq(Bytes), NEW n \in Nat, NEW j \in Nat,
         j + 1 \in 1 .. Len(s), n + 1 \in j + 1 .. Len(s)
  PROVE  SubSeq(s, j + 1, n + 1) = SubSeq(s, j + 1, n) \o <<s[n + 1]>>
PROOF
  <1>1. \A from \in 1 .. Len(s) : \A to \in from .. Len(s) :
          SubSeq(s, from, to) = SubSeq(s, from, to - 1) \o <<s[to]>>
    BY SubSeqRecursiveSecond
  <1>2. SubSeq(s, j + 1, n + 1) = SubSeq(s, j + 1, n + 1 - 1) \o <<s[n + 1]>>
    BY <1>1
  <1>3. n + 1 - 1 = n
    OBVIOUS
  <1> QED
    BY <1>2, <1>3

(* A line feed leaves nothing unread; any other byte joins the open line.  *)
LEMMA RestOfOneMore ==
  ASSUME NEW s \in Seq(Bytes), NEW b \in Bytes
  PROVE  Rest(Append(s, b)) = IF b = "LF" THEN << >> ELSE Append(Rest(s), b)
PROOF
  <1> DEFINE g == Append(s, b)
  <1> DEFINE n == Len(s)
  <1>1. /\ g \in Seq(Bytes) /\ n \in Nat /\ Len(g) = n + 1
        /\ g[n + 1] = b
        /\ \A k \in 1 .. n : g[k] = s[k]
        /\ LineFeeds(g) = LineFeeds(s) \cup IF b = "LF" THEN {n + 1} ELSE {}
        /\ LineFeeds(s) \subseteq 0 .. n
    BY FeedsGrow
  <1> HIDE DEF g, n
  <1>2. CASE b = "LF"
    <2>1. /\ n + 1 \in LineFeeds(g) /\ n + 1 < n + 1 + 1 /\ n + 1 + 1 \in Nat
          /\ \A k \in LineFeeds(g) : k < n + 1 + 1 => k <= n + 1
      BY <1>1, <1>2
    <2>2. LineStart(g, n + 1 + 1) = n + 1
      BY <1>1, <2>1, LineStartIs
    <2>3. SubSeq(g, n + 1 + 1, n + 1 + 1 - 1) = << >>
      BY <1>1, SubSeqEmpty
    <2> QED
      BY <1>1, <1>2, <2>2, <2>3 DEF Rest, LineUpTo, g
  <1>3. CASE b # "LF"
    <2> DEFINE j == LineStart(s, n + 1)
    <2>1. j \in LineFeeds(s) /\ j < n + 1 /\ \A k \in LineFeeds(s) : k < n + 1 => k <= j
      BY <1>1, LineStartLast
    <2>2. j \in 0 .. n
      BY <1>1, <2>1
    <2>9. LineStart(s, n + 1) = j
      OBVIOUS
    <2> HIDE DEF j
    <2>3. LineStart(g, n + 1 + 1) = j
      <3>1. LineFeeds(g) = LineFeeds(s)
        BY <1>1, <1>3
      <3>2. j \in LineFeeds(g) /\ j < n + 1 + 1 /\ n + 1 + 1 \in Nat
            /\ \A k \in LineFeeds(g) : k < n + 1 + 1 => k <= j
        BY <1>1, <2>1, <2>2, <3>1
      <3> QED
        BY <1>1, <3>2, LineStartIs
    <2>4. SubSeq(g, j + 1, n + 1) = SubSeq(g, j + 1, n) \o <<b>>
      <3>1. j + 1 \in 1 .. Len(g) /\ n + 1 \in j + 1 .. Len(g) /\ j \in Nat
        BY <1>1, <2>2
      <3> QED
        BY <1>1, <3>1, OneMoreByte
    <2>5. SubSeq(g, j + 1, n) = SubSeq(s, j + 1, n)
      <3>1. n + 1 \in 1 .. Len(s) + 1
        BY <1>1 DEF n
      <3>2. LineUpTo(g, n + 1) = LineUpTo(s, n + 1)
        BY <3>1, LineUpToGrows DEF g
      <3>3. LineStart(g, n + 1) = j
        <4>1. j \in LineFeeds(g) /\ \A k \in LineFeeds(g) : k < n + 1 => k <= j
          BY <1>1, <1>3, <2>1
        <4> QED
          BY <1>1, <2>1, <4>1, LineStartIs
      <3>4. /\ LineUpTo(g, n + 1) = SubSeq(g, j + 1, n)
            /\ LineUpTo(s, n + 1) = SubSeq(s, j + 1, n)
        BY <1>1, <2>2, <2>9, <3>3, LineUpToIs
      <3> QED
        BY <3>2, <3>4
    <2>6. Rest(s) = SubSeq(s, j + 1, n) /\ Rest(s) \in Seq(Bytes)
      <3>1. n + 1 \in 1 .. Len(s) + 1 /\ Rest(s) = LineUpTo(s, n + 1)
        BY <1>1 DEF Rest, n
      <3> QED
        BY <1>1, <2>2, <2>9, <3>1, LineUpToIsTyped, LineUpToIs
    <2>7. Rest(g) = SubSeq(g, j + 1, n + 1)
      <3>1. Rest(g) = LineUpTo(g, n + 1 + 1)
        BY <1>1 DEF Rest
      <3>2. n + 1 \in Nat /\ j \in Nat
        BY <1>1, <2>2
      <3>3. LineUpTo(g, n + 1 + 1) = SubSeq(g, j + 1, n + 1)
        BY <2>3, <3>2, LineUpToIs
      <3> QED
        BY <3>1, <3>3
    <2>8. Rest(s) \o <<b>> = Append(Rest(s), b)
      BY <2>6, AppendIsConcat
    <2> QED
      BY <1>3, <2>4, <2>5, <2>6, <2>7, <2>8 DEF g
  <1> QED
    BY <1>2, <1>3

(* A line feed adds the meaning of the open line; any other byte adds      *)
(* none.                                                                   *)
LEMMA LinesOfOneMore ==
  ASSUME NEW s \in Seq(Bytes), NEW b \in Bytes
  PROVE  /\ Lines(s) \in Seq(LineResults)
         /\ Lines(Append(s, b)) =
              IF b = "LF" THEN Append(Lines(s), Meaning(Rest(s))) ELSE Lines(s)
PROOF
  <1> DEFINE g == Append(s, b)
  <1> DEFINE n == Len(s)
  <1> DEFINE Told(t, i) == IF t[i] = "LF" THEN <<Meaning(LineUpTo(t, i))>> ELSE << >>
  <1> DEFINE told == [i \in 1 .. n |-> Told(s, i)]
  <1>1. /\ g \in Seq(Bytes) /\ n \in Nat /\ Len(g) = n + 1
        /\ g[n + 1] = b
        /\ \A k \in 1 .. n : g[k] = s[k]
    BY FeedsGrow
  <1>2. DOMAIN s = 1 .. n /\ DOMAIN g = 1 .. n + 1
    BY <1>1
  <1>3. \A i \in 1 .. n : Told(g, i) = Told(s, i) /\ Told(s, i) \in Seq(LineResults)
    <2> SUFFICES ASSUME NEW i \in 1 .. n
                 PROVE  Told(g, i) = Told(s, i) /\ Told(s, i) \in Seq(LineResults)
      OBVIOUS
    <2>1. i \in 1 .. Len(s) + 1
      BY <1>1
    <2>2. LineUpTo(g, i) = LineUpTo(s, i)
      BY <2>1, LineUpToGrows
    <2>3. Meaning(LineUpTo(s, i)) \in LineResults
      BY <2>1, LineUpToIsTyped, MeaningIsTyped
    <2>4. g[i] = s[i]
      BY <1>1
    <2> HIDE DEF g, n
    <2> QED
      BY <2>2, <2>3, <2>4
  <1>4. /\ Told(g, n + 1) = IF b = "LF" THEN <<Meaning(Rest(s))>> ELSE << >>
        /\ Told(g, n + 1) \in Seq(LineResults)
        /\ Meaning(Rest(s)) \in LineResults
    <2>1. n + 1 \in 1 .. Len(s) + 1
      BY <1>1
    <2>2. LineUpTo(g, n + 1) = Rest(s)
      BY <2>1, LineUpToGrows DEF Rest
    <2>3. Meaning(Rest(s)) \in LineResults
      BY <2>1, LineUpToIsTyped, MeaningIsTyped DEF Rest
    <2> HIDE DEF g, n
    <2> QED
      BY <1>1, <2>2, <2>3
  <1>5. Lines(s) = FlattenSeq(told)
    BY <1>2 DEF Lines
  <1>6. Lines(g) = FlattenSeq([i \in 1 .. n + 1 |-> Told(g, i)])
    BY <1>2 DEF Lines
  <1> HIDE DEF g, n, Told
  <1>7. told \in Seq(Seq(LineResults)) /\ Len(told) = n
    BY <1>1, <1>3
  <1>8. [i \in 1 .. n + 1 |-> Told(g, i)] = Append(told, Told(g, n + 1))
    <2> DEFINE more == Append(told, Told(g, n + 1))
    <2> HIDE DEF told
    <2>1. /\ more \in Seq(Seq(LineResults)) /\ Len(more) = n + 1
          /\ \A i \in 1 .. n : more[i] = told[i]
          /\ more[n + 1] = Told(g, n + 1)
      BY <1>4, <1>7, AppendProperties
    <2>4. \A i \in 1 .. n : told[i] = Told(g, i)
      BY <1>3 DEF told
    <2> HIDE DEF more
    <2>2. more \in [1 .. n + 1 -> Seq(LineResults)]
      BY <2>1, LenProperties
    <2>3. more = [i \in 1 .. n + 1 |-> more[i]]
      BY <2>2
    <2>5. \A i \in 1 .. n + 1 : more[i] = Told(g, i)
      BY <1>1, <2>1, <2>4
    <2> QED
      BY <2>3, <2>5 DEF more
  <1> HIDE DEF told
  <1>9. /\ FlattenSeq(told) \in Seq(LineResults)
        /\ FlattenSeq(Append(told, Told(g, n + 1)))
             = FlattenSeq(told) \o Told(g, n + 1)
    BY <1>4, <1>7, FlattenOneMore
  <1>10. Lines(s) \in Seq(LineResults) /\ Lines(g) = Lines(s) \o Told(g, n + 1)
    BY <1>5, <1>6, <1>8, <1>9
  <1>11. /\ Lines(s) \o << >> = Lines(s)
         /\ Lines(s) \o <<Meaning(Rest(s))>> = Append(Lines(s), Meaning(Rest(s)))
    BY <1>4, <1>10, ConcatEmptySeq, AppendIsConcat
  <1>12. Lines(g) = IF b = "LF" THEN Append(Lines(s), Meaning(Rest(s))) ELSE Lines(s)
    BY <1>4, <1>10, <1>11
  <1> QED
    BY <1>10, <1>12 DEF g

(* The open line is made of the stream's bytes.                            *)
LEMMA RestIsTyped ==
  ASSUME NEW s \in Seq(Bytes)
  PROVE  Rest(s) \in Seq(Bytes)
PROOF
  <1>1. Len(s) + 1 \in 1 .. Len(s) + 1
    OBVIOUS
  <1> QED
    BY <1>1, LineUpToIsTyped DEF Rest

(* Concatenation of streams is associative.                                *)
LEMMA BytesAssociate ==
  \A t, u, v \in Seq(Bytes) : (t \o u) \o v = t \o (u \o v)
PROOF
  BY ConcatAssociative

(* Bytes without a line feed only lengthen the open line.                  *)
LEMMA SegmentGoesOn ==
  ASSUME NEW s \in Seq(Bytes), NEW segment \in Seq(Bytes),
         \A i \in 1 .. Len(segment) : segment[i] # "LF"
  PROVE  /\ Lines(s \o segment) = Lines(s)
         /\ Rest(s \o segment) = Rest(s) \o segment
PROOF
  <1> DEFINE Cut(m) == SubSeq(segment, 1, m)
  <1> DEFINE GoesOn(m) == /\ Lines(s \o Cut(m)) = Lines(s)
                          /\ Rest(s \o Cut(m)) = Rest(s) \o Cut(m)
  <1> DEFINE T == {m \in Nat : m <= Len(segment) => GoesOn(m)}
  <1>1. 0 \in T
    <2>1. Cut(0) = << >>
      BY SubSeqEmpty
    <2>2. s \o << >> = s /\ Rest(s) \o << >> = Rest(s)
      BY RestIsTyped, ConcatEmptySeq
    <2> HIDE DEF Cut
    <2> QED
      BY <2>1, <2>2
  <1>2. ASSUME NEW m \in Nat, m \in T PROVE m + 1 \in T
    <2> SUFFICES ASSUME m + 1 <= Len(segment) PROVE GoesOn(m + 1)
      OBVIOUS
    <2>1. GoesOn(m)
      BY <1>2
    <2> DEFINE c == segment[m + 1]
    <2>2. m + 1 \in 1 .. Len(segment) /\ c \in Bytes /\ c # "LF"
      OBVIOUS
    <2>3. Cut(m) \in Seq(Bytes) /\ <<c>> \in Seq(Bytes)
      <3>1. \A i \in 1 .. m : segment[i] \in Bytes
        OBVIOUS
      <3> QED
        BY <2>2, <3>1, SubSeqProperties
    <2>4. Cut(m + 1) = Cut(m) \o <<c>>
      <3>1. 0 + 1 \in 1 .. Len(segment) /\ m + 1 \in 0 + 1 .. Len(segment)
        OBVIOUS
      <3>2. SubSeq(segment, 0 + 1, m + 1) = SubSeq(segment, 0 + 1, m) \o <<c>>
        BY <3>1, OneMoreByte
      <3>3. 0 + 1 = 1
        OBVIOUS
      <3> QED
        BY <3>2, <3>3
    <2> HIDE DEF Cut, c
    <2>5. /\ s \o (Cut(m) \o <<c>>) = (s \o Cut(m)) \o <<c>>
          /\ (Rest(s) \o Cut(m)) \o <<c>> = Rest(s) \o (Cut(m) \o <<c>>)
      <3>1. \A t, u, v \in Seq(Bytes) : (t \o u) \o v = t \o (u \o v)
        BY BytesAssociate
      <3>2. Rest(s) \in Seq(Bytes)
        BY RestIsTyped
      <3> QED
        BY <2>3, <3>1, <3>2, Zenon
    <2>6. /\ s \o Cut(m) \in Seq(Bytes) /\ Rest(s) \o Cut(m) \in Seq(Bytes)
          /\ Append(s \o Cut(m), c) = (s \o Cut(m)) \o <<c>>
          /\ Append(Rest(s) \o Cut(m), c) = (Rest(s) \o Cut(m)) \o <<c>>
      BY <2>2, <2>3, RestIsTyped, ConcatProperties, AppendIsConcat
    <2>7. /\ Lines(Append(s \o Cut(m), c)) = Lines(s \o Cut(m))
          /\ Rest(Append(s \o Cut(m), c)) = Append(Rest(s \o Cut(m)), c)
      BY <2>2, <2>6, LinesOfOneMore, RestOfOneMore
    <2>8. s \o Cut(m + 1) = Append(s \o Cut(m), c)
      BY <2>4, <2>5, <2>6
    <2>9. Rest(s) \o Cut(m + 1) = Append(Rest(s) \o Cut(m), c)
      BY <2>4, <2>5, <2>6
    <2> QED
      BY <2>1, <2>7, <2>8, <2>9
  <1>3. Len(segment) \in T
    <2> HIDE DEF T
    <2>1. Len(segment) \in Nat
      OBVIOUS
    <2> QED
      BY <1>1, <1>2, <2>1, SetInduction
  <1>4. Cut(Len(segment)) = segment
    BY SubSeqFull
  <1> HIDE DEF Cut
  <1> QED
    BY <1>3, <1>4

(* What the invariant says of one reader r after the stream s: it has told *)
(* of every line that ended, it keeps the open line, and once that line is *)
(* too long it has said so, keeps none of it and discards what comes.      *)
Reads(r, s) ==
  /\ r \in LineReader
  /\ r.discarding <=> Len(Rest(s)) > MaxLineBytes
  /\ r.buffer = IF r.discarding THEN << >> ELSE Rest(s)
  /\ r.results = IF r.discarding THEN Append(Lines(s), "line_too_long") ELSE Lines(s)

(* Reports empties the buffer and adds one result.                         *)
LEMMA ReportsOne ==
  ASSUME NEW r \in LineReader, NEW result \in LineResults
  PROVE  /\ Reports(r, result) \in LineReader
         /\ Reports(r, result).buffer = << >>
         /\ Reports(r, result).discarding = r.discarding
         /\ Reports(r, result).results = Append(r.results, result)
PROOF
  <1>1. Append(r.results, result) \in Seq(LineResults)
    BY DEF LineReader
  <1>2. Reports(r, result) =
          [r EXCEPT !.buffer = << >>, !.results = Append(r.results, result)]
    BY DEF Reports
  <1>3. << >> \in Seq(Bytes) /\ r.discarding \in BOOLEAN
    BY DEF LineReader
  <1> QED
    BY <1>1, <1>2, <1>3 DEF LineReader

(* One byte of push (protocol-stream.ts): the reader follows the stream.   *)
LEMMA TsTakesOne ==
  ASSUME NEW s \in Seq(Bytes), NEW b \in Bytes, NEW r, Reads(r, s)
  PROVE  Reads(TsTakes(r, b), Append(s, b))
PROOF
  <1> DEFINE g == Append(s, b)
  <1>1. /\ Lines(g) = IF b = "LF" THEN Append(Lines(s), Meaning(Rest(s))) ELSE Lines(s)
        /\ Rest(g) = IF b = "LF" THEN << >> ELSE Append(Rest(s), b)
        /\ Rest(s) \in Seq(Bytes) /\ Lines(s) \in Seq(LineResults)
    BY LinesOfOneMore, RestOfOneMore, RestIsTyped
  <1>2. MaxLineBytes \in Nat \ {0}
    BY LineReadersAssumption
  <1>3. /\ r \in LineReader
        /\ r.discarding <=> Len(Rest(s)) > MaxLineBytes
        /\ r.buffer = IF r.discarding THEN << >> ELSE Rest(s)
        /\ r.results = IF r.discarding THEN Append(Lines(s), "line_too_long")
                       ELSE Lines(s)
    BY DEF Reads
  <1>4. /\ r.discarding \in BOOLEAN /\ "line_too_long" \in LineResults
        /\ Decoded(Rest(s)) \in LineResults
    BY <1>1, <1>3, MeaningIsTyped DEF LineReader, LineResults
  <1>5. Len(Rest(s)) \in Nat /\ Len(<< >>) = 0 /\ Len(Append(Rest(s), b)) = Len(Rest(s)) + 1
    BY <1>1
  <1>11. ~(Len(<< >>) > MaxLineBytes) /\ Append(Rest(s), b) \in Seq(Bytes)
    BY <1>1, <1>2, <1>5
  <1> HIDE DEF g
  <1>6. CASE b = "LF" /\ r.discarding
    <2>1. TsTakes(r, b) = [r EXCEPT !.discarding = FALSE]
      BY <1>6 DEF TsTakes, TsCompleteLine
    <2>2. Lines(g) = Append(Lines(s), "line_too_long") /\ Rest(g) = << >>
      BY <1>1, <1>3, <1>6 DEF Meaning
    <2>3. /\ TsTakes(r, b) \in LineReader /\ TsTakes(r, b).discarding = FALSE
          /\ TsTakes(r, b).buffer = r.buffer /\ TsTakes(r, b).results = r.results
      BY <1>3, <2>1 DEF LineReader
    <2> QED
      BY <1>3, <1>6, <1>11, <2>2, <2>3 DEF Reads, g
  <1>7. CASE b = "LF" /\ ~r.discarding
    <2>1. TsTakes(r, b) = Reports(r, Decoded(Rest(s)))
      BY <1>3, <1>7 DEF TsTakes, TsCompleteLine
    <2>2. Lines(g) = Append(Lines(s), Decoded(Rest(s))) /\ Rest(g) = << >>
      BY <1>1, <1>3, <1>7 DEF Meaning
    <2>3. /\ TsTakes(r, b) \in LineReader /\ TsTakes(r, b).discarding = FALSE
          /\ TsTakes(r, b).buffer = << >>
          /\ TsTakes(r, b).results = Append(Lines(s), Decoded(Rest(s)))
      BY <1>3, <1>4, <1>7, <2>1, ReportsOne
    <2> QED
      BY <1>11, <2>2, <2>3 DEF Reads, g
  <1>8. CASE b # "LF" /\ r.discarding
    <2>1. TsTakes(r, b) = r
      BY <1>8 DEF TsTakes
    <2>2. Lines(g) = Lines(s) /\ Len(Rest(g)) > MaxLineBytes
      BY <1>1, <1>2, <1>3, <1>5, <1>8
    <2> QED
      BY <1>3, <1>8, <2>1, <2>2 DEF Reads, g
  <1>9. CASE b # "LF" /\ ~r.discarding /\ Len(r.buffer) = MaxLineBytes
    <2> DEFINE u == Reports(r, "line_too_long")
    <2>1. TsTakes(r, b) = [u EXCEPT !.discarding = TRUE]
      BY <1>9 DEF TsTakes
    <2>2. Lines(g) = Lines(s) /\ Len(Rest(g)) > MaxLineBytes
      BY <1>1, <1>2, <1>3, <1>5, <1>9
    <2>3. /\ u \in LineReader /\ u.buffer = << >>
          /\ u.results = Append(Lines(s), "line_too_long")
      BY <1>3, <1>4, <1>9, ReportsOne
    <2> HIDE DEF u
    <2>4. /\ TsTakes(r, b) \in LineReader /\ TsTakes(r, b).discarding = TRUE
          /\ TsTakes(r, b).buffer = << >>
          /\ TsTakes(r, b).results = Append(Lines(s), "line_too_long")
      BY <2>1, <2>3 DEF LineReader
    <2> QED
      BY <2>2, <2>4 DEF Reads, g
  <1>10. CASE b # "LF" /\ ~r.discarding /\ Len(r.buffer) # MaxLineBytes
    <2>1. TsTakes(r, b) = [r EXCEPT !.buffer = Append(@, b)]
      BY <1>10 DEF TsTakes
    <2>2. Lines(g) = Lines(s) /\ Rest(g) = Append(Rest(s), b) /\ ~(Len(Rest(g)) > MaxLineBytes)
      BY <1>1, <1>2, <1>3, <1>5, <1>10
    <2>3. /\ TsTakes(r, b) \in LineReader /\ TsTakes(r, b).discarding = r.discarding
          /\ TsTakes(r, b).buffer = Append(Rest(s), b)
          /\ TsTakes(r, b).results = r.results
      BY <1>3, <1>10, <1>11, <2>1 DEF LineReader
    <2> QED
      BY <1>3, <1>10, <2>2, <2>3 DEF Reads, g
  <1> QED
    BY <1>4, <1>6, <1>7, <1>8, <1>9, <1>10

(* push is a fold, so it satisfies its own recursion: byte after byte.     *)
LEMMA PushDefined ==
  ASSUME NEW r, NEW chunk \in Seq(Bytes)
  PROVE  \E f : /\ f[{}] = r
                /\ \A m \in 1 .. Len(chunk) :
                     f[1 .. m] = TsTakes(f[1 .. m - 1], chunk[m])
                /\ Push(r, chunk) = f[1 .. Len(chunk)]
PROOF
  <1> DEFINE Next1(f, s) == IF s = {} THEN r
                            ELSE TsTakes(f[s \ {Max(s)}], chunk[Max(s)])
  <1> DEFINE Runs(f, m) == f = [s \in SUBSET (1 .. m) |-> Next1(f, s)]
  <1> DEFINE T == {m \in Nat : \E f : Runs(f, m)}
  <1>1. \A m \in Nat : \A s \in SUBSET (1 .. m + 1) : m + 1 \in s => Max(s) = m + 1
    <2> SUFFICES ASSUME NEW m \in Nat, NEW s \in SUBSET (1 .. m + 1), m + 1 \in s
                 PROVE  Max(s) = m + 1
      OBVIOUS
    <2>1. m + 1 \in s /\ \A y \in s : m + 1 >= y
      OBVIOUS
    <2>2. Max(s) \in s /\ \A y \in s : Max(s) >= y
      BY <2>1 DEF Max
    <2>3. Max(s) >= m + 1 /\ Max(s) \in 1 .. m + 1
      BY <2>1, <2>2
    <2> QED
      BY <2>3
  <1>2. 0 \in T
    <2> DEFINE f == [s \in SUBSET (1 .. 0) |-> r]
    <2>1. \A s \in SUBSET (1 .. 0) : s = {}
      OBVIOUS
    <2>2. Runs(f, 0)
      BY <2>1
    <2> QED
      BY <2>2
  <1>3. ASSUME NEW m \in Nat, m \in T PROVE m + 1 \in T
    <2>1. PICK f : Runs(f, m)
      BY <1>3
    <2> DEFINE k == [s \in SUBSET (1 .. m + 1) |->
                       IF s \subseteq 1 .. m THEN f[s]
                       ELSE TsTakes(f[s \ {m + 1}], chunk[m + 1])]
    <2>2. ASSUME NEW s \in SUBSET (1 .. m + 1) PROVE k[s] = Next1(k, s)
      <3>1. CASE s \subseteq 1 .. m
        <4>1. k[s] = f[s] /\ f[s] = Next1(f, s)
          BY <2>1, <3>1
        <4>2. s \ {Max(s)} \in SUBSET (1 .. m) /\ s \ {Max(s)} \in SUBSET (1 .. m + 1)
          BY <3>1
        <4>3. k[s \ {Max(s)}] = f[s \ {Max(s)}]
          BY <4>2
        <4> HIDE DEF k
        <4> QED
          BY <4>1, <4>3
      <3>2. CASE ~(s \subseteq 1 .. m)
        <4>1. m + 1 \in s
          BY <3>2
        <4>2. Max(s) = m + 1
          BY <1>1, <4>1
        <4>3. s \ {m + 1} \subseteq 1 .. m /\ s \ {m + 1} \in SUBSET (1 .. m + 1) /\ s # {}
          BY <4>1
        <4>4. k[s \ {m + 1}] = f[s \ {m + 1}]
          BY <4>3
        <4>5. k[s] = TsTakes(f[s \ {m + 1}], chunk[m + 1])
          BY <3>2
        <4> HIDE DEF k
        <4> QED
          BY <4>2, <4>3, <4>4, <4>5
      <3> QED
        BY <3>1, <3>2
    <2>3. Runs(k, m + 1)
      <3> HIDE DEF Next1
      <3>1. k = [s \in SUBSET (1 .. m + 1) |-> k[s]]
        OBVIOUS
      <3> HIDE DEF k
      <3> QED
        BY <2>2, <3>1
    <2> HIDE DEF Runs, k
    <2> QED
      BY <2>3
  <1>4. Len(chunk) \in T
    <2>1. Len(chunk) \in Nat
      OBVIOUS
    <2> HIDE DEF T
    <2> QED
      BY <1>2, <1>3, <2>1, SetInduction
  <1> DEFINE f == CHOOSE f : Runs(f, Len(chunk))
  <1>5. Runs(f, Len(chunk))
    <2>1. \E g : Runs(g, Len(chunk))
      BY <1>4
    <2> HIDE DEF Runs
    <2> QED
      BY <2>1
  <1>6. Push(r, chunk) = f[1 .. Len(chunk)]
    <2>1. DOMAIN chunk = 1 .. Len(chunk)
      OBVIOUS
    <2> QED
      BY <2>1 DEF Push, FoldLeft, MapThenFoldSet
  <1> HIDE DEF f
  <1>7. \A s \in SUBSET (1 .. Len(chunk)) : f[s] = Next1(f, s)
    BY <1>5
  <1>8. f[{}] = r
    <2>1. {} \in SUBSET (1 .. Len(chunk))
      OBVIOUS
    <2> QED
      BY <1>7, <2>1
  <1>9. ASSUME NEW m \in 1 .. Len(chunk)
        PROVE  f[1 .. m] = TsTakes(f[1 .. m - 1], chunk[m])
    <2>1. 1 .. m \in SUBSET (1 .. Len(chunk)) /\ 1 .. m # {}
      OBVIOUS
    <2>2. f[1 .. m] = TsTakes(f[(1 .. m) \ {Max(1 .. m)}], chunk[Max(1 .. m)])
      BY <1>7, <2>1
    <2>3. Max(1 .. m) = m
      <3>1. m - 1 \in Nat /\ m - 1 + 1 = m /\ m \in 1 .. m
        OBVIOUS
      <3> QED
        BY <1>1, <3>1
    <2>4. (1 .. m) \ {m} = 1 .. m - 1
      OBVIOUS
    <2> QED
      BY <2>2, <2>3, <2>4
  <1> QED
    BY <1>6, <1>8, <1>9

(* push follows the stream through a whole chunk.                          *)
LEMMA TsReadsAChunk ==
  ASSUME NEW s \in Seq(Bytes), NEW chunk \in Seq(Bytes), NEW r, Reads(r, s)
  PROVE  Reads(Push(r, chunk), s \o chunk)
PROOF
  <1>1. PICK f : /\ f[{}] = r
                 /\ \A m \in 1 .. Len(chunk) :
                      f[1 .. m] = TsTakes(f[1 .. m - 1], chunk[m])
                 /\ Push(r, chunk) = f[1 .. Len(chunk)]
    BY PushDefined
  <1> DEFINE Cut(m) == SubSeq(chunk, 1, m)
  <1> DEFINE T == {m \in Nat : m <= Len(chunk) => Reads(f[1 .. m], s \o Cut(m))}
  <1>2. 0 \in T
    <2>1. Cut(0) = << >> /\ 1 .. 0 = {}
      BY SubSeqEmpty
    <2>2. s \o << >> = s
      BY ConcatEmptySeq
    <2> HIDE DEF Cut
    <2> QED
      BY <1>1, <2>1, <2>2
  <1>3. ASSUME NEW m \in Nat, m \in T PROVE m + 1 \in T
    <2> SUFFICES ASSUME m + 1 <= Len(chunk)
                 PROVE  Reads(f[1 .. m + 1], s \o Cut(m + 1))
      OBVIOUS
    <2>1. Reads(f[1 .. m], s \o Cut(m))
      BY <1>3
    <2> DEFINE c == chunk[m + 1]
    <2>2. m + 1 \in 1 .. Len(chunk) /\ c \in Bytes
      OBVIOUS
    <2>3. f[1 .. m + 1] = TsTakes(f[1 .. m], c)
      <3>1. m + 1 - 1 = m
        OBVIOUS
      <3>2. f[1 .. m + 1] = TsTakes(f[1 .. m + 1 - 1], chunk[m + 1])
        BY <1>1, <2>2
      <3> QED
        BY <3>1, <3>2
    <2>4. Cut(m) \in Seq(Bytes) /\ <<c>> \in Seq(Bytes)
      <3>1. \A i \in 1 .. m : chunk[i] \in Bytes
        OBVIOUS
      <3> QED
        BY <2>2, <3>1, SubSeqProperties
    <2>5. Cut(m + 1) = Cut(m) \o <<c>>
      <3>1. 0 + 1 \in 1 .. Len(chunk) /\ m + 1 \in 0 + 1 .. Len(chunk)
        OBVIOUS
      <3>2. SubSeq(chunk, 0 + 1, m + 1) = SubSeq(chunk, 0 + 1, m) \o <<c>>
        BY <3>1, OneMoreByte
      <3>3. 0 + 1 = 1
        OBVIOUS
      <3> QED
        BY <3>2, <3>3
    <2> HIDE DEF Cut, c
    <2>6. s \o (Cut(m) \o <<c>>) = (s \o Cut(m)) \o <<c>>
      BY <2>4, ConcatAssociative
    <2>7. /\ s \o Cut(m) \in Seq(Bytes)
          /\ Append(s \o Cut(m), c) = (s \o Cut(m)) \o <<c>>
      BY <2>2, <2>4, ConcatProperties, AppendIsConcat
    <2>8. Reads(TsTakes(f[1 .. m], c), Append(s \o Cut(m), c))
      BY <2>1, <2>2, <2>7, TsTakesOne
    <2> QED
      BY <2>3, <2>5, <2>6, <2>7, <2>8
  <1>4. Len(chunk) \in T
    <2> HIDE DEF T
    <2>1. Len(chunk) \in Nat
      OBVIOUS
    <2> QED
      BY <1>2, <1>3, <2>1, SetInduction
  <1>5. Cut(Len(chunk)) = chunk
    BY SubSeqFull
  <1> HIDE DEF Cut
  <1> QED
    BY <1>1, <1>4, <1>5

(* What each branch of feed (streams.py) makes of a segment, at the end of *)
(* a chunk and at a line feed.                                             *)
LEMMA SegmentReads ==
  ASSUME NEW s \in Seq(Bytes), NEW segment \in Seq(Bytes), NEW r, Reads(r, s),
         \A i \in 1 .. Len(segment) : segment[i] # "LF"
  PROVE  LET line == r.buffer \o segment
         IN /\ r.discarding =>
                 /\ Reads(r, s \o segment)
                 /\ Reads([r EXCEPT !.discarding = FALSE], Append(s \o segment, "LF"))
            /\ ~r.discarding /\ Len(line) > MaxLineBytes =>
                 /\ Reads([Reports(r, "line_too_long") EXCEPT !.discarding = TRUE],
                          s \o segment)
                 /\ Reads([Reports(r, "line_too_long") EXCEPT !.discarding = FALSE],
                          Append(s \o segment, "LF"))
            /\ ~r.discarding /\ ~(Len(line) > MaxLineBytes) =>
                 /\ Reads([r EXCEPT !.buffer = line], s \o segment)
                 /\ Reads(Reports(r, Decoded(line)), Append(s \o segment, "LF"))
PROOF
  <1> DEFINE g == s \o segment
  <1> DEFINE line == r.buffer \o segment
  <1>1. /\ r \in LineReader
        /\ r.discarding <=> Len(Rest(s)) > MaxLineBytes
        /\ r.buffer = IF r.discarding THEN << >> ELSE Rest(s)
        /\ r.results = IF r.discarding THEN Append(Lines(s), "line_too_long")
                       ELSE Lines(s)
    BY DEF Reads
  <1>2. MaxLineBytes \in Nat \ {0}
    BY LineReadersAssumption
  <1>3. /\ Rest(s) \in Seq(Bytes) /\ Lines(s) \in Seq(LineResults)
        /\ g \in Seq(Bytes) /\ "LF" \in Bytes
    BY RestIsTyped, LinesOfOneMore, ConcatProperties DEF Bytes
  <1>4. Lines(g) = Lines(s) /\ Rest(g) = Rest(s) \o segment /\ Rest(g) \in Seq(Bytes)
    BY <1>3, SegmentGoesOn, RestIsTyped
  <1>5. Len(Rest(g)) = Len(Rest(s)) + Len(segment) /\ Len(Rest(s)) \in Nat
        /\ Len(segment) \in Nat
    BY <1>3, <1>4, ConcatProperties
  <1>6. /\ Lines(Append(g, "LF")) = Append(Lines(s), Meaning(Rest(g)))
        /\ Rest(Append(g, "LF")) = << >>
    BY <1>3, <1>4, LinesOfOneMore, RestOfOneMore
  <1>7. ~(Len(<< >>) > MaxLineBytes) /\ << >> \in Seq(Bytes)
    BY <1>2
  <1>8. /\ r.discarding \in BOOLEAN /\ "line_too_long" \in LineResults
        /\ Decoded(Rest(g)) \in LineResults
    BY <1>1, <1>4, MeaningIsTyped DEF LineReader, LineResults
  <1>9. ~r.discarding => line = Rest(g)
    BY <1>1, <1>4
  <1> HIDE DEF g, line
  <1>10. CASE r.discarding
    <2>1. Len(Rest(g)) > MaxLineBytes
      BY <1>1, <1>2, <1>5, <1>10
    <2>2. Meaning(Rest(g)) = "line_too_long"
      BY <2>1 DEF Meaning
    <2>3. Reads(r, g)
      BY <1>1, <1>4, <1>10, <2>1 DEF Reads
    <2> DEFINE t == [r EXCEPT !.discarding = FALSE]
    <2>4. /\ t \in LineReader /\ t.discarding = FALSE /\ t.buffer = r.buffer
          /\ t.results = r.results
      BY <1>1 DEF LineReader
    <2> HIDE DEF t
    <2>5. Reads(t, Append(g, "LF"))
      BY <1>1, <1>6, <1>7, <1>10, <2>2, <2>4 DEF Reads
    <2> QED
      BY <1>10, <2>3, <2>5 DEF g, t
  <1>11. CASE ~r.discarding /\ Len(line) > MaxLineBytes
    <2>1. Len(Rest(g)) > MaxLineBytes
      BY <1>9, <1>11
    <2>2. Meaning(Rest(g)) = "line_too_long"
      BY <2>1 DEF Meaning
    <2> DEFINE u == Reports(r, "line_too_long")
    <2>3. /\ u \in LineReader /\ u.buffer = << >>
          /\ u.results = Append(Lines(s), "line_too_long")
      BY <1>1, <1>8, <1>11, ReportsOne
    <2> HIDE DEF u
    <2> DEFINE t(d) == [u EXCEPT !.discarding = d]
    <2>4. ASSUME NEW d \in BOOLEAN
          PROVE  /\ t(d) \in LineReader /\ t(d).discarding = d /\ t(d).buffer = << >>
                 /\ t(d).results = Append(Lines(s), "line_too_long")
      BY <2>3 DEF LineReader
    <2> HIDE DEF t
    <2>5. Reads(t(TRUE), g)
      BY <1>4, <2>1, <2>4 DEF Reads
    <2>6. Reads(t(FALSE), Append(g, "LF"))
      BY <1>6, <1>7, <2>2, <2>4 DEF Reads
    <2> QED
      BY <1>11, <2>5, <2>6 DEF g, t, u, line
  <1>12. CASE ~r.discarding /\ ~(Len(line) > MaxLineBytes)
    <2>1. ~(Len(Rest(g)) > MaxLineBytes)
      BY <1>9, <1>12
    <2>2. Meaning(Rest(g)) = Decoded(Rest(g))
      BY <2>1 DEF Meaning
    <2> DEFINE t == [r EXCEPT !.buffer = line]
    <2>3. /\ t \in LineReader /\ t.discarding = r.discarding /\ t.buffer = Rest(g)
          /\ t.results = r.results
      BY <1>1, <1>4, <1>9, <1>12 DEF LineReader
    <2> DEFINE u == Reports(r, Decoded(line))
    <2>4. /\ u \in LineReader /\ u.buffer = << >> /\ u.discarding = r.discarding
          /\ u.results = Append(Lines(s), Decoded(Rest(g)))
      BY <1>1, <1>8, <1>9, <1>12, ReportsOne
    <2> HIDE DEF t, u
    <2>5. Reads(t, g)
      BY <1>1, <1>4, <1>12, <2>1, <2>3 DEF Reads
    <2>6. Reads(u, Append(g, "LF"))
      BY <1>6, <1>7, <1>12, <2>2, <2>4 DEF Reads
    <2> QED
      BY <1>12, <2>5, <2>6 DEF g, t, u, line
  <1> QED
    BY <1>10, <1>11, <1>12 DEF g, line

(* The reader has taken all of a chunk but its rest.                       *)
Fed(r, s, rest, chunk) ==
  \E p \in Seq(Bytes) : p \o rest = chunk /\ Reads(r, s \o p)

(* One turn of the loop in feed takes at least one byte and follows the    *)
(* stream.                                                                 *)
LEMMA OneTurnReads ==
  ASSUME NEW s \in Seq(Bytes), NEW t, t.rest \in Seq(Bytes), t.rest # << >>,
         Reads(t.reader, s)
  PROVE  LET u == FeedSegment(t)
         IN /\ u.rest \in Seq(Bytes) /\ Len(u.rest) < Len(t.rest)
            /\ Fed(u.reader, s, u.rest, t.rest)
PROOF
  <1> DEFINE rest == t.rest
  <1> DEFINE r == t.reader
  <1> DEFINE newline == SelectInSeq(rest, LAMBDA b : b = "LF")
  <1> DEFINE u == FeedSegment(t)
  <1>1. \/ newline = 0 /\ \A i \in 1 .. Len(rest) : rest[i] # "LF"
        \/ /\ newline \in 1 .. Len(rest) /\ rest[newline] = "LF"
           /\ \A i \in 1 .. newline - 1 : rest[i] # "LF"
    BY FirstLineFeed
  <1>2. r.discarding \in BOOLEAN /\ Len(rest) \in Nat /\ Len(rest) # 0
    BY DEF Reads, LineReader
  <1>3. CASE newline = 0
    <2>1. \A i \in 1 .. Len(rest) : rest[i] # "LF"
      BY <1>1, <1>3
    <2>2. SubSeq(rest, 1, Len(rest)) = rest
      BY SubSeqFull
    <2> DEFINE line == r.buffer \o rest
    <2>3. u.rest = << >>
      BY <1>3 DEF FeedSegment
    <2>4. /\ r.discarding => u.reader = [r EXCEPT !.discarding = TRUE]
          /\ ~r.discarding /\ Len(line) > MaxLineBytes =>
               u.reader = [Reports(r, "line_too_long") EXCEPT !.discarding = TRUE]
          /\ ~r.discarding /\ ~(Len(line) > MaxLineBytes) =>
               u.reader = [r EXCEPT !.buffer = line]
      BY <1>3, <2>2 DEF FeedSegment
    <2>5. r.discarding => [r EXCEPT !.discarding = TRUE] = r
      BY DEF Reads, LineReader
    <2> HIDE DEF u, line, r, rest, newline
    <2>6. Reads(r, s) /\ rest \in Seq(Bytes)
      BY DEF r, rest
    <2>7. Reads(u.reader, s \o rest)
      BY <1>2, <2>1, <2>4, <2>5, <2>6, SegmentReads DEF line
    <2>8. rest \o << >> = rest /\ Len(<< >>) = 0 /\ << >> \in Seq(Bytes)
      BY <2>6, ConcatEmptySeq
    <2>9. Fed(u.reader, s, u.rest, rest)
      BY <2>3, <2>6, <2>7, <2>8 DEF Fed
    <2> QED
      BY <1>2, <2>3, <2>8, <2>9 DEF u, rest
  <1>4. CASE newline # 0
    <2> DEFINE n == newline
    <2> DEFINE segment == SubSeq(rest, 1, n - 1)
    <2> DEFINE line == r.buffer \o segment
    <2> DEFINE more == SubSeq(rest, n + 1, Len(rest))
    <2>1. /\ n \in 1 .. Len(rest) /\ rest[n] = "LF"
          /\ \A i \in 1 .. n - 1 : rest[i] # "LF"
      BY <1>1, <1>4
    <2>2. u.rest = more
      BY <1>4 DEF FeedSegment
    <2>3. /\ r.discarding => u.reader = [r EXCEPT !.discarding = FALSE]
          /\ ~r.discarding /\ Len(line) > MaxLineBytes =>
               u.reader = [Reports(r, "line_too_long") EXCEPT !.discarding = FALSE]
          /\ ~r.discarding /\ ~(Len(line) > MaxLineBytes) =>
               u.reader = Reports(r, Decoded(line))
      BY <1>4 DEF FeedSegment
    <2> HIDE DEF u, r, rest, n, newline
    <2>4. Reads(r, s) /\ rest \in Seq(Bytes)
      BY DEF r, rest
    <2>5. /\ segment \in Seq(Bytes) /\ \A i \in 1 .. Len(segment) : segment[i] # "LF"
      <3>1. \A i \in 1 .. n - 1 : rest[i] \in Bytes /\ 1 + i - 1 = i
        BY <2>1, <2>4
      <3>2. /\ segment \in Seq(Bytes)
            /\ Len(segment) = IF 1 <= n - 1 THEN n - 1 - 1 + 1 ELSE 0
            /\ \A i \in 1 .. n - 1 - 1 + 1 : segment[i] = rest[1 + i - 1]
        BY <2>1, <3>1, SubSeqProperties
      <3>3. n - 1 - 1 + 1 = n - 1 /\ 0 \in Nat
        BY <2>1
      <3> QED
        BY <2>1, <3>1, <3>2, <3>3
    <2>6. more \in Seq(Bytes) /\ Len(more) < Len(rest)
      <3>1. \A i \in n + 1 .. Len(rest) : rest[i] \in Bytes
        BY <2>1, <2>4
      <3>2. /\ more \in Seq(Bytes)
            /\ Len(more) = IF n + 1 <= Len(rest) THEN Len(rest) - (n + 1) + 1 ELSE 0
        BY <1>2, <2>1, <3>1, SubSeqProperties
      <3> QED
        BY <1>2, <2>1, <3>2
    <2> HIDE DEF segment, line, more
    <2> DEFINE p == Append(segment, "LF")
    <2>7. p \in Seq(Bytes) /\ s \o p = Append(s \o segment, "LF")
      <3>1. "LF" \in Bytes /\ <<"LF">> \in Seq(Bytes)
        BY DEF Bytes
      <3>2. p \in Seq(Bytes) /\ p = segment \o <<"LF">>
        BY <2>5, <3>1, AppendIsConcat, AppendProperties
      <3>3. s \o segment \in Seq(Bytes)
        BY <2>5, ConcatProperties
      <3>4. Append(s \o segment, "LF") = (s \o segment) \o <<"LF">>
        BY <3>1, <3>3, AppendIsConcat
      <3>5. (s \o segment) \o <<"LF">> = s \o (segment \o <<"LF">>)
        BY <2>5, <3>1, ConcatAssociative
      <3> QED
        BY <3>2, <3>4, <3>5
    <2>8. p \o more = rest
      <3>1. p = SubSeq(rest, 1, n)
        <4>1. SubSeq(rest, 1, n) = SubSeq(rest, 1, n - 1) \o <<rest[n]>>
          BY <2>1, <2>4, SubSeqRecursiveSecond DEF segment
        <4>2. segment \o <<"LF">> = p
          BY <2>5, AppendIsConcat DEF Bytes
        <4> QED
          BY <2>1, <4>1, <4>2 DEF segment
      <3>2. SubSeq(rest, 1, n) \o SubSeq(rest, n + 1, Len(rest)) = SubSeq(rest, 1, Len(rest))
        <4>1. 1 \in 1 .. Len(rest) + 1 /\ n \in 1 - 1 .. Len(rest)
              /\ Len(rest) \in n .. Len(rest)
          BY <1>2, <2>1
        <4> QED
          BY <2>4, <4>1, ConcatAdjacentSubSeq
      <3>3. SubSeq(rest, 1, Len(rest)) = rest
        BY <2>4, SubSeqFull
      <3> QED
        BY <3>1, <3>2, <3>3 DEF more
    <2> HIDE DEF p
    <2>9. Reads(u.reader, Append(s \o segment, "LF"))
      <3>1. CASE r.discarding
        BY <2>3, <2>4, <2>5, <3>1, SegmentReads
      <3>2. CASE ~r.discarding /\ Len(line) > MaxLineBytes
        <4>1. Reads([Reports(r, "line_too_long") EXCEPT !.discarding = FALSE],
                    Append(s \o segment, "LF"))
          BY <2>4, <2>5, <3>2, SegmentReads DEF line
        <4> QED
          BY <2>3, <3>2, <4>1
      <3>3. CASE ~r.discarding /\ ~(Len(line) > MaxLineBytes)
        BY <2>3, <2>4, <2>5, <3>3, SegmentReads DEF line
      <3> QED
        BY <3>1, <3>2, <3>3
    <2>10. Fed(u.reader, s, u.rest, rest)
      BY <2>2, <2>7, <2>8, <2>9 DEF Fed
    <2> QED
      BY <2>2, <2>6, <2>10 DEF u, rest
  <1> QED
    BY <1>3, <1>4

(* feed is a loop, so it satisfies its own recursion: turn after turn.     *)
LEMMA FeedDefined ==
  ASSUME NEW r, NEW chunk \in Seq(Bytes)
  PROVE  \E f : /\ f[0] = [rest |-> chunk, reader |-> r]
                /\ \A n \in 1 .. Len(chunk) :
                     f[n] = IF f[n - 1].rest = << >> THEN f[n - 1]
                            ELSE FeedSegment(f[n - 1])
                /\ Feed(r, chunk) = f[Len(chunk)].reader
PROOF
  <1> DEFINE Turn(f, n) == IF n = 0 THEN [rest |-> chunk, reader |-> r]
                           ELSE IF f[n - 1].rest = << >> THEN f[n - 1]
                           ELSE FeedSegment(f[n - 1])
  <1> DEFINE Runs(f, m) == f = [n \in 0 .. m |-> Turn(f, n)]
  <1> DEFINE T == {m \in Nat : \E f : Runs(f, m)}
  <1>1. 0 \in T
    <2> DEFINE f == [n \in 0 .. 0 |-> [rest |-> chunk, reader |-> r]]
    <2>1. \A n \in 0 .. 0 : n = 0
      OBVIOUS
    <2>2. Runs(f, 0)
      BY <2>1
    <2> QED
      BY <2>2
  <1>2. ASSUME NEW m \in Nat, m \in T PROVE m + 1 \in T
    <2>1. PICK f : Runs(f, m)
      BY <1>2
    <2> DEFINE next == IF f[m].rest = << >> THEN f[m] ELSE FeedSegment(f[m])
    <2> DEFINE k == [n \in 0 .. m + 1 |-> IF n <= m THEN f[n] ELSE next]
    <2>2. ASSUME NEW n \in 0 .. m + 1 PROVE k[n] = Turn(k, n)
      <3>1. CASE n <= m
        <4>1. k[n] = f[n] /\ f[n] = Turn(f, n)
          BY <2>1, <3>1
        <4>2. n # 0 => k[n - 1] = f[n - 1]
          BY <3>1
        <4> HIDE DEF k
        <4> QED
          BY <4>1, <4>2
      <3>2. CASE ~(n <= m)
        <4>1. n = m + 1 /\ n # 0 /\ n - 1 = m
          BY <3>2
        <4>2. k[n] = next
          BY <3>2
        <4>3. k[n - 1] = f[m]
          BY <4>1
        <4> HIDE DEF k
        <4> QED
          BY <4>1, <4>2, <4>3
      <3> QED
        BY <3>1, <3>2
    <2>3. Runs(k, m + 1)
      <3> HIDE DEF Turn
      <3>1. k = [n \in 0 .. m + 1 |-> k[n]]
        OBVIOUS
      <3> HIDE DEF k
      <3> QED
        BY <2>2, <3>1
    <2> HIDE DEF Runs, k
    <2> QED
      BY <2>3
  <1>3. Len(chunk) \in T
    <2>1. Len(chunk) \in Nat
      OBVIOUS
    <2> HIDE DEF T
    <2> QED
      BY <1>1, <1>2, <2>1, SetInduction
  <1> DEFINE f == CHOOSE f : Runs(f, Len(chunk))
  <1>4. Runs(f, Len(chunk))
    <2>1. \E g : Runs(g, Len(chunk))
      BY <1>3
    <2> HIDE DEF Runs
    <2> QED
      BY <2>1
  <1>5. Feed(r, chunk) = f[Len(chunk)].reader
    BY DEF Feed
  <1> HIDE DEF f
  <1>6. \A n \in 0 .. Len(chunk) : f[n] = Turn(f, n)
    BY <1>4
  <1>7. f[0] = [rest |-> chunk, reader |-> r]
    <2>1. 0 \in 0 .. Len(chunk)
      OBVIOUS
    <2> QED
      BY <1>6, <2>1
  <1>8. \A n \in 1 .. Len(chunk) :
          f[n] = IF f[n - 1].rest = << >> THEN f[n - 1] ELSE FeedSegment(f[n - 1])
    <2>1. \A n \in 1 .. Len(chunk) : n \in 0 .. Len(chunk) /\ n # 0
      OBVIOUS
    <2> QED
      BY <1>6, <2>1
  <1> QED
    BY <1>5, <1>7, <1>8

(* feed follows the stream through a whole chunk: as each turn takes a     *)
(* byte, its turns are enough.                                             *)
LEMMA PyReadsAChunk ==
  ASSUME NEW s \in Seq(Bytes), NEW chunk \in Seq(Bytes), NEW r, Reads(r, s)
  PROVE  Reads(Feed(r, chunk), s \o chunk)
PROOF
  <1>1. PICK f : /\ f[0] = [rest |-> chunk, reader |-> r]
                 /\ \A n \in 1 .. Len(chunk) :
                      f[n] = IF f[n - 1].rest = << >> THEN f[n - 1]
                             ELSE FeedSegment(f[n - 1])
                 /\ Feed(r, chunk) = f[Len(chunk)].reader
    BY FeedDefined
  <1>2. Len(chunk) \in Nat /\ << >> \in Seq(Bytes) /\ Len(<< >>) = 0
    OBVIOUS
  <1> DEFINE Ahead(m) == /\ f[m].rest \in Seq(Bytes)
                         /\ Len(f[m].rest) <= Len(chunk) - m
                         /\ Fed(f[m].reader, s, f[m].rest, chunk)
  <1> DEFINE T == {m \in Nat : m <= Len(chunk) => Ahead(m)}
  <1>3. 0 \in T
    <2>1. f[0].rest = chunk /\ f[0].reader = r
      BY <1>1
    <2>2. << >> \o chunk = chunk /\ s \o << >> = s
      BY ConcatEmptySeq
    <2>3. Fed(f[0].reader, s, f[0].rest, chunk)
      BY <1>2, <2>1, <2>2 DEF Fed
    <2>4. Len(f[0].rest) <= Len(chunk) - 0
      BY <1>2, <2>1
    <2> QED
      BY <2>1, <2>3, <2>4
  <1>4. ASSUME NEW m \in Nat, m \in T PROVE m + 1 \in T
    <2> SUFFICES ASSUME m + 1 <= Len(chunk) PROVE Ahead(m + 1)
      OBVIOUS
    <2>1. Ahead(m)
      BY <1>2, <1>4
    <2> DEFINE t == f[m]
    <2> DEFINE u == f[m + 1]
    <2>2. u = IF t.rest = << >> THEN t ELSE FeedSegment(t)
      <3>1. \A n \in 1 .. Len(chunk) :
              f[n] = IF f[n - 1].rest = << >> THEN f[n - 1] ELSE FeedSegment(f[n - 1])
        BY <1>1
      <3>2. ASSUME NEW n \in 1 .. Len(chunk), n = m + 1
            PROVE  f[n] = IF f[m].rest = << >> THEN f[m] ELSE FeedSegment(f[m])
        <4>1. n - 1 = m
          BY <3>2
        <4> QED
          BY <3>1, <4>1
      <3>3. m + 1 \in 1 .. Len(chunk)
        BY <1>2
      <3> QED
        BY <3>2, <3>3
    <2> HIDE DEF t, u
    <2>3. /\ t.rest \in Seq(Bytes) /\ Len(t.rest) <= Len(chunk) - m
          /\ Fed(t.reader, s, t.rest, chunk)
      BY <2>1 DEF t
    <2>4. PICK p \in Seq(Bytes) : p \o t.rest = chunk /\ Reads(t.reader, s \o p)
      BY <2>3 DEF Fed
    <2>5. CASE t.rest = << >>
      <3>1. u = t /\ 0 <= Len(chunk) - (m + 1)
        BY <1>2, <2>2, <2>5
      <3>2. Len(u.rest) <= Len(chunk) - (m + 1)
        BY <1>2, <2>5, <3>1
      <3> QED
        BY <2>3, <3>1, <3>2 DEF u
    <2>6. CASE t.rest # << >>
      <3>1. u = FeedSegment(t)
        BY <2>2, <2>6
      <3>2. s \o p \in Seq(Bytes)
        BY ConcatProperties
      <3>3. /\ u.rest \in Seq(Bytes) /\ Len(u.rest) < Len(t.rest)
            /\ Fed(u.reader, s \o p, u.rest, t.rest)
        BY <2>3, <2>4, <2>6, <3>1, <3>2, OneTurnReads
      <3>4. PICK q \in Seq(Bytes) : q \o u.rest = t.rest /\ Reads(u.reader, (s \o p) \o q)
        BY <3>3 DEF Fed
      <3>5. /\ p \o q \in Seq(Bytes) /\ (s \o p) \o q = s \o (p \o q)
            /\ (p \o q) \o u.rest = p \o (q \o u.rest)
        <4>1. \A x, y, z \in Seq(Bytes) : (x \o y) \o z = x \o (y \o z)
          BY BytesAssociate
        <4>2. (s \o p) \o q = s \o (p \o q)
          BY <4>1
        <4>3. (p \o q) \o u.rest = p \o (q \o u.rest)
          BY <3>3, <4>1, Zenon
        <4> QED
          BY <4>2, <4>3, ConcatProperties
      <3>6. Fed(u.reader, s, u.rest, chunk)
        BY <2>4, <3>4, <3>5 DEF Fed
      <3>7. Len(u.rest) \in Nat /\ Len(t.rest) \in Nat
        BY <2>3, <3>3
      <3>8. Len(u.rest) <= Len(chunk) - (m + 1)
        BY <1>2, <2>3, <3>3, <3>7
      <3> QED
        BY <3>3, <3>6, <3>8 DEF u
    <2> QED
      BY <2>5, <2>6
  <1>5. Len(chunk) \in T
    <2> HIDE DEF T
    <2> QED
      BY <1>2, <1>3, <1>4, SetInduction
  <1> DEFINE t == f[Len(chunk)]
  <1>6. t.rest \in Seq(Bytes) /\ Len(t.rest) <= 0 /\ Fed(t.reader, s, t.rest, chunk)
    BY <1>2, <1>5
  <1> HIDE DEF t
  <1>7. t.rest = << >>
    <2>1. Len(t.rest) = 0
      BY <1>6
    <2> QED
      BY <1>6, <2>1, EmptySeq
  <1>8. PICK p \in Seq(Bytes) : p \o << >> = chunk /\ Reads(t.reader, s \o p)
    BY <1>6, <1>7 DEF Fed
  <1>9. p = chunk
    BY <1>8, ConcatEmptySeq
  <1> QED
    BY <1>1, <1>8, <1>9 DEF t

(* The inductive invariant: ReadersAgree says nothing of buffers and of    *)
(* discarding, and what a reader does next depends on both.                *)
BothRead ==
  /\ received \in Seq(Bytes) /\ ended \in BOOLEAN
  /\ ~ended => Reads(pyReader, received) /\ Reads(tsReader, received)
  /\ ended => ReadersAgree

(* ReadersAgree: the reader that works by segments of a chunk (streams.py) *)
(* and the one that works byte by byte (protocol-stream.ts) both report    *)
(* what the stream means, at every chunk boundary of every stream and      *)
(* after its end, whatever the line limit and the chunks; so they agree,   *)
(* and neither keeps more than a line's worth of bytes.                    *)
THEOREM ReadersAlwaysAgree == ReadersSpec => []ReadersAgree
PROOF
  <1>1. ReadersInit => BothRead
    <2> SUFFICES ASSUME ReadersInit PROVE BothRead
      OBVIOUS
    <2>1. Rest(<< >>) = << >>
      <3>1. << >> \in Seq(Bytes) /\ Len(<< >>) = 0 /\ DOMAIN << >> = {}
        OBVIOUS
      <3>2. LineStart(<< >>, 0 + 1) = 0
        <4>1. LineFeeds(<< >>) = {0}
          BY <3>1 DEF LineFeeds
        <4>2. 0 \in LineFeeds(<< >>) /\ 0 < 0 + 1 /\ 0 + 1 \in Nat
              /\ \A k \in LineFeeds(<< >>) : k < 0 + 1 => k <= 0
          BY <4>1
        <4> QED
          BY <3>1, <4>2, LineStartIs
      <3>3. LineUpTo(<< >>, 0 + 1) = SubSeq(<< >>, 0 + 1, 0)
        BY <3>2, LineUpToIs
      <3>4. SubSeq(<< >>, 0 + 1, 0) = << >>
        BY SubSeqEmpty
      <3> QED
        BY <3>1, <3>3, <3>4 DEF Rest
    <2>2. Lines(<< >>) = << >>
      <3> DEFINE told == [i \in DOMAIN << >> |->
                            IF << >>[i] = "LF" THEN <<Meaning(LineUpTo(<< >>, i))>>
                            ELSE << >>]
      <3>1. told = << >>
        OBVIOUS
      <3> HIDE DEF told
      <3>2. FlattenSeq(told) = << >>
        BY <3>1 DEF FlattenSeq
      <3> QED
        BY <3>2 DEF Lines, told
    <2>3. Reads(NewReader, << >>)
      <3>1. /\ NewReader \in LineReader /\ NewReader.discarding = FALSE
            /\ NewReader.buffer = << >> /\ NewReader.results = << >>
        BY DEF NewReader, LineReader
      <3>2. ~(Len(<< >>) > MaxLineBytes)
        BY LineReadersAssumption
      <3> QED
        BY <2>1, <2>2, <3>1, <3>2 DEF Reads
    <2>4. /\ received = << >> /\ ended = FALSE
          /\ pyReader = NewReader /\ tsReader = NewReader
      BY DEF ReadersInit
    <2>5. received \in Seq(Bytes)
      BY <2>4, EmptySeq
    <2>6. Reads(pyReader, received) /\ Reads(tsReader, received)
      BY <2>3, <2>4, Zenon
    <2> QED
      BY <2>4, <2>5, <2>6 DEF BothRead
  <1>2. ASSUME NEW r, NEW s \in Seq(Bytes), Reads(r, s)
        PROVE  LET due == IF Len(Rest(s)) > MaxLineBytes THEN <<"line_too_long">>
                          ELSE << >>
               IN /\ r.results = Lines(s) \o due
                  /\ Len(r.buffer) <= MaxLineBytes
    <2>1. /\ Lines(s) \in Seq(LineResults) /\ "line_too_long" \in LineResults
          /\ Rest(s) \in Seq(Bytes)
      BY LinesOfOneMore, RestIsTyped DEF LineResults, Bytes
    <2>2. /\ Lines(s) \o << >> = Lines(s)
          /\ Lines(s) \o <<"line_too_long">> = Append(Lines(s), "line_too_long")
      BY <2>1, ConcatEmptySeq, AppendIsConcat
    <2>3. /\ r.discarding \in BOOLEAN
          /\ r.discarding <=> Len(Rest(s)) > MaxLineBytes
          /\ r.buffer = IF r.discarding THEN << >> ELSE Rest(s)
          /\ r.results = IF r.discarding THEN Append(Lines(s), "line_too_long")
                         ELSE Lines(s)
      BY <1>2 DEF Reads, LineReader
    <2>4. Len(Rest(s)) \in Nat /\ Len(<< >>) = 0 /\ MaxLineBytes \in Nat
      BY <2>1, LineReadersAssumption
    <2>5. Len(r.buffer) <= MaxLineBytes
      BY <2>3, <2>4
    <2> QED
      BY <2>2, <2>3, <2>5
  <1>3. BothRead => ReadersAgree
    <2> SUFFICES ASSUME BothRead, ~ended, NEW r \in {pyReader, tsReader}
                 PROVE  r.results = Expected /\ Len(r.buffer) <= MaxLineBytes
      BY DEF BothRead, ReadersAgree
    <2>1. received \in Seq(Bytes) /\ Reads(r, received)
      BY DEF BothRead
    <2> QED
      BY <1>2, <2>1 DEF Expected
  <1>4. BothRead /\ [ReadersNext]_readers => BothRead'
    <2> SUFFICES ASSUME BothRead, [ReadersNext]_readers PROVE BothRead'
      OBVIOUS
    <2>1. ASSUME NEW chunk \in Chunks, ChunkArrives(chunk) PROVE BothRead'
      <3>1. chunk \in Seq(Bytes)
        <4>1. PICK n \in 1 .. MaxChunk : chunk \in [1 .. n -> Bytes]
          BY <2>1 DEF Chunks
        <4>2. n \in Nat
          OBVIOUS
        <4> QED
          BY <4>1, <4>2
      <3>2. /\ ~ended /\ ended' = ended /\ received' = received \o chunk
            /\ pyReader' = Feed(pyReader, chunk) /\ tsReader' = Push(tsReader, chunk)
        BY <2>1 DEF ChunkArrives
      <3>3. received \in Seq(Bytes) /\ Reads(pyReader, received)
            /\ Reads(tsReader, received)
        BY <3>2 DEF BothRead
      <3>4. received' \in Seq(Bytes)
        BY <3>1, <3>2, <3>3, ConcatProperties
      <3>5. Reads(pyReader', received')
        BY <3>1, <3>2, <3>3, PyReadsAChunk
      <3>6. Reads(tsReader', received')
        BY <3>1, <3>2, <3>3, TsReadsAChunk
      <3> QED
        BY <3>2, <3>4, <3>5, <3>6 DEF BothRead, Reads
    <2>2. CASE PipeEnds
      <3>1. /\ ~ended /\ ended' = TRUE /\ received' = received
            /\ pyReader' = Finish(pyReader) /\ tsReader' = Finish(tsReader)
        BY <2>2 DEF PipeEnds
      <3>2. received \in Seq(Bytes) /\ Reads(pyReader, received)
            /\ Reads(tsReader, received)
        BY <3>1 DEF BothRead
      <3>3. ASSUME NEW r, Reads(r, received)
            PROVE  Finish(r).results = Expected' /\ Len(Finish(r).buffer) <= MaxLineBytes
        <4>1. /\ r \in LineReader /\ r.discarding \in BOOLEAN
              /\ r.discarding <=> Len(Rest(received)) > MaxLineBytes
              /\ r.buffer = IF r.discarding THEN << >> ELSE Rest(received)
              /\ r.results = IF r.discarding THEN Append(Lines(received), "line_too_long")
                             ELSE Lines(received)
          BY <3>3 DEF Reads, LineReader
        <4>2. /\ Lines(received) \in Seq(LineResults)
              /\ "line_too_long" \in LineResults /\ "invalid_framing" \in LineResults
          BY <3>2, LinesOfOneMore DEF LineResults, Bytes
        <4>3. /\ Lines(received) \o << >> = Lines(received)
              /\ Lines(received) \o <<"line_too_long">>
                   = Append(Lines(received), "line_too_long")
              /\ Lines(received) \o <<"invalid_framing">>
                   = Append(Lines(received), "invalid_framing")
          BY <4>2, ConcatEmptySeq, AppendIsConcat
        <4>4. Expected' =
                Lines(received)
                  \o IF Len(Rest(received)) > MaxLineBytes THEN <<"line_too_long">>
                     ELSE IF Rest(received) # << >> THEN <<"invalid_framing">> ELSE << >>
          BY <3>1 DEF Expected
        <4>5. /\ Len(<< >>) = 0 /\ MaxLineBytes \in Nat
              /\ Len(r.buffer) <= MaxLineBytes
          BY <1>2, <3>2, <3>3, LineReadersAssumption
        <4>6. CASE ~r.discarding /\ r.buffer # << >>
          <5>1. Finish(r) = Reports(r, "invalid_framing")
            BY <4>6 DEF Finish
          <5>2. /\ Finish(r).buffer = << >>
                /\ Finish(r).results = Append(Lines(received), "invalid_framing")
            BY <4>1, <4>2, <4>6, <5>1, ReportsOne
          <5>3. Expected' = Append(Lines(received), "invalid_framing")
            BY <4>1, <4>3, <4>4, <4>6
          <5>4. Len(Finish(r).buffer) <= MaxLineBytes
            BY <4>5, <5>2
          <5> QED
            BY <5>2, <5>3, <5>4
        <4>7. CASE r.discarding \/ r.buffer = << >>
          <5>1. Finish(r) = [r EXCEPT !.discarding = FALSE]
            BY <4>7 DEF Finish
          <5>2. Finish(r).buffer = r.buffer /\ Finish(r).results = r.results
            BY <4>1, <5>1 DEF LineReader
          <5>3. Expected' = r.results
            BY <4>1, <4>3, <4>4, <4>7
          <5> QED
            BY <4>5, <5>2, <5>3
        <4> QED
          BY <4>6, <4>7
      <3>4. ReadersAgree'
        BY <3>1, <3>2, <3>3 DEF ReadersAgree
      <3> QED
        BY <3>1, <3>2, <3>4 DEF BothRead
    <2>3. CASE UNCHANGED readers
      BY <2>3 DEF readers, BothRead, ReadersAgree, Expected
    <2> QED
      BY <2>1, <2>2, <2>3 DEF ReadersNext
  <1> QED
    BY <1>1, <1>3, <1>4, PTL DEF ReadersSpec
=============================================================================
