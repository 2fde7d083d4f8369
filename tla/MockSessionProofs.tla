-------------------------- MODULE MockSessionProofs --------------------------
(***************************************************************************)
(* Theorems about MockSession, for every tape, any number of competing     *)
(* cancellations, and a sink that may fail: its reducer refuses nothing it *)
(* gives it, its requests are answered truly, it keeps the contract, and   *)
(* the command loop sees of it what RuntimeLoop's sessions do.             *)
(***************************************************************************)
EXTENDS MockSessionSeen, SessionLifecycleProofs, TLAPS

(* The inductive invariant.  None of the three properties is inductive:    *)
(* that an event is accepted depends on where run() is when it writes it,  *)
(* and that depends on which task took the lock before.                    *)

Starting == run \in {"created", "starting", "started"}

(* The lock is held across a write, a deferred cancellation and the        *)
(* observer of a cancellation that was reduced, and by nothing else.       *)
LockAgrees ==
  /\ lock = "run" <=> run \in WritingPlaces \cup {"deferring"}
  /\ \A c \in Cancels : cancelReq[c] = "observing" =>
       /\ lock = "cancel" /\ outcome = "none"
       /\ lifecycle.status = "cancelling" /\ lifecycle.cancel_command_id = c

(* Which outcomes are possible where run() is.                             *)
OutcomeAgrees ==
  /\ outcome = "cancelled" <=> cancelCommand # None
  /\ deferred # None => deferred = cancelCommand
  /\ deferred # None => lifecycle.status = "starting" \/ run \in {"deferring", "cancelled"}
  /\ outcome = "completed" <=> lifecycle.assistant_completed = TRUE
  /\ run = "deferring" => deferred # None
  /\ run \in {"delta_writing", "sealing"} => outcome = "none"
  /\ run = "completing" => outcome = "completed"
  /\ outcome = "completed" => run \in {"completing", "returned", "cancelled", "failed"}
  /\ run \in {"cancel", "cancel_writing"} => outcome = "cancelled"

(* What the reducer's status says of the outcome, and of run().            *)
StatusAgrees ==
  /\ lifecycle.start_command_id = StartCommand
  /\ lifecycle.status # "starting" => lifecycle.session_id = SessionId
  /\ Starting => lifecycle.status = "starting"
  /\ lifecycle.status = "starting" => Starting \/ run \in {"cancelled", "failed"}
  /\ lifecycle.status \in {"starting", "running", "cancelling", "completed", "cancelled"}
  /\ lifecycle.status \in {"completed", "cancelled"} <=> run = "returned"
  /\ lifecycle.status = "starting" =>
       outcome # "completed" /\ (outcome = "cancelled" => deferred # None)
  /\ lifecycle.status = "running" =>
       lock # "cancel" /\ (outcome = "cancelled" => deferred # None)
  /\ lifecycle.status = "cancelling" =>
       /\ deferred = None /\ outcome # "completed"
       /\ outcome = "none" => lock = "cancel"
       /\ outcome = "cancelled" => lifecycle.cancel_command_id = cancelCommand
  /\ lifecycle.status = "cancelled" =>
       outcome = "cancelled" /\ lifecycle.cancel_command_id = cancelCommand
  /\ lifecycle.status = "completed" => outcome = "completed"

(* The reducer holds the part of the tape that was emitted.                *)
TextAgrees ==
  /\ Len(lifecycle.assistant_text) = index
  /\ \A i \in 1 .. index : lifecycle.assistant_text[i] = Tape[i]
  /\ Starting \/ run \in {"deferring", "checkpoint", "delta", "delta_writing"} =>
       index < Len(Tape)
  /\ run \in {"complete", "sealing"} => index = Len(Tape)

SequenceAgrees ==
  /\ run = "started" => sequence = lifecycle.last_sequence + 1
  /\ run = "cancelled" =>
       sequence \in {lifecycle.last_sequence, lifecycle.last_sequence + 1}
  /\ run \notin {"started", "cancelled"} => sequence = lifecycle.last_sequence

(* Nothing was refused, and each answer is about the outcome.              *)
AnswersAgree ==
  /\ run # "raised"
  /\ cancelCommand # None => cancelResult[cancelCommand] = "accepted"
  /\ \A c \in Cancels :
       /\ cancelReq[c] # "rejected"
       /\ cancelReq[c] # "returned" => cancelResult[c] = "none"
       /\ cancelResult[c] = "accepted" => cancelCommand = c
       /\ cancelResult[c] = "already_requested" => cancelCommand # None
       /\ cancelResult[c] = "terminal" => outcome = "completed"

MockInv ==
  /\ TypeOK /\ LockAgrees /\ OutcomeAgrees /\ StatusAgrees
  /\ TextAgrees /\ SequenceAgrees /\ AnswersAgree

-----------------------------------------------------------------------------
(* None is no cancellation, and no cancellation is the task's command. *)
LEMMA CancelsAreCommands == None \notin Cancels /\ Cancels \subseteq Commands
PROOF
  BY NoneAssumption DEF Cancels

(* The constructor. *)
LEMMA InitMock == Init => MockInv
PROOF
  <1> SUFFICES ASSUME Init PROVE MockInv
    OBVIOUS
  <1>1. /\ lifecycle.status = "starting" /\ lifecycle.start_command_id = StartCommand
        /\ lifecycle.last_sequence = 0
        /\ lifecycle.assistant_text = << >> /\ lifecycle.assistant_completed = FALSE
    BY TaskAccepted, MockAssumption DEF Init
  <1>2. lifecycle \in SessionState
    <2>1. InitialSessionState \in SessionState
      BY DEF InitialSessionState, SessionState, Statuses
    <2> QED
      BY <2>1, ReducerKeepsType, MockAssumption DEF Init, TaskSubmitted, Facts
  <1>3. TypeOK
    BY <1>2, MockAssumption DEF Init, TypeOK
  <1>4. LockAgrees /\ OutcomeAgrees
    BY <1>1 DEF Init, LockAgrees, OutcomeAgrees, WritingPlaces
  <1>5. StatusAgrees /\ SequenceAgrees /\ AnswersAgree
    BY <1>1 DEF Init, StatusAgrees, SequenceAgrees, AnswersAgree, Starting
  <1>6. TextAgrees
    BY <1>1, MockAssumption DEF Init, TextAgrees, Starting
  <1> QED
    BY <1>3, <1>4, <1>5, <1>6 DEF MockInv

(* session.started is accepted, under the lock, whatever was requested     *)
(* since it was written.                                                   *)
LEMMA StartedReducedFacts ==
  ASSUME MockInv, StartedReduced
  PROVE  /\ lifecycle' \in SessionState
         /\ lifecycle.status = "starting"
         /\ lifecycle'.status = "running" /\ lifecycle'.session_id = SessionId
         /\ lifecycle'.last_sequence = sequence
         /\ SameTask(lifecycle, lifecycle') /\ SameText(lifecycle, lifecycle')
         /\ IF deferred # None THEN run' = "deferring" /\ lock' = "run"
            ELSE run' = "checkpoint" /\ lock' = "free"
PROOF
  <1> DEFINE e == Event("session.started", StartCommand, << >>, sequence)
  <1>1. /\ lifecycle \in SessionState /\ lifecycle.status = "starting"
        /\ StartCommand = lifecycle.start_command_id
        /\ sequence = lifecycle.last_sequence + 1
    BY DEF MockInv, TypeOK, StartedReduced, StatusAgrees, SequenceAgrees, Starting
  <1>2. e \in WireEvents
    BY MockAssumption
    DEF MockInv, TypeOK, Event, WireEvent, WireEvents, EventTypes
  <1>3. /\ Accepts(lifecycle, e)
        /\ After(lifecycle, e).status = "running"
        /\ After(lifecycle, e).session_id = SessionId
        /\ After(lifecycle, e).last_sequence = sequence
        /\ SameTask(lifecycle, After(lifecycle, e))
        /\ SameText(lifecycle, After(lifecycle, e))
    BY <1>1, StartedAccepted, MockAssumption DEF Event
  <1>4. After(lifecycle, e) \in SessionState
    BY <1>1, <1>2, ReducerKeepsType
  <1> HIDE DEF e
  <1> QED
    BY <1>1, <1>3, <1>4 DEF StartedReduced, e

(* A cancellation is accepted whenever the reducer is running.             *)
LEMMA CancellationFacts ==
  ASSUME MockInv, lifecycle.status = "running", NEW c \in Cancels
  PROVE  LET u == CancelRequested(c, SessionId)
             t == After(lifecycle, u)
         IN /\ Accepts(lifecycle, u)
            /\ t \in SessionState
            /\ t.status = "cancelling" /\ t.cancel_command_id = c
            /\ t.session_id = SessionId
            /\ t.last_sequence = lifecycle.last_sequence
            /\ SameTask(lifecycle, t) /\ SameText(lifecycle, t)
PROOF
  <1>1. lifecycle \in SessionState /\ lifecycle.session_id = SessionId /\ c \in Commands
    BY CancelsAreCommands DEF MockInv, TypeOK, StatusAgrees
  <1>2. CancelRequested(c, SessionId) \in Facts
    BY <1>1, MockAssumption DEF CancelRequested, Facts
  <1> QED
    BY <1>1, <1>2, ReducerKeepsType, CancellationAccepted

(* The event run() writes at each place is accepted there (Written).       *)
LEMMA WrittenFacts ==
  ASSUME MockInv, Written
  PROVE  /\ Accepts(lifecycle, EventAt(run))
         /\ lifecycle' \in SessionState
         /\ lifecycle'.last_sequence = lifecycle.last_sequence + 1
         /\ sequence = lifecycle.last_sequence
         /\ SameIdentity(lifecycle, lifecycle')
         /\ run = "delta_writing" =>
              /\ lifecycle.status = "running" /\ lifecycle'.status = "running"
              /\ index < Len(Tape)
              /\ lifecycle'.assistant_text =
                   lifecycle.assistant_text \o <<Tape[index + 1]>>
              /\ lifecycle'.assistant_completed = lifecycle.assistant_completed
         /\ run = "sealing" =>
              /\ lifecycle.status = "running" /\ lifecycle'.status = "running"
              /\ lifecycle.assistant_text = Tape
              /\ lifecycle'.assistant_text = Tape
              /\ lifecycle'.assistant_completed = TRUE
         /\ run = "completing" =>
              /\ lifecycle.status = "running" /\ lifecycle'.status = "completed"
              /\ SameText(lifecycle, lifecycle')
         /\ run = "cancel_writing" =>
              /\ lifecycle.status = "cancelling" /\ lifecycle'.status = "cancelled"
              /\ SameText(lifecycle, lifecycle')
PROOF
  <1>1. /\ lifecycle \in SessionState /\ run \in WritingPlaces
        /\ sequence = lifecycle.last_sequence /\ sequence \in Nat
        /\ lifecycle.start_command_id = StartCommand
        /\ lifecycle.session_id = SessionId
        /\ lock = "run" /\ deferred = None
        /\ lifecycle' = After(lifecycle, EventAt(run))
    <2>1. run \in WritingPlaces /\ lifecycle' = After(lifecycle, EventAt(run))
      BY DEF Written
    <2>2. lock = "run" /\ sequence = lifecycle.last_sequence
      BY <2>1 DEF MockInv, LockAgrees, SequenceAgrees, WritingPlaces
    <2>3. /\ lifecycle.status # "starting" /\ lifecycle.session_id = SessionId
          /\ lifecycle.start_command_id = StartCommand
      BY <2>1 DEF MockInv, StatusAgrees, WritingPlaces, Starting
    <2>4. deferred = None
      BY <2>1, <2>3 DEF MockInv, OutcomeAgrees, WritingPlaces
    <2> QED
      BY <2>1, <2>2, <2>3, <2>4 DEF MockInv, TypeOK
  <1>2. ASSUME NEW type \in EventTypes, NEW correlation \in Commands,
               NEW payload \in Seq(Fragments),
               EventAt(run) = Event(type, correlation, payload, sequence + 1)
        PROVE  lifecycle' \in SessionState
    <2>1. EventAt(run) \in WireEvents
      BY <1>1, <1>2, MockAssumption DEF Event, WireEvent, WireEvents
    <2> QED
      BY <1>1, <2>1, ReducerKeepsType
  <1>3. CASE run = "delta_writing"
    <2>1. /\ lifecycle.status = "running" /\ index < Len(Tape) /\ index \in Nat
          /\ lifecycle.assistant_completed = FALSE
      BY <1>1, <1>3
      DEF MockInv, TypeOK, SessionState, LockAgrees, OutcomeAgrees, StatusAgrees,
          TextAgrees, Starting
    <2>2. <<Tape[index + 1]>> \in Seq(Fragments)
      BY <2>1, MockAssumption
    <2>3. EventAt(run) = Event("assistant.delta", StartCommand, <<Tape[index + 1]>>,
                               sequence + 1)
      BY <1>3 DEF EventAt
    <2>4. lifecycle' \in SessionState
      BY <1>2, <2>2, <2>3, MockAssumption DEF EventTypes
    <2>5. /\ Accepts(lifecycle, EventAt(run))
          /\ lifecycle'.assistant_text = lifecycle.assistant_text \o <<Tape[index + 1]>>
          /\ lifecycle'.last_sequence = lifecycle.last_sequence + 1
          /\ lifecycle'.status = lifecycle.status
          /\ lifecycle'.assistant_completed = lifecycle.assistant_completed
          /\ SameIdentity(lifecycle, lifecycle')
      BY <1>1, <2>1, <2>2, <2>3, DeltaAccepted DEF Event
    <2> QED
      BY <1>1, <1>3, <2>1, <2>4, <2>5
  <1>4. CASE run = "sealing"
    <2>1. /\ lifecycle.status = "running" /\ index = Len(Tape)
          /\ lifecycle.assistant_completed = FALSE
      BY <1>1, <1>4
      DEF MockInv, TypeOK, SessionState, LockAgrees, OutcomeAgrees, StatusAgrees,
          TextAgrees, Starting
    <2>2. lifecycle.assistant_text = Tape
      <3>1. lifecycle.assistant_text \in Seq(Fragments) /\ Tape \in Seq(Fragments)
        BY <1>1, MockAssumption DEF SessionState
      <3>2. /\ Len(lifecycle.assistant_text) = Len(Tape)
            /\ \A i \in 1 .. Len(Tape) : lifecycle.assistant_text[i] = Tape[i]
        BY <2>1 DEF MockInv, TextAgrees
      <3> QED
        BY <3>1, <3>2
    <2>3. EventAt(run) = Event("assistant.completed", StartCommand, Tape, sequence + 1)
      BY <1>4 DEF EventAt
    <2>4. lifecycle' \in SessionState
      BY <1>2, <2>3, MockAssumption DEF EventTypes
    <2>5. /\ Accepts(lifecycle, EventAt(run))
          /\ lifecycle'.assistant_completed = TRUE
          /\ lifecycle'.last_sequence = lifecycle.last_sequence + 1
          /\ lifecycle'.status = lifecycle.status
          /\ lifecycle'.assistant_text = lifecycle.assistant_text
          /\ SameIdentity(lifecycle, lifecycle')
      BY <1>1, <2>1, <2>2, <2>3, SealAccepted DEF Event
    <2> QED
      BY <1>1, <1>4, <2>1, <2>2, <2>4, <2>5
  <1>5. CASE run = "completing"
    <2>1. lifecycle.status = "running" /\ lifecycle.assistant_completed = TRUE
      BY <1>1, <1>5 DEF MockInv, OutcomeAgrees, StatusAgrees, Starting
    <2>2. EventAt(run) = Event("session.completed", StartCommand, << >>, sequence + 1)
      BY <1>5 DEF EventAt
    <2>3. lifecycle' \in SessionState
      <3>1. << >> \in Seq(Fragments)
        OBVIOUS
      <3> QED
        BY <1>2, <2>2, <3>1, MockAssumption DEF EventTypes
    <2>4. /\ Accepts(lifecycle, EventAt(run))
          /\ lifecycle'.status = TerminalStatus("session.completed")
          /\ lifecycle'.last_sequence = lifecycle.last_sequence + 1
          /\ SameText(lifecycle, lifecycle') /\ SameIdentity(lifecycle, lifecycle')
      BY <1>1, <2>1, <2>2, TerminalAccepted DEF Event
    <2> QED
      BY <1>1, <1>5, <2>1, <2>3, <2>4 DEF TerminalStatus
  <1>6. CASE run = "cancel_writing"
    <2>1. /\ lifecycle.status = "cancelling"
          /\ lifecycle.cancel_command_id = cancelCommand /\ cancelCommand \in Commands
      BY <1>1, <1>6, CancelsAreCommands
      DEF MockInv, TypeOK, OutcomeAgrees, StatusAgrees, Starting
    <2>2. EventAt(run) = Event("session.cancelled", cancelCommand, << >>, sequence + 1)
      BY <1>6 DEF EventAt
    <2>3. lifecycle' \in SessionState
      <3>1. << >> \in Seq(Fragments)
        OBVIOUS
      <3> QED
        BY <1>2, <2>1, <2>2, <3>1 DEF EventTypes
    <2>4. /\ Accepts(lifecycle, EventAt(run))
          /\ lifecycle'.status = TerminalStatus("session.cancelled")
          /\ lifecycle'.last_sequence = lifecycle.last_sequence + 1
          /\ SameText(lifecycle, lifecycle') /\ SameIdentity(lifecycle, lifecycle')
      BY <1>1, <2>1, <2>2, TerminalAccepted DEF Event
    <2> QED
      BY <1>1, <1>6, <2>1, <2>3, <2>4 DEF TerminalStatus
  <1> QED
    BY <1>1, <1>3, <1>4, <1>5, <1>6 DEF WritingPlaces
-----------------------------------------------------------------------------
(* run() starts, writes its start, passes a checkpoint and claims the lock *)
(* without touching the reducer or the outcome.                            *)
LEMMA MovingKeepsInv ==
  ASSUME MockInv,
         \/ Start \/ StartedWritten \/ CheckpointPasses
         \/ ClaimDelta \/ ClaimCompletion \/ ClaimCancellation
  PROVE  MockInv'
PROOF
  <1>1. UNCHANGED <<lifecycle, deferred, outcome, index, cancelCommand, cancelReq,
                    cancelResult>>
    BY DEF Start, StartedWritten, CheckpointPasses, ClaimDelta, ClaimCompletion,
           Claim, ClaimCancellation, RunStep
  <1>2. TypeOK'
    BY <1>1
    DEF Start, StartedWritten, CheckpointPasses, ClaimDelta, ClaimCompletion, Claim,
        ClaimCancellation, MockInv, TypeOK, WritingPlaces
  <1>3. LockAgrees'
    BY <1>1
    DEF Start, StartedWritten, CheckpointPasses, ClaimDelta, ClaimCompletion, Claim,
        ClaimCancellation, MockInv, LockAgrees, WritingPlaces
  <1>4. lifecycle.status = "starting" \/ deferred = None
    BY
    DEF Start, StartedWritten, CheckpointPasses, ClaimDelta, ClaimCompletion, Claim,
        ClaimCancellation, MockInv, OutcomeAgrees, StatusAgrees, Starting
  <1>5. OutcomeAgrees'
    <2>1. CASE Start \/ StartedWritten
      BY <1>1, <2>1 DEF Start, StartedWritten, MockInv, OutcomeAgrees
    <2>2. CASE CheckpointPasses \/ ClaimCancellation
      BY <1>1, <1>4, <2>2
      DEF CheckpointPasses, ClaimCancellation, CancellationRequested, MockInv,
          OutcomeAgrees
    <2>3. CASE ClaimDelta \/ ClaimCompletion
      <3>1. outcome # "completed"
        BY <2>3
        DEF ClaimDelta, ClaimCompletion, Claim, MockInv, StatusAgrees, OutcomeAgrees,
            TypeOK
      <3> QED
        BY <1>1, <1>4, <2>3, <3>1
        DEF ClaimDelta, ClaimCompletion, Claim, MockInv, TypeOK, OutcomeAgrees
    <2> QED
      BY <2>1, <2>2, <2>3
  <1>6. StatusAgrees'
    BY <1>1
    DEF Start, StartedWritten, CheckpointPasses, ClaimDelta, ClaimCompletion, Claim,
        ClaimCancellation, MockInv, OutcomeAgrees, StatusAgrees, Starting
  <1>7. TextAgrees'
    BY <1>1
    DEF Start, StartedWritten, CheckpointPasses, ClaimDelta, ClaimCompletion, Claim,
        ClaimCancellation, MockInv, TextAgrees, Starting
  <1>8. SequenceAgrees'
    BY <1>1
    DEF Start, StartedWritten, CheckpointPasses, ClaimDelta, ClaimCompletion, Claim,
        ClaimCancellation, MockInv, SequenceAgrees
  <1>9. AnswersAgree'
    BY <1>1
    DEF Start, StartedWritten, CheckpointPasses, ClaimDelta, ClaimCompletion, Claim,
        ClaimCancellation, MockInv, OutcomeAgrees, AnswersAgree
  <1> QED
    BY <1>2, <1>3, <1>5, <1>6, <1>7, <1>8, <1>9 DEF MockInv

(* The start is reduced, then a cancellation that came before it.          *)
LEMMA StartingKeepsInv ==
  ASSUME MockInv, StartedReduced \/ DeferredReduced
  PROVE  MockInv'
PROOF
  <1>1. UNCHANGED <<sequence, outcome, index, cancelCommand, cancelReq, cancelResult>>
    BY DEF StartedReduced, DeferredReduced, RunStep
  <1>2. CASE StartedReduced
    <2>1. /\ lifecycle' \in SessionState
          /\ lifecycle.status = "starting"
          /\ lifecycle'.status = "running" /\ lifecycle'.session_id = SessionId
          /\ lifecycle'.last_sequence = sequence
          /\ SameTask(lifecycle, lifecycle') /\ SameText(lifecycle, lifecycle')
          /\ IF deferred # None THEN run' = "deferring" /\ lock' = "run"
             ELSE run' = "checkpoint" /\ lock' = "free"
      BY <1>2, StartedReducedFacts
    <2>2. run = "started" /\ lock = "free" /\ deferred' = deferred
      BY <1>2 DEF StartedReduced
    <2>3. TypeOK'
      BY <1>1, <2>1, <2>2 DEF MockInv, TypeOK, WritingPlaces
    <2>4. LockAgrees' /\ OutcomeAgrees'
      BY <1>1, <2>1, <2>2
      DEF MockInv, LockAgrees, OutcomeAgrees, WritingPlaces, SameText
    <2>5. StatusAgrees'
      BY <1>1, <2>1, <2>2 DEF MockInv, OutcomeAgrees, StatusAgrees, SameTask, Starting
    <2>6. TextAgrees' /\ SequenceAgrees' /\ AnswersAgree'
      BY <1>1, <2>1, <2>2
      DEF MockInv, TextAgrees, SequenceAgrees, AnswersAgree, SameText, Starting
    <2> QED
      BY <2>3, <2>4, <2>5, <2>6 DEF MockInv
  <1>3. CASE DeferredReduced
    <2>1. /\ run = "deferring" /\ deferred # None /\ deferred \in Cancels
          /\ outcome = "cancelled" /\ deferred = cancelCommand
          /\ lifecycle.status = "running"
      <3>1. run = "deferring" /\ deferred # None /\ deferred = cancelCommand
        BY <1>3 DEF DeferredReduced, MockInv, OutcomeAgrees
      <3>2. lifecycle.status = "running"
        BY <3>1 DEF MockInv, OutcomeAgrees, StatusAgrees, Starting
      <3> QED
        BY <3>1, <3>2 DEF MockInv, TypeOK, OutcomeAgrees
    <2>2. /\ lifecycle' \in SessionState
          /\ lifecycle'.status = "cancelling"
          /\ lifecycle'.cancel_command_id = deferred
          /\ lifecycle'.session_id = SessionId
          /\ lifecycle'.last_sequence = lifecycle.last_sequence
          /\ SameTask(lifecycle, lifecycle') /\ SameText(lifecycle, lifecycle')
          /\ run' = "checkpoint" /\ deferred' = None /\ lock' = "free"
      BY <1>3, <2>1, CancellationFacts DEF DeferredReduced
    <2>3. TypeOK'
      BY <1>1, <2>2 DEF MockInv, TypeOK, WritingPlaces
    <2>4. LockAgrees' /\ OutcomeAgrees'
      BY <1>1, <2>1, <2>2
      DEF MockInv, LockAgrees, OutcomeAgrees, WritingPlaces, SameText
    <2>5. StatusAgrees'
      BY <1>1, <2>1, <2>2 DEF MockInv, OutcomeAgrees, StatusAgrees, SameTask, Starting
    <2>6. TextAgrees' /\ SequenceAgrees' /\ AnswersAgree'
      BY <1>1, <2>1, <2>2
      DEF MockInv, TextAgrees, SequenceAgrees, AnswersAgree, SameText, Starting
    <2> QED
      BY <2>3, <2>4, <2>5, <2>6 DEF MockInv
  <1> QED
    BY <1>2, <1>3

(* A write under the lock, at each of its four places. *)
LEMMA WrittenKeepsInv ==
  ASSUME MockInv, Written
  PROVE  MockInv'
PROOF
  <1>1. /\ UNCHANGED <<deferred, cancelCommand, cancelReq, cancelResult>>
        /\ sequence' = sequence + 1
        /\ run \in WritingPlaces
        /\ run' = NextPlace(run)
        /\ lock' = IF run = "sealing" THEN lock ELSE "free"
        /\ outcome' = IF run = "sealing" THEN "completed" ELSE outcome
        /\ index' = IF run = "delta_writing" THEN index + 1 ELSE index
        /\ lifecycle' \in SessionState
        /\ lifecycle'.last_sequence = lifecycle.last_sequence + 1
        /\ sequence = lifecycle.last_sequence
        /\ SameIdentity(lifecycle, lifecycle')
    BY WrittenFacts DEF Written, RunStep
  <1>2. /\ lock = "run" /\ lifecycle.status # "starting" /\ deferred = None
        /\ \A c \in Cancels : cancelReq[c] # "observing"
        /\ lifecycle.session_id = SessionId
        /\ lifecycle.start_command_id = StartCommand
    <2>1. lock = "run" /\ lifecycle.status # "starting"
      BY <1>1 DEF MockInv, LockAgrees, StatusAgrees, WritingPlaces, Starting
    <2> QED
      BY <1>1, <2>1
      DEF MockInv, LockAgrees, OutcomeAgrees, StatusAgrees, WritingPlaces
  <1>3. index' \in 0 .. Len(Tape) /\ index \in Nat /\ Len(Tape) \in Nat
    <2>1. Len(Tape) \in Nat
      BY MockAssumption
    <2>2. run = "delta_writing" => index < Len(Tape)
      BY WrittenFacts
    <2> QED
      BY <1>1, <2>1, <2>2 DEF MockInv, TypeOK
  <1>4. TypeOK'
    BY <1>1, <1>2, <1>3 DEF MockInv, TypeOK, WritingPlaces, NextPlace
  <1>5. LockAgrees'
    BY <1>1, <1>2 DEF LockAgrees, WritingPlaces, NextPlace
  <1>6. OutcomeAgrees'
    <2>1. run = "sealing" => lifecycle'.assistant_completed = TRUE
      BY WrittenFacts
    <2>2. run # "sealing" =>
            lifecycle'.assistant_completed = lifecycle.assistant_completed
      BY <1>1, WrittenFacts DEF WritingPlaces, SameText
    <2> QED
      BY <1>1, <1>2, <2>1, <2>2
      DEF MockInv, OutcomeAgrees, WritingPlaces, NextPlace
  <1>7. StatusAgrees'
    <2>1. CASE run \in {"delta_writing", "sealing"}
      BY <1>1, <1>2, <2>1, WrittenFacts
      DEF MockInv, OutcomeAgrees, StatusAgrees, NextPlace, Starting, SameIdentity,
          SameTask
    <2>2. CASE run = "completing"
      BY <1>1, <1>2, <2>2, WrittenFacts
      DEF MockInv, OutcomeAgrees, StatusAgrees, NextPlace, Starting, SameIdentity,
          SameTask
    <2>3. CASE run = "cancel_writing"
      BY <1>1, <1>2, <2>3, WrittenFacts
      DEF MockInv, OutcomeAgrees, StatusAgrees, NextPlace, Starting, SameIdentity,
          SameTask
    <2> QED
      BY <1>1, <2>1, <2>2, <2>3 DEF WritingPlaces
  <1>8. TextAgrees'
    <2>1. CASE run = "delta_writing"
      <3>1. /\ index < Len(Tape)
            /\ lifecycle'.assistant_text = lifecycle.assistant_text \o <<Tape[index + 1]>>
        BY <2>1, WrittenFacts
      <3>2. /\ lifecycle.assistant_text \in Seq(Fragments)
            /\ Tape[index + 1] \in Fragments
        BY <1>3, <3>1, MockAssumption DEF MockInv, TypeOK, SessionState
      <3>3. /\ Len(lifecycle'.assistant_text) = index + 1
            /\ \A i \in 1 .. index + 1 : lifecycle'.assistant_text[i] = Tape[i]
        BY <1>3, <3>1, <3>2 DEF MockInv, TextAgrees
      <3>4. index' = index + 1 /\ run' = IF index + 1 < Len(Tape) THEN "checkpoint"
                                         ELSE "complete"
        BY <1>1, <2>1 DEF NextPlace
      <3>5. \A i \in 1 .. index' : lifecycle'.assistant_text[i] = Tape[i]
        BY <3>3, <3>4
      <3> QED
        BY <1>3, <3>1, <3>3, <3>4, <3>5 DEF TextAgrees, Starting
    <2>2. CASE run # "delta_writing"
      BY <1>1, <2>2, WrittenFacts
      DEF MockInv, TextAgrees, NextPlace, Starting, WritingPlaces, SameText
    <2> QED
      BY <2>1, <2>2
  <1>9. SequenceAgrees'
    BY <1>1 DEF SequenceAgrees, NextPlace, WritingPlaces
  <1>10. AnswersAgree'
    BY <1>1 DEF MockInv, OutcomeAgrees, AnswersAgree, NextPlace, WritingPlaces
  <1> QED
    BY <1>4, <1>5, <1>6, <1>7, <1>8, <1>9, <1>10 DEF MockInv

(* run() fails or is cancelled: the reducer keeps what it had, and at most *)
(* one event is on the wire that it never sees.                            *)
LEMMA StoppingKeepsInv ==
  ASSUME MockInv, WriteFails \/ RunTaskCancelled
  PROVE  MockInv'
PROOF
  <1>1. /\ UNCHANGED <<lifecycle, deferred, outcome, index, cancelCommand, cancelReq,
                       cancelResult>>
        /\ lock' = IF lock = "run" THEN "free" ELSE lock
        /\ run \notin {"created", "returned", "cancelled", "failed", "raised"}
        /\ \/ /\ run' = "failed" /\ sequence' = sequence
              /\ run \in WritingPlaces \cup {"starting"}
           \/ /\ run' = "cancelled"
              /\ sequence' = sequence
                   \/ (run # "started" /\ sequence' = sequence + 1)
    <2>1. CASE WriteFails
      BY <2>1 DEF WriteFails, RunStep, WritingPlaces
    <2>2. CASE RunTaskCancelled
      <3>1. /\ run # "created" /\ ~RunEnded /\ run' = "cancelled"
            /\ lock' = IF lock = "run" THEN "free" ELSE lock
            /\ UNCHANGED <<lifecycle, deferred, outcome, index, cancelCommand,
                           cancelReq, cancelResult>>
        BY <2>2 DEF RunTaskCancelled, RunStep
      <3>2. sequence' = sequence \/ (run # "started" /\ sequence' = sequence + 1)
        BY <2>2 DEF RunTaskCancelled, WritingPlaces
      <3> QED
        BY <3>1, <3>2 DEF RunEnded
    <2> QED
      BY <2>1, <2>2
  <1>2. TypeOK'
    BY <1>1 DEF MockInv, TypeOK
  <1>3. LockAgrees'
    BY <1>1 DEF MockInv, TypeOK, LockAgrees, WritingPlaces
  <1>4. OutcomeAgrees'
    BY <1>1 DEF MockInv, OutcomeAgrees, StatusAgrees, WritingPlaces, Starting
  <1>5. StatusAgrees'
    BY <1>1 DEF MockInv, StatusAgrees, Starting
  <1>6. TextAgrees' /\ SequenceAgrees'
    BY <1>1
    DEF MockInv, TypeOK, TextAgrees, SequenceAgrees, Starting, WritingPlaces
  <1>7. AnswersAgree'
    BY <1>1 DEF MockInv, AnswersAgree
  <1> QED
    BY <1>2, <1>3, <1>4, <1>5, <1>6, <1>7 DEF MockInv

(* request_cancellation: a request that is refused, one that comes before  *)
(* the start was reduced, one that is reduced and then wins.               *)
LEMMA RequestKeepsInv ==
  ASSUME MockInv, NEW c \in Cancels, RequestCancellation(c) \/ RequestProgress(c)
  PROVE  MockInv'
PROOF
  <1>1. UNCHANGED <<sequence, run, index>>
    BY DEF RequestCancellation, RequestProgress, CancelRefused, CancelEarly,
           CancelReduced, CancelWins, RequestStep
  <1>2. c # None /\ c \in Commands
    BY CancelsAreCommands
  <1>3. CASE RequestCancellation(c) \/ CancelRefused(c)
    <2>1. UNCHANGED <<lifecycle, deferred, lock, outcome, cancelCommand>>
      BY <1>3 DEF RequestCancellation, CancelRefused
    <2>2. \/ cancelReq' = [cancelReq EXCEPT ![c] = "waiting"] /\ cancelReq[c] = "idle"
             /\ UNCHANGED cancelResult
          \/ /\ cancelReq' = [cancelReq EXCEPT ![c] = "returned"]
             /\ cancelReq[c] = "waiting"
             /\ \/ /\ cancelResult' = [cancelResult EXCEPT ![c] = "already_requested"]
                   /\ cancelCommand # None
                \/ /\ cancelResult' = [cancelResult EXCEPT ![c] = "terminal"]
                   /\ cancelCommand = None /\ outcome # "none"
      BY <1>3 DEF RequestCancellation, CancelRefused, Answer
    <2>3. TypeOK'
      BY <1>1, <2>1, <2>2 DEF MockInv, TypeOK
    <2>4. LockAgrees' /\ OutcomeAgrees' /\ StatusAgrees' /\ TextAgrees' /\ SequenceAgrees'
      BY <1>1, <2>1, <2>2
      DEF MockInv, TypeOK, LockAgrees, OutcomeAgrees, StatusAgrees, TextAgrees,
          SequenceAgrees, Starting
    <2>5. AnswersAgree'
      BY <1>1, <2>1, <2>2 DEF MockInv, TypeOK, OutcomeAgrees, AnswersAgree
    <2> QED
      BY <2>3, <2>4, <2>5 DEF MockInv
  <1>4. CASE CancelEarly(c)
    <2>1. /\ UNCHANGED <<lifecycle, lock>>
          /\ cancelReq[c] = "waiting" /\ lock = "free" /\ outcome = "none"
          /\ lifecycle.status = "starting"
          /\ deferred' = c /\ outcome' = "cancelled" /\ cancelCommand' = c
          /\ cancelReq' = [cancelReq EXCEPT ![c] = "returned"]
          /\ cancelResult' = [cancelResult EXCEPT ![c] = "accepted"]
      BY <1>4 DEF CancelEarly, Win, Answer
    <2>2. TypeOK'
      BY <1>1, <2>1 DEF MockInv, TypeOK
    <2>3. LockAgrees'
      BY <1>1, <2>1 DEF MockInv, TypeOK, LockAgrees
    <2>4. OutcomeAgrees'
      BY <1>1, <1>2, <2>1 DEF MockInv, OutcomeAgrees, StatusAgrees, Starting
    <2>5. StatusAgrees' /\ TextAgrees' /\ SequenceAgrees'
      BY <1>1, <1>2, <2>1
      DEF MockInv, StatusAgrees, TextAgrees, SequenceAgrees, Starting
    <2>6. \A d \in Cancels : cancelResult[d] = "none"
      BY <2>1, CancelsAreCommands DEF MockInv, TypeOK, OutcomeAgrees, AnswersAgree
    <2>7. AnswersAgree'
      BY <1>1, <1>2, <2>1, <2>6 DEF MockInv, TypeOK, AnswersAgree
    <2> QED
      BY <2>2, <2>3, <2>4, <2>5, <2>7 DEF MockInv
  <1>5. CASE CancelReduced(c)
    <2>1. /\ cancelReq[c] = "waiting" /\ lock = "free" /\ outcome = "none"
          /\ deferred = None /\ lifecycle.status = "running"
      BY <1>5, CancelsAreCommands
      DEF CancelReduced, MockInv, OutcomeAgrees, StatusAgrees
    <2>2. /\ lifecycle' \in SessionState
          /\ lifecycle'.status = "cancelling" /\ lifecycle'.cancel_command_id = c
          /\ lifecycle'.session_id = SessionId
          /\ lifecycle'.last_sequence = lifecycle.last_sequence
          /\ SameTask(lifecycle, lifecycle') /\ SameText(lifecycle, lifecycle')
          /\ cancelReq' = [cancelReq EXCEPT ![c] = "observing"] /\ lock' = "cancel"
          /\ UNCHANGED <<deferred, outcome, cancelCommand, cancelResult>>
      BY <1>5, <2>1, CancellationFacts DEF CancelReduced
    <2>3. TypeOK'
      BY <1>1, <2>2 DEF MockInv, TypeOK
    <2>4. LockAgrees'
      BY <1>1, <2>1, <2>2 DEF MockInv, TypeOK, LockAgrees
    <2>5. OutcomeAgrees'
      BY <1>1, <2>1, <2>2 DEF MockInv, OutcomeAgrees, SameText
    <2>6. StatusAgrees'
      BY <1>1, <2>1, <2>2 DEF MockInv, StatusAgrees, SameTask, Starting
    <2>7. TextAgrees' /\ SequenceAgrees'
      BY <1>1, <2>2 DEF MockInv, TextAgrees, SequenceAgrees, SameText, Starting
    <2>8. AnswersAgree'
      BY <1>1, <2>1, <2>2 DEF MockInv, TypeOK, AnswersAgree
    <2> QED
      BY <2>3, <2>4, <2>5, <2>6, <2>7, <2>8 DEF MockInv
  <1>6. CASE CancelWins(c)
    <2>1. /\ UNCHANGED <<lifecycle, deferred>>
          /\ cancelReq[c] = "observing" /\ lock = "cancel" /\ outcome = "none"
          /\ lifecycle.status = "cancelling" /\ lifecycle.cancel_command_id = c
          /\ lock' = "free" /\ outcome' = "cancelled" /\ cancelCommand' = c
          /\ cancelReq' = [cancelReq EXCEPT ![c] = "returned"]
          /\ cancelResult' = [cancelResult EXCEPT ![c] = "accepted"]
      BY <1>6 DEF CancelWins, Win, Answer, MockInv, LockAgrees
    <2>2. TypeOK'
      BY <1>1, <2>1 DEF MockInv, TypeOK
    <2>3. LockAgrees'
      BY <1>1, <2>1 DEF MockInv, TypeOK, LockAgrees
    <2>4. deferred = None /\ cancelCommand = None
      BY <2>1 DEF MockInv, OutcomeAgrees, StatusAgrees
    <2>5. OutcomeAgrees'
      BY <1>1, <1>2, <2>1, <2>4 DEF MockInv, OutcomeAgrees, LockAgrees, WritingPlaces
    <2>6. StatusAgrees' /\ TextAgrees' /\ SequenceAgrees'
      BY <1>1, <1>2, <2>1, <2>4
      DEF MockInv, StatusAgrees, TextAgrees, SequenceAgrees, Starting
    <2>7. \A d \in Cancels : cancelResult[d] = "none"
      BY <2>1, <2>4, CancelsAreCommands DEF MockInv, TypeOK, AnswersAgree
    <2>8. AnswersAgree'
      BY <1>1, <1>2, <2>1, <2>7 DEF MockInv, TypeOK, AnswersAgree
    <2> QED
      BY <2>2, <2>3, <2>5, <2>6, <2>8 DEF MockInv
  <1> QED
    BY <1>3, <1>4, <1>5, <1>6 DEF RequestProgress

(* The invariant the theorems below rest on. *)
THEOREM MockInvariant == Spec => []MockInv
PROOF
  <1>1. Init => MockInv
    BY InitMock
  <1>2. MockInv /\ [Next]_vars => MockInv'
    <2> SUFFICES ASSUME MockInv, [Next]_vars PROVE MockInv'
      OBVIOUS
    <2>1. CASE UNCHANGED vars
      BY <2>1
      DEF vars, MockInv, TypeOK, LockAgrees, OutcomeAgrees, StatusAgrees, TextAgrees,
          SequenceAgrees, AnswersAgree, Starting
    <2>2. CASE RunProgress \/ WriteFails \/ RunTaskCancelled
      BY <2>2, MovingKeepsInv, StartingKeepsInv, WrittenKeepsInv, StoppingKeepsInv
      DEF RunProgress
    <2> QED
      BY <2>1, <2>2, RequestKeepsInv DEF Next
  <1> QED
    BY <1>1, <1>2, PTL DEF Spec

(* No event the mock writes and no cancellation it accepts is refused by   *)
(* its reducer, and the projection lags the wire by the start's write, or  *)
(* by the one event whose write outlived the cancelled task                *)
(* (ProjectionFollowsWire).                                                *)
THEOREM MockProjectionFollowsWire == Spec => []ProjectionFollowsWire
PROOF
  <1>1. MockInv => ProjectionFollowsWire
    <2> SUFFICES ASSUME MockInv PROVE ProjectionFollowsWire
      OBVIOUS
    <2>1. lifecycle.last_sequence \in Nat
      BY DEF MockInv, TypeOK, SessionState
    <2> QED
      BY <2>1 DEF MockInv, SequenceAgrees, AnswersAgree, ProjectionFollowsWire
  <1> QED
    BY <1>1, MockInvariant, PTL

(* A request told it won is the one that ends a session that returns, one  *)
(* told that a cancellation was already requested met another that won,    *)
(* and one told "terminal" met a completion (request_cancellation;         *)
(* RequestsAnsweredTruly).                                                 *)
THEOREM MockRequestsAnsweredTruly == Spec => []RequestsAnsweredTruly
PROOF
  <1>1. MockInv => RequestsAnsweredTruly
    <2> SUFFICES ASSUME MockInv, NEW c \in Cancels
                 PROVE  /\ cancelResult[c] = "accepted" =>
                             /\ cancelCommand = c /\ outcome = "cancelled"
                             /\ run = "returned" =>
                                  /\ lifecycle.status = "cancelled"
                                  /\ lifecycle.cancel_command_id = c
                        /\ cancelResult[c] = "already_requested" =>
                             \E d \in Cancels \ {c} : cancelResult[d] = "accepted"
                        /\ cancelResult[c] = "terminal" => outcome = "completed"
      BY DEF RequestsAnsweredTruly
    <2>1. cancelResult[c] = "accepted" => cancelCommand = c /\ outcome = "cancelled"
      BY CancelsAreCommands DEF MockInv, OutcomeAgrees, AnswersAgree
    <2>2. cancelResult[c] = "accepted" /\ run = "returned" =>
            lifecycle.status = "cancelled" /\ lifecycle.cancel_command_id = c
      BY <2>1 DEF MockInv, StatusAgrees
    <2>3. cancelResult[c] = "already_requested" =>
            \E d \in Cancels \ {c} : cancelResult[d] = "accepted"
      BY DEF MockInv, TypeOK, AnswersAgree
    <2>4. cancelResult[c] = "terminal" => outcome = "completed"
      BY DEF MockInv, AnswersAgree
    <2> QED
      BY <2>1, <2>2, <2>3, <2>4
  <1> QED
    BY <1>1, MockInvariant, PTL

(* The mock implements SessionContract, its reducer's state being the      *)
(* refinement mapping (KeepsContract): each step of run() or of a request  *)
(* is a step of the contract or leaves it alone.                           *)
THEOREM MockKeepsContract == Spec => KeepsContract
PROOF
  <1>1. Init => Contract!Init
    BY TaskAccepted, MockAssumption DEF Init, Contract!Init
  <1>2. MockInv /\ [Next]_vars => [Contract!Next]_(Contract!contract)
    <2> SUFFICES ASSUME MockInv, [Next]_vars
                 PROVE  Contract!Next \/ UNCHANGED Contract!contract
      OBVIOUS
    <2> USE DEF Contract!Next, Contract!contract
    <2>1. CASE UNCHANGED lifecycle
      BY <2>1
    <2>2. CASE StartedReduced
      BY <2>2, StartedReducedFacts DEF Contract!Start, SameText
    <2>3. CASE DeferredReduced
      <3>1. /\ run = "deferring" /\ deferred # None /\ deferred \in Cancels
            /\ outcome = "cancelled"
        BY <2>3 DEF DeferredReduced, MockInv, TypeOK, OutcomeAgrees
      <3>2. lifecycle.status = "running" /\ ~lifecycle.assistant_completed
        BY <3>1 DEF MockInv, TypeOK, SessionState, OutcomeAgrees, StatusAgrees, Starting
      <3> QED
        BY <2>3, <3>1, <3>2, CancellationFacts
        DEF DeferredReduced, Contract!AcceptCancellation, SameText
    <2>4. CASE Written
      <3>1. lifecycle.assistant_completed => outcome = "completed"
        BY DEF MockInv, OutcomeAgrees
      <3>2. run \in WritingPlaces
        BY <2>4 DEF Written
      <3>3. CASE run = "delta_writing"
        <4>1. ~lifecycle.assistant_completed
          BY <3>1, <3>3 DEF MockInv, OutcomeAgrees
        <4>2. Tape[index + 1] \in Fragments
          BY <2>4, <3>3, WrittenFacts, MockAssumption DEF MockInv, TypeOK
        <4>3. lifecycle'.assistant_text = Append(lifecycle.assistant_text, Tape[index + 1])
          BY <2>4, <3>3, <4>2, WrittenFacts DEF MockInv, TypeOK, SessionState
        <4> QED
          BY <2>4, <3>3, <4>1, <4>2, <4>3, WrittenFacts DEF Contract!Say
      <3>4. CASE run = "sealing"
        <4>1. ~lifecycle.assistant_completed
          BY <3>1, <3>4 DEF MockInv, OutcomeAgrees
        <4>2. /\ lifecycle.status = "running" /\ lifecycle'.status = "running"
              /\ lifecycle.assistant_text = Tape /\ lifecycle'.assistant_text = Tape
          BY <2>4, <3>4, WrittenFacts
        <4>3. lifecycle'.assistant_completed = TRUE
          BY <2>4, <3>4, WrittenFacts
        <4> QED
          BY <4>1, <4>2, <4>3, MockAssumption DEF Contract!Seal
      <3>5. CASE run = "completing"
        <4>1. lifecycle.assistant_completed
          BY <3>5 DEF MockInv, OutcomeAgrees
        <4> QED
          BY <2>4, <3>5, <4>1, WrittenFacts DEF Contract!Complete, SameText
      <3>6. CASE run = "cancel_writing"
        BY <2>4, <3>6, WrittenFacts DEF Contract!Cancel, SameText
      <3> QED
        BY <3>2, <3>3, <3>4, <3>5, <3>6 DEF WritingPlaces
    <2>5. ASSUME NEW c \in Cancels, CancelReduced(c)
          PROVE  Contract!Next \/ UNCHANGED Contract!contract
      <3>1. /\ outcome = "none" /\ lifecycle.status = "running"
            /\ ~lifecycle.assistant_completed
        BY <2>5, CancelsAreCommands
        DEF CancelReduced, MockInv, TypeOK, SessionState, OutcomeAgrees, StatusAgrees
      <3> QED
        BY <2>5, <3>1, CancellationFacts
        DEF CancelReduced, Contract!AcceptCancellation, SameText
    <2>6. CASE \E c \in Cancels : CancelReduced(c)
      BY <2>5, <2>6
    <2> QED
      BY <2>1, <2>2, <2>3, <2>4, <2>6
      DEF Next, RunProgress, Start, StartedWritten, CheckpointPasses, ClaimDelta,
          ClaimCompletion, Claim, ClaimCancellation, WriteFails, RunTaskCancelled,
          RequestCancellation, RequestProgress, CancelRefused, CancelEarly, CancelWins,
          vars
  <1> QED
    BY <1>1, <1>2, MockInvariant, PTL DEF Spec, KeepsContract, Contract!Spec

-----------------------------------------------------------------------------
(* The session as the command loop sees it.                                *)

(* What its events have shown, by where run() is. *)
SeenInv ==
  /\ run \in {"created", "starting"} => shown = "nothing"
  /\ run \in WritingPlaces \cup {"started", "deferring", "checkpoint", "delta", "complete",
                               "cancel"} => shown = "running"
  /\ run = "returned" => shown \in {"completed", "cancelled"}

(* Reading a view, and changing one thing in it. *)
LEMMA Sights ==
  ASSUME NEW a, NEW b, NEW c, NEW d, NEW e
  PROVE  /\ View!Sight(a, b, c, d, e).shown = a
         /\ View!Sight(a, b, c, d, e).selected = b
         /\ View!Sight(a, b, c, d, e).settled = c
         /\ View!Sight(a, b, c, d, e).task = d
         /\ View!Sight(a, b, c, d, e).interrupt = e
         /\ \A x : [View!Sight(a, b, c, d, e) EXCEPT !.shown = x] = View!Sight(x, b, c, d, e)
         /\ \A x : [View!Sight(a, b, c, d, e) EXCEPT !.selected = x] = View!Sight(a, x, c, d, e)
         /\ \A x : [View!Sight(a, b, c, d, e) EXCEPT !.settled = x] = View!Sight(a, b, x, d, e)
         /\ \A x : [View!Sight(a, b, c, d, e) EXCEPT !.task = x] = View!Sight(a, b, c, x, e)
         /\ \A x : [View!Sight(a, b, c, d, e) EXCEPT !.interrupt = x] =
                     View!Sight(a, b, c, d, x)
PROOF
  <1>1. \A x : [View!Sight(a, b, c, d, e) EXCEPT !.shown = x] = View!Sight(x, b, c, d, e)
    BY DEF View!Sight
  <1>2. \A x : [View!Sight(a, b, c, d, e) EXCEPT !.selected = x] = View!Sight(a, x, c, d, e)
    BY DEF View!Sight
  <1>3. \A x : [View!Sight(a, b, c, d, e) EXCEPT !.settled = x] = View!Sight(a, b, x, d, e)
    BY DEF View!Sight
  <1>4. \A x : [View!Sight(a, b, c, d, e) EXCEPT !.task = x] = View!Sight(a, b, c, x, e)
    BY DEF View!Sight
  <1>5. \A x : [View!Sight(a, b, c, d, e) EXCEPT !.interrupt = x] = View!Sight(a, b, c, d, x)
    BY DEF View!Sight
  <1>6. /\ View!Sight(a, b, c, d, e).shown = a /\ View!Sight(a, b, c, d, e).selected = b
        /\ View!Sight(a, b, c, d, e).settled = c /\ View!Sight(a, b, c, d, e).task = d
        /\ View!Sight(a, b, c, d, e).interrupt = e
    BY DEF View!Sight
  <1> QED
    BY <1>1, <1>2, <1>3, <1>4, <1>5, <1>6

(* The moves run() makes. *)
LEMMA ViewMoves ==
  ASSUME NEW o, NEW i
  PROVE  /\ View!Sight("running", o, "no", "running", i) \in
              View!Announces(View!Sight("nothing", o, "no", "running", i))
         /\ View!Sight("running", "completed", "no", "running", i) \in
              View!SelectsItself("mock", View!Sight("running", "none", "no", "running", i))
         /\ o \in View!Terminals =>
              View!Sight(o, o, "done", "running", i) \in
                View!ShowsTerminal("mock", View!Sight("running", o, "no", "running", i))
PROOF
  <1>1. View!Sight("running", o, "no", "running", i) \in
          View!Announces(View!Sight("nothing", o, "no", "running", i))
    BY Sights DEF View!Announces, View!When
  <1>2. View!Sight("running", "completed", "no", "running", i) \in
          View!SelectsItself("mock", View!Sight("running", "none", "no", "running", i))
    BY Sights DEF View!SelectsItself, View!Working, View!When
  <1>3. ASSUME o \in View!Terminals
        PROVE  View!Sight(o, o, "done", "running", i) \in
                 View!ShowsTerminal("mock", View!Sight("running", o, "no", "running", i))
    <2> DEFINE v == View!Sight("running", o, "no", "running", i)
    <2>1. [v EXCEPT !.shown = o] = View!Sight(o, o, "no", "running", i)
      BY DEF View!Sight
    <2>2. [View!Sight(o, o, "no", "running", i) EXCEPT !.settled = "done"] =
            View!Sight(o, o, "done", "running", i)
      BY DEF View!Sight
    <2>3. v.shown = "running" /\ v.selected = o /\ v.settled = "no" /\ v.task = "running"
      BY DEF View!Sight
    <2>4. v.selected \in View!Terminals /\ View!Unsettled("mock", v)
      BY <1>3, <2>3 DEF View!Unsettled, View!Working
    <2>5. [v EXCEPT !.shown = v.selected, !.settled = "done"] =
            View!Sight(o, o, "done", "running", i)
      BY <2>1, <2>2, <2>3
    <2> QED
      BY <2>3, <2>4, <2>5 DEF View!ShowsTerminal, View!When
  <1> QED
    BY <1>1, <1>2, <1>3

(* ... and the ways it ends.  A task that is cancelled may first let its   *)
(* write show what it tells.                                               *)
LEMMA ViewEnds ==
  ASSUME NEW s, NEW o, NEW d
  PROVE  /\ View!Sight(s, o, "done", "returned", "none") \in
              View!Returns(View!Sight(s, o, "done", "running", "none"))
         /\ s \notin View!Terminals =>
              View!Sight(s, o, d, "failing", "none") \in
                View!Stumbles("mock", View!Sight(s, o, d, "running", "none"))
         /\ View!Sight(s, o, d, "failed", "none") \in
              View!Fails("mock", View!Sight(s, o, d, "failing", "none"))
         /\ View!Sight(s, o, d, "running", "pending") \in
              View!Interrupts(View!Sight(s, o, d, "running", "none"))
         /\ View!Sight(s, o, d, "cancelled", "none") \in
              View!ObeysInterrupt("mock", View!Sight(s, o, d, "running", "pending"))
PROOF
  <1>1. View!Sight(s, o, "done", "returned", "none") \in
          View!Returns(View!Sight(s, o, "done", "running", "none"))
    BY Sights DEF View!Returns, View!When
  <1>2. ASSUME s \notin View!Terminals
        PROVE  View!Sight(s, o, d, "failing", "none") \in
                 View!Stumbles("mock", View!Sight(s, o, d, "running", "none"))
    BY <1>2, Sights DEF View!Stumbles, View!When
  <1>3. View!Sight(s, o, d, "failed", "none") \in
          View!Fails("mock", View!Sight(s, o, d, "failing", "none"))
    <2>1. [View!Sight(s, o, d, "failing", "none") EXCEPT !.task = "failed"] =
            View!Sight(s, o, d, "failed", "none")
      BY DEF View!Sight
    <2>2. [View!Sight(s, o, d, "failed", "none") EXCEPT !.interrupt = "none"] =
            View!Sight(s, o, d, "failed", "none")
      BY DEF View!Sight
    <2>3. View!Sight(s, o, d, "failing", "none").task = "failing"
      BY DEF View!Sight
    <2> QED
      BY <2>1, <2>2, <2>3 DEF View!Fails, View!When
  <1>4. View!Sight(s, o, d, "running", "pending") \in
          View!Interrupts(View!Sight(s, o, d, "running", "none"))
    BY Sights DEF View!Interrupts, View!When
  <1>5. View!Sight(s, o, d, "cancelled", "none") \in
          View!ObeysInterrupt("mock", View!Sight(s, o, d, "running", "pending"))
    <2>1. [View!Sight(s, o, d, "running", "pending") EXCEPT !.task = "cancelled"] =
            View!Sight(s, o, d, "cancelled", "pending")
      BY DEF View!Sight
    <2>2. [View!Sight(s, o, d, "cancelled", "pending") EXCEPT !.interrupt = "none"] =
            View!Sight(s, o, d, "cancelled", "none")
      BY DEF View!Sight
    <2>3. /\ View!Sight(s, o, d, "running", "pending").interrupt = "pending"
          /\ View!Sight(s, o, d, "running", "pending").task = "running"
      BY DEF View!Sight
    <2> QED
      BY <2>1, <2>2, <2>3 DEF View!ObeysInterrupt, View!When
  <1> QED
    BY <1>1, <1>2, <1>3, <1>4, <1>5

(* A request that wins is granted, whatever became of run(). *)
LEMMA ViewGrants ==
  ASSUME NEW s, NEW d, NEW task
  PROVE  View!Sight(s, "cancelled", d, task, "none") \in
           View!Granted("mock", View!Sight(s, "none", d, task, "none"), "cancelled")
PROOF
  BY Sights DEF View!Granted, View!When

(* A mock's finalization is its terminal event. *)
SettledBy(s) == IF s \in View!Terminals THEN "done" ELSE "no"

(* As the loop sees a session that runs, and one whose task has ended. *)
LEMMA SeenRunning ==
  /\ ~RunEnded => Seen = View!Sight(shown, outcome, SettledBy(shown), "running", "none")
  /\ run \in {"returned", "cancelled", "failed"} =>
       Seen = View!Sight(shown, outcome, SettledBy(shown), run, "none")
  /\ ~RunEnded' => Seen' = View!Sight(shown', outcome', SettledBy(shown'), "running", "none")
  /\ run' \in {"returned", "cancelled", "failed"} =>
       Seen' = View!Sight(shown', outcome', SettledBy(shown'), run', "none")
PROOF
  BY DEF Seen, RunEnded, SettledBy

(* Before run() starts. *)
LEMMA InitSeen == SeenInit => SeenInv /\ Seen = View!Born
PROOF
  <1> SUFFICES ASSUME SeenInit PROVE SeenInv /\ Seen = View!Born
    OBVIOUS
  <1>1. run = "created" /\ shown = "nothing" /\ outcome = "none"
    BY DEF SeenInit, Init
  <1>2. SeenInv
    BY <1>1 DEF SeenInv, WritingPlaces
  <1>3. Seen = View!Sight("nothing", "none", "no", "running", "none")
    BY <1>1, SeenRunning DEF RunEnded, SettledBy, View!Terminals
  <1> QED
    BY <1>2, <1>3 DEF View!Born

(* What has been shown follows run(), step by step. *)
LEMMA SeenKeeps ==
  ASSUME MockInv, MockInv', SeenInv, SeenNext
  PROVE  SeenInv'
PROOF
  <1>1. CASE RunProgress
    <2> USE <1>1 DEF SeenInv, SeenNext, TellsAt, WritingPlaces
    <2>1. CASE Start
      BY <2>1 DEF Start
    <2>2. CASE StartedWritten
      BY <2>2 DEF StartedWritten, MockInv, TypeOK
    <2>3. CASE StartedReduced \/ DeferredReduced \/ CheckpointPasses
      BY <2>3 DEF StartedReduced, DeferredReduced, CheckpointPasses, MockInv, AnswersAgree
    <2>4. CASE ClaimDelta \/ ClaimCompletion
      BY <2>4 DEF ClaimDelta, ClaimCompletion, Claim
    <2>5. CASE ClaimCancellation
      BY <2>5 DEF ClaimCancellation, MockInv, AnswersAgree, OutcomeAgrees
    <2>6. CASE Written
      BY <2>6 DEF Written, NextPlace, MockInv, AnswersAgree, TypeOK
    <2> QED
      BY <2>1, <2>2, <2>3, <2>4, <2>5, <2>6 DEF RunProgress
  <1>2. CASE WriteFails \/ RunTaskCancelled
    BY <1>2 DEF WriteFails, RunTaskCancelled, SeenInv, WritingPlaces
  <1>3. CASE \E c \in Cancels : RequestCancellation(c) \/ RequestProgress(c)
    <2>1. UNCHANGED <<sequence, run>>
      BY <1>3 DEF RequestCancellation, RequestProgress, CancelRefused, CancelEarly,
         CancelReduced, CancelWins, RequestStep
    <2> QED
      BY <2>1 DEF SeenNext, SeenInv
  <1> QED
    BY <1>1, <1>2, <1>3 DEF SeenNext, Next

(* Two moves, and three, are a few. *)
LEMMA FewMoves ==
  ASSUME NEW kind, NEW v, NEW w
  PROVE  /\ View!InAFewMoves(kind, v, v)
         /\ w \in View!Moves(kind, v) => View!InAFewMoves(kind, v, w)
         /\ \A x : x \in View!Moves(kind, v) /\ w \in View!Moves(kind, x) =>
              View!InAFewMoves(kind, v, w)
         /\ \A x, y : x \in View!Moves(kind, v) /\ y \in View!Moves(kind, x)
                     /\ w \in View!Moves(kind, y) => View!InAFewMoves(kind, v, w)
PROOF
  BY DEF View!InAFewMoves

(* What the loop sees of each step is a few moves. *)
LEMMA SeenMoves ==
  ASSUME MockInv, MockInv', SeenInv, SeenInv', SeenNext
  PROVE  View!InAFewMoves("mock", Seen, Seen')
PROOF
  <1> DEFINE Running(s, o) == View!Sight(s, o, SettledBy(s), "running", "none")
  <1>1. /\ SettledBy("nothing") = "no" /\ SettledBy("running") = "no"
        /\ \A s \in View!Terminals : SettledBy(s) = "done"
        /\ "completed" \in View!Terminals /\ "cancelled" \in View!Terminals
        /\ "nothing" \notin View!Terminals /\ "running" \notin View!Terminals
    BY DEF SettledBy, View!Terminals
  <1>2. CASE /\ UNCHANGED <<shown, outcome>>
             /\ run' = run \/ (~RunEnded /\ ~RunEnded')
    <2>1. Seen' = Seen
      BY <1>2, SeenRunning DEF Seen
    <2> QED
      BY <2>1, FewMoves
  <1>3. CASE StartedWritten
    <2>1. /\ ~RunEnded /\ ~RunEnded' /\ shown = "nothing" /\ outcome' = outcome
          /\ shown' = "running"
      BY <1>3 DEF StartedWritten, RunEnded, SeenInv, WritingPlaces
    <2>2. Seen = View!Sight("nothing", outcome, "no", "running", "none")
      BY <1>1, <2>1, SeenRunning
    <2>3. Seen' = View!Sight("running", outcome, "no", "running", "none")
      BY <1>1, <2>1, SeenRunning
    <2>4. Seen' \in View!Moves("mock", Seen)
      BY <2>2, <2>3, ViewMoves DEF View!Moves
    <2> QED
      BY <2>4, FewMoves
  <1>4. CASE Written
    <2>1. /\ run \in WritingPlaces /\ run' = NextPlace(run) /\ shown = "running"
          /\ outcome' = IF run = "sealing" THEN "completed" ELSE outcome
          /\ run' # "raised"
      BY <1>4 DEF Written, SeenInv, MockInv, AnswersAgree
    <2>2. Seen = View!Sight("running", outcome, "no", "running", "none")
      BY <1>1, <2>1, SeenRunning DEF RunEnded, WritingPlaces
    <2>3. CASE run = "delta_writing"
      <3>1. outcome' = outcome /\ ~RunEnded' /\ ~RunEnded /\ shown' = "running"
        BY <2>1, <2>3 DEF NextPlace, RunEnded, SeenInv, WritingPlaces
      <3> QED
        BY <1>2, <2>1, <3>1
    <2>4. CASE run = "sealing"
      <3>1. outcome = "none" /\ outcome' = "completed" /\ ~RunEnded' /\ shown' = "running"
        BY <2>1, <2>4 DEF NextPlace, RunEnded, SeenInv, WritingPlaces, MockInv, OutcomeAgrees
      <3>2. Seen' = View!Sight("running", "completed", "no", "running", "none")
        BY <1>1, <3>1, SeenRunning
      <3>3. Seen' \in View!Moves("mock", Seen)
        BY <2>2, <3>1, <3>2, ViewMoves DEF View!Moves
      <3> QED
        BY <3>3, FewMoves
    <2>5. CASE run \in {"completing", "cancel_writing"}
      <3>1. run' = "returned" /\ outcome' = outcome /\ outcome \in View!Terminals
            /\ shown' = outcome
        <4>1. outcome = IF run = "completing" THEN "completed" ELSE "cancelled"
          BY <2>5 DEF MockInv, OutcomeAgrees
        <4>2. sequence' # sequence
          BY <1>4 DEF Written, MockInv, TypeOK
        <4>3. shown' = IF run = "completing" THEN "completed" ELSE "cancelled"
          BY <2>5, <4>2 DEF SeenNext, TellsAt
        <4> QED
          BY <1>1, <2>1, <2>5, <4>1, <4>3 DEF NextPlace
      <3>2. Seen' = View!Sight(outcome, outcome, "done", "returned", "none")
        BY <1>1, <3>1, SeenRunning
      <3> DEFINE Shown == View!Sight(outcome, outcome, "done", "running", "none")
      <3>3. Shown \in View!Moves("mock", Seen)
        BY <2>2, <3>1, ViewMoves DEF View!Moves
      <3>4. Seen' \in View!Moves("mock", Shown)
        BY <3>2, ViewEnds DEF View!Moves
      <3> QED
        BY <3>3, <3>4, FewMoves
    <2> QED
      BY <2>1, <2>3, <2>4, <2>5 DEF WritingPlaces
  <1>5. CASE WriteFails
    <2>1. /\ ~RunEnded /\ run' = "failed" /\ UNCHANGED <<shown, outcome>>
          /\ shown \notin View!Terminals
      BY <1>1, <1>5 DEF WriteFails, RunEnded, SeenInv, SeenNext, WritingPlaces
    <2> DEFINE Failing == View!Sight(shown, outcome, SettledBy(shown), "failing", "none")
    <2>2. Seen = Running(shown, outcome)
      BY <2>1, SeenRunning
    <2>3. Seen' = View!Sight(shown, outcome, SettledBy(shown), "failed", "none")
      BY <2>1, SeenRunning
    <2>4. Failing \in View!Moves("mock", Seen)
      BY <2>1, <2>2, ViewEnds DEF View!Moves
    <2>5. Seen' \in View!Moves("mock", Failing)
      BY <2>3, ViewEnds DEF View!Moves
    <2> QED
      BY <2>4, <2>5, FewMoves
  <1>6. CASE RunTaskCancelled
    <2> DEFINE Marked(s) == View!Sight(s, outcome, SettledBy(s), "running", "pending")
    <2>1. /\ ~RunEnded /\ run' = "cancelled" /\ outcome' = outcome
          /\ \/ shown' = shown
             \/ shown = "nothing" /\ shown' = "running"
             \/ shown = "running" /\ shown' = outcome /\ outcome \in View!Terminals
      BY <1>1, <1>6 DEF RunTaskCancelled, RunEnded, SeenInv, SeenNext, WritingPlaces, TellsAt,
         MockInv, OutcomeAgrees
    <2>2. Seen = Running(shown, outcome)
      BY <2>1, SeenRunning
    <2>3. Seen' = View!Sight(shown', outcome, SettledBy(shown'), "cancelled", "none")
      BY <2>1, SeenRunning
    <2>4. Marked(shown) \in View!Moves("mock", Seen)
      BY <2>2, ViewEnds DEF View!Moves
    <2>5. Marked(shown') = Marked(shown) \/ Marked(shown') \in View!Moves("mock", Marked(shown))
      <3>1. CASE shown' = shown
        BY <3>1
      <3>2. CASE shown = "nothing" /\ shown' = "running"
        BY <1>1, <3>2, ViewMoves DEF View!Moves
      <3>3. CASE shown = "running" /\ shown' = outcome /\ outcome \in View!Terminals
        BY <1>1, <3>3, ViewMoves DEF View!Moves
      <3> QED
        BY <2>1, <3>1, <3>2, <3>3
    <2>6. Seen' \in View!Moves("mock", Marked(shown'))
      BY <2>3, ViewEnds DEF View!Moves
    <2> QED
      <3> HIDE DEF Marked
      <3> QED
        BY <2>4, <2>5, <2>6, FewMoves
  <1>7. CASE \E c \in Cancels : RequestCancellation(c) \/ RequestProgress(c)
    <2>1. /\ UNCHANGED <<run, shown>>
          /\ outcome' = outcome \/ (outcome = "none" /\ outcome' = "cancelled")
      BY <1>7 DEF RequestCancellation, RequestProgress, CancelRefused, CancelEarly,
         CancelReduced, CancelWins, RequestStep, Win, SeenNext, MockInv, LockAgrees
    <2>2. CASE outcome = "none" /\ outcome' = "cancelled"
      <3> DEFINE task == IF RunEnded THEN run ELSE "running"
      <3>1. run # "raised"
        BY DEF MockInv, AnswersAgree
      <3>2. /\ Seen = View!Sight(shown, "none", SettledBy(shown), task, "none")
            /\ Seen' = View!Sight(shown, "cancelled", SettledBy(shown), task, "none")
        BY <2>1, <2>2, <3>1, SeenRunning DEF RunEnded
      <3>3. Seen' \in View!Moves("mock", Seen)
        BY <3>2, ViewGrants DEF View!Moves
      <3> QED
        BY <3>3, FewMoves
    <2> QED
      BY <1>2, <2>1, <2>2
  <1>8. CASE \/ Start \/ StartedReduced \/ DeferredReduced \/ CheckpointPasses
             \/ ClaimDelta \/ ClaimCompletion
    <2>1. /\ UNCHANGED <<sequence, outcome>> /\ ~RunEnded /\ ~RunEnded'
      BY <1>8 DEF Start, StartedReduced, DeferredReduced, CheckpointPasses, ClaimDelta,
         ClaimCompletion, Claim, RunEnded, MockInv, AnswersAgree
    <2> QED
      BY <1>2, <2>1 DEF SeenNext
  <1>9. CASE ClaimCancellation
    <2>1. /\ UNCHANGED <<sequence, outcome>> /\ ~RunEnded /\ ~RunEnded'
      BY <1>9 DEF ClaimCancellation, RunEnded, MockInv, AnswersAgree, OutcomeAgrees
    <2> QED
      BY <1>2, <2>1 DEF SeenNext
  <1> QED
    BY <1>3, <1>4, <1>5, <1>6, <1>7, <1>8, <1>9 DEF SeenNext, Next, RunProgress

(* Seen from the command loop the mock makes the moves RuntimeLoop's       *)
(* sessions make, and no others (KeepsView): what that module says of the  *)
(* loop and its sessions is said of this one.                              *)
THEOREM MockKeepsView == SeenSpec => KeepsView
PROOF
  <1>1. SeenSpec => Spec
    <2>1. SeenInit => Init
      BY DEF SeenInit
    <2>2. [SeenNext]_<<vars, shown>> => [Next]_vars
      BY DEF SeenNext
    <2> QED
      BY <2>1, <2>2, PTL DEF SeenSpec, Spec
  <1>2. SeenInit => SeenInv /\ Seen = View!Born
    BY InitSeen
  <1>3. MockInv /\ MockInv' /\ SeenInv /\ [SeenNext]_<<vars, shown>> => SeenInv'
    <2>1. UNCHANGED <<vars, shown>> /\ SeenInv => SeenInv'
      BY DEF vars, SeenInv
    <2> QED
      BY <2>1, SeenKeeps
  <1>4. SeenSpec => [](MockInv /\ SeenInv)
    BY <1>1, <1>2, <1>3, MockInvariant, PTL DEF SeenSpec
  <1>5. MockInv /\ MockInv' /\ SeenInv /\ SeenInv' /\ [SeenNext]_<<vars, shown>> =>
          [View!InAFewMoves("mock", Seen, Seen')]_Seen
    <2>1. UNCHANGED <<vars, shown>> => Seen' = Seen
      BY DEF vars, Seen
    <2> QED
      BY <2>1, SeenMoves
  <1> QED
    BY <1>1, <1>2, <1>4, <1>5, PTL DEF SeenSpec, KeepsView

=============================================================================
