--------------------------- MODULE RuntimeLoopProofs ---------------------------
(***************************************************************************)
(* What the command loop promises of its sessions, for any number of them, *)
(* of either kind, under any of the faults.                                *)
(***************************************************************************)
EXTENDS RuntimeLoop, TLAPS

Fields == {"shown", "selected", "settled", "task", "interrupt", "tape", "warning"}
Targets == SessionIds \cup {NoSession}

(* What the prover must know of the values; no field's range matters.      *)
Shapes ==
  /\ DOMAIN session = SessionIds
  /\ \A s \in SessionIds : DOMAIN session[s] = Fields
  /\ active \in Targets /\ next.command.target \in Targets /\ current.target \in Targets
  /\ warnings \in Nat /\ available \in BOOLEAN

(* The loop owns what runs; what it no longer owns is over. *)
OwnerAgrees ==
  /\ \A s \in SessionIds :
       /\ TaskLive(s) \/ session[s].task = "uncreated" \/ session[s].tape = "open" => s = active
       /\ s # active => session[s].task = "none" \/ session[s].shown \in Terminals
  /\ active # NoSession => session[active].task # "none"
  /\ active # NoSession /\ session[active].task = "uncreated" =>
       loop \in {"warning", "stopping_reader", "ended"}
  /\ loop = "warning" =>
       active # NoSession /\ session[active].task = "uncreated" /\ current.kind = "start"
  /\ loop \in {"cancelling", "tearing_down", "reaping", "joining", "final_teardown",
               "final_join"} => HasTask

(* The way out takes the reader and the session with it. *)
ExitAgrees ==
  /\ loop \in {"final_teardown", "final_join", "ended"} => next.state # "reading"
  /\ loop = "ended" =>
       \A s \in SessionIds : ~TaskLive(s) /\ session[s].tape # "open"

(* A session that returned showed its terminal, or was torn down.  The     *)
(* finalizer of a provider session has ended whenever its task was         *)
(* cancelled: the loop waits for it before it waits for the task.          *)
SessionAgrees(v) ==
  /\ v.task = "none" => v.shown = "nothing"
  /\ v.task = "uncreated" => v.settled = "no"
  /\ v.settled # "no" => v.selected # "none"
  /\ (v.task = "running" /\ v.settled = "done") \/ v.task = "returned" =>
       v.shown \in Terminals \/ v.selected = "teardown"
  /\ runner = "provider" /\ (v.interrupt = "pending" \/ v.task = "cancelled") => v.settled # "no"

SessionsAgree ==
  /\ \A s \in SessionIds : SessionAgrees(session[s])
  /\ runner = "provider" /\ loop \in {"reaping", "joining", "final_join"} =>
       session[active].settled # "no"

(* A session that is not asked to is torn down only as it fails.           *)
TerminalsAgree ==
  /\ loop \in {"waiting", "answering", "warning", "cancelling", "reaping"} =>
       \A s \in SessionIds : session[s].selected = "teardown" =>
         session[s].task \in {"failing", "failed", "cancelled"}
  /\ ~initialized => \A s \in SessionIds : session[s].task = "none"
  /\ answer = "not_initialized" => ~initialized

(* A cancellation named a session its client had seen. *)
CancelsAgree ==
  /\ next.command.kind = "cancel" /\ next.command.target # NoSession =>
       session[next.command.target].shown # "nothing"
  /\ loop \in {"cancelling", "reaping"} =>
       current.kind = "cancel" /\ current.target = active
  /\ loop \in {"waiting", "answering"} /\ current.kind = "cancel" =>
       /\ answer = "silence" => current.target # NoSession
       /\ current.target # NoSession => session[current.target].shown \in Terminals

(* Recording goes on, or its failure is being told, or was told. *)
RecordingAgrees ==
  /\ \A s \in SessionIds :
       /\ session[s].tape = "open" => available
       /\ session[s].warning =>
            TaskLive(s) /\ warnings = 0 /\ ~available
  /\ loop = "warning" => warnings = 0 /\ ~available
  /\ available => warnings = 0
  /\ warnings <= 1

Inv == /\ Shapes /\ OwnerAgrees /\ ExitAgrees /\ SessionsAgree /\ TerminalsAgree
       /\ CancelsAgree /\ RecordingAgrees

-----------------------------------------------------------------------------
LEMMA NoSessionIsNone == NoSession \notin SessionIds
BY RuntimeAssumption DEF NoSession, SessionIds

LEMMA CommandTargets ==
  /\ \A c \in Commands : c.target \in Targets
  /\ \A c \in Sendable : c \in Commands
  /\ Nothing.target \in Targets /\ Plain("input_ended").target \in Targets
<1>1. \A k : Plain(k).target = NoSession
  BY DEF Plain
<1>2. \A c \in Commands : c.target \in Targets
  BY <1>1 DEF Commands, Targets
<1>3. \A c \in Sendable : c \in Commands
  BY DEF Sendable
<1> QED
  BY <1>1, <1>2, <1>3 DEF Targets, Nothing

LEMMA InitHolds == Init => Inv
BY NoSessionIsNone DEF Init, Inv, Shapes, OwnerAgrees, ExitAgrees, TerminalsAgree,
   CancelsAgree, RecordingAgrees, Unborn, Reading, NextIs, Nothing, Plain, Fields,
   Targets, HasTask, TaskLive, SessionsAgree, SessionAgrees

(* What Becomes does to a session, field by field. *)
LEMMA Becoming ==
  ASSUME Shapes, NEW s \in SessionIds, NEW c, Becomes(s, c)
  PROVE  /\ DOMAIN session' = SessionIds
         /\ \A r \in SessionIds : DOMAIN session'[r] = Fields
         /\ \A r \in SessionIds : r # s => session'[r] = session[r]
         /\ session'[s].shown = IF "shown" \in DOMAIN c THEN c["shown"] ELSE session[s].shown
         /\ session'[s].selected =
              IF "selected" \in DOMAIN c THEN c["selected"] ELSE session[s].selected
         /\ session'[s].settled =
              IF "settled" \in DOMAIN c THEN c["settled"] ELSE session[s].settled
         /\ session'[s].task = IF "task" \in DOMAIN c THEN c["task"] ELSE session[s].task
         /\ session'[s].interrupt =
              IF "interrupt" \in DOMAIN c THEN c["interrupt"] ELSE session[s].interrupt
         /\ session'[s].tape = IF "tape" \in DOMAIN c THEN c["tape"] ELSE session[s].tape
         /\ session'[s].warning =
              IF "warning" \in DOMAIN c THEN c["warning"] ELSE session[s].warning
BY DEF Becomes, Shapes, Fields

(* One session is replaced by one of the views. *)
LEMMA Making ==
  ASSUME Shapes, NEW s \in SessionIds, NEW W, Makes(s, W)
  PROVE  /\ DOMAIN session' = SessionIds
         /\ session'[s] \in W
         /\ \A r \in SessionIds : r # s => session'[r] = session[r]
BY DEF Makes, Shapes

(* What a session did by itself, w being its view after v. *)
Moved(v, w) ==
  /\ DOMAIN w = Fields
  /\ v.task \in {"running", "failing"}
  /\ w.task \in {"running", "failing", "returned", "failed", "cancelled"}
  /\ v.shown \in Terminals => w.shown = v.shown
  /\ v.shown # "nothing" => w.shown # "nothing"
  /\ v.settled # "no" => w.settled # "no"
  /\ w.selected = "teardown" => v.selected = "teardown" \/ v.task = "failing"
  /\ w.task = "running" => v.task = "running"
  /\ w.task = "returned" => v.task = "running"
  /\ SessionAgrees(w)

(* A move keeps what the loop knows of a session, and is never made by one *)
(* whose task is over.                                                     *)
LEMMA Moving ==
  ASSUME NEW v, DOMAIN v = Fields, SessionAgrees(v), runner \in {"mock", "provider"}, NEW w,
         \/ w \in Announces(v) \/ w \in SelectsItself(runner, v)
         \/ w \in ShowsTerminal(runner, v) \/ w \in Returns(v)
         \/ runner = "provider" /\ w \in SettlesSilently(v)
         \/ runner = "provider" /\ w \in FinalizationRaises(v)
         \/ runner = "provider" /\ w \in SwallowsInterrupt(v)
         \/ w \in Stumbles(runner, v) \/ w \in Fails(runner, v)
         \/ w \in ObeysInterrupt(runner, v)
  PROVE  Moved(v, w) /\ w.tape = v.tape /\ w.warning = v.warning
<1> USE DEF When, Fields, Moved, SessionAgrees, Terminals
<1>1. CASE w \in Announces(v)
  BY <1>1 DEF Announces
<1>2. CASE w \in SelectsItself(runner, v)
  BY <1>2 DEF SelectsItself, Working
<1>3. CASE w \in ShowsTerminal(runner, v)
  BY <1>3 DEF ShowsTerminal, Unsettled, Working
<1>4. CASE w \in Returns(v)
  BY <1>4 DEF Returns
<1>5. CASE runner = "provider" /\ w \in SettlesSilently(v)
  BY <1>5 DEF SettlesSilently, Unsettled, Working
<1>6. CASE runner = "provider" /\ w \in FinalizationRaises(v)
  BY <1>6 DEF FinalizationRaises, Unsettled, Working
<1>7. CASE runner = "provider" /\ w \in SwallowsInterrupt(v)
  BY <1>7 DEF SwallowsInterrupt
<1>8. CASE w \in Stumbles(runner, v)
  BY <1>8 DEF Stumbles
<1>9. CASE w \in Fails(runner, v)
  BY <1>9 DEF Fails
<1>10. CASE w \in ObeysInterrupt(runner, v)
  BY <1>10 DEF ObeysInterrupt
<1> QED
  BY <1>1, <1>2, <1>3, <1>4, <1>5, <1>6, <1>7, <1>8, <1>9, <1>10

(* The session's steps: a move, a warning, or the end of one.  What is left *)
(* to say of the new views is what Moved says.                             *)
LEMMA SessionMovesKeep ==
  ASSUME Inv, NEW s \in SessionIds, runner' = runner,
         UNCHANGED <<input, loopState>>,
         DOMAIN session' = SessionIds,
         \A r \in SessionIds : r # s => session'[r] = session[r],
         Moved(session[s], session'[s]),
         warnings' \in Nat, available' \in BOOLEAN,
         session'[s].tape \in {session[s].tape, "closed"},
         available' => available,
         session'[s].tape = "open" => available',
         session'[s].warning =>
           session'[s].task \in {"running", "failing"} /\ warnings' = 0 /\ ~available',
         available' => warnings' = 0, warnings' <= 1
  PROVE  Inv'
<1> USE NoSessionIsNone DEF Inv
<1>1. s = active /\ TaskLive(s)
  BY DEF Moved, OwnerAgrees, TaskLive
<1>2. Shapes'
  BY DEF Shapes, input, loopState, Targets, Moved
<1>3. OwnerAgrees'
  BY <1>1 DEF OwnerAgrees, HasTask, Shapes, input, loopState, Targets, Moved, TaskLive
<1>4. ExitAgrees'
  BY <1>1 DEF ExitAgrees, input, loopState
<1>5. SessionsAgree'
  <2>1. \A r \in SessionIds : SessionAgrees(session[r])'
    BY DEF SessionsAgree, SessionAgrees, Moved
  <2> QED
    BY <1>1, <2>1 DEF SessionsAgree, loopState, Moved
<1>6. TerminalsAgree'
  BY <1>1 DEF TerminalsAgree, input, loopState, Moved, TaskLive
<1>7. CancelsAgree'
  BY <1>1 DEF CancelsAgree, input, loopState, Shapes, Targets, Moved
<1>8. RecordingAgrees'
  BY <1>1 DEF RecordingAgrees, OwnerAgrees, input, loopState, TaskLive
<1> QED
  BY <1>2, <1>3, <1>4, <1>5, <1>6, <1>7, <1>8

(* Each kind of step is such a one. *)
LEMMA SessionKeeps ==
  ASSUME Inv, runner \in {"mock", "provider"}, NEW s \in SessionIds,
         SessionProgress(s) \/ SessionWriteFails(s) \/ SessionRecordFails(s)
  PROVE  Inv'
<1> USE NoSessionIsNone DEF Inv
<1>1. UNCHANGED <<runner, input, loopState>>
  BY DEF SessionProgress, SessionMakes, SessionAnnounces, SessionSelects,
     SessionShowsTerminal, SessionSettles, SessionReturns, SessionFails,
     SessionInterrupted, SessionSwallows, SessionWarns, SessionWriteFails,
     SessionRecordFails, SessionStep
<1>2. DOMAIN session[s] = Fields /\ SessionAgrees(session[s])
  BY DEF Shapes, SessionsAgree
<1>3. ASSUME NEW W, ~session[s].warning, Makes(s, W), SessionStep,
             \A w \in W : Moved(session[s], w) /\ w.tape = session[s].tape
                                             /\ w.warning = session[s].warning
      PROVE  Inv'
  <2>1. session'[s] \in W /\ DOMAIN session' = SessionIds
        /\ \A r \in SessionIds : r # s => session'[r] = session[r]
    BY <1>3, Making
  <2>2. /\ Moved(session[s], session'[s]) /\ session'[s].tape = session[s].tape
        /\ ~session'[s].warning
    BY <1>3, <2>1
  <2>3. warnings' = warnings /\ available' = available
    BY <1>3 DEF SessionStep
  <2>4. /\ warnings' \in Nat /\ available' \in BOOLEAN /\ (available' => available)
        /\ (session'[s].tape = "open" => available') /\ (available' => warnings' = 0)
        /\ warnings' <= 1
    BY <2>2, <2>3 DEF Shapes, RecordingAgrees
  <2> QED
    BY <1>1, <2>1, <2>2, <2>4, SessionMovesKeep
<1>4. ASSUME NEW move, SessionMakes(s, move),
             \A w \in move : Moved(session[s], w) /\ w.tape = session[s].tape
                                                /\ w.warning = session[s].warning
      PROVE  Inv'
  BY <1>3, <1>4 DEF SessionMakes
<1> DEFINE Raising ==
      IF runner = "provider" THEN FinalizationRaises(session[s]) ELSE {}
<1>5. CASE \/ SessionAnnounces(s) \/ SessionSelects(s) \/ SessionShowsTerminal(s)
           \/ SessionSettles(s) \/ SessionReturns(s) \/ SessionFails(s) \/ SessionSwallows(s)
           \/ SessionMakes(s, Stumbles(runner, session[s]) \cup Raising)
  BY <1>2, <1>4, <1>5, Moving DEF SessionAnnounces, SessionSelects, SessionShowsTerminal,
     SessionSettles, SessionReturns, SessionFails, SessionSwallows
<1>6. ASSUME NEW w, Moved(session[s], w), w.tape = session[s].tape
      PROVE  /\ Moved(session[s], [w EXCEPT !.warning = FALSE])
             /\ [w EXCEPT !.warning = FALSE].tape = session[s].tape
             /\ ~[w EXCEPT !.warning = FALSE].warning
  BY <1>6 DEF Moved, SessionAgrees, Fields
<1>7. ASSUME NEW S, Makes(s, {[w EXCEPT !.warning = FALSE] : w \in S}), SessionStep,
             \A w \in S : Moved(session[s], w) /\ w.tape = session[s].tape
      PROVE  Inv'
  <2> DEFINE W == {[w EXCEPT !.warning = FALSE] : w \in S}
  <2>1. session'[s] \in W /\ DOMAIN session' = SessionIds
        /\ \A r \in SessionIds : r # s => session'[r] = session[r]
    <3> HIDE DEF W
    <3> QED
      BY <1>7, Making DEF W
  <2>2. PICK w \in S : session'[s] = [w EXCEPT !.warning = FALSE]
    BY <2>1
  <2>3. /\ Moved(session[s], session'[s]) /\ session'[s].tape = session[s].tape
        /\ ~session'[s].warning
    BY <1>6, <1>7, <2>2
  <2>4. warnings' = warnings /\ available' = available
    BY <1>7 DEF SessionStep
  <2>5. /\ warnings' \in Nat /\ available' \in BOOLEAN /\ (available' => available)
        /\ (session'[s].tape = "open" => available') /\ (available' => warnings' = 0)
        /\ warnings' <= 1
    BY <2>3, <2>4 DEF Shapes, RecordingAgrees
  <2> QED
    BY <1>1, <2>1, <2>3, <2>5, SessionMovesKeep
<1>8. CASE SessionInterrupted(s)
  <2>1. \A w \in ObeysInterrupt(runner, session[s]) :
          Moved(session[s], w) /\ w.tape = session[s].tape
    BY <1>2, Moving
  <2> QED
    BY <1>7, <1>8, <2>1 DEF SessionInterrupted
<1>9. CASE SessionWriteFails(s)
  <2> DEFINE Failing == {[session[s] EXCEPT !.task = "failing"]} \cup Raising
  <2>1. CASE SessionMakes(s, Stumbles(runner, session[s]) \cup Raising)
    BY <1>5, <2>1
  <2>2. CASE /\ session[s].warning /\ SessionStep
             /\ Makes(s, {[w EXCEPT !.warning = FALSE] : w \in Failing})
    <3>1. session[s].task \in {"running", "failing"}
      BY <2>2 DEF RecordingAgrees, TaskLive
    <3>2. /\ Moved(session[s], [session[s] EXCEPT !.task = "failing"])
          /\ [session[s] EXCEPT !.task = "failing"].tape = session[s].tape
      BY <1>2, <3>1 DEF Moved, SessionAgrees, Fields
    <3>3. \A w \in Raising : Moved(session[s], w) /\ w.tape = session[s].tape
      BY <1>2, Moving
    <3>4. \A w \in Failing : Moved(session[s], w) /\ w.tape = session[s].tape
      BY <3>2, <3>3
    <3> QED
      BY <1>7, <2>2, <3>4
  <2> QED
    BY <1>9, <2>1, <2>2 DEF SessionWriteFails
<1>10. CASE SessionWarns(s) \/ SessionRecordFails(s)
  <2>1. \E c \in {[warning |-> FALSE], [tape |-> "closed", warning |-> TRUE]} : Becomes(s, c)
    BY <1>10 DEF SessionWarns, SessionRecordFails
  <2>2. /\ DOMAIN session' = SessionIds /\ DOMAIN session'[s] = Fields
        /\ \A r \in SessionIds : r # s => session'[r] = session[r]
        /\ session'[s].shown = session[s].shown /\ session'[s].selected = session[s].selected
        /\ session'[s].settled = session[s].settled /\ session'[s].task = session[s].task
        /\ session'[s].interrupt = session[s].interrupt
    BY <2>1, Becoming
  <2>3. TaskLive(s)
    BY <1>10 DEF SessionWarns, SessionRecordFails, Recording, RecordingAgrees
  <2>4. Moved(session[s], session'[s])
    BY <1>1, <1>2, <2>2, <2>3 DEF Moved, SessionAgrees, TaskLive
  <2>5. /\ warnings' \in Nat /\ available' \in BOOLEAN /\ (available' => available)
        /\ session'[s].tape \in {session[s].tape, "closed"}
        /\ (session'[s].tape = "open" => available')
        /\ (session'[s].warning =>
              session'[s].task \in {"running", "failing"} /\ warnings' = 0 /\ ~available')
        /\ (available' => warnings' = 0) /\ warnings' <= 1
    <3>1. CASE SessionWarns(s)
      <4>1. /\ session'[s].tape = session[s].tape /\ ~session'[s].warning
            /\ warnings' = warnings + 1 /\ available' = available /\ session[s].warning
        BY <3>1, Becoming DEF SessionWarns
      <4>2. warnings = 0 /\ ~available
        BY <4>1 DEF RecordingAgrees
      <4> QED
        BY <4>1, <4>2 DEF Shapes, RecordingAgrees
    <3>2. CASE SessionRecordFails(s)
      <4>1. /\ session'[s].tape = "closed" /\ session[s].tape = "open"
            /\ available' = FALSE /\ warnings' = warnings
        BY <3>2, Becoming DEF SessionRecordFails
      <4>2. warnings = 0
        BY <4>1 DEF RecordingAgrees
      <4>3. warnings' \in Nat /\ warnings' <= 1 /\ warnings' = 0
        BY <4>1, <4>2
      <4>4. available' \in BOOLEAN /\ ~available'
        BY <4>1, Zenon
      <4>5. session'[s].task \in {"running", "failing"}
        BY <2>2, <2>3 DEF TaskLive
      <4> QED
        BY <4>1, <4>3, <4>4, <4>5
    <3> QED
      BY <1>10, <3>1, <3>2
  <2> QED
    BY <1>1, <2>2, <2>4, <2>5, SessionMovesKeep
<1> QED
  BY <1>5, <1>8, <1>9, <1>10 DEF SessionProgress

(* The client and the reader. *)
LEMMA InputKeeps ==
  ASSUME Inv, (\E c \in Sendable : LineArrives(c)) \/ CloseInput \/ InputEnds \/ ReadFails
  PROVE  Inv'
<1> USE NoSessionIsNone DEF Inv
<1>1. UNCHANGED <<runner, loopState, available, warnings, session>>
  BY DEF LineArrives, CloseInput, InputEnds, ReadFails
<1>2. /\ next'.command.target \in Targets
      /\ next'.command.kind = "cancel" /\ next'.command.target # NoSession =>
           session[next'.command.target].shown # "nothing"
      /\ next.state # "reading" => next'.state # "reading"
  <2> USE CommandTargets DEF Shapes, CancelsAgree
  <2>1. ASSUME NEW c \in Sendable, LineArrives(c)
        PROVE  /\ next' = NextIs("done", c) /\ c.target \in Targets
               /\ c.kind = "cancel" /\ c.target # NoSession => session[c.target].shown # "nothing"
    BY <2>1 DEF LineArrives, Sendable
  <2>2. CASE \E c \in Sendable : LineArrives(c)
    BY <2>1, <2>2 DEF NextIs
  <2>3. CASE CloseInput
    BY <2>3 DEF CloseInput
  <2>4. CASE InputEnds
    BY <2>4 DEF InputEnds, NextIs, Plain, Reading
  <2>5. CASE ReadFails
    BY <2>5 DEF ReadFails, NextIs, Nothing, Plain, Reading
  <2> QED
    BY <2>2, <2>3, <2>4, <2>5
<1>3. Shapes'
  BY <1>1, <1>2 DEF Shapes, loopState, Targets
<1>4. OwnerAgrees'
  BY <1>1 DEF OwnerAgrees, HasTask, loopState, TaskLive
<1>5. ExitAgrees'
  BY <1>1, <1>2 DEF ExitAgrees, loopState, TaskLive
<1>6. TerminalsAgree'
  BY <1>1 DEF TerminalsAgree, loopState
<1>7. CancelsAgree'
  BY <1>1, <1>2 DEF CancelsAgree, loopState
<1>8. RecordingAgrees'
  BY <1>1 DEF RecordingAgrees, loopState, TaskLive
<1>9. SessionsAgree'
  BY <1>1 DEF SessionsAgree, SessionAgrees, loopState
<1> QED
  BY <1>3, <1>4, <1>5, <1>6, <1>7, <1>8, <1>9

(* The loop leaves without having touched anything else, but that an       *)
(* interrupted warning may have been written.                              *)
LEMMA LeavingKeeps ==
  ASSUME Inv, Leave,
         warnings' \in {warnings} \cup (IF loop = "warning" THEN {warnings + 1} ELSE {}),
         UNCHANGED <<runner, next, current, initialized, active, available, session>>
  PROVE  Inv'
<1> USE NoSessionIsNone DEF Inv, Leave, Go
<1>1. Shapes'
  BY DEF Shapes, Targets
<1>2. OwnerAgrees'
  BY DEF OwnerAgrees, HasTask, TaskLive
<1>3. ExitAgrees'
  BY DEF ExitAgrees
<1>4. TerminalsAgree'
  BY DEF TerminalsAgree
<1>5. CancelsAgree'
  BY DEF CancelsAgree
<1>6. RecordingAgrees'
  <2>1. CASE warnings' = warnings
    BY <2>1 DEF RecordingAgrees, TaskLive
  <2>2. CASE loop = "warning" /\ warnings' = warnings + 1
    BY <2>2 DEF RecordingAgrees, OwnerAgrees, TaskLive
  <2> QED
    BY <2>1, <2>2
<1>7. SessionsAgree'
  BY DEF SessionsAgree, SessionAgrees
<1> QED
  BY <1>1, <1>2, <1>3, <1>4, <1>5, <1>6, <1>7

(* What taking a command tells of it. *)
LEMMA Taking ==
  ASSUME Inv, NEW c \in Commands, Takes(c)
  PROVE  /\ loop = "waiting" /\ current' = c /\ runner' = runner
         /\ current'.target \in Targets /\ next'.command.target \in Targets
         /\ ~(next'.command.kind = "cancel" /\ next'.command.target # NoSession)
            \/ next' = next
         /\ c.kind = "cancel" /\ c.target # NoSession => session[c.target].shown # "nothing"
<1>1. next.command = c /\ c.target \in Targets
  BY CommandTargets DEF Takes, NextIs
<1>2. Reading.command.target = NoSession /\ NoSession \in Targets
  BY DEF Reading, NextIs, Nothing, Plain, Targets
<1>3. next' = next \/ next' = Reading
  BY DEF Takes, Consume, input
<1> QED
  BY <1>1, <1>2, <1>3 DEF Takes, Inv, CancelsAgree

(* Commands that are answered at once. *)
LEMMA AnswersKeep ==
  ASSUME Inv, NEW c \in Commands, LoopRefuses(c) \/ LoopInitializes(c) \/ LoopIgnoresCancel(c)
  PROVE  Inv'
<1> USE NoSessionIsNone DEF Inv
<1>1. Takes(c)
  BY DEF LoopRefuses, LoopInitializes, LoopIgnoresCancel
<1>2. /\ UNCHANGED <<active, latest, available, warnings, session, interrupt>>
      /\ loop' \in {"waiting", "answering"}
      /\ initialized => initialized'
  BY <1>1, Taking DEF LoopRefuses, LoopInitializes, LoopIgnoresCancel, Replies, Go
<1>3. /\ answer' = "not_initialized" => ~initialized'
      /\ c.kind = "cancel" => /\ answer' = "silence" => c.target # NoSession
                              /\ c.target # NoSession => session[c.target].shown \in Terminals
  <2>1. c.kind = "cancel" /\ c.target # NoSession =>
          /\ c.target \in SessionIds /\ session[c.target].task # "none" /\ initialized
          /\ c.target # active => session[c.target].shown \in Terminals
    BY <1>1, Taking DEF Targets, OwnerAgrees, SessionsAgree, SessionAgrees, TerminalsAgree
  <2>2. CASE LoopRefuses(c)
    BY <2>1, <2>2 DEF LoopRefuses, Replies
  <2>3. CASE LoopInitializes(c)
    BY <2>1, <2>3 DEF LoopInitializes, Replies
  <2>4. CASE LoopIgnoresCancel(c)
    BY <2>1, <2>4 DEF LoopIgnoresCancel, Silently
  <2> QED
    BY <2>2, <2>3, <2>4
<1>4. Shapes'
  BY <1>1, <1>2, Taking DEF Shapes, Targets
<1>5. OwnerAgrees'
  BY <1>1, <1>2, Taking DEF OwnerAgrees, HasTask, TaskLive
<1>6. ExitAgrees'
  BY <1>2 DEF ExitAgrees
<1>7. TerminalsAgree'
  BY <1>1, <1>2, <1>3, Taking DEF TerminalsAgree
<1>8. CancelsAgree'
  BY <1>1, <1>2, <1>3, Taking DEF CancelsAgree
<1>9. RecordingAgrees'
  BY <1>2 DEF RecordingAgrees, TaskLive
<1>10. SessionsAgree'
  BY <1>1, <1>2, Taking DEF SessionsAgree, SessionAgrees
<1> QED
  BY <1>4, <1>5, <1>6, <1>7, <1>8, <1>9, <1>10

(* Commands that turn the loop to its session. *)
LEMMA TurnsKeep ==
  ASSUME Inv, NEW c \in Commands, LoopCancels(c) \/ LoopStops(c)
  PROVE  Inv'
<1> USE NoSessionIsNone DEF Inv
<1>1. Takes(c)
  BY DEF LoopCancels, LoopStops
<1>2. /\ UNCHANGED <<initialized, active, available, warnings, session>>
      /\ answer' = "none"
      /\ \/ loop' = "stopping_reader"
         \/ loop' = "tearing_down" /\ HasTask
         \/ loop' = "joining" /\ HasTask /\ runner # "provider"
         \/ /\ loop' = "cancelling" /\ active # NoSession
            /\ c.kind = "cancel" /\ c.target = active
  BY DEF LoopCancels, LoopStops, Leave, Go
<1>3. Shapes'
  BY <1>1, <1>2, Taking DEF Shapes, Targets
<1>4. OwnerAgrees'
  BY <1>1, <1>2, Taking DEF OwnerAgrees, HasTask, TaskLive
<1>5. ExitAgrees'
  BY <1>2 DEF ExitAgrees
<1>6. TerminalsAgree'
  BY <1>1, <1>2, Taking DEF TerminalsAgree
<1>7. CancelsAgree'
  BY <1>1, <1>2, Taking DEF CancelsAgree
<1>8. RecordingAgrees'
  BY <1>2 DEF RecordingAgrees, TaskLive
<1>9. SessionsAgree'
  BY <1>1, <1>2, Taking DEF SessionsAgree, SessionAgrees
<1> QED
  BY <1>3, <1>4, <1>5, <1>6, <1>7, <1>8, <1>9

(* A start gives the loop a session no one has seen. *)
LEMMA StartKeeps ==
  ASSUME Inv, NEW c \in Commands, LoopStarts(c)
  PROVE  Inv'
<1> USE NoSessionIsNone DEF Inv
<1>1. PICK s \in SessionIds :
        /\ session[s] = Unborn /\ active' = s
        /\ \/ /\ Becomes(s, [task |-> "running",
                             tape |-> IF available THEN "open" ELSE "none"])
              /\ Go("waiting") /\ Silently /\ UNCHANGED available
           \/ /\ available
              /\ \E t \in {"none", "closed"} : Becomes(s, [tape |-> t, task |-> "uncreated"])
              /\ available' = FALSE
              /\ Go("warning") /\ answer' = "none"
  BY DEF LoopStarts
<1>2. /\ c.kind = "start" /\ initialized /\ active = NoSession /\ Takes(c)
      /\ UNCHANGED <<initialized, warnings>>
  BY DEF LoopStarts
<1>3. /\ DOMAIN session' = SessionIds
      /\ \A r \in SessionIds : DOMAIN session'[r] = Fields
      /\ \A r \in SessionIds : r # s => session'[r] = session[r]
      /\ session'[s].shown = "nothing" /\ session'[s].selected = "none"
      /\ session'[s].settled = "no" /\ ~session'[s].warning
      /\ session'[s].interrupt = "none"
      /\ session[s].shown = "nothing"
  <2>1. CASE Becomes(s, [task |-> "running", tape |-> IF available THEN "open" ELSE "none"])
    BY <1>1, <2>1, Becoming DEF Unborn
  <2>2. ASSUME NEW t, Becomes(s, [tape |-> t, task |-> "uncreated"])
        PROVE  <1>3
    BY <1>1, <2>2, Becoming DEF Unborn
  <2> QED
    BY <1>1, <2>1, <2>2
<1>4. \/ /\ session'[s].task = "running" /\ loop' = "waiting" /\ answer' = "silence"
         /\ available' = available
         /\ session'[s].tape = "open" => available
      \/ /\ session'[s].task = "uncreated" /\ loop' = "warning" /\ answer' = "none"
         /\ session'[s].tape # "open" /\ available /\ available' = FALSE
  <2>1. CASE Becomes(s, [task |-> "running", tape |-> IF available THEN "open" ELSE "none"])
             /\ Go("waiting") /\ Silently /\ UNCHANGED available
    BY <2>1, Becoming DEF Go, Silently
  <2>2. ASSUME NEW t \in {"none", "closed"}, Becomes(s, [tape |-> t, task |-> "uncreated"]),
               available, available' = FALSE, Go("warning"), answer' = "none"
        PROVE  <1>4
    BY <2>2, Becoming DEF Go
  <2> QED
    BY <1>1, <2>1, <2>2
<1>5. Shapes'
  BY <1>1, <1>2, <1>3, <1>4, Taking DEF Shapes, Targets
<1>6. OwnerAgrees'
  BY <1>1, <1>2, <1>3, <1>4, Taking DEF OwnerAgrees, HasTask, TaskLive
<1>7. ExitAgrees'
  BY <1>4 DEF ExitAgrees
<1>8. TerminalsAgree'
  BY <1>2, <1>3, <1>4, Taking DEF TerminalsAgree
<1>9. CancelsAgree'
  BY <1>2, <1>3, <1>4, Taking DEF CancelsAgree, Targets
<1>10. RecordingAgrees'
  <2>1. \A r \in SessionIds : session[r].tape # "open" /\ ~TaskLive(r)
    BY <1>2 DEF OwnerAgrees
  <2>2. \A r \in SessionIds : ~session'[r].warning /\ (r # s => session'[r].tape # "open")
    BY <1>3, <2>1 DEF RecordingAgrees
  <2>3. CASE available' = available /\ loop' = "waiting"
             /\ (session'[s].tape = "open" => available)
    BY <1>2, <2>2, <2>3 DEF RecordingAgrees
  <2>4. CASE available /\ available' = FALSE /\ session'[s].tape # "open"
    BY <1>2, <2>2, <2>4 DEF RecordingAgrees
  <2> QED
    BY <1>4, <2>3, <2>4
<1>11. SessionsAgree'
  BY <1>2, <1>3, <1>4, Taking DEF SessionsAgree, SessionAgrees
<1> QED
  BY <1>5, <1>6, <1>7, <1>8, <1>9, <1>10, <1>11

LEMMA WarnedKeeps == ASSUME Inv, LoopWarned PROVE Inv'
<1> USE NoSessionIsNone DEF Inv
<1>1. /\ loop = "warning" /\ active \in SessionIds /\ session[active].task = "uncreated"
      /\ current.kind = "start" /\ warnings = 0 /\ ~available
      /\ loop' = "waiting" /\ answer' = "silence" /\ warnings' = 1
      /\ UNCHANGED <<runner, next, current, initialized, active, available>>
      /\ Becomes(active, [task |-> "running"])
  BY DEF LoopWarned, OwnerAgrees, RecordingAgrees, Shapes, Targets, input, Go, Silently
<1>2. /\ DOMAIN session' = SessionIds
      /\ \A r \in SessionIds : DOMAIN session'[r] = Fields
      /\ \A r \in SessionIds : r # active => session'[r] = session[r]
      /\ session'[active].task = "running"
      /\ session'[active].shown = session[active].shown
      /\ session'[active].selected = session[active].selected
      /\ session'[active].settled = session[active].settled
      /\ session'[active].interrupt = session[active].interrupt
      /\ session'[active].tape = session[active].tape
      /\ session'[active].warning = session[active].warning
  BY <1>1, Becoming
<1>3. Shapes'
  BY <1>1, <1>2 DEF Shapes, Targets
<1>4. OwnerAgrees'
  BY <1>1, <1>2 DEF OwnerAgrees, HasTask, TaskLive
<1>5. ExitAgrees'
  BY <1>1 DEF ExitAgrees
<1>6. TerminalsAgree'
  BY <1>1, <1>2 DEF TerminalsAgree, OwnerAgrees
<1>7. CancelsAgree'
  BY <1>1, <1>2 DEF CancelsAgree, Shapes, Targets
<1>8. RecordingAgrees'
  BY <1>1, <1>2 DEF RecordingAgrees, OwnerAgrees, TaskLive
<1>9. SessionsAgree'
  BY <1>1, <1>2 DEF SessionsAgree, SessionAgrees
<1> QED
  BY <1>3, <1>4, <1>5, <1>6, <1>7, <1>8, <1>9

(* A session that ended well is let go where no teardown was asked for:    *)
(* its terminal was shown.                                                 *)
LEMMA ReapKeeps ==
  ASSUME Inv, active # NoSession, session[active].task = "returned", Reap,
         loop \in {"waiting", "reaping"}, loop' = "waiting",
         loop = "waiting" => answer' = answer, loop = "reaping" => answer' = "silence",
         UNCHANGED <<runner, next, current, initialized, available, warnings>>
  PROVE  Inv'
<1> USE NoSessionIsNone DEF Inv
<1>1. active \in SessionIds /\ active' = NoSession
  BY DEF Shapes, Targets, Reap
<1>2. /\ DOMAIN session' = SessionIds
      /\ \A r \in SessionIds : DOMAIN session'[r] = Fields
      /\ \A r \in SessionIds : r # active => session'[r] = session[r]
      /\ session'[active].task = "returned"
      /\ session'[active].shown = session[active].shown
      /\ session'[active].selected = session[active].selected
      /\ session'[active].settled = session[active].settled
      /\ session'[active].interrupt = session[active].interrupt
      /\ session'[active].tape # "open"
      /\ session'[active].warning = session[active].warning
  BY <1>1 DEF Reap, Shapes, Fields
<1>3. session[active].shown \in Terminals
  BY <1>1 DEF TerminalsAgree, SessionsAgree, SessionAgrees
<1>4. Shapes'
  BY <1>1, <1>2 DEF Shapes, Targets
<1>5. OwnerAgrees'
  BY <1>1, <1>2, <1>3 DEF OwnerAgrees, HasTask, TaskLive
<1>6. ExitAgrees'
  BY DEF ExitAgrees
<1>7. TerminalsAgree'
  BY <1>1, <1>2, <1>3 DEF TerminalsAgree
<1>8. CancelsAgree'
  BY <1>1, <1>2, <1>3 DEF CancelsAgree, Shapes, Targets
<1>9. RecordingAgrees'
  BY <1>1, <1>2 DEF RecordingAgrees, TaskLive
<1>10. SessionsAgree'
  BY <1>1, <1>2, <1>3 DEF SessionsAgree, SessionAgrees
<1> QED
  BY <1>4, <1>5, <1>6, <1>7, <1>8, <1>9, <1>10

LEMMA ReapsKeep == ASSUME Inv, LoopReaps \/ LoopReapsCancelled PROVE Inv'
<1>1. active # NoSession
  BY DEF Inv, LoopReaps, LoopReapsCancelled, HasTask, OwnerAgrees
<1>2. CASE LoopReaps /\ session[active].task = "returned"
  BY <1>1, <1>2, ReapKeeps DEF LoopReaps, input
<1>3. CASE LoopReapsCancelled /\ session[active].task = "returned"
  BY <1>1, <1>3, ReapKeeps DEF LoopReapsCancelled, LoopStep, input, Go, Silently
<1>4. CASE LoopReaps /\ session[active].task # "returned"
  BY <1>4, LeavingKeeps DEF LoopReaps, input
<1>5. CASE LoopReapsCancelled /\ session[active].task # "returned"
  BY <1>5, LeavingKeeps DEF LoopReapsCancelled, LoopStep, input
<1> QED
  BY <1>2, <1>3, <1>4, <1>5

LEMMA AnsweredKeeps == ASSUME Inv, LoopAnswered PROVE Inv'
<1>1. CASE answer = "workspace_mismatch"
  BY <1>1, LeavingKeeps DEF LoopAnswered, input
<1>2. CASE answer # "workspace_mismatch"
  <2>1. /\ loop = "answering" /\ loop' = "waiting"
        /\ UNCHANGED <<runner, next, current, answer, initialized, active, available, warnings,
                     session>>
    BY <1>2 DEF LoopAnswered, input, Go
  <2> QED
    BY <2>1 DEF Inv, Shapes, Targets, OwnerAgrees, HasTask, ExitAgrees, TerminalsAgree,
       CancelsAgree, RecordingAgrees, SessionsAgree, SessionAgrees, TaskLive
<1> QED
  BY <1>1, <1>2

(* A request selects its outcome for a running session: a teardown only on *)
(* the loop's way out.                                                     *)
LEMMA SelectsKeeps == ASSUME Inv, LoopSelects PROVE Inv'
<1> USE NoSessionIsNone DEF Inv
<1>1. /\ active \in SessionIds
      /\ UNCHANGED <<runner, next, loop, current, answer, initialized, active, available,
                     warnings>>
  BY DEF LoopSelects, HasTask, Shapes, Targets, LoopStep, input
<1>2. /\ DOMAIN session' = SessionIds
      /\ \A r \in SessionIds : DOMAIN session'[r] = Fields
      /\ \A r \in SessionIds : r # active => session'[r] = session[r]
      /\ session'[active].task = session[active].task
      /\ session'[active].shown = session[active].shown
      /\ session'[active].settled = session[active].settled
      /\ session'[active].interrupt = session[active].interrupt
      /\ session'[active].tape = session[active].tape
      /\ session'[active].warning = session[active].warning
      /\ \/ loop = "cancelling" /\ session'[active].selected = "cancelled"
         \/ /\ loop \in {"tearing_down", "final_teardown"}
            /\ session'[active].selected = "teardown"
  <2> DEFINE For(outcome) ==
        /\ session' = [session EXCEPT ![active] = [session[active] EXCEPT !.selected = outcome]]
        /\ session[active].selected = "none"
  <2>1. \/ loop = "cancelling" /\ For("cancelled")
        \/ loop \in {"tearing_down", "final_teardown"} /\ For("teardown")
    BY DEF LoopSelects, Makes, Granted, When
  <2>2. DOMAIN session = SessionIds /\ DOMAIN session[active] = Fields
    BY <1>1 DEF Shapes
  <2> QED
    BY <1>1, <2>1, <2>2 DEF Shapes, Fields
<1>3. session[active].selected = "none"
  BY DEF LoopSelects, Makes, Granted, When
<1>4. Shapes'
  BY <1>1, <1>2 DEF Shapes, Targets
<1>5. OwnerAgrees'
  BY <1>1, <1>2 DEF OwnerAgrees, HasTask, TaskLive
<1>6. ExitAgrees'
  BY <1>1, <1>2 DEF ExitAgrees, TaskLive
<1>7. TerminalsAgree'
  BY <1>1, <1>2, <1>3 DEF TerminalsAgree
<1>8. CancelsAgree'
  BY <1>1, <1>2 DEF CancelsAgree, Shapes, Targets
<1>9. RecordingAgrees'
  BY <1>1, <1>2 DEF RecordingAgrees, TaskLive
<1>10. SessionsAgree'
  BY <1>1, <1>2, <1>3 DEF SessionsAgree, SessionAgrees
<1> QED
  BY <1>4, <1>5, <1>6, <1>7, <1>8, <1>9, <1>10

LEMMA RequestReturnsKeeps == ASSUME Inv, LoopRequestReturns PROVE Inv'
<1> USE NoSessionIsNone DEF Inv
<1>1. /\ UNCHANGED <<runner, next, current, initialized, active, available, warnings, session>>
      /\ \/ Leave
         \/ /\ answer' = answer
            /\ RequestSettled(active)
            /\ \/ loop = "final_teardown" /\ loop' = "final_join"
               \/ loop = "cancelling" /\ loop' = "reaping"
               \/ loop = "tearing_down" /\ loop' = "joining"
  BY DEF LoopRequestReturns, LoopStep, input, Go
<1>2. CASE Leave
  BY <1>1, <1>2, LeavingKeeps
<1>3. CASE ~Leave
  <2>1. Shapes' /\ ExitAgrees' /\ RecordingAgrees'
    BY <1>1, <1>3 DEF Shapes, Targets, ExitAgrees, RecordingAgrees, TaskLive
  <2>2. OwnerAgrees'
    BY <1>1, <1>3 DEF OwnerAgrees, HasTask, TaskLive
  <2>3. TerminalsAgree' /\ CancelsAgree'
    BY <1>1, <1>3 DEF TerminalsAgree, CancelsAgree
  <2>4. SessionsAgree'
    BY <1>1, <1>3 DEF RequestSettled, SessionsAgree, SessionAgrees
  <2> QED
    BY <2>1, <2>2, <2>3, <2>4
<1> QED
  BY <1>2, <1>3

-----------------------------------------------------------------------------
(* The way out. *)

(* An interrupt of a session's task leaves a mark on it and no more. *)
LEMMA Interrupting ==
  ASSUME Shapes, NEW s \in SessionIds, Makes(s, Interrupts(session[s]))
  PROVE  /\ DOMAIN session' = SessionIds
         /\ \A r \in SessionIds : DOMAIN session'[r] = Fields
         /\ \A r \in SessionIds : r # s => session'[r] = session[r]
         /\ session'[s].task = session[s].task /\ session'[s].shown = session[s].shown
         /\ session'[s].selected = session[s].selected
         /\ session'[s].settled = session[s].settled
         /\ session'[s].tape = session[s].tape /\ session'[s].warning = session[s].warning
<1>1. DOMAIN session = SessionIds /\ DOMAIN session[s] = Fields
  BY DEF Shapes
<1>2. session' = [session EXCEPT ![s] = [session[s] EXCEPT !.interrupt = "pending"]]
  BY DEF Makes, Interrupts, When
<1> QED
  BY <1>1, <1>2 DEF Shapes, Fields

LEMMA FinalReaderKeeps == ASSUME Inv, FinalReader PROVE Inv'
<1> USE NoSessionIsNone DEF Inv
<1>1. /\ loop = "stopping_reader" /\ current' = Nothing
      /\ next'.command = Nothing /\ next'.state # "reading"
      /\ UNCHANGED <<runner, answer, initialized, active, available, warnings>>
  BY DEF FinalReader, StopsReader, NextIs
<1>2. Nothing.kind = "none" /\ Nothing.target = NoSession
  BY DEF Nothing, Plain
<1>3. /\ \/ loop' = "ended" /\ ~HasTask
         \/ HasTask /\ loop' = "final_teardown"
         \/ HasTask /\ loop' = "final_join" /\ runner # "provider"
      /\ DOMAIN session' = SessionIds
      /\ \A r \in SessionIds :
           /\ DOMAIN session'[r] = Fields
           /\ session'[r].task = session[r].task /\ session'[r].shown = session[r].shown
           /\ session'[r].selected = session[r].selected
           /\ session'[r].settled = session[r].settled
           /\ session'[r].interrupt = session[r].interrupt \/ runner # "provider"
           /\ session'[r].warning = session[r].warning
           /\ session'[r].tape = "open" => session[r].tape = "open" /\ loop' # "ended"
  <2>1. CASE ~HasTask
    BY <2>1 DEF FinalReader, CloseTape, Go, Shapes, Fields, OwnerAgrees
  <2>2. CASE HasTask /\ UNCHANGED session
    BY <2>2 DEF FinalReader, Go, Shapes
  <2>3. CASE /\ HasTask /\ runner # "provider" /\ loop' = "final_join"
             /\ Makes(active, Interrupts(session[active]))
    <3>1. active \in SessionIds
      BY <2>3 DEF HasTask, Shapes, Targets
    <3> QED
      BY <2>3, <3>1, Interrupting
  <2> QED
    BY <2>1, <2>2, <2>3 DEF FinalReader, Go
<1>4. Shapes'
  BY <1>1, <1>2, <1>3 DEF Shapes, Targets
<1>5. OwnerAgrees'
  BY <1>1, <1>2, <1>3 DEF OwnerAgrees, HasTask, Shapes, Targets, TaskLive
<1>6. ExitAgrees'
  BY <1>1, <1>3 DEF ExitAgrees, OwnerAgrees, HasTask, TaskLive
<1>7. TerminalsAgree'
  BY <1>1, <1>3 DEF TerminalsAgree
<1>8. CancelsAgree'
  BY <1>1, <1>2, <1>3 DEF CancelsAgree
<1>9. RecordingAgrees'
  BY <1>1, <1>3 DEF RecordingAgrees, TaskLive
<1>10. SessionsAgree'
  BY <1>1, <1>3 DEF SessionsAgree, SessionAgrees
<1> QED
  BY <1>4, <1>5, <1>6, <1>7, <1>8, <1>9, <1>10

LEMMA FinalJoinKeeps == ASSUME Inv, FinalJoin PROVE Inv'
<1> USE NoSessionIsNone DEF Inv
<1>1. /\ loop = "final_join" /\ loop' = "ended" /\ TaskDone(active) /\ HasTask
      /\ UNCHANGED <<runner, next, current, answer, initialized, active, available, warnings>>
  BY DEF FinalJoin, LoopStep, input, Go, OwnerAgrees
<1>2. /\ DOMAIN session' = SessionIds
      /\ \A r \in SessionIds :
           /\ DOMAIN session'[r] = Fields
           /\ session'[r].task = session[r].task /\ session'[r].shown = session[r].shown
           /\ session'[r].selected = session[r].selected
           /\ session'[r].settled = session[r].settled
           /\ session'[r].interrupt = session[r].interrupt
           /\ session'[r].warning = session[r].warning
           /\ session'[r].tape # "open"
  BY DEF FinalJoin, CloseTape, Shapes, Fields, OwnerAgrees
<1>3. Shapes'
  BY <1>1, <1>2 DEF Shapes, Targets
<1>4. OwnerAgrees'
  BY <1>1, <1>2 DEF OwnerAgrees, HasTask, TaskDone, Shapes, Targets, TaskLive
<1>5. ExitAgrees'
  BY <1>1, <1>2 DEF ExitAgrees, OwnerAgrees, TaskDone, TaskLive
<1>6. TerminalsAgree'
  BY <1>1, <1>2 DEF TerminalsAgree
<1>7. CancelsAgree'
  BY <1>1, <1>2 DEF CancelsAgree, Shapes, Targets
<1>8. RecordingAgrees'
  BY <1>1, <1>2 DEF RecordingAgrees, TaskLive
<1>9. SessionsAgree'
  BY <1>1, <1>2 DEF SessionsAgree, SessionAgrees
<1> QED
  BY <1>3, <1>4, <1>5, <1>6, <1>7, <1>8, <1>9

LEMMA InterruptKeeps == ASSUME Inv, Interrupt PROVE Inv'
<1> USE NoSessionIsNone DEF Inv
<1>1. UNCHANGED <<runner, next, current, initialized, active, available>>
  BY DEF Interrupt, input
<1>2. CASE Leave /\ UNCHANGED session
           /\ warnings' \in {warnings} \cup (IF loop = "warning" THEN {warnings + 1} ELSE {})
  BY <1>1, <1>2, LeavingKeeps
<1>3. CASE UNCHANGED <<loop, answer, warnings, session>>
  <2>1. Shapes' /\ OwnerAgrees' /\ ExitAgrees'
    BY <1>1, <1>3 DEF Shapes, Targets, OwnerAgrees, HasTask, ExitAgrees, TaskLive
  <2>2. TerminalsAgree' /\ CancelsAgree' /\ RecordingAgrees'
    BY <1>1, <1>3 DEF TerminalsAgree, CancelsAgree, RecordingAgrees, TaskLive
  <2>3. SessionsAgree'
    BY <1>1, <1>3 DEF SessionsAgree, SessionAgrees
  <2> QED
    BY <2>1, <2>2, <2>3
<1>4. CASE /\ Makes(active, Interrupts(session[active])) /\ HasTask
           /\ loop \in {"reaping", "joining", "final_join"}
           /\ UNCHANGED <<loop, answer, warnings>>
  <2>1. active \in SessionIds
    BY <1>4 DEF HasTask, Shapes, Targets
  <2>2. /\ DOMAIN session' = SessionIds
        /\ \A r \in SessionIds : DOMAIN session'[r] = Fields
        /\ \A r \in SessionIds : r # active => session'[r] = session[r]
        /\ session'[active].task = session[active].task
        /\ session'[active].shown = session[active].shown
        /\ session'[active].selected = session[active].selected
        /\ session'[active].settled = session[active].settled
        /\ session'[active].tape = session[active].tape
        /\ session'[active].warning = session[active].warning
    BY <1>4, <2>1, Interrupting
  <2>3. Shapes'
    BY <1>1, <1>4, <2>2 DEF Shapes, Targets
  <2>4. OwnerAgrees'
    BY <1>1, <1>4, <2>1, <2>2 DEF OwnerAgrees, HasTask, TaskLive
  <2>5. ExitAgrees' /\ TerminalsAgree'
    BY <1>1, <1>4, <2>2 DEF ExitAgrees, TerminalsAgree, TaskLive
  <2>6. CancelsAgree'
    BY <1>1, <1>4, <2>2 DEF CancelsAgree, Shapes, Targets
  <2>7. RecordingAgrees'
    BY <1>1, <1>4, <2>2 DEF RecordingAgrees, TaskLive
  <2>8. SessionsAgree'
    BY <1>1, <1>4, <2>1, <2>2 DEF SessionsAgree, SessionAgrees
  <2> QED
    BY <2>3, <2>4, <2>5, <2>6, <2>7, <2>8
<1> QED
  <2>1. loop \in {"reaping", "joining", "final_join"} => HasTask
    BY DEF OwnerAgrees
  <2> QED
    BY <1>2, <1>3, <1>4, <2>1 DEF Interrupt

-----------------------------------------------------------------------------
LEMMA StepKeeps == Inv /\ runner \in {"mock", "provider"} /\ [Next]_vars => Inv'
<1> SUFFICES ASSUME Inv, runner \in {"mock", "provider"}, [Next]_vars PROVE Inv'
  OBVIOUS
<1>1. CASE UNCHANGED vars
  <2>1. UNCHANGED <<runner, next, loop, current, answer, initialized, active, available,
                    warnings, session>>
    BY <1>1 DEF vars
  <2> QED
    BY <2>1 DEF Inv, Shapes, Targets, OwnerAgrees, HasTask, ExitAgrees, TerminalsAgree,
       CancelsAgree, RecordingAgrees, SessionsAgree, SessionAgrees, TaskLive
<1>2. CASE (\E c \in Sendable : LineArrives(c)) \/ CloseInput \/ InputEnds \/ ReadFails
  BY <1>2, InputKeeps
<1>3. CASE \E s \in SessionIds :
             SessionProgress(s) \/ SessionWriteFails(s) \/ SessionRecordFails(s)
  BY <1>3, SessionKeeps
<1>4. CASE \E c \in Commands : LoopTakes(c)
  BY <1>4, AnswersKeep, TurnsKeep, StartKeeps DEF LoopTakes
<1>5. CASE LoopReaps \/ LoopReapsCancelled
  BY <1>5, ReapsKeep
<1>6. CASE LoopInputFails
  BY <1>6, LeavingKeeps DEF LoopInputFails, input
<1>7. CASE LoopAnswered
  BY <1>7, AnsweredKeeps
<1>8. CASE LoopWarned
  BY <1>8, WarnedKeeps
<1>9. CASE LoopSelects
  BY <1>9, SelectsKeeps
<1>10. CASE LoopRequestReturns
  BY <1>10, RequestReturnsKeeps
<1>11. CASE LoopJoins
  BY <1>11, LeavingKeeps DEF LoopJoins, LoopStep, input
<1>12. CASE FinalReader
  BY <1>12, FinalReaderKeeps
<1>13. CASE FinalJoin
  BY <1>13, FinalJoinKeeps
<1>14. CASE LoopWriteFails
  BY <1>14, LeavingKeeps DEF LoopWriteFails, input
<1>15. CASE Interrupt
  BY <1>15, InterruptKeeps
<1> QED
  BY <1>1, <1>2, <1>3, <1>4, <1>5, <1>6, <1>7, <1>8, <1>9, <1>10, <1>11, <1>12, <1>13,
     <1>14, <1>15 DEF Next, LoopProgress

Places == {"waiting", "answering", "warning", "cancelling", "tearing_down", "reaping",
           "joining", "stopping_reader", "final_teardown", "final_join", "ended"}
NextTypes ==
  next.state \in {"reading", "done", "broken", "cancelled"}
  /\ next.command \in Commands \cup {Nothing}

(* What the client and the reader hand to the loop is a command. *)
LEMMA NextStaysTyped ==
  ASSUME NextTypes,
         \/ \E c \in Commands : next' = NextIs("done", c)
         \/ next' = Reading \/ next' = next
         \/ next' = NextIs("broken", Nothing) \/ next' = NextIs("cancelled", Nothing)
         \/ next' = NextIs("done", Nothing)
  PROVE  NextTypes'
BY DEF NextTypes, NextIs, Reading

LEMMA TypeInit == Init => TypeOK
<1>1. Init => NextTypes
  BY DEF Init, NextTypes, Reading, NextIs
<1>2. Init => loop = "waiting" /\ interrupt = "none" /\ current = Nothing
  BY DEF Init
<1>3. Init => warnings \in Nat /\ active = NoSession /\ latest = NoSession /\ runner \in Runners
  BY DEF Init
<1>4. Init => inputClosed \in BOOLEAN /\ initialized \in BOOLEAN /\ available \in BOOLEAN
  BY DEF Init
<1> QED
  BY <1>1, <1>2, <1>3, <1>4 DEF TypeOK, NextTypes

LEMMA TypeKeeps == TypeOK /\ [Next]_vars => TypeOK'
<1> SUFFICES ASSUME TypeOK, [Next]_vars PROVE TypeOK'
  OBVIOUS
<1>1. NextTypes
  BY DEF TypeOK, NextTypes
<1>2. SUFFICES ASSUME Next PROVE TypeOK'
  BY DEF vars, TypeOK
<1>3. \A c \in Sendable : c \in Commands
  BY DEF Sendable
<1>4. Plain("input_ended") \in Commands
  BY DEF Commands
<1>5. CASE (\E c \in Sendable : LineArrives(c)) \/ CloseInput \/ InputEnds \/ ReadFails
  <2>1. NextTypes'
    BY <1>1, <1>3, <1>4, <1>5, NextStaysTyped DEF LineArrives, CloseInput, InputEnds, ReadFails
  <2> QED
    BY <1>5, <2>1 DEF LineArrives, CloseInput, InputEnds, ReadFails, TypeOK, NextTypes, loopState
<1>6. CASE \E s \in SessionIds :
             SessionProgress(s) \/ SessionWriteFails(s) \/ SessionRecordFails(s)
  <2>1. /\ UNCHANGED <<runner, input, loopState, interrupt>>
        /\ warnings' \in {warnings, warnings + 1} /\ (available' = available \/ available' = FALSE)
    BY <1>6 DEF SessionProgress, SessionMakes, SessionAnnounces, SessionSelects,
       SessionShowsTerminal, SessionSettles, SessionReturns, SessionFails,
       SessionInterrupted, SessionSwallows, SessionWarns, SessionWriteFails,
       SessionRecordFails, SessionStep
  <2>2. warnings' \in Nat
    BY <2>1 DEF TypeOK
  <2>3. available' \in BOOLEAN
    BY <2>1, Zenon DEF TypeOK
  <2> QED
    BY <2>1, <2>2, <2>3 DEF TypeOK, input, loopState
<1>7. ASSUME NEW c \in Commands, LoopTakes(c)
      PROVE  TypeOK'
  <2>1. /\ Takes(c) /\ loop' \in Places
        /\ initialized' \in {initialized, TRUE} /\ available' \in {available, FALSE}
        /\ active' \in SessionIds \cup {NoSession}
        /\ UNCHANGED <<latest, warnings>>
    BY <1>7 DEF LoopTakes, LoopRefuses, LoopInitializes, LoopStarts, LoopIgnoresCancel,
       LoopCancels, LoopStops, Replies, Go, Leave, TypeOK, Places, Takes
  <2>2. NextTypes' /\ inputClosed' = inputClosed
    BY <1>1, <2>1, NextStaysTyped DEF Takes, Consume, input
  <2> QED
    BY <2>1, <2>2 DEF TypeOK, NextTypes, Places, Takes
<1>8. CASE LoopReaps \/ LoopReapsCancelled
  BY <1>8 DEF LoopReaps, LoopReapsCancelled, LoopStep, Reap, Leave, Go, TypeOK, input
<1>9. CASE LoopInputFails \/ LoopAnswered \/ LoopWarned \/ LoopSelects \/ LoopRequestReturns
           \/ LoopJoins \/ LoopWriteFails
  BY <1>9 DEF LoopInputFails, LoopAnswered, LoopWarned, LoopSelects, LoopRequestReturns,
     LoopJoins, LoopWriteFails, LoopStep, Leave, Go, TypeOK, input
<1>10. CASE FinalReader
  <2>1. NextTypes'
    BY <1>1, <1>10, NextStaysTyped DEF FinalReader, StopsReader
  <2> QED
    BY <1>10, <2>1 DEF FinalReader, StopsReader, Go, TypeOK, NextTypes
<1>11. CASE FinalJoin
  BY <1>11 DEF FinalJoin, LoopStep, Go, TypeOK, input
<1>12. CASE Interrupt
  <2>1. /\ UNCHANGED <<runner, input, current, initialized, active, latest, available>>
        /\ interrupt' \in {"pending", "delivered"}
        /\ loop' \in {loop, "stopping_reader"} /\ warnings' \in {warnings, warnings + 1}
    BY <1>12 DEF Interrupt, Leave, Go
  <2> QED
    BY <2>1 DEF TypeOK, input
<1>13. CASE \E c \in Commands : LoopTakes(c)
  BY <1>7, <1>13
<1> QED
  BY <1>2, <1>5, <1>6, <1>8, <1>9, <1>10, <1>11, <1>12, <1>13 DEF Next, LoopProgress

(* The loop is always at one of its places, with a command in hand that    *)
(* its protocol knows (run_runtime, runtime.py:224-612).                   *)
THEOREM LoopTypeCorrect == Spec => []TypeOK
  BY TypeInit, TypeKeeps, PTL DEF Spec

-----------------------------------------------------------------------------
LEMMA LoopInvariant == Spec => []Inv
<1>1. Init => Inv
  BY InitHolds
<1>2. TypeOK => runner \in {"mock", "provider"}
  BY RuntimeAssumption DEF TypeOK
<1>3. Inv /\ TypeOK /\ [Next]_vars => Inv'
  BY <1>2, StepKeeps
<1> QED
  BY <1>1, <1>3, LoopTypeCorrect, PTL DEF Spec

(* Whatever fails and whenever the loop is interrupted, no session task or *)
(* open transcript outlives the loop's hold of it, and the reader is       *)
(* joined too (run_runtime's finally, runtime.py:585-612).                 *)
THEOREM LoopJoinsWhatItStarts == Spec => []NothingOutlivesItsOwner
<1>1. Inv => NothingOutlivesItsOwner
  BY DEF Inv, OwnerAgrees, ExitAgrees, NothingOutlivesItsOwner, Reading, NextIs
<1> QED
  BY <1>1, LoopInvariant, PTL

(* A cancellation is not left behind before its session's terminal was     *)
(* written, nor refused while its target lives (runtime.py:541-583).       *)
THEOREM CancellationsAreTrue == Spec => []CancelsAnsweredTruly
<1>1. Inv => CancelsAnsweredTruly
  BY DEF Inv, CancelsAgree, TerminalsAgree, CancelsAnsweredTruly
<1> QED
  BY <1>1, LoopInvariant, PTL

(* A failure to record ends recording for the process and is told once,    *)
(* by the loop or by a session, whichever met it (transcript_available).   *)
THEOREM RecordingFailsOnce == Spec => []WarnedOnce
<1>1. Inv => WarnedOnce
  BY DEF Inv, Shapes, RecordingAgrees, WarnedOnce
<1> QED
  BY <1>1, LoopInvariant, PTL

=============================================================================
