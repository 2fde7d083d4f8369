------------------------------ MODULE RuntimeLoop ------------------------------
(***************************************************************************)
(* The command loop of one runtime process (runtime.py, run_runtime): it   *)
(* waits for the next line of its input and for the session it started,    *)
(* answers or obeys each command, and on every way out joins the session,  *)
(* the reader and the transcript.                                          *)
(*                                                                         *)
(* A step is what the loop does between two suspensions.  A session is     *)
(* seen from outside, as a view (SessionView); MockSession and             *)
(* ProviderSession model its inside.  Writes may fail, the input may       *)
(* break, a session task may raise, recording may fail, and the loop's own *)
(* task may be cancelled once (an interrupt).                              *)
(***************************************************************************)
EXTENDS Naturals, SessionView

CONSTANTS
  Runners,       \* kinds of session the process may be composed with
  MaxSessions,   \* bound on sessions; no start is sent after the last
  Faults         \* which of "sink", "input", "record", "interrupt" occur

ASSUME RuntimeAssumption ==
  /\ Runners \subseteq {"mock", "provider"}
  /\ MaxSessions \in Nat
  /\ Faults \subseteq {"sink", "input", "record", "interrupt"}

SessionIds == 1 .. MaxSessions
NoSession == 0

VARIABLES
  runner,       \* which session class the runtime was composed with
  inputClosed,  \* whether the client closed its end
  next,         \* next_command: its task's state, and the result of a done one
  loop,         \* where the loop is
  current,      \* the command it handles, or handled last
  answer,       \* the code written for it, "silence" or, until then, "none"
  initialized,
  active,       \* active_session's id
  latest,       \* latest_terminal_session_id
  available,    \* transcript_available
  warnings,     \* transcript_persistence_failed events written
  session,      \* each session: see Unborn
  interrupt     \* of the loop's own task: "none", "pending", "delivered"

loopState == <<loop, current, answer, initialized, active, latest>>
input == <<inputClosed, next>>
vars == <<runner, inputClosed, next, loop, current, answer,
          initialized, active, latest, available, warnings, session, interrupt>>

(* A session not created yet.  Beside its view, tape: its transcript;      *)
(* warning: whether it is writing its recording's failure.                 *)
Unborn == [shown |-> "nothing", selected |-> "none", settled |-> "no",
           task |-> "none", interrupt |-> "none", tape |-> "none", warning |-> FALSE]
TaskDone(s) == session[s].task \in {"returned", "failed", "cancelled"}
TaskLive(s) == session[s].task \in {"running", "failing"}

(* A client knows the sessions whose events it saw; a start remembers      *)
(* whether all sessions before it had shown their terminal when it came.   *)
(* Such a start, sent while the failure of the terminal's record is told,  *)
(* is taken like one sent after it (see Takes), and arrives here after it. *)
Plain(kind) == [kind |-> kind, target |-> NoSession, idle |-> FALSE]
Commands ==
  {Plain(k) : k \in {"malformed", "initialize", "misinitialize", "start_blank",
                     "shutdown", "input_ended"}}
  \cup [kind : {"cancel"}, target : {NoSession} \cup SessionIds, idle : {FALSE}]
  \cup [kind : {"start"}, target : {NoSession}, idle : BOOLEAN]
Sendable ==
  {c \in Commands \ {Plain("input_ended")} :
     /\ c.kind = "cancel" /\ c.target # NoSession => session[c.target].shown # "nothing"
     /\ c.kind = "start" =>
          /\ \E s \in SessionIds : session[s] = Unborn
          /\ c.idle = (\A s \in SessionIds :
                         session[s] = Unborn \/ session[s].shown \in Terminals)
          /\ c.idle => \A s \in SessionIds : ~session[s].warning}

Nothing == Plain("none")
NextIs(state, c) == [state |-> state, command |-> c]
Reading == NextIs("reading", Nothing)

Init ==
  /\ runner \in Runners
  /\ inputClosed = FALSE
  /\ next = Reading
  /\ loop = "waiting"
  /\ current = Nothing /\ answer = "none"
  /\ initialized = FALSE
  /\ active = NoSession /\ latest = NoSession
  /\ available \in BOOLEAN
  /\ warnings = 0
  /\ session = [s \in SessionIds |-> Unborn]
  /\ interrupt = "none"

-----------------------------------------------------------------------------
(* The client and the reader task.  One line is read ahead of the loop;    *)
(* the lines behind it arrive when it is taken.  What arrives at a loop on *)
(* its way out is never read, and is left out.                             *)

LeavingPlaces == {"stopping_reader", "final_teardown", "final_join", "ended"}

LineArrives(c) ==
  /\ next = Reading /\ ~inputClosed /\ loop \notin LeavingPlaces
  /\ next' = NextIs("done", c)
  /\ UNCHANGED <<runner, inputClosed, loopState, available, warnings, session, interrupt>>

CloseInput ==
  /\ ~inputClosed /\ loop \notin LeavingPlaces
  /\ inputClosed' = TRUE
  /\ UNCHANGED <<runner, next, loopState, available, warnings, session, interrupt>>

InputEnds ==
  /\ next = Reading /\ inputClosed
  /\ next' = NextIs("done", Plain("input_ended"))
  /\ UNCHANGED <<runner, inputClosed, loopState, available, warnings, session,
                 interrupt>>

ReadFails ==
  /\ "input" \in Faults
  /\ next = Reading
  /\ next' = NextIs("broken", Nothing)
  /\ UNCHANGED <<runner, inputClosed, loopState, available, warnings, session, interrupt>>

-----------------------------------------------------------------------------
(* The session's steps. *)

SessionStep ==
  UNCHANGED <<runner, input, loopState, available, warnings, interrupt>>
Recording(s) == TaskLive(s) /\ ~session[s].warning
Becomes(s, changes) ==
  session' = [session EXCEPT ![s] = [f \in DOMAIN @ |->
                IF f \in DOMAIN changes THEN changes[f] ELSE @[f]]]
Makes(s, move) == \E w \in move : session' = [session EXCEPT ![s] = w]
SessionMakes(s, move) == ~session[s].warning /\ Makes(s, move) /\ SessionStep

SessionAnnounces(s) == SessionMakes(s, Announces(session[s]))
SessionSelects(s) == SessionMakes(s, SelectsItself(runner, session[s]))
SessionShowsTerminal(s) == SessionMakes(s, ShowsTerminal(runner, session[s]))
SessionSettles(s) ==
  runner = "provider" /\ SessionMakes(s, SettlesSilently(session[s]))
SessionReturns(s) == SessionMakes(s, Returns(session[s]))
SessionFails(s) == SessionMakes(s, Fails(runner, session[s]))
SessionSwallows(s) ==
  runner = "provider" /\ SessionMakes(s, SwallowsInterrupt(session[s]))

(* An interrupt also cuts the telling of a failed record short.            *)
SessionInterrupted(s) ==
  /\ Makes(s, {[w EXCEPT !.warning = FALSE] : w \in ObeysInterrupt(runner, session[s])})
  /\ SessionStep

(* A write raises: of an event, in run() or in the finalizer, or of the    *)
(* failure of a record, wherever that was met.                             *)
SessionWriteFails(s) ==
  /\ "sink" \in Faults
  /\ LET raising == IF runner = "provider" THEN FinalizationRaises(session[s]) ELSE {}
     IN \/ SessionMakes(s, Stumbles(runner, session[s]) \cup raising)
        \/ /\ session[s].warning
           /\ Makes(s, {[w EXCEPT !.warning = FALSE] :
                          w \in {[session[s] EXCEPT !.task = "failing"]} \cup raising})
           /\ SessionStep

(* slip: the next session records again *)
SessionRecordFailsForgetful(s) ==
  /\ "record" \in Faults
  /\ Recording(s) /\ session[s].tape = "open"
  /\ Becomes(s, [tape |-> "closed", warning |-> TRUE])
  /\ UNCHANGED <<runner, input, loopState, available, warnings, interrupt>>

(* _record_lifecycle, _record_model_usage and _record_loop_limits: the     *)
(* first failed record closes the transcript, ends recording for the       *)
(* process, and is told before the session goes on.                        *)
SessionRecordFails(s) ==
  /\ "record" \in Faults
  /\ Recording(s) /\ session[s].tape = "open"
  /\ Becomes(s, [tape |-> "closed", warning |-> TRUE])
  /\ available' = FALSE
  /\ UNCHANGED <<runner, input, loopState, warnings, interrupt>>

SessionWarns(s) ==
  /\ session[s].warning
  /\ Becomes(s, [warning |-> FALSE])
  /\ warnings' = warnings + 1
  /\ UNCHANGED <<runner, input, loopState, available, interrupt>>

-----------------------------------------------------------------------------
(* The loop's ways on. *)

Go(place) == loop' = place
Leave == Go("stopping_reader") /\ answer' = "none"
Silently == answer' = "silence"
Consume == next' = Reading /\ UNCHANGED inputClosed

(* The session's task ended well: it is remembered, its transcript closed  *)
(* and the loop is free for another.                                       *)
Reap ==
  /\ latest' = active
  /\ session' = [session EXCEPT ![active].tape =
                   IF @ = "open" THEN "closed" ELSE @]
  /\ active' = NoSession

HasTask == active # NoSession /\ session[active].task # "uncreated"

(* The wait wakes for a finished session first: a failed one ends the      *)
(* loop.                                                                   *)
LoopReaps ==
  /\ loop = "waiting"
  /\ HasTask /\ TaskDone(active)
  /\ IF session[active].task = "returned"
       THEN Reap /\ UNCHANGED <<loop, answer>>
       ELSE Leave /\ UNCHANGED <<active, latest, session>>
  /\ UNCHANGED <<runner, input, current, initialized, available, warnings,
                 interrupt>>

LoopInputFails ==
  /\ loop = "waiting" /\ ~(HasTask /\ TaskDone(active))
  /\ next.state = "broken"
  /\ Leave
  /\ UNCHANGED <<runner, input, current, initialized, active, latest,
                 available, warnings, session, interrupt>>

(* The loop takes command c.  asyncio resumes its tasks in FIFO order: a   *)
(* line sent after a terminal event comes in behind that session's task,   *)
(* which ends, and is reaped, first.  It overtakes the task only when that *)
(* stops for another write, which tells that the terminal's record failed. *)
(* Any other command and the task's end may come in either order.          *)
Takes(c) ==
  /\ loop = "waiting" /\ ~(HasTask /\ TaskDone(active))
  /\ c.idle /\ HasTask => session[active].warning
  /\ next = NextIs("done", c)
  /\ current' = c
  /\ IF c.kind = "input_ended" THEN UNCHANGED input ELSE Consume
  /\ UNCHANGED <<runner, interrupt>>

(* One runtime.error, or runtime.ready, is the whole answer. *)
Replies(code) ==
  /\ Go("answering") /\ answer' = code
  /\ UNCHANGED <<active, latest, available, warnings, session, interrupt>>

LoopRefuses(c) ==
  /\ Takes(c)
  /\ \/ c.kind = "malformed" /\ Replies("malformed")
     \/ c.kind = "initialize" /\ initialized /\ Replies("already_initialized")
     \/ c.kind = "misinitialize"
        /\ Replies(IF initialized THEN "already_initialized" ELSE "workspace_mismatch")
     \/ c.kind \in {"start", "start_blank", "cancel"} /\ ~initialized
        /\ Replies("not_initialized")
     \/ c.kind = "start_blank" /\ initialized /\ Replies("invalid_task")
     \/ c.kind = "start" /\ initialized /\ active # NoSession
        /\ Replies("session_active")
     \/ c.kind = "cancel" /\ initialized /\ active = NoSession
        /\ c.target \notin SessionIds \cap {latest}
        /\ Replies("session_not_active")
     \/ c.kind = "cancel" /\ initialized /\ active # NoSession /\ c.target # active
        /\ Replies("session_mismatch")
  /\ UNCHANGED initialized

LoopInitializes(c) ==
  /\ Takes(c) /\ c.kind = "initialize" /\ ~initialized
  /\ initialized' = TRUE
  /\ Replies("ready")

LoopAnswered ==
  /\ loop = "answering"
  /\ IF answer = "workspace_mismatch" THEN Leave
     ELSE Go("waiting") /\ UNCHANGED answer
  /\ UNCHANGED <<runner, input, current, initialized, active, latest, available,
                 warnings, session, interrupt>>

LoopWriteFails ==
  /\ "sink" \in Faults
  /\ loop \in {"answering", "warning"}
  /\ Leave
  /\ UNCHANGED <<runner, input, current, initialized, active, latest,
                 available, warnings, session, interrupt>>

(* A start is accepted: the transcript is opened and records the task; if  *)
(* either fails, recording ends for the process and the client is told     *)
(* before the session's task exists.                                       *)
LoopStarts(c) ==
  /\ Takes(c) /\ c.kind = "start" /\ initialized /\ active = NoSession
  /\ \E s \in SessionIds :
       /\ session[s] = Unborn /\ \A r \in 1 .. (s - 1) : session[r] # Unborn
       /\ active' = s
       /\ \/ /\ Becomes(s, [task |-> "running",
                            tape |-> IF available THEN "open" ELSE "none"])
             /\ Go("waiting") /\ Silently
             /\ UNCHANGED available
          \/ /\ available /\ "record" \in Faults
             /\ \E t \in {"none", "closed"} : Becomes(s, [tape |-> t, task |-> "uncreated"])
             /\ available' = FALSE
             /\ Go("warning") /\ answer' = "none"
  /\ UNCHANGED <<initialized, latest, warnings>>

LoopWarned ==
  /\ loop = "warning"
  /\ warnings' = warnings + 1
  /\ Becomes(active, [task |-> "running"])
  /\ Go("waiting") /\ Silently
  /\ UNCHANGED <<runner, input, current, initialized, active, latest, available,
                 interrupt>>

(* A cancellation of the session that ended last is already satisfied.     *)
LoopIgnoresCancel(c) ==
  /\ Takes(c) /\ c.kind = "cancel" /\ initialized /\ active = NoSession
  /\ c.target \in SessionIds \cap {latest}
  /\ Silently
  /\ UNCHANGED <<loop, initialized, active, latest, available, warnings, session, interrupt>>

LoopCancels(c) ==
  /\ Takes(c) /\ c.kind = "cancel" /\ initialized
  /\ active # NoSession /\ c.target = active
  /\ Go("cancelling") /\ answer' = "none"
  /\ UNCHANGED <<initialized, active, latest, available, warnings, session, interrupt>>

(* End of input and runtime.shutdown: a provider session is torn down, a   *)
(* mock one runs out its tape.                                             *)
LoopStops(c) ==
  /\ Takes(c) /\ c.kind \in {"shutdown", "input_ended"}
  /\ IF ~HasTask THEN Leave
     ELSE Go(IF runner = "provider" THEN "tearing_down" ELSE "joining") /\ answer' = "none"
  /\ UNCHANGED <<initialized, active, latest, available, warnings, session>>

-----------------------------------------------------------------------------
(* The loop waiting on its session. *)

LoopStep == UNCHANGED <<runner, input, current, initialized, available, warnings>>

(* request_cancellation and request_teardown select their outcome unless   *)
(* another won.                                                            *)
LoopSelects ==
  /\ HasTask /\ ~session[active].warning
  /\ \/ /\ loop = "cancelling"
        /\ Makes(active, Granted(runner, session[active], "cancelled"))
     \/ /\ loop \in {"tearing_down", "final_teardown"}
        /\ Makes(active, Granted(runner, session[active], "teardown"))
  /\ LoopStep
  /\ UNCHANGED <<loop, answer, active, latest, interrupt>>

(* slip: a request waits for its own outcome, though another may have won *)
RequestWon(s) ==
  /\ session[s].settled # "no"
  /\ session[s].selected = IF loop = "cancelling" THEN "cancelled" ELSE "teardown"

RequestSettled(s) ==
  session[s].settled # "no" \/ (runner = "mock" /\ session[s].selected # "none")

(* They return once the outcome is final; a mock's at once.  A provider's  *)
(* are shielded: an interrupt is raised only now.  They raise what the     *)
(* finalizer raised, which ends the loop.                                  *)
LoopRequestReturns ==
  /\ loop \in {"cancelling", "tearing_down", "final_teardown"}
  /\ RequestSettled(active)
  /\ IF interrupt = "pending" THEN interrupt' = "delivered" ELSE UNCHANGED interrupt
  /\ IF loop = "final_teardown" THEN Go("final_join") /\ UNCHANGED answer
     ELSE IF interrupt = "pending" \/ session[active].settled = "raised" THEN Leave
     ELSE Go(IF loop = "cancelling" THEN "reaping" ELSE "joining") /\ UNCHANGED answer
  /\ LoopStep
  /\ UNCHANGED <<active, latest, session>>

(* slip: a cancellation is answered before its session is reaped *)
LoopReapsEarly ==
  /\ loop = "reaping"
  /\ Reap /\ Go("waiting") /\ Silently
  /\ LoopStep /\ UNCHANGED interrupt

LoopReapsCancelled ==
  /\ loop = "reaping" /\ TaskDone(active)
  /\ IF session[active].task = "returned"
       THEN Reap /\ Go("waiting") /\ Silently
       ELSE Leave /\ UNCHANGED <<active, latest, session>>
  /\ LoopStep /\ UNCHANGED interrupt

LoopJoins ==
  /\ loop = "joining" /\ TaskDone(active)
  /\ Leave
  /\ LoopStep
  /\ UNCHANGED <<active, latest, session, interrupt>>

-----------------------------------------------------------------------------
(* The way out: the reader, then the session, then the transcript. *)

CloseTape ==
  session' = [s \in SessionIds |->
                IF s = active /\ session[s].tape = "open"
                  THEN [session[s] EXCEPT !.tape = "closed"] ELSE session[s]]

StopsReader ==
  /\ loop = "stopping_reader"
  /\ next' = IF next = Reading THEN NextIs("cancelled", Nothing)
             ELSE NextIs("done", Nothing)
  /\ current' = Nothing
  /\ UNCHANGED <<runner, inputClosed, answer, initialized,
                 active, latest, available, warnings, interrupt>>

FinalReader ==
  /\ StopsReader
  /\ IF ~HasTask THEN Go("ended") /\ CloseTape
     ELSE IF runner = "provider" THEN Go("final_teardown") /\ UNCHANGED session
     ELSE /\ Go("final_join")
          /\ IF TaskDone(active) THEN UNCHANGED session
             ELSE Makes(active, Interrupts(session[active]))

(* slip: the session is left to itself *)
FinalJoinHasty ==
  /\ loop = "final_join"
  /\ Go("ended") /\ CloseTape
  /\ LoopStep
  /\ UNCHANGED <<answer, active, latest, interrupt>>

FinalJoin ==
  /\ loop = "final_join" /\ TaskDone(active)
  /\ Go("ended") /\ CloseTape
  /\ LoopStep
  /\ UNCHANGED <<answer, active, latest, interrupt>>

(* The loop's task is cancelled once.  Awaiting the session's task passes  *)
(* the cancellation on to it; a provider's requests hold it back.          *)
Interrupt ==
  /\ "interrupt" \in Faults /\ interrupt = "none" /\ loop # "ended"
  /\ CASE loop \in {"tearing_down", "final_teardown"}
          \/ (loop = "cancelling" /\ runner = "provider") ->
            interrupt' = "pending" /\ UNCHANGED <<loop, answer, warnings, session>>
       [] loop \in {"reaping", "joining", "final_join"} /\ ~TaskDone(active) ->
            /\ interrupt' = "delivered"
            /\ Makes(active, Interrupts(session[active]))
            /\ UNCHANGED <<loop, answer, warnings>>
       [] loop \in {"stopping_reader", "final_join"} /\ (loop = "final_join" => TaskDone(active)) ->
            interrupt' = "delivered" /\ UNCHANGED <<loop, answer, warnings, session>>
       [] OTHER ->
            /\ interrupt' = "delivered" /\ Leave
            /\ warnings' \in {warnings} \cup (IF loop = "warning" THEN {warnings + 1} ELSE {})
            /\ UNCHANGED session
  /\ UNCHANGED <<runner, input, current, initialized, active, latest, available>>

-----------------------------------------------------------------------------
SessionProgress(s) ==
  \/ SessionAnnounces(s) \/ SessionSelects(s) \/ SessionShowsTerminal(s)
  \/ SessionSettles(s) \/ SessionReturns(s) \/ SessionFails(s)
  \/ SessionInterrupted(s) \/ SessionSwallows(s) \/ SessionWarns(s)

LoopTakes(c) ==
  \/ LoopRefuses(c) \/ LoopInitializes(c) \/ LoopStarts(c) \/ LoopIgnoresCancel(c)
  \/ LoopCancels(c) \/ LoopStops(c)

LoopProgress ==
  \/ LoopReaps \/ LoopInputFails \/ (\E c \in Commands : LoopTakes(c))
  \/ LoopAnswered \/ LoopWarned \/ LoopSelects \/ LoopRequestReturns
  \/ LoopReapsCancelled \/ LoopJoins \/ FinalReader \/ FinalJoin

Next ==
  \/ (\E c \in Sendable : LineArrives(c)) \/ CloseInput \/ InputEnds \/ ReadFails
  \/ (\E s \in SessionIds :
        SessionProgress(s) \/ SessionWriteFails(s) \/ SessionRecordFails(s))
  \/ LoopProgress \/ LoopWriteFails \/ Interrupt

Spec == Init /\ [][Next]_vars

(* The event loop runs every ready task, sessions end by themselves (the   *)
(* tape is finite, provider work has a deadline) and the end of input is   *)
(* read; one session runs at a time.  The client need not do anything, and *)
(* nothing need fail.                                                      *)
FairSpec ==
  /\ Spec /\ WF_vars(LoopProgress) /\ WF_vars(InputEnds)
  /\ WF_vars(\E s \in SessionIds : SessionProgress(s))

-----------------------------------------------------------------------------
(* Properties *)

TypeOK ==
  /\ runner \in Runners
  /\ inputClosed \in BOOLEAN
  /\ next.state \in {"reading", "done", "broken", "cancelled"}
  /\ next.command \in Commands \cup {Nothing}
  /\ loop \in {"waiting", "answering", "warning", "cancelling", "tearing_down",
               "reaping", "joining", "stopping_reader", "final_teardown",
               "final_join", "ended"}
  /\ current \in Commands \cup {Nothing}
  /\ initialized \in BOOLEAN /\ available \in BOOLEAN
  /\ active \in SessionIds \cup {NoSession} /\ latest \in SessionIds \cup {NoSession}
  /\ warnings \in Nat
  /\ interrupt \in {"none", "pending", "delivered"}

(* Whatever fails and whenever the loop is interrupted, a session's task   *)
(* runs and its transcript is open only while the loop owns them, and an   *)
(* ended runtime has joined both and its reader (run_runtime's finally,    *)
(* and every place that clears active_session).                            *)
NothingOutlivesItsOwner ==
  /\ \A s \in SessionIds :
       TaskLive(s) \/ session[s].tape = "open" =>
         s = active /\ loop # "ended"
  /\ loop = "ended" => next # Reading

(* A cancellation obeyed in silence leaves its session's terminal on       *)
(* stdout before the next command is taken (runtime.py:571-583), and one   *)
(* refused had no live session for its target.                             *)
CancelsAnsweredTruly ==
  loop = "waiting" /\ current.kind = "cancel" =>
    /\ answer = "silence" => current.target # NoSession
    /\ answer = "not_initialized" => ~initialized
    /\ current.target # NoSession => session[current.target].shown \in Terminals

(* Recording that failed is told at most once in the life of the process,  *)
(* across all its sessions, and never again attempted (transcript_         *)
(* available).                                                             *)
WarnedOnce ==
  /\ warnings <= 1
  /\ warnings = 1 => \A s \in SessionIds : session[s].tape # "open"

(* The end of its input ends the runtime, whatever it was doing.           *)
InputClosedEnds == inputClosed ~> (loop = "ended")

(* docs/walking-skeleton.md:132 of session.completed: "Completed status;   *)
(* another task is allowed".  A start sent after the completion is not     *)
(* refused because of that session.  The code holds the session until its  *)
(* task is reaped (runtime.py:437), and the task still tells a failure of  *)
(* the terminal's record (runtime.py:485) after the terminal is out.       *)
AnotherTaskIsAllowed ==
  current.kind = "start" /\ current.idle
    /\ active # NoSession /\ session[active].shown = "completed" =>
  answer # "session_active"
=============================================================================
