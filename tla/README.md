# TLA+ specifications of code-assist-harness

Code-assist-harness is a terminal client (TypeScript, `tui/`) that starts a
Python runtime (`src/code_assist_harness/`), sends it JSON-line commands and
renders the events it answers with. One task is one *session*. This directory
holds the specifications of everything a session passes through: the client's
supervisor of the runtime process, the line readers at both ends of the pipe, the
runtime's command loop, the two kinds of session, the lifecycle reducer both
languages share, the OpenAI operation below a provider session, and the transcript
beside it.

Paths below are relative to the repository; line numbers are those of
`src/code_assist_harness/provider_session.py` when no file is named.

## Inventory

| Component | State it keeps | Operations | What is hard | What makes it correct |
|---|---|---|---|---|
| Provider session (`provider_session.py`) | selection, finalizer, deadline latch, cleanup and its mode, pending read, accepted text, projection | `run`, `request_cancellation`, `request_teardown`, accepting an observation, the watcher, the finalizer | six kinds of asyncio task share two locks; shielded transactions outlive a cancelled caller; writes fail; the provider hangs | one outcome, the one selected first; the deadline first of all; nothing published after it; the terminal after all work stopped; all work joined |
| Mock session (`mock_session.py`) | outcome, cancel command, projection, index | `run`, `request_cancellation` | publication from a cancellable task; the start is written outside the lock | same contract as the provider session |
| Lifecycle reducer, Python and TypeScript (`session_state.py`, `session-lifecycle.ts`) | the projection | reduce, replay | two implementations; eleven kinds of input in eight statuses | accepts exactly the histories of one session; the two agree |
| Loop budgets (`loop_limits.py`) | counters, first exhaustion | admit, reserve, observe, mark, snapshot | first exhaustion wins; a rejected tool call is counted | evidence always valid and true to the terminal |
| Ordered writer, line readers (`protocol/streams.py`, `protocol-stream.ts`) | per-session sequence; a partial line | emit, feed, finish | cancellation during a write; oversized lines at chunk boundaries | sequence = lines published; one result per line |
| Runtime loop (`runtime.py`) | active session and its task, last terminal session, transcript | initialize, start, cancel, shutdown, end of input | a command read while a session ends; teardown on end of input | one active session; no command answered against a dead one |
| Transcript (`persistence/transcript.py`) | record order, bytes, latched failure | record, append, roll back, summary, replay | partial writes, crash before the summary | what is on disk replays; a failure is reported once |
| Supervisor (`runtime-supervisor.ts`) | runtime status, validated projection, pending cancellation, timers | start, submit, cancel, stop, accept an event | exit, readiness timeout, stop and failure race | always reaped; no event accepted after failure |
| OpenAI adapter (`provider/openai_responses.py`) | operation state, owned SDK call, terminal queue | next event, cancel, wait_closed, force | cancel against a queued terminal | one terminal or none; resources closed once |
| Fake provider (`provider/fake.py`) | script position | as above | test-only gates | port contract |
| Repository access, workspace (`repository_access.py`, `workspace.py`) | none (bounded traversal) | read, list, search | path policy | stays within the root |
| Values, codec, configuration, UI | none | validate, encode, render | none | data |

Interaction: the client writes command lines; the runtime loop creates one
session object per accepted task and runs it as a task; the session publishes
through the ordered writer, feeds every fact and written event to the reducer,
and calls the transcript's observers; `request_cancellation` comes from the
loop, and `request_teardown` (or a cancellation of the mock's task) when the
input ends; the client reduces every event with its own copy of the reducer.

`PROJECT.json` lists the components with their status and the hazards, each at
its line with the properties that would catch it.

## Modules

    SessionLifecycle          reducer of session_state.py, as operators
      SessionLifecycleTs      its TypeScript copy
        LifecycleReplay       both folded over one stream; LegalHistory
          LifecycleReplayProofs  theorems
      SessionLifecycleProofs  what the reducer keeps, and an induction its folds need
    LoopLimits                the budget tracker, as operators
    SessionContract           what every session promises (abstract)
    ProviderSession           one provider-backed session  -> SessionContract
      ProviderSessionProofs   theorems
    MockSession               the deterministic session    -> SessionContract
      MockSessionSeen         the same, with what its events have shown
        MockSessionProofs     theorems
    SessionView               what the loop sees of a session, and how that may move;
                              kept by ProviderSession and MockSessionSeen, used by RuntimeLoop
    OpenAIOperation           the provider's side of the port: one streamed turn
      OpenAIOperationProofs   theorems
    RuntimeLoop               the command loop, over sessions that make SessionView's moves
      RuntimeLoopProofs       theorems
    Transcript                writer, file, crash, replay; uses SessionLifecycle
      TranscriptProofs        theorems
    LineReaders               both readers of the pipe, run beside LifecycleReplay
                              (theorems in LifecycleReplayProofs)
    RuntimeSupervisor         the client's owner of the runtime process
      RuntimeSupervisorProofs theorems
    MC*                       instances for TLC

**SessionLifecycle / SessionLifecycleTs.** A text is a sequence of fragments, so
appending and comparing texts keep their meaning. The two modules are written
after the structure of each program: the Python one checks statuses, correlation,
identity, sequence and payload in that order; the TypeScript one consults its
transition table first. `LegalHistory` in `LifecycleReplay` defines a session's
histories by quantifying over positions of the stream, without a state, so that
"the reducer is right" does not mean "the reducer is itself".

**ProviderSession.** asyncio runs one task at a time, so an action is what one task
does between two suspension points. `runner`, `txn`, `watcher`, `read`, `cleanup`,
`finalizer`, `cancelReq[c]` and `teardownReq` say where each task is:

| Variable | Task | Actions |
|---|---|---|
| `runner` | `run()` 329-375 | `Run`, `StartOperation`, `StartRefused`, `Wake*`, `RunnerReaps`, `SelectProviderDeadline`, `*Resumes`, `TeardownJoined`, `FailureSelected`, `FailureJoined` |
| `txn` | the transaction `run()` shields: `_publish_started`, `_accept_observation`, `_select_invalid_response`, `_select_teardown` | `BeginStarted`, `StartedWritten`, `DeferredApplied`, `Accept*`, `DeltaWritten`, `UsageRecorded`, `RejectTransaction`, `TeardownTransaction` |
| `finalizer` | `_finalize` 794-805 | `FinalizerStarts` ... `TerminalWritten` |
| `cleanup` | `_supervise_provider_cleanup` 836-885 | `CleanupReturns`, `GraceExpires`, `ForceReturns` |
| `watcher` | `_watch_provider_deadline` 770-776 | `WatcherFires` |
| `read` | `_next_provider_event` | `ProviderYields`, `ReadAnswersCancel` |
| `cancelReq`, `teardownReq` | the request methods 377-413 | `CancelDecide`, `CancelSelect`, `CancelJoined`, `TeardownDecide`, ... |

The decision lock is held across awaits and is a variable. The deadline-state lock
is not: no critical section under it awaits, so nobody ever waits for it. A
lifecycle observer's await is part of the step before it unless a decision still
follows it. `EnsureCleanup` turns the RuntimeError of line 830 into the mode
`"conflict"`, so that a property can exclude it. `due` is the clock having reached
the deadline, `latched` the session having noticed.

**MockSession.** `run` is where `run()` is; a place in `WritingPlaces` is a write in
progress under the lock. A cancellation of the task lets that write finish and
commit its sequence (`protocol/streams.py` 302-310), unless it was still waiting
for the writer's lock.

**SessionContract.** Less than the reducer permits, and what a user relies on: no
text after an accepted cancellation, a sealed text only ever completes, a
completion has text. Both sessions implement it under the mapping
`status, said, sealed <- lifecycle.status, .assistant_text, .assistant_completed`.

**OpenAIOperation** (`provider/openai_responses.py`). Five kinds of task: the consumer
(`consumer`), the SDK call it owns (`task`), the cleanup (`cleanup`), and the callers
of `cancel`, `wait_closed` and `force_cancel_cleanup` (`call[c]`). A step runs from one
await to the next. `task.cancelled` and `cleanup.cancelled` say that `Task.cancel` was
called, not that it was obeyed: the SDK may answer after it, or swallow it. The
response automaton is the relation `Accepted`, one tuple per observation its states
admit; every other observation is the failure of `accept`. `held` is
`_owned_task` being set; a cancelled consumer clears it only when it wakes, and
`force_cancel_cleanup` reads it.

**SessionView.** A session from outside: the status its events show (`shown`), the
outcome it is committed to (`selected`), that outcome's finalization (`settled`), the
task of `run()` (`task`), and whether that task was cancelled and has not met it yet
(`interrupt`). A move maps a view to the set of the views it may become; it is written
once and used twice. `RuntimeLoop`'s sessions are views that make these moves. Both
session modules say what their view is (`Seen`) and that every step of theirs is at most
three moves of it (`KeepsView`): a cancelled mock, for one, is interrupted, finishes the
write in progress and ends in one step of `MockSession`. What `ProviderSession` shows can
be told from its reducer; a mock's reducer may lag the wire for good, so `MockSessionSeen`
adds what was shown as a history variable.

**RuntimeLoop** (`runtime.py`). `loop` is where `run_runtime` waits, `next` the line
read ahead. A session is a view with its transcript (`tape`) and whether it is telling of
a failed record (`warning`). A start command carries one bit the runtime does not
see, `idle`: whether every session the client knew had shown its terminal when the
line was sent. `Takes` uses it for the one order of steps that asyncio's FIFO ready queue
fixes and a property depends on: an answer to a terminal event passes through the reader's
callback, its queue, the `next_command` task and the `wait`, so the session's task, which
only has to return, is reaped first (328-337). It has more to do only when the terminal's
record failed, and its warning is another write.

**Transcript** (`persistence/transcript.py`). The writer runs beside the live reducer
state `live` and its own sanitized one, `safe`. `Appends` and `Summaries` list every
way an append or a summary may end: done, failed with the rollback done or not, or cut
by a crash after which nothing runs. `Replay` is the reader, a fold over the lines that
are on disk. A text is a sequence of pieces with a size; the sanitizer may redact a
piece, cut it or put a mark in its place.

**LineReaders** (`protocol/streams.py`, `protocol-stream.ts`). Bytes are an ordinary
one, the two halves of a longer character, a carriage return and a line feed. `Feed` and
`Push` follow the two programs: the Python reader takes a chunk piece by piece (one
`FeedSegment` for each turn of its loop), the TypeScript one byte by byte. `Expected`
splits the whole stream at its line feeds, without a reader.

**RuntimeSupervisor** (`runtime-supervisor.ts`). Node runs one callback at a time, so an
action is one method or callback. `writes` holds the commands whose write has not been
answered; `child` goes none, spawning, alive, gone; `stopper` is where `stop()` waits.

A definition whose comment begins with "slip" is not part of a model. It is a way
to get the next definition wrong; `PROJECT.json` names, for each property, the slip
TLC shows it to notice.

## Runs

| Run | Instance | Distinct states | Shows |
|---|---|---|---|
| `provider_session` | two cancellations (symmetric), one teardown request, one fragment of one byte against a budget of two, one cancellation of `run()`, fresh tracker or one at the turn limit | 3.3M | safety with a working sink; the contract |
| `provider_faults` | any write may fail, `run()` cancelled, a teardown request, no cancellation; every tracker (fresh, at the turn limit, at the tool-call limit) | 0.39M | `run()` ends, with true evidence, and moves as the loop's sessions do |
| `provider_liveness` | one cancellation, working sink | 0.27M | the terminal is reached; requests are answered |
| `provider_outer_cancel` | failing sink, `run()` cancelled | violated | finding below |
| `lifecycle_replay` | two commands, sessions and fragments, histories up to 8 updates; or a stream of six bytes in chunks of up to three against a line limit of two | 41k (symmetric) | reducers agree and accept exactly legal histories; line readers agree |
| `mock_session` | tape of three deltas as in the code, two cancellations, failing writes, cancelled task | 0.5k | the mock keeps the contract, ends, and moves as the loop's sessions do |
| `openai_operation` | a consumer, two cancellations, one waiter, one forced cleanup | 0.45M | calls return the truth, events keep the port, force ends everyone |
| `transcript` | deltas of 3 and 5 bytes, text limit 4, marker 2, replay limit 5, seven records, events up to sequence 6 | 0.21M (symmetric) | what is on disk replays, through every failure and crash |
| `runtime_loop` | two sessions of either kind, every fault, any number of lines | 1.2M | answers are true, a failed recording is told once, nothing is left |
| `runtime_loop_ends` | one session of either kind, otherwise the same | 0.18M | the end of input ends the runtime |
| `runtime_loop_idle` | two provider sessions, records may fail | violated | finding below |
| `runtime_supervisor` | one child, one `start`, one `stop`, any number of tasks | 0.8k | statuses, start and stop, nothing left behind |

Properties aimed at the hazards (each comment in the module says which code it is
about): `CleanupModeIsFinal` (no cleanup-mode error), `DeadlineWins`,
`TerminalIsSelected`, `NothingAfterSelection` (one decision, and nothing after it),
`TerminalAfterProviderStops`, `RunJoinsProviderWork` (nothing left running),
`ProjectionFollowsWire`, `AcceptedTextIsPublished` (wire, reducer and session
agree), `EvidenceMatchesTerminal` (budgets, and output refused only when it did not fit),
`RequestsAnsweredTruly`, `FinalizerNeverFails`, `KeepsContract`, `KeepsView` (what the
loop takes for granted of a session), and the liveness properties `TerminalReached`,
`RequestsAnswered`, `RunEnds`. Of the OpenAI operation:
`ReturnsAreHonest`, `EventsKeepThePort`, `ForceFreesEveryone`. Of the transcript:
`WriterAndReaderAgree` (the writer admits exactly what the reader accepts),
`FileReplays`, `SummaryTellsTheTape`, `FirstFailureIsTheLast`. Of the loop:
`NothingOutlivesItsOwner`, `CancelsAnsweredTruly`, `WarnedOnce`, `InputClosedEnds`. Of
the supervisor: `NothingLeftBehind`, `StatusMovesOn`, `StartAndStopSettle`. Of the
readers: `ReadersAgree`.

The `TypeOK` of `ProviderSession`, `OpenAIOperation`, `RuntimeLoop` and
`RuntimeSupervisor` is proved below and is not checked by a run. For the provider session
three more things are left to their theorems, which are not limited to an instance:
`ProjectionFollowsWire` and `RunJoinsProviderWork` when the sink fails, `KeepsView` when
the user cancels.

### Bounds and why they suffice

- Two cancellations give the winner, the repeated one and the late one. They are
  interchangeable, hence the symmetry; it is used in safety runs only.
- A budget of two bytes lets a delta pass, one fill the budget and one overflow it.
- `MaxOuterCancels` = 1: `run()` swallows or acts on a cancellation at each await,
  and one is enough to meet every await. `TeardownJoined` also swallows a second
  one; that path has no further choice.
- `Seeds`: production always passes a fresh tracker (line 1083). One tool call ends
  a session, so the tool-call and turn limits are reached only from the trackers
  the constructor accepts for that purpose (`tests/test_provider_session.py:493`,
  `:1058`). The second is part of `provider_faults` only,
  so `FinalizerNeverFails` meets a session at the tool-call limit only in its theorem.
- `MaxHistory` = 8: task, start, approval, resolution, delta, completion,
  cancellation, terminal. The reducers' states depend on counts only through the
  next sequence.
- Line readers: a limit of two bytes and streams of six hold a line at the limit, one
  beyond it, what follows it, and an unfinished one, each split at every place.
- `openai_operation`: two cancellations give the winner and the one that joins it; the
  stream has one text, because the automaton's loop on further deltas adds no state.
- `transcript`: a text limit of four lets a delta of three fit, the next be cut or find
  only the marker's room, and one of five be cut at once; a replay limit of five is
  passed by what those leave. Seven records hold task, start, two deltas, usage or
  completion, limits and terminal, and are one too few for the longest session, so that
  the file also fills up. After a writer is done one further record is offered.
- `runtime_loop`: two sessions, so that a command may name the one before and a start
  may meet the one before it; one line read ahead, as in the code; one interrupt.
  `runtime_loop_ends` has one, which is what a check of liveness in reasonable time
  allows. The end of input waits for the active session only, and of a session let go the
  loop keeps its name and whether recording goes on (`available`, free in `Init`).
- `runtime_supervisor` has no bound: its state is finite.

### Fairness

`Fairness` asks that the event loop runs each task that is ready, that a write
settles, that the clock advances, and that a cancelled read and a forced cleanup
end. The last two are the contract of `provider/port.py` (35-65), which the session
cites at 902. Nothing obliges the provider to answer a read or to finish an
ordinary cleanup, or anyone to request anything. The grace always expires because
it is the session's own timer.

`openai_operation`: only what was cancelled, and a call whose wait is over, must go on;
the SDK may otherwise take for ever. `runtime_loop_ends`: the loop runs when it can,
sessions end by themselves (`SessionEnds` of the mock, `TerminalReached` of the provider
session), the end of a closed input
is read; no client must send anything and nothing must fail. `runtime_supervisor`: a
spawn settles, the two timers of `stop()` fire, and a process group that was sent SIGKILL
closes. A child that ignores everything else is allowed.

### Findings

`provider_outer_cancel`: `run()` documents that it ends in `CancelledError` "after
outer cancellation has stopped and joined provider work" (338). When a write fails,
the `except Exception` handler awaits a shielded selection (367); a cancellation
arriving there leaves the handler before the join (368-373), and `run()` ends with
its finalizer at work. With a working sink the handler is never reached and
`RunJoinsProviderWork` holds; without an outer cancellation it holds even when writes
fail.

`runtime_loop_idle`: `docs/walking-skeleton.md:132` says of `session.completed` that
"another task is allowed". The terminal event is written from inside the session's task;
the loop clears `active_session` only when it has reaped that task (`runtime.py:328`).
As long as recording works, the task has returned and is reaped before a start sent after
the terminal has come in, and TLC finds no violation with `Faults = {}`. When the record of
that terminal, or its summary, fails, the task first writes the warning (`runtime.py:485`).
A start that answered the terminal before the failure was met (a mock session records
without suspending, so there the answer must be waiting in the pipe already) is taken
while the warning is written and answered `session_active`. One sent later finds the
session gone. The loop takes care of this for cancellations (573-576) and not for
completions. The client has no way back from it: `submitTask` entered `starting` when it
wrote the command (`runtime-supervisor.ts:412`), a recoverable error is shown as a warning
(721), and every later `submitTask` is refused (376).

Three things met while modelling that contradict no document:

- A forced cleanup or a cancelled consumer that arrives exactly when the SDK's `create`
  has answered drops the stream it returned (`openai_responses.py:370`); the operation
  then knows of no stream, and only closing the client releases it.
- A command whose write fails after the child's `close` replaces `unexpectedly-exited` by
  `protocol-failed` (`runtime-supervisor.ts:415`, 817). `StatusMovesOn` allows that step.
- An append that fails and cannot be rolled back leaves a torn last line, and
  `replay_transcript` then refuses the file as a whole (`transcript.py:1074`).
  `FileReplays` speaks of the complete lines.

## Proofs

Every invariant and every action property a passing run checks on an instance is a
theorem, and so is the refinement of `SessionContract` by both sessions. So is that both
move as `SessionView` lets the loop's sessions move, which is what the theorems about the
loop assume of its sessions; neither has a hypothesis on the sink, on the provider or on
who cancels `run()`. TLC checked the inductive invariants below on small instances before
they were proved.

### The reducers and their histories

`LifecycleReplayProofs`, for any identities, texts and lengths of stream (assumptions:
`NoneAssumption`, `MaxHistoryAssumption`):

- `TwinReducersAgree` (`ReducersAgree`). `TwinsReduceAlike` shows the Python reducer and
  its TypeScript copy to be one function of every typed state and every input, check by
  check, though one asks its transition table first; the folds then never part.
- `ReducerDecides` (`ReducerDecidesHistories`). `LegalHistory` quantifies over positions,
  so `LegalIfItMayFollow` first reduces "the history extended by `u` is legal" to
  conditions on the last update (`MayFollow`), clause by clause. The invariant `Folded`
  says that the projection tells what those conditions ask (`Describes`): its status the
  length of the history and its last update (`PlaceAgrees`), the identity and sequence
  its first two updates and the number of its events, the cancelling command the one
  cancellation (`CancelAgrees`), a pause one approval more than answers (`PauseAgrees`),
  the text its deltas joined (`TextAgrees`). `AcceptsWhatMayFollow` compares the two.
- `ProjectionNeverForgets` (`ProjectionIsMonotone`), from `Fresh`: before
  `session.started` there is nothing to lose.

### The line readers

`LifecycleReplayProofs`, part six, for every line limit, stream and chunking
(`LineReadersAssumption`): `ReadersAlwaysAgree` (`ReadersAgree`), of the readers' own
specification `ReadersSpec`. The invariant `BothRead` says that until the end each reader
`Reads` the stream so far: it reported the stream's `Lines`, and holds the unfinished one,
`Rest`, in its buffer, or has told it too long and is discarding. Around it:

- the meaning of a stream grows by one byte at a time (`RestOfOneMore`, `LinesOfOneMore`):
  a line feed adds a line and empties the rest, another byte lengthens the rest;
- `PushDefined` unfolds the TypeScript fold by one byte and `FeedDefined` the Python loop
  by one turn, both by `SetInduction`; the second shows that as many turns as the chunk
  has bytes are enough, since a turn leaves less of the chunk than it found;
- `TsTakesOne` is one byte of the TypeScript reader. `SegmentGoesOn` is one segment of the
  Python reader, by the bytes of which the meaning grows; a line that passes the limit
  inside a segment is told once there, and again by nobody.

That both report the same follows: each reports what the stream means.

### Provider session

`ProviderSessionProofs`, for any commands, fragments, budgets, seeds and numbers of
outer cancellations (assumptions: `NoneAssumption`, `LimitsAssumption`,
`SessionAssumption`, which TLC evaluates). Its invariant is proved in layers, each from
the ones before it, so that a step is examined once for each thing it can disturb:

- `DecisionInv`: the decision and the cleanup. `CleanupModeIsFinal` is not inductive:
  that a finalizer finds a running cleanup in its own mode depends on the deadline being
  the only one that begins a cleanup before an outcome is selected (`CleanupAgrees`),
  and on a latched deadline being the only outcome selected after (`BudgetAgrees`).
  Gives `DeadlineTakesPrecedence` and `CleanupModeNeverChanges`.
- `TypeOK` with `PublishingInv` (`TypeCorrect`): a deferring transaction has a deferred
  command, a selected completion has its text.
- `PlacesInv`: the lock is held by the one task whose place says so. Every later layer
  needs it to know that between a test of the selection and the write that follows it
  nobody else selected.
- `WorkInv`: past each of its awaits the finalizer has the pending read, the watcher and
  the cleanup behind it.
- `TextAgrees` gives `AcceptedTextIsThePublishedText`.
- `StatusInv`: the reducer's status follows the decision. That a written event is never
  refused depends on it, since the reducer is asked after the write. Gives
  `ProviderProjectionFollowsWire`, `TerminalIsTheSelectedOutcome`,
  `NothingFollowsASelection` and, with the reducer's lemmas, `ProviderKeepsContract`:
  a step that writes or accepts a cancellation is a step of the contract, every other
  one leaves its variables alone.
- `SeenAgrees`: nothing is shown exactly while the reducer is starting, `run()` is left by
  its end or a failure only after the finalizer, and a handler that has settled has an
  outcome. It gives `ProviderKeepsView`. `ViewDecides`, `ViewSettles`, `ViewAnnounces`,
  `ViewRuns` and `ViewInterrupts` treat the fields of the view: which steps change a
  field, and to what; `SeenMoves` puts them together, one group of actions after the other
  (`RunnerMoves`, `SettlementMoves`).
- `EvidenceAgrees`: what is recorded is the tracker at the selection
  (`EvidenceTellsOfTheTerminal`); with `WorkInv`, `TerminalComesAfterTheProvider`.
- `LeavesAgree` and `AnswersAgree`: how `run()` is left and what the requests are told.

Three theorems have a hypothesis on the environment, the one their run has:
`OnlyTheSinkFailsTheFinalizer` (`FinalizerNeverFails`) and `RequestsAreAnsweredTruly`
(`RequestsAnsweredTruly`) assume `SinkFaults = FALSE`, since a terminal that cannot be
written raises in the code and the session then ends unannounced;
`RunLeavesNothingBehind` (`RunJoinsProviderWork`) assumes
`SinkFaults = FALSE \/ MaxOuterCancels = 0`, and `provider_outer_cancel` shows the
hypothesis to be needed. All the others hold with a failing sink and any number of outer
cancellations. `SessionAssumption` includes `None \notin Trackers`: a missing evidence is
no evidence.

### Mock session

`MockSessionProofs`, for every tape, any number of cancellations and a sink that may
fail: `MockProjectionFollowsWire`, `MockRequestsAnsweredTruly` and `MockKeepsContract`,
from `MockInv`. An event is accepted or not depending on where `run()` is when it writes
it, and that on which task took the lock before: hence `LockAgrees`, `OutcomeAgrees`,
`StatusAgrees`; `TextAgrees` (the reducer holds the part of the tape that was emitted)
makes the completion confirm; `SequenceAgrees` bounds the lag of a write that outlived
its task; `AnswersAgree` is what the requests are told. `MockKeepsView`, of
`MockSessionSeen`, adds what was shown where `run()` is (`SeenInv`).

### Transcript

`TranscriptProofs`, for every session, text, piece size and limit
(`TranscriptAssumption`; the failure codes are not `None`): `WriterAgreesWithReader`,
`FileAlwaysReplays`, `SummaryStandsForTheTape`, `NothingAfterTheFirstFailure`, from
`TranscriptInv`. Its heart is `WriterAgrees`: while the writer is sound, the reader run
over the file would hold the writer's own state, its evidence, its order and its bytes.
`TapeAgrees` is what survives a failure or a crash, when nothing is known of the writer.

The replay and the size of a text are recursive functions of sequences of any length.
`ReplayOfOneMore` and `BytesOfOneMore` unfold them by one element; they rest on
`SetInduction` (in `SessionLifecycleProofs`): a set of numbers that contains zero and is
closed under successor contains them all, from the well-foundedness of `<`. A set takes
the place of the predicate the library's induction theorems quantify over. The text of a
history's deltas (`FlattenOneMore`) is treated the same way.

### Operation, loop, supervisor

`OpenAIOperationProofs`, for any numbers of callers of `cancel`, `wait_closed` and
`force_cancel_cleanup`: `OperationInvariant` (`Spec => []Inv`), `ReturnsStayHonest`
(`ReturnsAreHonest`) and `EventsStayLegal` (`EventsKeepThePort`). That a returned call
told the truth depends on who still owns what, so `Inv` adds to `TypeOK`:

- `WorkIsOwned`: the SDK task, the consumer and `_owned_task` name the same work;
- `CleanupIsLast`: once the cleanup is past the task, no task and no stream appears
  behind it, and a cleanup that did not fail has released both;
- `CallsAreTold`: what each waiting call may still be answered, and that one
  cancellation at most was selected;
- `EventsAreOrdered`: the last event the consumer had, the automaton's state and the
  terminal queue tell of the same point of the stream. Without it a queued completion
  could follow a text that never ended.

`RuntimeLoopProofs`, for any number of sessions, of either kind, under any faults:
`LoopTypeCorrect`, `LoopJoinsWhatItStarts` (`NothingOutlivesItsOwner`),
`CancellationsAreTrue` (`CancelsAnsweredTruly`) and `RecordingFailsOnce` (`WarnedOnce`),
from `RuntimeAssumption`. The invariant:

- `Shapes`: domains, and targets that are sessions; a session record is only touched
  field by field, and `Becoming` says what a touch leaves alone;
- `OwnerAgrees`: only the active session runs or records; one let go is over; one
  whose task is not created yet is met only while its warning is written or on the
  way out;
- `ExitAgrees`: past the reader nothing is read, at the end nothing runs;
- `SessionsAgree`: a session that returned showed its terminal unless it was torn down,
  and a provider session's finalizer has ended when its task is cancelled, because the
  loop asks for the teardown before it waits for the task;
- `TerminalsAgree`: where the loop goes back to waiting, a teardown was selected only by
  sessions that fail. This is why a cancellation obeyed in silence leaves a terminal
  behind;
- `CancelsAgree`: a cancellation names a session its client saw, and the loop holds it
  until it is reaped;
- `RecordingAgrees`: recording goes on, or its failure is being told, or was told.

`Moving` says once what a move of `SessionView` keeps of all this. `ReapKeeps` and
`LeavingKeeps` treat the two ways on that many steps share.

`RuntimeSupervisorProofs`: `SupervisorInvariant`, `NothingIsLeftBehind`
(`NothingLeftBehind`) and `StatusOnlyMovesOn` (`StatusMovesOn`). The instance of the run
is all there is of this machine, so the proof adds an argument, not a range:
`LifeAgrees` (the child's life and the calls of `start` and `stop`), `StatusAgrees` (what
the status says of both), `TimerAgrees` (the deadline and the writes have a child).

### Model-checked only

- Liveness (`TerminalReached`, `RequestsAnswered`, `RunEnds`, `SessionEnds`,
  `InputClosedEnds`, `StartAndStopSettle`, `ForceFreesEveryone`): fairness and `ENABLED`
  are beyond the prover.

## Left out, and why

Not modelled:

- Repository access and workspace: path and file-system policy, which no session calls
  yet; its only state is the local bookkeeping of one synchronous traversal.
- Values, codec, configuration, launch, UI: data in, data out. The conversation
  projection folds the reducer modelled here over updates the supervisor has validated.
- Fake provider: a scripted test double; `ProviderSession`'s environment does all it
  can be told to do, and more.
- The ordered writer's own lock and a second cancellation of its caller
  (`protocol/streams.py:307`): production's sink writes without suspending
  (`runtime.py:201`), so both are over before anyone else runs. The sequence it commits
  is part of both sessions.

In the modules:

- `ProviderSession`: lines 563-565 (fixed ceiling of 8192 bytes) are unreachable, the
  configurable budget never exceeds it; every way out of the reading loop has selected
  before 351-352; `_terminal_emitted` and `_limits_observed` follow from there being one
  finalizer, which reports once. Clock readings that raise, argument-type checks, the
  text of tasks and messages, observers that raise, and a caller that cancels
  `request_cancellation` (the request is a shielded task) are left out. The runtime's
  observers catch persistence failures but may raise from the warning they then write
  (`runtime.py:485-536`): a delta may then be reduced (572) and not appended to the
  accepted text (573), a cancellation reduced and not selected (676). `MockSession` leaves
  the same out, merges a task cancelled before its first step with one cancelled at it, and
  has no observer interrupted after a reduction. Two over-approximations: a step that awaits
  something already done is still a step of its own, and a provider may answer after it was
  cancelled.
- `OpenAIOperation`: building the request, and the fields of an observation; which
  observation is acceptable depends only on its kind here. Whether closing the client
  ends a stream that was dropped (`openai_responses.py:371`) is the SDK's business. A
  caller cancelled while it joins `cancel`, `wait_closed` or the forced cleanup
  (`openai_responses.py:200`, 231, 277) is left out: what it joins is shielded and goes on.
- `SessionView`, `RuntimeLoop`: an observer of a session that raises while a request of
  the loop is being answered is taken for a failure of the session itself, and the
  recording of a finalizer that outlives a cancelled, failing `run()` is left out (the loop
  asks a provider session to tear down before it cancels its task, so it meets none);
  options and provider composition; what arrives at a loop that is already
  leaving is never read.
- `Transcript`: opening the private file, versions 1 and 2 of the format, which patterns
  count as credentials (a redaction is a choice), the file's byte limit (its record limit
  is modelled and bites the same way).
- `RuntimeSupervisor`: preparing the launch and the environment; a pipe that fails emits
  an `error` event on stdin, for which no listener is installed (514-559, 679), beside the
  rejected write that is modelled; a `process.kill` that throws anything but "no such
  process" (1052-1055) makes `stop()` reject. The client's missing way
  back from a refused start (`runtime-supervisor.ts:412`) is code that does not exist;
  `runtime_loop_idle` shows the refusal.
- `LineReaders`: of a line's content, only whether it is empty, holds a carriage return
  or is UTF-8 matters; what the decoder makes of a framed line is the codec's business.

## Plan

Modelled so far: sessions, reducers, loop, supervisor, OpenAI operation, transcript,
readers; proved, all their safety. What is left, in this order:

1. Supervisor and loop composed over a pipe of commands and events, where a client that
   met `session_active` stays in `starting`.
2. The bounded traversal of `repository_access.py`, once a session calls it.
