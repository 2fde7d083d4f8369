---------------------------- MODULE OpenAIOperation ----------------------------
(***************************************************************************)
(* One operation of the OpenAI adapter (provider/openai_responses.py): a   *)
(* consumer draws events from the SDK's stream through a strict automaton; *)
(* a terminal is withheld until one shared cleanup task has closed stream  *)
(* and client; cancel() and wait_closed() join that task behind a shield,  *)
(* and force_cancel_cleanup() cancels it.                                  *)
(*                                                                         *)
(* A critical section of _state_lock never awaits, so the lock is never    *)
(* contended and a section is part of the step around it.  The SDK may     *)
(* answer anything, raise, ignore a cancellation, cancel by itself, and    *)
(* fail to close.                                                          *)
(***************************************************************************)
EXTENDS Naturals, Sequences

CONSTANTS Cancellers, Waiters, Forcers   \* calls of the three methods

VARIABLES
  state,       \* _state; _closed is set exactly when it is "closed"
  automaton,   \* _automaton._state
  client,      \* _client: "none", "open", "closed", "unconfirmed"
  stream,      \* _stream, likewise
  task,        \* the last SDK task: its kind, status and whether cancelled
  held,        \* whether _owned_task still refers to it
  cleanup,     \* _cleanup_task: its place, local failure, whether cancelled
  cleanupFailed,
  cancelSelected,
  queue,       \* _terminal_queue
  consumer,    \* where the consumer's __anext__ is
  consumerCancelled,
  last,        \* kind of the last event the consumer was given
  call         \* where each method call is, or what it returned

vars == <<state, automaton, client, stream, task, held, cleanup, cleanupFailed,
          cancelSelected, queue, consumer, consumerCancelled, last, call>>

Calls == Cancellers \cup Waiters \cup Forcers
NoTask == [kind |-> "none", status |-> "none", cancelled |-> FALSE]
NoCleanup == [place |-> "none", failed |-> FALSE, cancelled |-> FALSE]
CleanupExists == cleanup.place # "none"
CleanupDone == cleanup.place \in {"done", "cancelled"}
TaskDone == task.status # "pending"

Init ==
  /\ state = "active" /\ automaton = "created"
  /\ client = "none" /\ stream = "none"
  /\ task = NoTask /\ held = FALSE
  /\ cleanup = NoCleanup /\ cleanupFailed = FALSE
  /\ cancelSelected = FALSE
  /\ queue = << >>
  /\ consumer = "calling" /\ consumerCancelled = FALSE
  /\ last = "none"
  /\ call = [c \in Calls |-> "idle"]

-----------------------------------------------------------------------------
(* _ResponsesAutomaton.accept: which observation, with the identities and  *)
(* values of this response, is accepted where, the state it leads to and   *)
(* the events it maps to.                                                  *)
Failure == "failed"
Accepted ==
  {<<"created", "response.created", "queued_or_in_progress", << >>>>,
   <<"queued_or_in_progress", "response.queued", "in_progress", << >>>>,
   <<"queued_or_in_progress", "response.in_progress", "output_item_added", << >>>>,
   <<"in_progress", "response.in_progress", "output_item_added", << >>>>,
   <<"output_item_added", "reasoning.added", "reasoning_item_done", << >>>>,
   <<"reasoning_item_done", "reasoning.done", "message_item_added", << >>>>,
   <<"output_item_added", "message.added", "content_part_added", << >>>>,
   <<"message_item_added", "message.added", "content_part_added", << >>>>,
   <<"content_part_added", "content_part.added", "delta", << >>>>,
   <<"delta", "text.delta", "delta_or_done", <<"delta">>>>,
   <<"delta_or_done", "text.delta", "delta_or_done", <<"delta">>>>,
   <<"delta_or_done", "text.done", "content_part_done", <<"text_completed">>>>,
   <<"content_part_done", "content_part.done", "output_item_done", << >>>>,
   <<"output_item_done", "message.done", "completed", << >>>>,
   <<"completed", "response.completed", "terminal", <<"completed">>>>,
   <<"completed", "response.completed.usage", "terminal", <<"usage", "completed">>>>}

(* What accept makes of whatever the SDK answered: the state it goes to    *)
(* and the events it maps to.  Anything but an accepted observation - an   *)
(* error, a failed or incomplete response, a broken contract, the end of   *)
(* the stream - is one failure.                                            *)
Outcomes ==
  {[to |-> t[3], events |-> t[4]] : t \in {u \in Accepted : u[1] = automaton}}
    \cup {[to |-> "terminal", events |-> <<Failure>>]}

-----------------------------------------------------------------------------
(* The consumer. *)

EnsureCleanup ==
  cleanup' = IF CleanupExists THEN cleanup ELSE [NoCleanup EXCEPT !.place = "created"]

(* __anext__ gives its event unless its task was cancelled meanwhile. *)
Give(e) ==
  IF consumerCancelled THEN consumer' = "closing" /\ UNCHANGED last
  ELSE consumer' = "calling" /\ last' = e

(* _finish_terminal: the terminal is kept until the cleanup is over; when  *)
(* something else closes the operation the queue is not touched.           *)
Terminates(events) ==
  /\ IF state = "active"
       THEN queue' = events /\ state' = "resources_closing" /\ EnsureCleanup
       ELSE UNCHANGED <<queue, state, cleanup>>
  /\ consumer' = IF state = "closed" THEN "stopped" ELSE "joining"
  /\ UNCHANGED last

ConsumerFinds ==
  /\ consumer = "calling"
  /\ \/ /\ state = "closed"
        /\ consumer' = "stopped"
        /\ UNCHANGED <<state, queue, last>>
     \/ /\ state = "terminal_pending"
        /\ Give(Head(queue)) /\ queue' = Tail(queue)
        /\ state' = IF Len(queue) = 1 THEN "closed" ELSE state
     \/ /\ state = "resources_closing"
        /\ consumer' = "joining"
        /\ UNCHANGED <<state, queue, last>>
  /\ UNCHANGED <<automaton, client, stream, task, held, cleanup, cleanupFailed,
                 cancelSelected, consumerCancelled, call>>

(* _run_owned *)
RunOwned(kind) ==
  /\ task' = [NoTask EXCEPT !.kind = kind, !.status = "pending"]
  /\ held' = TRUE /\ consumer' = "owned"

ConsumerReads ==
  /\ consumer = "calling" /\ state = "active"
  /\ RunOwned(IF stream = "none" THEN "create" ELSE "next")
  /\ client' = "open"
  /\ UNCHANGED <<state, automaton, stream, cleanup, cleanupFailed, cancelSelected,
                 queue, consumerCancelled, last, call>>

ClientFactoryRaises ==
  /\ consumer = "calling" /\ state = "active" /\ client = "none"
  /\ Terminates(<<Failure>>)
  /\ UNCHANGED <<automaton, client, stream, task, held, cleanupFailed, cancelSelected,
                 consumerCancelled, call>>

(* The SDK's awaitable ends.  Nobody promises that a cancelled one ends so. *)
TaskEnds(status) ==
  /\ task.status = "pending"
  /\ task' = [task EXCEPT !.status = status]
  /\ UNCHANGED <<state, automaton, client, stream, held, cleanup, cleanupFailed,
                 cancelSelected, queue, consumer, consumerCancelled, last, call>>

Resumes == consumer = "owned" /\ TaskDone
Drops == held' = FALSE /\ UNCHANGED task

(* Nothing to give yet: read on at once, or stop if the operation has been *)
(* closed meanwhile.                                                       *)
ReadsOn ==
  /\ IF state = "active" THEN RunOwned("next") ELSE consumer' = "stopped" /\ Drops
  /\ UNCHANGED <<state, queue, cleanup, last>>

(* The stream was created; its iterator may not be claimable. *)
StreamCreated ==
  /\ Resumes /\ task.kind = "create" /\ task.status = "result"
  /\ stream' = IF stream = "none" THEN "open" ELSE stream
  /\ ReadsOn \/ (Terminates(<<Failure>>) /\ Drops)
  /\ UNCHANGED <<automaton, client, cleanupFailed, cancelSelected, consumerCancelled, call>>

ObservationArrives ==
  /\ Resumes /\ task.kind = "next" /\ task.status = "result"
  /\ \E o \in Outcomes :
       /\ automaton' = o.to
       /\ \/ o.events = << >> /\ ReadsOn
          \/ o.to = "terminal" /\ Terminates(o.events) /\ Drops
          \/ /\ o.events # << >> /\ o.to # "terminal"
             /\ IF state = "active" THEN Give(Head(o.events))
                ELSE consumer' = "stopped" /\ UNCHANGED last
             /\ Drops /\ UNCHANGED <<state, queue, cleanup>>
  /\ UNCHANGED <<client, stream, cleanupFailed, cancelSelected, consumerCancelled, call>>

(* An SDK that cancels by itself has failed; one that was cancelled for    *)
(* the cleanup, or with the consumer, ends the iteration.                  *)
TaskRaised ==
  /\ Resumes /\ task.status \in {"raised", "cancelled"} /\ Drops
  /\ IF task.status = "cancelled" /\ (consumerCancelled \/ cancelSelected \/ state # "active")
       THEN /\ consumer' = IF consumerCancelled THEN "closing" ELSE "stopped"
            /\ UNCHANGED <<state, queue, cleanup, last>>
       ELSE Terminates(<<Failure>>)
  /\ UNCHANGED <<automaton, client, stream, cleanupFailed, cancelSelected,
                 consumerCancelled, call>>

(* slip: what the cleanup said is not looked at *)
ConsumerInstallsRegardless ==
  /\ consumer = "joining" /\ CleanupDone
  /\ IF state # "resources_closing" THEN UNCHANGED <<state, queue>>
     ELSE /\ state' = "terminal_pending"
          /\ queue' = IF queue = << >> THEN <<Failure>> ELSE queue
  /\ consumer' = "calling"
  /\ UNCHANGED <<automaton, client, stream, task, held, cleanup, cleanupFailed,
                 cancelSelected, consumerCancelled, last, call>>

(* _install_terminal_after_cleanup: completion needs a clean release.      *)
ConsumerInstalls ==
  /\ consumer = "joining" /\ CleanupDone
  /\ IF state # "resources_closing" THEN UNCHANGED <<state, queue>>
     ELSE IF cancelSelected THEN state' = "closed" /\ queue' = << >>
     ELSE /\ state' = "terminal_pending"
          /\ queue' = IF queue = << >>
                           \/ (cleanupFailed /\ \E i \in DOMAIN queue : queue[i] = "completed")
                        THEN <<Failure>> ELSE queue
  /\ consumer' = "calling"
  /\ UNCHANGED <<automaton, client, stream, task, held, cleanup, cleanupFailed,
                 cancelSelected, consumerCancelled, last, call>>

(* The consumer's task is cancelled: so is the SDK task it awaits; one     *)
(* that had just ended loses its result to the cancellation, and is let go *)
(* when the consumer wakes, before or after a cleanup looks for it.        *)
ConsumerIsCancelled ==
  /\ consumer \in {"owned", "joining"} /\ ~consumerCancelled
  /\ consumerCancelled' = TRUE
  /\ IF consumer = "owned" /\ ~TaskDone
       THEN task' = [task EXCEPT !.cancelled = TRUE] /\ UNCHANGED <<held, consumer>>
       ELSE consumer' = "closing" /\ held' \in {held, FALSE} /\ UNCHANGED task
  /\ UNCHANGED <<state, automaton, client, stream, cleanup, cleanupFailed,
                 cancelSelected, queue, last, call>>

(* _select_consumer_cancellation *)
ConsumerCloses ==
  /\ consumer = "closing"
  /\ consumer' = "cancelled" /\ held' = FALSE
  /\ IF state = "closed" THEN UNCHANGED <<state, queue, cancelSelected, cleanup>>
     ELSE state' = "closed" /\ queue' = << >> /\ cancelSelected' = TRUE /\ EnsureCleanup
  /\ UNCHANGED <<automaton, client, stream, task, cleanupFailed,
                 consumerCancelled, last, call>>

-----------------------------------------------------------------------------
(* _cleanup_resources *)

CleanupStep ==
  UNCHANGED <<automaton, held, consumer, consumerCancelled, last, call>>
CleanupAt(place) == cleanup.place = place

CleanupStarts ==
  /\ CleanupAt("created") /\ ~cleanup.cancelled
  /\ IF held THEN /\ cleanup' = [cleanup EXCEPT !.place = "reaping"]
                  /\ task' = IF TaskDone THEN task ELSE [task EXCEPT !.cancelled = TRUE]
     ELSE cleanup' = [cleanup EXCEPT !.place = "closing_stream"] /\ UNCHANGED task
  /\ CleanupStep
  /\ UNCHANGED <<state, client, stream, cleanupFailed, cancelSelected, queue>>

(* A stream created although its task was cancelled is taken over. *)
CleanupReaps ==
  /\ CleanupAt("reaping") /\ TaskDone
  /\ IF task.kind = "create" /\ task.status = "result" /\ stream = "none"
       THEN /\ stream' = "open"
            /\ \E claimed \in BOOLEAN :
                 cleanup' = [cleanup EXCEPT !.place = "closing_stream", !.failed = ~claimed]
       ELSE cleanup' = [cleanup EXCEPT !.place = "closing_stream"] /\ UNCHANGED stream
  /\ CleanupStep
  /\ UNCHANGED <<state, client, task, cleanupFailed, cancelSelected, queue>>

Released(resource) == IF resource = "none" THEN {"none"} ELSE {"closed", "unconfirmed"}

CleanupClosesStream ==
  /\ CleanupAt("closing_stream")
  /\ stream' \in Released(stream)
  /\ cleanup' = [cleanup EXCEPT !.place = "closing_client",
                                !.failed = @ \/ stream' = "unconfirmed"]
  /\ CleanupStep
  /\ UNCHANGED <<state, client, task, cleanupFailed, cancelSelected, queue>>

CleanupClosesClient ==
  /\ CleanupAt("closing_client")
  /\ client' \in IF cleanup.cancelled THEN {client} ELSE Released(client)
  /\ LET failed == cleanup.failed \/ client' = "unconfirmed"
     IN /\ cleanup' = [cleanup EXCEPT !.place = "done", !.failed = failed]
        /\ cleanupFailed' = (cleanupFailed \/ failed)
  /\ IF cancelSelected /\ state = "resources_closing"
       THEN state' = "closed" /\ queue' = << >> ELSE UNCHANGED <<state, queue>>
  /\ CleanupStep
  /\ UNCHANGED <<stream, task, cancelSelected>>

(* Cancelled by force, it ends where it waits, and what it had not closed  *)
(* stays as it was; if the SDK swallows the cancellation it goes on, but   *)
(* leaves the client alone.                                                *)
CleanupCancelled ==
  /\ CleanupExists /\ ~CleanupDone /\ cleanup.cancelled
  /\ cleanup.place = "reaping" => TaskDone
  /\ cleanup' = [cleanup EXCEPT !.place = "cancelled"]
  /\ CleanupStep
  /\ UNCHANGED <<state, client, stream, task, cleanupFailed, cancelSelected, queue>>

-----------------------------------------------------------------------------
(* cancel(), wait_closed() and force_cancel_cleanup(). *)

At(c, place) == call' = [call EXCEPT ![c] = place]
CallStep == UNCHANGED <<automaton, client, stream, held, consumer, consumerCancelled, last>>

Cancel(c) ==
  /\ call[c] = "idle"
  /\ IF state = "closed" THEN At(c, "joining") /\ UNCHANGED <<state, cancelSelected, queue, cleanup>>
     ELSE /\ At(c, IF cancelSelected THEN "joining" ELSE "joining_selected")
          /\ cancelSelected' = TRUE /\ queue' = << >>
          /\ state' = IF state = "terminal_pending" THEN "closed" ELSE "resources_closing"
          /\ EnsureCleanup
  /\ CallStep /\ UNCHANGED <<task, cleanupFailed>>

(* slip: a selected cancellation does not wait for the cleanup *)
CancelReturnsAtOnce(c) ==
  /\ call[c] \in {"joining", "joining_selected"}
  /\ state' = IF cancelSelected THEN "closed" ELSE state
  /\ queue' = IF cancelSelected THEN << >> ELSE queue
  /\ At(c, IF cleanupFailed THEN "error"
           ELSE IF call[c] = "joining" THEN "already_closed" ELSE "cancelled")
  /\ CallStep /\ UNCHANGED <<task, cleanup, cleanupFailed, cancelSelected>>

CancelReturns(c) ==
  /\ call[c] \in {"joining", "joining_selected"}
  /\ CleanupExists => CleanupDone
  /\ state' = IF cancelSelected THEN "closed" ELSE state
  /\ queue' = IF cancelSelected THEN << >> ELSE queue
  /\ At(c, IF cleanupFailed THEN "error"
           ELSE IF call[c] = "joining" THEN "already_closed" ELSE "cancelled")
  /\ CallStep /\ UNCHANGED <<task, cleanup, cleanupFailed, cancelSelected>>

WaitClosed(c) ==
  /\ call[c] = "idle" /\ state = "closed"
  /\ CleanupExists => CleanupDone
  /\ At(c, IF cleanupFailed THEN "error" ELSE "returned")
  /\ CallStep
  /\ UNCHANGED <<state, task, cleanup, cleanupFailed, cancelSelected, queue>>

ReleaseConfirmed ==
  IF cleanup.place = "done" THEN ~cleanup.failed
  ELSE ~CleanupExists /\ ~held /\ client = "none" /\ stream = "none"

(* slip: the SDK task is left to the cleanup *)
ForceCancelsCleanupOnly(c) ==
  /\ call[c] = "idle"
  /\ cleanupFailed' = (cleanupFailed \/ ~ReleaseConfirmed)
  /\ cancelSelected' = TRUE /\ queue' = << >> /\ state' = "closed"
  /\ cleanup' = IF CleanupExists /\ ~CleanupDone
                  THEN [cleanup EXCEPT !.cancelled = TRUE] ELSE cleanup
  /\ At(c, "reaping")
  /\ CallStep /\ UNCHANGED task

ForceCancelCleanup(c) ==
  /\ call[c] = "idle"
  /\ cleanupFailed' = (cleanupFailed \/ ~ReleaseConfirmed)
  /\ cancelSelected' = TRUE /\ queue' = << >> /\ state' = "closed"
  /\ cleanup' = IF CleanupExists /\ ~CleanupDone
                  THEN [cleanup EXCEPT !.cancelled = TRUE] ELSE cleanup
  /\ task' = IF held /\ ~TaskDone THEN [task EXCEPT !.cancelled = TRUE] ELSE task
  /\ At(c, "reaping")
  /\ CallStep

ForceReturns(c) ==
  /\ call[c] = "reaping" /\ TaskDone
  /\ CleanupExists => CleanupDone
  /\ At(c, "reaped")
  /\ CallStep
  /\ UNCHANGED <<state, task, cleanup, cleanupFailed, cancelSelected, queue>>

-----------------------------------------------------------------------------
ConsumerProgress ==
  \/ StreamCreated \/ ObservationArrives \/ TaskRaised \/ ConsumerInstalls
  \/ ConsumerCloses
ConsumerCalls == ConsumerFinds \/ ConsumerReads \/ ClientFactoryRaises
CleanupProgress ==
  \/ CleanupStarts \/ CleanupReaps \/ CleanupClosesStream \/ CleanupClosesClient
  \/ CleanupCancelled
TaskProgress == \E s \in {"result", "raised", "cancelled"} : TaskEnds(s)
CallProgress ==
  \/ \E c \in Cancellers : CancelReturns(c)
  \/ \E c \in Forcers : ForceReturns(c)

Next ==
  \/ ConsumerProgress \/ ConsumerCalls \/ ConsumerIsCancelled
  \/ CleanupProgress \/ TaskProgress \/ CallProgress
  \/ \E c \in Cancellers : Cancel(c)
  \/ \E c \in Waiters : WaitClosed(c)
  \/ \E c \in Forcers : ForceCancelCleanup(c)

Spec == Init /\ [][Next]_vars

(* What was cancelled ends; otherwise the SDK may take for ever. *)
FairSpec ==
  /\ Spec /\ WF_vars(CallProgress)
  /\ WF_vars(cleanup.cancelled /\ CleanupProgress)
  /\ WF_vars(task.cancelled /\ TaskProgress)

-----------------------------------------------------------------------------
(* Properties *)

AutomatonStates ==
  {"created", "queued_or_in_progress", "in_progress", "output_item_added",
   "reasoning_item_done", "message_item_added", "content_part_added", "delta",
   "delta_or_done", "content_part_done", "output_item_done", "completed", "terminal"}
Terminals == {"completed", "failed"}
Queues == {<< >>, <<Failure>>, <<"completed">>, <<"usage", "completed">>}

Tasks ==
  [kind : {"none", "create", "next"}, cancelled : BOOLEAN,
   status : {"none", "pending", "result", "raised", "cancelled"}]
Cleanups ==
  [place : {"none", "created", "reaping", "closing_stream", "closing_client", "done",
            "cancelled"},
   failed : BOOLEAN, cancelled : BOOLEAN]
CallPlaces ==
  {"idle", "joining", "joining_selected", "reaping", "returned", "cancelled",
   "already_closed", "error", "reaped"}

TypeOK ==
  /\ state \in {"active", "resources_closing", "terminal_pending", "closed"}
  /\ automaton \in AutomatonStates
  /\ client \in {"none", "open", "closed", "unconfirmed"}
  /\ stream \in {"none", "open", "closed", "unconfirmed"}
  /\ task \in Tasks
  /\ held \in BOOLEAN
  /\ cleanup \in Cleanups
  /\ cleanupFailed \in BOOLEAN /\ cancelSelected \in BOOLEAN
  /\ queue \in Queues
  /\ consumer \in {"calling", "owned", "joining", "closing", "stopped", "cancelled"}
  /\ consumerCancelled \in BOOLEAN
  /\ last \in {"none", "delta", "text_completed", "usage"} \cup Terminals
  /\ call \in [Calls -> CallPlaces]

Over(c) == call[c] \notin {"idle", "joining", "joining_selected", "reaping"}

(* port.py:38-65: once cancel(), wait_closed() or force_cancel_cleanup()   *)
(* is over, with or without an error, no event is given any more, and what *)
(* was given before is a legal stream: text, its completion, usage, one    *)
(* terminal; completion is told only of a turn that released everything.   *)
EventsKeepThePort ==
  [][last' # last =>
       /\ \A c \in Calls : ~Over(c)
       /\ \/ last' = "delta" /\ last = "none"
          \/ last' = "text_completed" /\ last = "delta"
          \/ last' = "usage" /\ last = "text_completed"
          \/ /\ last' = "completed" /\ last \in {"text_completed", "usage"}
             /\ client = "closed" /\ stream = "closed"
          \/ last' = "failed" /\ last \in {"none", "delta", "text_completed"}]_vars

(* port.py:44-64: a call that is over without an error has released        *)
(* everything: the SDK task and the cleanup have ended, stream and client  *)
(* are closed.  A forced one has at least reaped the tasks.  One call at   *)
(* most is told it cancelled, and then the stream showed no terminal.      *)
ReturnsAreHonest ==
  /\ \A c \in Calls : Over(c) /\ call[c] # "error" => TaskDone /\ (CleanupExists => CleanupDone)
  /\ \A c \in Calls : call[c] \in {"returned", "cancelled", "already_closed"} =>
       {client, stream} \subseteq {"none", "closed"}
  /\ \A c, d \in Cancellers : call[c] = "cancelled" =>
       (call[d] = "cancelled" => c = d) /\ last \notin Terminals

(* openai_responses.py:242-286: force ends, and with it every other call,  *)
(* although the SDK answers nothing but a cancellation.                    *)
ForceFreesEveryone ==
  \A f \in Forcers, c \in Cancellers \cup Forcers :
    call[f] # "idle" /\ call[c] # "idle" ~> Over(c)
=============================================================================
