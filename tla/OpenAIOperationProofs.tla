------------------------ MODULE OpenAIOperationProofs ------------------------
(***************************************************************************)
(* What the OpenAI operation promises its callers, for any number of       *)
(* concurrent calls of each method.                                        *)
(***************************************************************************)
EXTENDS OpenAIOperation, TLAPS

Early == {"created", "queued_or_in_progress", "in_progress", "output_item_added",
          "reasoning_item_done", "message_item_added", "content_part_added", "delta"}
Late == {"content_part_done", "output_item_done", "completed"}

(* An observation keeps the automaton on its side of the text, adds to the *)
(* text, ends it, or is the terminal.                                      *)
LEMMA OutcomesAreOrdered ==
  ASSUME NEW o \in Outcomes
  PROVE  \/ o.events = << >> /\ automaton \in Early /\ o.to \in Early
         \/ o.events = << >> /\ automaton \in Late /\ o.to \in Late
         \/ /\ o.events = <<"delta">> /\ o.to = "delta_or_done"
            /\ automaton \in {"delta", "delta_or_done"}
         \/ /\ o.events = <<"text_completed">> /\ o.to = "content_part_done"
            /\ automaton = "delta_or_done"
         \/ /\ o.events \in {<<"completed">>, <<"usage", "completed">>}
            /\ o.to = "terminal" /\ automaton = "completed"
         \/ o.events = <<Failure>> /\ o.to = "terminal"
<1>1. CASE o = [to |-> "terminal", events |-> <<Failure>>]
  BY <1>1
<1>2. ASSUME NEW t \in Accepted, t[1] = automaton,
             o = [to |-> t[3], events |-> t[4]]
      PROVE  \/ o.events = << >> /\ automaton \in Early /\ o.to \in Early
             \/ o.events = << >> /\ automaton \in Late /\ o.to \in Late
             \/ /\ o.events = <<"delta">> /\ o.to = "delta_or_done"
                /\ automaton \in {"delta", "delta_or_done"}
             \/ /\ o.events = <<"text_completed">> /\ o.to = "content_part_done"
                /\ automaton = "delta_or_done"
             \/ /\ o.events \in {<<"completed">>, <<"usage", "completed">>}
                /\ o.to = "terminal" /\ automaton = "completed"
  BY <1>2 DEF Accepted, Early, Late
<1> QED
  BY <1>1, <1>2 DEF Outcomes

(* What Head, Tail and Len make of a queue. *)
LEMMA QueuesPop ==
  ASSUME NEW q \in Queues, q # << >>
  PROVE  \/ q = <<Failure>> /\ Head(q) = Failure /\ Tail(q) = << >> /\ Len(q) = 1
         \/ q = <<"completed">> /\ Head(q) = "completed" /\ Tail(q) = << >> /\ Len(q) = 1
         \/ /\ q = <<"usage", "completed">> /\ Head(q) = "usage"
            /\ Tail(q) = <<"completed">> /\ Len(q) = 2
<1>1. CASE q = <<Failure>>
  BY <1>1
<1>2. CASE q = <<"completed">>
  BY <1>2
<1>3. CASE q = <<"usage", "completed">>
  BY <1>3
<1> QED
  BY <1>1, <1>2, <1>3 DEF Queues

Completing == {<<"completed">>, <<"usage", "completed">>}

LEMMA QueuesComplete ==
  ASSUME NEW q \in Queues
  PROVE  (\E i \in DOMAIN q : q[i] = "completed") <=> q \in Completing
BY DEF Queues, Completing, Failure

-----------------------------------------------------------------------------
(* The SDK work: a task runs only while the consumer awaits it, and some   *)
(* task has run only if there is a client.                                 *)
WorkIsOwned ==
  /\ consumer # "owned" => TaskDone
  /\ consumer = "owned" => held /\ task.kind # "none"
  /\ held => consumer \in {"owned", "closing"}
  /\ task.kind # "none" => client # "none"
  /\ task.kind = "next" => stream # "none"

(* The cleanup: it begins when the operation stops being active, and once  *)
(* it is past the task no task and no stream appears behind it.            *)
CleanupIsLast ==
  /\ CleanupExists => state # "active"
  /\ state \in {"resources_closing", "terminal_pending"} => CleanupExists
  /\ cleanup.place \in {"closing_stream", "closing_client", "done"} =>
       /\ TaskDone
       /\ consumer = "owned" /\ task.kind = "create" /\ task.status = "result" =>
            stream # "none"
  /\ cleanup.place = "closing_client" /\ ~cleanup.failed => stream \in {"none", "closed"}
  /\ cleanup.place = "done" /\ cleanup.failed => cleanupFailed
  /\ cleanup.place = "done" /\ ~cleanupFailed =>
       client \in {"none", "closed"} /\ stream \in {"none", "closed"}
  /\ cleanup.cancelled => cleanupFailed /\ state = "closed"
  /\ cleanup.place = "cancelled" => cleanup.cancelled
  /\ ~CleanupExists /\ state = "closed" /\ ~cleanupFailed =>
       client = "none" /\ stream = "none" /\ ~held

Confirmed == ~cleanupFailed /\ (CleanupExists => cleanup.place = "done")

(* The calls: what each was told stays true. *)
CallsAreTold ==
  \A c \in Calls :
    /\ call[c] \in {"joining", "joining_selected"} => cancelSelected \/ state = "closed"
    /\ call[c] = "reaping" \/ Over(c) => state = "closed"
    /\ call[c] \in {"returned", "cancelled", "already_closed"} => Confirmed
    /\ call[c] = "reaped" => TaskDone /\ (CleanupExists => CleanupDone)
    /\ call[c] \in {"joining_selected", "cancelled"} =>
         /\ cancelSelected /\ last \notin Terminals
         /\ \A d \in Calls : call[d] \in {"joining_selected", "cancelled"} => c = d

(* The events: while the consumer may be given another, the last one it    *)
(* had, the automaton and the queue tell of the same point of the stream.  *)
EventsAreOrdered ==
  /\ cancelSelected => state \in {"resources_closing", "closed"}
  /\ state = "terminal_pending" =>
       /\ queue # << >> /\ cleanup.place = "done"
       /\ queue \in Completing => ~cleanupFailed
  /\ queue \in Completing => task.kind = "next" /\ automaton = "terminal"
  /\ last \in Terminals => state = "closed"
  /\ last = "usage" => \/ state = "closed"
                       \/ state = "terminal_pending" /\ queue = <<"completed">>
  /\ state # "closed" /\ consumer \in {"calling", "owned", "joining"} =>
       /\ automaton \in Early => last = "none"
       /\ automaton = "delta_or_done" => last = "delta"
       /\ automaton \in Late => last = "text_completed"
       /\ queue = <<"usage", "completed">> => last = "text_completed"
       /\ queue = <<"completed">> => last \in {"text_completed", "usage"}

Inv == TypeOK /\ WorkIsOwned /\ CleanupIsLast /\ CallsAreTold /\ EventsAreOrdered

LEMMA InitHolds == Init => Inv
<1> SUFFICES ASSUME Init PROVE Inv
  OBVIOUS
<1>1. TypeOK
  BY DEF Init, TypeOK, NoTask, NoCleanup, Tasks, Cleanups, CallPlaces, Queues,
     AutomatonStates, Terminals
<1>2. WorkIsOwned /\ CleanupIsLast
  BY DEF Init, WorkIsOwned, CleanupIsLast, NoTask, NoCleanup, TaskDone, CleanupExists
<1>3. CallsAreTold
  BY DEF Init, CallsAreTold, Over
<1>4. EventsAreOrdered
  BY DEF Init, EventsAreOrdered, Completing, Terminals, Early, Late
<1> QED
  BY <1>1, <1>2, <1>3, <1>4 DEF Inv

LEMMA StreamCreatedKeeps ==
  ASSUME Inv, StreamCreated
  PROVE  Inv'
<1> USE DEF Inv, TypeOK, StreamCreated, Resumes, Drops, ReadsOn, RunOwned,
   Terminates, EnsureCleanup, NoCleanup, NoTask
<1>1. TypeOK'
  <2>1. task' \in Tasks
    BY DEF Tasks, TaskDone
  <2>2. cleanup' \in Cleanups
    BY DEF Cleanups
  <2>3. /\ state' \in {"active", "resources_closing", "terminal_pending", "closed"}
       /\ client' \in {"none", "open", "closed", "unconfirmed"}
       /\ stream' \in {"none", "open", "closed", "unconfirmed"}
    OBVIOUS
  <2>4. automaton' \in AutomatonStates
    OBVIOUS
  <2>5. /\ held' \in BOOLEAN /\ cleanupFailed' \in BOOLEAN
       /\ cancelSelected' \in BOOLEAN /\ consumerCancelled' \in BOOLEAN
    OBVIOUS
  <2>6. queue' \in Queues
    BY DEF Queues, Failure
  <2>7. last' \in {"none", "delta", "text_completed", "usage"} \cup Terminals
    BY DEF Terminals, Failure, Queues
  <2>8. consumer' \in {"calling", "owned", "joining", "closing", "stopped", "cancelled"}
    OBVIOUS
  <2>9. call' \in [Calls -> CallPlaces]
    BY DEF CallPlaces
  <2> QED
    BY <2>1, <2>2, <2>3, <2>4, <2>5, <2>6, <2>7, <2>8, <2>9
<1>2. WorkIsOwned'
  BY DEF WorkIsOwned, CleanupIsLast, Tasks, TaskDone, CleanupExists, CleanupDone
<1>3. CleanupIsLast'
  BY DEF WorkIsOwned, CleanupIsLast, Tasks, Cleanups, TaskDone, CleanupExists,
     CleanupDone
<1>4. CallsAreTold'
  BY DEF WorkIsOwned, CleanupIsLast, CallsAreTold, EventsAreOrdered, Over,
     Confirmed, Terminals, Tasks, Cleanups, TaskDone, CleanupExists,
     CleanupDone, Calls
<1>5. EventsAreOrdered'
  BY DEF WorkIsOwned, CleanupIsLast, EventsAreOrdered, Completing, Terminals,
     Failure, Tasks, Cleanups, TaskDone, CleanupExists, CleanupDone
<1> QED
  BY <1>1, <1>2, <1>3, <1>4, <1>5

LEMMA ObservationArrivesKeeps ==
  ASSUME Inv, ObservationArrives
  PROVE  Inv'
<1> USE DEF Inv, TypeOK, ObservationArrives, Resumes, Drops, ReadsOn, RunOwned,
   Terminates, EnsureCleanup, Give, NoCleanup, NoTask
<1>1. TypeOK'
  <2>1. task' \in Tasks
    BY DEF Tasks, TaskDone
  <2>2. cleanup' \in Cleanups
    BY DEF Cleanups
  <2>3. /\ state' \in {"active", "resources_closing", "terminal_pending", "closed"}
       /\ client' \in {"none", "open", "closed", "unconfirmed"}
       /\ stream' \in {"none", "open", "closed", "unconfirmed"}
    OBVIOUS
  <2>4. automaton' \in AutomatonStates
    BY OutcomesAreOrdered DEF AutomatonStates, Early, Late
  <2>5. /\ held' \in BOOLEAN /\ cleanupFailed' \in BOOLEAN
       /\ cancelSelected' \in BOOLEAN /\ consumerCancelled' \in BOOLEAN
    OBVIOUS
  <2>6. queue' \in Queues
    BY OutcomesAreOrdered DEF Queues, Failure
  <2>7. last' \in {"none", "delta", "text_completed", "usage"} \cup Terminals
    BY OutcomesAreOrdered DEF Terminals, Failure, Queues
  <2>8. consumer' \in {"calling", "owned", "joining", "closing", "stopped", "cancelled"}
    OBVIOUS
  <2>9. call' \in [Calls -> CallPlaces]
    BY DEF CallPlaces
  <2> QED
    BY <2>1, <2>2, <2>3, <2>4, <2>5, <2>6, <2>7, <2>8, <2>9
<1>2. WorkIsOwned'
  BY DEF WorkIsOwned, CleanupIsLast, Tasks, TaskDone, CleanupExists, CleanupDone
<1>3. CleanupIsLast'
  BY DEF WorkIsOwned, CleanupIsLast, Tasks, Cleanups, TaskDone, CleanupExists,
     CleanupDone
<1>4. CallsAreTold'
  BY OutcomesAreOrdered DEF WorkIsOwned, CleanupIsLast, CallsAreTold,
     EventsAreOrdered, Over, Confirmed, Terminals, Tasks, Cleanups, TaskDone,
     CleanupExists, CleanupDone, Queues, Calls
<1>5. EventsAreOrdered'
  BY OutcomesAreOrdered DEF WorkIsOwned, CleanupIsLast, EventsAreOrdered,
     Completing, Terminals, Failure, Tasks, Cleanups, TaskDone, CleanupExists,
     CleanupDone, Queues, Early, Late
<1> QED
  BY <1>1, <1>2, <1>3, <1>4, <1>5

LEMMA TaskRaisedKeeps ==
  ASSUME Inv, TaskRaised
  PROVE  Inv'
<1> USE DEF Inv, TypeOK, TaskRaised, Resumes, Drops, Terminates, EnsureCleanup,
   NoCleanup
<1>1. TypeOK'
  <2>1. task' \in Tasks
    BY DEF Tasks, TaskDone
  <2>2. cleanup' \in Cleanups
    BY DEF Cleanups
  <2>3. /\ state' \in {"active", "resources_closing", "terminal_pending", "closed"}
       /\ client' \in {"none", "open", "closed", "unconfirmed"}
       /\ stream' \in {"none", "open", "closed", "unconfirmed"}
    OBVIOUS
  <2>4. automaton' \in AutomatonStates
    OBVIOUS
  <2>5. /\ held' \in BOOLEAN /\ cleanupFailed' \in BOOLEAN
       /\ cancelSelected' \in BOOLEAN /\ consumerCancelled' \in BOOLEAN
    OBVIOUS
  <2>6. queue' \in Queues
    BY DEF Queues, Failure
  <2>7. last' \in {"none", "delta", "text_completed", "usage"} \cup Terminals
    BY DEF Terminals, Failure, Queues
  <2>8. consumer' \in {"calling", "owned", "joining", "closing", "stopped", "cancelled"}
    OBVIOUS
  <2>9. call' \in [Calls -> CallPlaces]
    BY DEF CallPlaces
  <2> QED
    BY <2>1, <2>2, <2>3, <2>4, <2>5, <2>6, <2>7, <2>8, <2>9
<1>2. WorkIsOwned'
  BY DEF WorkIsOwned, CleanupIsLast, Tasks, TaskDone, CleanupExists, CleanupDone
<1>3. CleanupIsLast'
  BY DEF WorkIsOwned, CleanupIsLast, Tasks, Cleanups, TaskDone, CleanupExists,
     CleanupDone
<1>4. CallsAreTold'
  BY DEF WorkIsOwned, CleanupIsLast, CallsAreTold, EventsAreOrdered, Over,
     Confirmed, Terminals, Tasks, Cleanups, TaskDone, CleanupExists,
     CleanupDone, Calls
<1>5. EventsAreOrdered'
  BY DEF WorkIsOwned, CleanupIsLast, EventsAreOrdered, Completing, Terminals,
     Failure, Tasks, Cleanups, TaskDone, CleanupExists, CleanupDone
<1> QED
  BY <1>1, <1>2, <1>3, <1>4, <1>5

LEMMA ConsumerInstallsKeeps ==
  ASSUME Inv, ConsumerInstalls
  PROVE  Inv'
<1> USE DEF Inv, TypeOK, ConsumerInstalls
<1>1. TypeOK'
  <2>1. task' \in Tasks
    BY DEF Tasks, TaskDone
  <2>2. cleanup' \in Cleanups
    BY DEF Cleanups
  <2>3. /\ state' \in {"active", "resources_closing", "terminal_pending", "closed"}
       /\ client' \in {"none", "open", "closed", "unconfirmed"}
       /\ stream' \in {"none", "open", "closed", "unconfirmed"}
    OBVIOUS
  <2>4. automaton' \in AutomatonStates
    OBVIOUS
  <2>5. /\ held' \in BOOLEAN /\ cleanupFailed' \in BOOLEAN
       /\ cancelSelected' \in BOOLEAN /\ consumerCancelled' \in BOOLEAN
    OBVIOUS
  <2>6. queue' \in Queues
    BY DEF Queues, Failure
  <2>7. last' \in {"none", "delta", "text_completed", "usage"} \cup Terminals
    BY DEF Terminals, Failure, Queues
  <2>8. consumer' \in {"calling", "owned", "joining", "closing", "stopped", "cancelled"}
    OBVIOUS
  <2>9. call' \in [Calls -> CallPlaces]
    BY DEF CallPlaces
  <2> QED
    BY <2>1, <2>2, <2>3, <2>4, <2>5, <2>6, <2>7, <2>8, <2>9
<1>2. WorkIsOwned'
  BY DEF WorkIsOwned, CleanupIsLast, Tasks, TaskDone, CleanupExists, CleanupDone
<1>3. CleanupIsLast'
  BY DEF WorkIsOwned, CleanupIsLast, Tasks, Cleanups, TaskDone, CleanupExists,
     CleanupDone
<1>4. CallsAreTold'
  BY QueuesComplete DEF WorkIsOwned, CleanupIsLast, CallsAreTold,
     EventsAreOrdered, Over, Confirmed, Terminals, Tasks, Cleanups, TaskDone,
     CleanupExists, CleanupDone, Queues, Calls
<1>5. EventsAreOrdered'
  BY QueuesComplete DEF WorkIsOwned, CleanupIsLast, EventsAreOrdered,
     Completing, Terminals, Failure, Tasks, Cleanups, TaskDone, CleanupExists,
     CleanupDone, Queues
<1> QED
  BY <1>1, <1>2, <1>3, <1>4, <1>5

LEMMA ConsumerClosesKeeps ==
  ASSUME Inv, ConsumerCloses
  PROVE  Inv'
<1> USE DEF Inv, TypeOK, ConsumerCloses, EnsureCleanup, NoCleanup
<1>1. TypeOK'
  <2>1. task' \in Tasks
    BY DEF Tasks, TaskDone
  <2>2. cleanup' \in Cleanups
    BY DEF Cleanups
  <2>3. /\ state' \in {"active", "resources_closing", "terminal_pending", "closed"}
       /\ client' \in {"none", "open", "closed", "unconfirmed"}
       /\ stream' \in {"none", "open", "closed", "unconfirmed"}
    OBVIOUS
  <2>4. automaton' \in AutomatonStates
    OBVIOUS
  <2>5. /\ held' \in BOOLEAN /\ cleanupFailed' \in BOOLEAN
       /\ cancelSelected' \in BOOLEAN /\ consumerCancelled' \in BOOLEAN
    OBVIOUS
  <2>6. queue' \in Queues
    BY DEF Queues, Failure
  <2>7. last' \in {"none", "delta", "text_completed", "usage"} \cup Terminals
    BY DEF Terminals, Failure, Queues
  <2>8. consumer' \in {"calling", "owned", "joining", "closing", "stopped", "cancelled"}
    OBVIOUS
  <2>9. call' \in [Calls -> CallPlaces]
    BY DEF CallPlaces
  <2> QED
    BY <2>1, <2>2, <2>3, <2>4, <2>5, <2>6, <2>7, <2>8, <2>9
<1>2. WorkIsOwned'
  BY DEF WorkIsOwned, CleanupIsLast, Tasks, TaskDone, CleanupExists, CleanupDone
<1>3. CleanupIsLast'
  BY DEF WorkIsOwned, CleanupIsLast, Tasks, Cleanups, TaskDone, CleanupExists,
     CleanupDone
<1>4. CallsAreTold'
  BY DEF WorkIsOwned, CleanupIsLast, CallsAreTold, EventsAreOrdered, Over,
     Confirmed, Terminals, Tasks, Cleanups, TaskDone, CleanupExists,
     CleanupDone, Calls
<1>5. EventsAreOrdered'
  BY DEF WorkIsOwned, CleanupIsLast, EventsAreOrdered, Completing, Terminals,
     Failure, Tasks, Cleanups, TaskDone, CleanupExists, CleanupDone
<1> QED
  BY <1>1, <1>2, <1>3, <1>4, <1>5

LEMMA ConsumerFindsKeeps ==
  ASSUME Inv, ConsumerFinds
  PROVE  Inv'
<1> USE DEF Inv, TypeOK, ConsumerFinds, Give
<1>1. TypeOK'
  <2>1. task' \in Tasks
    BY DEF Tasks, TaskDone
  <2>2. cleanup' \in Cleanups
    BY DEF Cleanups
  <2>3. /\ state' \in {"active", "resources_closing", "terminal_pending", "closed"}
       /\ client' \in {"none", "open", "closed", "unconfirmed"}
       /\ stream' \in {"none", "open", "closed", "unconfirmed"}
    OBVIOUS
  <2>4. automaton' \in AutomatonStates
    OBVIOUS
  <2>5. /\ held' \in BOOLEAN /\ cleanupFailed' \in BOOLEAN
       /\ cancelSelected' \in BOOLEAN /\ consumerCancelled' \in BOOLEAN
    OBVIOUS
  <2>6. queue' \in Queues
    BY QueuesPop DEF Queues, Failure, EventsAreOrdered
  <2>7. last' \in {"none", "delta", "text_completed", "usage"} \cup Terminals
    BY QueuesPop DEF Terminals, Failure, Queues, EventsAreOrdered
  <2>8. consumer' \in {"calling", "owned", "joining", "closing", "stopped", "cancelled"}
    OBVIOUS
  <2>9. call' \in [Calls -> CallPlaces]
    BY DEF CallPlaces
  <2> QED
    BY <2>1, <2>2, <2>3, <2>4, <2>5, <2>6, <2>7, <2>8, <2>9
<1>2. WorkIsOwned'
  BY DEF WorkIsOwned, CleanupIsLast, Tasks, TaskDone, CleanupExists, CleanupDone
<1>3. CleanupIsLast'
  BY DEF WorkIsOwned, CleanupIsLast, Tasks, Cleanups, TaskDone, CleanupExists,
     CleanupDone
<1>4. CallsAreTold'
  BY QueuesPop DEF WorkIsOwned, CleanupIsLast, CallsAreTold, EventsAreOrdered,
     Over, Confirmed, Terminals, Tasks, Cleanups, TaskDone, CleanupExists,
     CleanupDone, Queues, Calls
<1>5. EventsAreOrdered'
  <2> USE DEF Inv, TypeOK, EventsAreOrdered, ConsumerFinds
  <2>1. CASE state # "terminal_pending"
    BY <2>1 DEF Completing
  <2>2. CASE state = "terminal_pending"
    <3>1. PICK e : /\ e = Head(queue) /\ queue # << >>
                   /\ Give(e) /\ queue' = Tail(queue)
                   /\ state' = IF Len(queue) = 1 THEN "closed" ELSE state
      BY <2>2
    <3>2. UNCHANGED <<automaton, cleanup, cleanupFailed, cancelSelected, task>>
      OBVIOUS
    <3>3. CASE Len(queue) = 1 /\ Tail(queue) = << >> /\ e \in Terminals
      BY <2>2, <3>1, <3>2, <3>3 DEF Give, Completing, Terminals
    <3>4. CASE /\ queue = <<"usage", "completed">> /\ e = "usage"
               /\ Tail(queue) = <<"completed">> /\ Len(queue) = 2
      BY <2>2, <3>1, <3>2, <3>4 DEF Give, Completing, Terminals, Early, Late
    <3> QED
      BY <3>1, <3>3, <3>4, QueuesPop DEF Terminals, Failure
  <2> QED
    BY <2>1, <2>2
<1> QED
  BY <1>1, <1>2, <1>3, <1>4, <1>5

LEMMA ConsumerReadsKeeps ==
  ASSUME Inv, ConsumerReads
  PROVE  Inv'
<1> USE DEF Inv, TypeOK, ConsumerReads, RunOwned, NoTask
<1>1. TypeOK'
  <2>1. task' \in Tasks
    BY DEF Tasks, TaskDone
  <2>2. cleanup' \in Cleanups
    BY DEF Cleanups
  <2>3. /\ state' \in {"active", "resources_closing", "terminal_pending", "closed"}
       /\ client' \in {"none", "open", "closed", "unconfirmed"}
       /\ stream' \in {"none", "open", "closed", "unconfirmed"}
    OBVIOUS
  <2>4. automaton' \in AutomatonStates
    OBVIOUS
  <2>5. /\ held' \in BOOLEAN /\ cleanupFailed' \in BOOLEAN
       /\ cancelSelected' \in BOOLEAN /\ consumerCancelled' \in BOOLEAN
    OBVIOUS
  <2>6. queue' \in Queues
    BY DEF Queues, Failure
  <2>7. last' \in {"none", "delta", "text_completed", "usage"} \cup Terminals
    BY DEF Terminals, Failure, Queues
  <2>8. consumer' \in {"calling", "owned", "joining", "closing", "stopped", "cancelled"}
    OBVIOUS
  <2>9. call' \in [Calls -> CallPlaces]
    BY DEF CallPlaces
  <2> QED
    BY <2>1, <2>2, <2>3, <2>4, <2>5, <2>6, <2>7, <2>8, <2>9
<1>2. WorkIsOwned'
  BY DEF WorkIsOwned, CleanupIsLast, Tasks, TaskDone, CleanupExists, CleanupDone
<1>3. CleanupIsLast'
  BY DEF WorkIsOwned, CleanupIsLast, Tasks, Cleanups, TaskDone, CleanupExists,
     CleanupDone
<1>4. CallsAreTold'
  BY DEF WorkIsOwned, CleanupIsLast, CallsAreTold, EventsAreOrdered, Over,
     Confirmed, Terminals, Tasks, Cleanups, TaskDone, CleanupExists,
     CleanupDone, Calls
<1>5. EventsAreOrdered'
  BY DEF WorkIsOwned, CleanupIsLast, EventsAreOrdered, Completing, Terminals,
     Failure, Tasks, Cleanups, TaskDone, CleanupExists, CleanupDone
<1> QED
  BY <1>1, <1>2, <1>3, <1>4, <1>5

LEMMA ClientFactoryRaisesKeeps ==
  ASSUME Inv, ClientFactoryRaises
  PROVE  Inv'
<1> USE DEF Inv, TypeOK, ClientFactoryRaises, Terminates, EnsureCleanup, NoCleanup
<1>1. TypeOK'
  <2>1. task' \in Tasks
    BY DEF Tasks, TaskDone
  <2>2. cleanup' \in Cleanups
    BY DEF Cleanups
  <2>3. /\ state' \in {"active", "resources_closing", "terminal_pending", "closed"}
       /\ client' \in {"none", "open", "closed", "unconfirmed"}
       /\ stream' \in {"none", "open", "closed", "unconfirmed"}
    OBVIOUS
  <2>4. automaton' \in AutomatonStates
    OBVIOUS
  <2>5. /\ held' \in BOOLEAN /\ cleanupFailed' \in BOOLEAN
       /\ cancelSelected' \in BOOLEAN /\ consumerCancelled' \in BOOLEAN
    OBVIOUS
  <2>6. queue' \in Queues
    BY DEF Queues, Failure
  <2>7. last' \in {"none", "delta", "text_completed", "usage"} \cup Terminals
    BY DEF Terminals, Failure, Queues
  <2>8. consumer' \in {"calling", "owned", "joining", "closing", "stopped", "cancelled"}
    OBVIOUS
  <2>9. call' \in [Calls -> CallPlaces]
    BY DEF CallPlaces
  <2> QED
    BY <2>1, <2>2, <2>3, <2>4, <2>5, <2>6, <2>7, <2>8, <2>9
<1>2. WorkIsOwned'
  BY DEF WorkIsOwned, CleanupIsLast, Tasks, TaskDone, CleanupExists, CleanupDone
<1>3. CleanupIsLast'
  BY DEF WorkIsOwned, CleanupIsLast, Tasks, Cleanups, TaskDone, CleanupExists,
     CleanupDone
<1>4. CallsAreTold'
  BY DEF WorkIsOwned, CleanupIsLast, CallsAreTold, EventsAreOrdered, Over,
     Confirmed, Terminals, Tasks, Cleanups, TaskDone, CleanupExists,
     CleanupDone, Calls
<1>5. EventsAreOrdered'
  BY DEF WorkIsOwned, CleanupIsLast, EventsAreOrdered, Completing, Terminals,
     Failure, Tasks, Cleanups, TaskDone, CleanupExists, CleanupDone
<1> QED
  BY <1>1, <1>2, <1>3, <1>4, <1>5

LEMMA ConsumerIsCancelledKeeps ==
  ASSUME Inv, ConsumerIsCancelled
  PROVE  Inv'
<1> USE DEF Inv, TypeOK, ConsumerIsCancelled
<1>1. TypeOK'
  <2>1. task' \in Tasks
    BY DEF Tasks, TaskDone
  <2>2. cleanup' \in Cleanups
    BY DEF Cleanups
  <2>3. /\ state' \in {"active", "resources_closing", "terminal_pending", "closed"}
       /\ client' \in {"none", "open", "closed", "unconfirmed"}
       /\ stream' \in {"none", "open", "closed", "unconfirmed"}
    OBVIOUS
  <2>4. automaton' \in AutomatonStates
    OBVIOUS
  <2>5. /\ held' \in BOOLEAN /\ cleanupFailed' \in BOOLEAN
       /\ cancelSelected' \in BOOLEAN /\ consumerCancelled' \in BOOLEAN
    OBVIOUS
  <2>6. queue' \in Queues
    BY DEF Queues, Failure
  <2>7. last' \in {"none", "delta", "text_completed", "usage"} \cup Terminals
    BY DEF Terminals, Failure, Queues
  <2>8. consumer' \in {"calling", "owned", "joining", "closing", "stopped", "cancelled"}
    OBVIOUS
  <2>9. call' \in [Calls -> CallPlaces]
    BY DEF CallPlaces
  <2> QED
    BY <2>1, <2>2, <2>3, <2>4, <2>5, <2>6, <2>7, <2>8, <2>9
<1>2. WorkIsOwned'
  BY DEF WorkIsOwned, CleanupIsLast, Tasks, TaskDone, CleanupExists, CleanupDone
<1>3. CleanupIsLast'
  BY DEF WorkIsOwned, CleanupIsLast, Tasks, Cleanups, TaskDone, CleanupExists,
     CleanupDone
<1>4. CallsAreTold'
  BY DEF WorkIsOwned, CleanupIsLast, CallsAreTold, EventsAreOrdered, Over,
     Confirmed, Terminals, Tasks, Cleanups, TaskDone, CleanupExists,
     CleanupDone, Calls
<1>5. EventsAreOrdered'
  BY DEF WorkIsOwned, CleanupIsLast, EventsAreOrdered, Completing, Terminals,
     Failure, Tasks, Cleanups, TaskDone, CleanupExists, CleanupDone
<1> QED
  BY <1>1, <1>2, <1>3, <1>4, <1>5

LEMMA CleanupStartsKeeps ==
  ASSUME Inv, CleanupStarts
  PROVE  Inv'
<1> USE DEF Inv, TypeOK, CleanupStarts, CleanupAt, CleanupStep
<1>1. TypeOK'
  <2>1. task' \in Tasks
    BY DEF Tasks, TaskDone
  <2>2. cleanup' \in Cleanups
    BY DEF Cleanups
  <2>3. /\ state' \in {"active", "resources_closing", "terminal_pending", "closed"}
       /\ client' \in {"none", "open", "closed", "unconfirmed"}
       /\ stream' \in {"none", "open", "closed", "unconfirmed"}
    OBVIOUS
  <2>4. automaton' \in AutomatonStates
    OBVIOUS
  <2>5. /\ held' \in BOOLEAN /\ cleanupFailed' \in BOOLEAN
       /\ cancelSelected' \in BOOLEAN /\ consumerCancelled' \in BOOLEAN
    OBVIOUS
  <2>6. queue' \in Queues
    BY DEF Queues, Failure
  <2>7. last' \in {"none", "delta", "text_completed", "usage"} \cup Terminals
    BY DEF Terminals, Failure, Queues
  <2>8. consumer' \in {"calling", "owned", "joining", "closing", "stopped", "cancelled"}
    OBVIOUS
  <2>9. call' \in [Calls -> CallPlaces]
    BY DEF CallPlaces
  <2> QED
    BY <2>1, <2>2, <2>3, <2>4, <2>5, <2>6, <2>7, <2>8, <2>9
<1>2. WorkIsOwned'
  BY DEF WorkIsOwned, CleanupIsLast, Tasks, TaskDone, CleanupExists, CleanupDone
<1>3. CleanupIsLast'
  BY DEF WorkIsOwned, CleanupIsLast, Tasks, Cleanups, TaskDone, CleanupExists,
     CleanupDone
<1>4. CallsAreTold'
  BY DEF WorkIsOwned, CleanupIsLast, CallsAreTold, EventsAreOrdered, Over,
     Confirmed, Terminals, Tasks, Cleanups, TaskDone, CleanupExists,
     CleanupDone, Calls
<1>5. EventsAreOrdered'
  BY DEF WorkIsOwned, CleanupIsLast, EventsAreOrdered, Completing, Terminals,
     Failure, Tasks, Cleanups, TaskDone, CleanupExists, CleanupDone
<1> QED
  BY <1>1, <1>2, <1>3, <1>4, <1>5

LEMMA CleanupReapsKeeps ==
  ASSUME Inv, CleanupReaps
  PROVE  Inv'
<1> USE DEF Inv, TypeOK, CleanupReaps, CleanupAt, CleanupStep
<1>1. TypeOK'
  <2>1. task' \in Tasks
    BY DEF Tasks, TaskDone
  <2>2. cleanup' \in Cleanups
    BY DEF Cleanups
  <2>3. /\ state' \in {"active", "resources_closing", "terminal_pending", "closed"}
       /\ client' \in {"none", "open", "closed", "unconfirmed"}
       /\ stream' \in {"none", "open", "closed", "unconfirmed"}
    OBVIOUS
  <2>4. automaton' \in AutomatonStates
    OBVIOUS
  <2>5. /\ held' \in BOOLEAN /\ cleanupFailed' \in BOOLEAN
       /\ cancelSelected' \in BOOLEAN /\ consumerCancelled' \in BOOLEAN
    OBVIOUS
  <2>6. queue' \in Queues
    BY DEF Queues, Failure
  <2>7. last' \in {"none", "delta", "text_completed", "usage"} \cup Terminals
    BY DEF Terminals, Failure, Queues
  <2>8. consumer' \in {"calling", "owned", "joining", "closing", "stopped", "cancelled"}
    OBVIOUS
  <2>9. call' \in [Calls -> CallPlaces]
    BY DEF CallPlaces
  <2> QED
    BY <2>1, <2>2, <2>3, <2>4, <2>5, <2>6, <2>7, <2>8, <2>9
<1>2. WorkIsOwned'
  BY DEF WorkIsOwned, CleanupIsLast, Tasks, TaskDone, CleanupExists, CleanupDone
<1>3. CleanupIsLast'
  BY DEF WorkIsOwned, CleanupIsLast, Tasks, Cleanups, TaskDone, CleanupExists,
     CleanupDone
<1>4. CallsAreTold'
  BY DEF WorkIsOwned, CleanupIsLast, CallsAreTold, EventsAreOrdered, Over,
     Confirmed, Terminals, Tasks, Cleanups, TaskDone, CleanupExists,
     CleanupDone, Calls
<1>5. EventsAreOrdered'
  BY DEF WorkIsOwned, CleanupIsLast, EventsAreOrdered, Completing, Terminals,
     Failure, Tasks, Cleanups, TaskDone, CleanupExists, CleanupDone
<1> QED
  BY <1>1, <1>2, <1>3, <1>4, <1>5

LEMMA CleanupClosesStreamKeeps ==
  ASSUME Inv, CleanupClosesStream
  PROVE  Inv'
<1> USE DEF Inv, TypeOK, CleanupClosesStream, CleanupAt, CleanupStep, Released
<1>1. TypeOK'
  <2>1. task' \in Tasks
    BY DEF Tasks, TaskDone
  <2>2. cleanup' \in Cleanups
    BY DEF Cleanups
  <2>3. /\ state' \in {"active", "resources_closing", "terminal_pending", "closed"}
       /\ client' \in {"none", "open", "closed", "unconfirmed"}
       /\ stream' \in {"none", "open", "closed", "unconfirmed"}
    OBVIOUS
  <2>4. automaton' \in AutomatonStates
    OBVIOUS
  <2>5. /\ held' \in BOOLEAN /\ cleanupFailed' \in BOOLEAN
       /\ cancelSelected' \in BOOLEAN /\ consumerCancelled' \in BOOLEAN
    OBVIOUS
  <2>6. queue' \in Queues
    BY DEF Queues, Failure
  <2>7. last' \in {"none", "delta", "text_completed", "usage"} \cup Terminals
    BY DEF Terminals, Failure, Queues
  <2>8. consumer' \in {"calling", "owned", "joining", "closing", "stopped", "cancelled"}
    OBVIOUS
  <2>9. call' \in [Calls -> CallPlaces]
    BY DEF CallPlaces
  <2> QED
    BY <2>1, <2>2, <2>3, <2>4, <2>5, <2>6, <2>7, <2>8, <2>9
<1>2. WorkIsOwned'
  BY DEF WorkIsOwned, CleanupIsLast, Tasks, TaskDone, CleanupExists, CleanupDone
<1>3. CleanupIsLast'
  BY DEF WorkIsOwned, CleanupIsLast, Tasks, Cleanups, TaskDone, CleanupExists,
     CleanupDone
<1>4. CallsAreTold'
  BY DEF WorkIsOwned, CleanupIsLast, CallsAreTold, EventsAreOrdered, Over,
     Confirmed, Terminals, Tasks, Cleanups, TaskDone, CleanupExists,
     CleanupDone, Calls
<1>5. EventsAreOrdered'
  BY DEF WorkIsOwned, CleanupIsLast, EventsAreOrdered, Completing, Terminals,
     Failure, Tasks, Cleanups, TaskDone, CleanupExists, CleanupDone
<1> QED
  BY <1>1, <1>2, <1>3, <1>4, <1>5

LEMMA CleanupClosesClientKeeps ==
  ASSUME Inv, CleanupClosesClient
  PROVE  Inv'
<1> USE DEF Inv, TypeOK, CleanupClosesClient, CleanupAt, CleanupStep, Released
<1>1. TypeOK'
  <2>1. task' \in Tasks
    BY DEF Tasks, TaskDone
  <2>2. cleanup' \in Cleanups
    BY DEF Cleanups
  <2>3. /\ state' \in {"active", "resources_closing", "terminal_pending", "closed"}
       /\ client' \in {"none", "open", "closed", "unconfirmed"}
       /\ stream' \in {"none", "open", "closed", "unconfirmed"}
    OBVIOUS
  <2>4. automaton' \in AutomatonStates
    OBVIOUS
  <2>5. /\ held' \in BOOLEAN /\ cleanupFailed' \in BOOLEAN
       /\ cancelSelected' \in BOOLEAN /\ consumerCancelled' \in BOOLEAN
    OBVIOUS
  <2>6. queue' \in Queues
    BY DEF Queues, Failure
  <2>7. last' \in {"none", "delta", "text_completed", "usage"} \cup Terminals
    BY DEF Terminals, Failure, Queues
  <2>8. consumer' \in {"calling", "owned", "joining", "closing", "stopped", "cancelled"}
    OBVIOUS
  <2>9. call' \in [Calls -> CallPlaces]
    BY DEF CallPlaces
  <2> QED
    BY <2>1, <2>2, <2>3, <2>4, <2>5, <2>6, <2>7, <2>8, <2>9
<1>2. WorkIsOwned'
  BY DEF WorkIsOwned, CleanupIsLast, Tasks, TaskDone, CleanupExists, CleanupDone
<1>3. CleanupIsLast'
  BY DEF WorkIsOwned, CleanupIsLast, Tasks, Cleanups, TaskDone, CleanupExists,
     CleanupDone
<1>4. CallsAreTold'
  BY DEF WorkIsOwned, CleanupIsLast, CallsAreTold, EventsAreOrdered, Over,
     Confirmed, Terminals, Tasks, Cleanups, TaskDone, CleanupExists,
     CleanupDone, Calls
<1>5. EventsAreOrdered'
  BY DEF WorkIsOwned, CleanupIsLast, EventsAreOrdered, Completing, Terminals,
     Failure, Tasks, Cleanups, TaskDone, CleanupExists, CleanupDone
<1> QED
  BY <1>1, <1>2, <1>3, <1>4, <1>5

LEMMA CleanupCancelledKeeps ==
  ASSUME Inv, CleanupCancelled
  PROVE  Inv'
<1> USE DEF Inv, TypeOK, CleanupCancelled, CleanupStep
<1>1. TypeOK'
  <2>1. task' \in Tasks
    BY DEF Tasks, TaskDone
  <2>2. cleanup' \in Cleanups
    BY DEF Cleanups
  <2>3. /\ state' \in {"active", "resources_closing", "terminal_pending", "closed"}
       /\ client' \in {"none", "open", "closed", "unconfirmed"}
       /\ stream' \in {"none", "open", "closed", "unconfirmed"}
    OBVIOUS
  <2>4. automaton' \in AutomatonStates
    OBVIOUS
  <2>5. /\ held' \in BOOLEAN /\ cleanupFailed' \in BOOLEAN
       /\ cancelSelected' \in BOOLEAN /\ consumerCancelled' \in BOOLEAN
    OBVIOUS
  <2>6. queue' \in Queues
    BY DEF Queues, Failure
  <2>7. last' \in {"none", "delta", "text_completed", "usage"} \cup Terminals
    BY DEF Terminals, Failure, Queues
  <2>8. consumer' \in {"calling", "owned", "joining", "closing", "stopped", "cancelled"}
    OBVIOUS
  <2>9. call' \in [Calls -> CallPlaces]
    BY DEF CallPlaces
  <2> QED
    BY <2>1, <2>2, <2>3, <2>4, <2>5, <2>6, <2>7, <2>8, <2>9
<1>2. WorkIsOwned'
  BY DEF WorkIsOwned, CleanupIsLast, Tasks, TaskDone, CleanupExists, CleanupDone
<1>3. CleanupIsLast'
  BY DEF WorkIsOwned, CleanupIsLast, Tasks, Cleanups, TaskDone, CleanupExists,
     CleanupDone
<1>4. CallsAreTold'
  BY DEF WorkIsOwned, CleanupIsLast, CallsAreTold, EventsAreOrdered, Over,
     Confirmed, Terminals, Tasks, Cleanups, TaskDone, CleanupExists,
     CleanupDone, Calls
<1>5. EventsAreOrdered'
  BY DEF WorkIsOwned, CleanupIsLast, EventsAreOrdered, Completing, Terminals,
     Failure, Tasks, Cleanups, TaskDone, CleanupExists, CleanupDone
<1> QED
  BY <1>1, <1>2, <1>3, <1>4, <1>5

LEMMA TaskEndsKeeps ==
  ASSUME Inv, NEW s \in {"result", "raised", "cancelled"}, TaskEnds(s)
  PROVE  Inv'
<1> USE DEF Inv, TypeOK, TaskEnds
<1>1. TypeOK'
  <2>1. task' \in Tasks
    BY DEF Tasks, TaskDone
  <2>2. cleanup' \in Cleanups
    BY DEF Cleanups
  <2>3. /\ state' \in {"active", "resources_closing", "terminal_pending", "closed"}
       /\ client' \in {"none", "open", "closed", "unconfirmed"}
       /\ stream' \in {"none", "open", "closed", "unconfirmed"}
    OBVIOUS
  <2>4. automaton' \in AutomatonStates
    OBVIOUS
  <2>5. /\ held' \in BOOLEAN /\ cleanupFailed' \in BOOLEAN
       /\ cancelSelected' \in BOOLEAN /\ consumerCancelled' \in BOOLEAN
    OBVIOUS
  <2>6. queue' \in Queues
    BY DEF Queues, Failure
  <2>7. last' \in {"none", "delta", "text_completed", "usage"} \cup Terminals
    BY DEF Terminals, Failure, Queues
  <2>8. consumer' \in {"calling", "owned", "joining", "closing", "stopped", "cancelled"}
    OBVIOUS
  <2>9. call' \in [Calls -> CallPlaces]
    BY DEF CallPlaces
  <2> QED
    BY <2>1, <2>2, <2>3, <2>4, <2>5, <2>6, <2>7, <2>8, <2>9
<1>2. WorkIsOwned'
  BY DEF WorkIsOwned, CleanupIsLast, Tasks, TaskDone, CleanupExists, CleanupDone
<1>3. CleanupIsLast'
  BY DEF WorkIsOwned, CleanupIsLast, Tasks, Cleanups, TaskDone, CleanupExists,
     CleanupDone
<1>4. CallsAreTold'
  BY DEF WorkIsOwned, CleanupIsLast, CallsAreTold, EventsAreOrdered, Over,
     Confirmed, Terminals, Tasks, Cleanups, TaskDone, CleanupExists,
     CleanupDone, Calls
<1>5. EventsAreOrdered'
  BY DEF WorkIsOwned, CleanupIsLast, EventsAreOrdered, Completing, Terminals,
     Failure, Tasks, Cleanups, TaskDone, CleanupExists, CleanupDone
<1> QED
  BY <1>1, <1>2, <1>3, <1>4, <1>5

LEMMA CancelKeeps ==
  ASSUME Inv, NEW c \in Cancellers, Cancel(c)
  PROVE  Inv'
<1> USE DEF Inv, TypeOK, Cancel, At, CallStep, EnsureCleanup, NoCleanup, Calls
<1>1. TypeOK'
  <2>1. task' \in Tasks
    BY DEF Tasks, TaskDone
  <2>2. cleanup' \in Cleanups
    BY DEF Cleanups
  <2>3. /\ state' \in {"active", "resources_closing", "terminal_pending", "closed"}
       /\ client' \in {"none", "open", "closed", "unconfirmed"}
       /\ stream' \in {"none", "open", "closed", "unconfirmed"}
    OBVIOUS
  <2>4. automaton' \in AutomatonStates
    OBVIOUS
  <2>5. /\ held' \in BOOLEAN /\ cleanupFailed' \in BOOLEAN
       /\ cancelSelected' \in BOOLEAN /\ consumerCancelled' \in BOOLEAN
    OBVIOUS
  <2>6. queue' \in Queues
    BY DEF Queues, Failure
  <2>7. last' \in {"none", "delta", "text_completed", "usage"} \cup Terminals
    BY DEF Terminals, Failure, Queues
  <2>8. consumer' \in {"calling", "owned", "joining", "closing", "stopped", "cancelled"}
    OBVIOUS
  <2>9. call' \in [Calls -> CallPlaces]
    BY DEF CallPlaces
  <2> QED
    BY <2>1, <2>2, <2>3, <2>4, <2>5, <2>6, <2>7, <2>8, <2>9
<1>2. WorkIsOwned'
  BY DEF WorkIsOwned, CleanupIsLast, Tasks, TaskDone, CleanupExists, CleanupDone
<1>3. CleanupIsLast'
  BY DEF WorkIsOwned, CleanupIsLast, Tasks, Cleanups, TaskDone, CleanupExists,
     CleanupDone
<1>4. CallsAreTold'
  BY DEF WorkIsOwned, CleanupIsLast, CallsAreTold, EventsAreOrdered, Over,
     Confirmed, Terminals, Tasks, Cleanups, TaskDone, CleanupExists, CleanupDone
<1>5. EventsAreOrdered'
  BY DEF WorkIsOwned, CleanupIsLast, EventsAreOrdered, Completing, Terminals,
     Failure, Tasks, Cleanups, TaskDone, CleanupExists, CleanupDone
<1> QED
  BY <1>1, <1>2, <1>3, <1>4, <1>5

LEMMA CancelReturnsKeeps ==
  ASSUME Inv, NEW c \in Cancellers, CancelReturns(c)
  PROVE  Inv'
<1> USE DEF Inv, TypeOK, CancelReturns, At, CallStep, Calls
<1>1. TypeOK'
  <2>1. task' \in Tasks
    BY DEF Tasks, TaskDone
  <2>2. cleanup' \in Cleanups
    BY DEF Cleanups
  <2>3. /\ state' \in {"active", "resources_closing", "terminal_pending", "closed"}
       /\ client' \in {"none", "open", "closed", "unconfirmed"}
       /\ stream' \in {"none", "open", "closed", "unconfirmed"}
    OBVIOUS
  <2>4. automaton' \in AutomatonStates
    OBVIOUS
  <2>5. /\ held' \in BOOLEAN /\ cleanupFailed' \in BOOLEAN
       /\ cancelSelected' \in BOOLEAN /\ consumerCancelled' \in BOOLEAN
    OBVIOUS
  <2>6. queue' \in Queues
    BY DEF Queues, Failure
  <2>7. last' \in {"none", "delta", "text_completed", "usage"} \cup Terminals
    BY DEF Terminals, Failure, Queues
  <2>8. consumer' \in {"calling", "owned", "joining", "closing", "stopped", "cancelled"}
    OBVIOUS
  <2>9. call' \in [Calls -> CallPlaces]
    BY DEF CallPlaces
  <2> QED
    BY <2>1, <2>2, <2>3, <2>4, <2>5, <2>6, <2>7, <2>8, <2>9
<1>2. WorkIsOwned'
  BY DEF WorkIsOwned, CleanupIsLast, Tasks, TaskDone, CleanupExists, CleanupDone
<1>3. CleanupIsLast'
  <2>1. state \in {"resources_closing", "closed"}
    BY DEF CallsAreTold, EventsAreOrdered
  <2>2. ~CleanupExists => state = "closed"
    BY <2>1 DEF CleanupIsLast
  <2> QED
    BY <2>1, <2>2 DEF CleanupIsLast, TaskDone, CleanupExists
<1>4. CallsAreTold'
  BY DEF WorkIsOwned, CleanupIsLast, CallsAreTold, EventsAreOrdered, Over,
     Confirmed, Terminals, Tasks, Cleanups, TaskDone, CleanupExists, CleanupDone
<1>5. EventsAreOrdered'
  BY DEF WorkIsOwned, CleanupIsLast, EventsAreOrdered, Completing, Terminals,
     Failure, Tasks, Cleanups, TaskDone, CleanupExists, CleanupDone
<1> QED
  BY <1>1, <1>2, <1>3, <1>4, <1>5

LEMMA WaitClosedKeeps ==
  ASSUME Inv, NEW c \in Waiters, WaitClosed(c)
  PROVE  Inv'
<1> USE DEF Inv, TypeOK, WaitClosed, At, CallStep, Calls
<1>1. TypeOK'
  <2>1. task' \in Tasks
    BY DEF Tasks, TaskDone
  <2>2. cleanup' \in Cleanups
    BY DEF Cleanups
  <2>3. /\ state' \in {"active", "resources_closing", "terminal_pending", "closed"}
       /\ client' \in {"none", "open", "closed", "unconfirmed"}
       /\ stream' \in {"none", "open", "closed", "unconfirmed"}
    OBVIOUS
  <2>4. automaton' \in AutomatonStates
    OBVIOUS
  <2>5. /\ held' \in BOOLEAN /\ cleanupFailed' \in BOOLEAN
       /\ cancelSelected' \in BOOLEAN /\ consumerCancelled' \in BOOLEAN
    OBVIOUS
  <2>6. queue' \in Queues
    BY DEF Queues, Failure
  <2>7. last' \in {"none", "delta", "text_completed", "usage"} \cup Terminals
    BY DEF Terminals, Failure, Queues
  <2>8. consumer' \in {"calling", "owned", "joining", "closing", "stopped", "cancelled"}
    OBVIOUS
  <2>9. call' \in [Calls -> CallPlaces]
    BY DEF CallPlaces
  <2> QED
    BY <2>1, <2>2, <2>3, <2>4, <2>5, <2>6, <2>7, <2>8, <2>9
<1>2. WorkIsOwned'
  BY DEF WorkIsOwned, CleanupIsLast, Tasks, TaskDone, CleanupExists, CleanupDone
<1>3. CleanupIsLast'
  BY DEF WorkIsOwned, CleanupIsLast, Tasks, Cleanups, TaskDone, CleanupExists,
     CleanupDone
<1>4. CallsAreTold'
  BY DEF WorkIsOwned, CleanupIsLast, CallsAreTold, EventsAreOrdered, Over,
     Confirmed, Terminals, Tasks, Cleanups, TaskDone, CleanupExists, CleanupDone
<1>5. EventsAreOrdered'
  BY DEF WorkIsOwned, CleanupIsLast, EventsAreOrdered, Completing, Terminals,
     Failure, Tasks, Cleanups, TaskDone, CleanupExists, CleanupDone
<1> QED
  BY <1>1, <1>2, <1>3, <1>4, <1>5

LEMMA ForceCancelCleanupKeeps ==
  ASSUME Inv, NEW c \in Forcers, ForceCancelCleanup(c)
  PROVE  Inv'
<1> USE DEF Inv, TypeOK, ForceCancelCleanup, At, CallStep, ReleaseConfirmed, Calls
<1>1. TypeOK'
  <2>1. task' \in Tasks
    BY DEF Tasks, TaskDone
  <2>2. cleanup' \in Cleanups
    BY DEF Cleanups
  <2>3. /\ state' \in {"active", "resources_closing", "terminal_pending", "closed"}
       /\ client' \in {"none", "open", "closed", "unconfirmed"}
       /\ stream' \in {"none", "open", "closed", "unconfirmed"}
    OBVIOUS
  <2>4. automaton' \in AutomatonStates
    OBVIOUS
  <2>5. /\ held' \in BOOLEAN /\ cleanupFailed' \in BOOLEAN
       /\ cancelSelected' \in BOOLEAN /\ consumerCancelled' \in BOOLEAN
    OBVIOUS
  <2>6. queue' \in Queues
    BY DEF Queues, Failure
  <2>7. last' \in {"none", "delta", "text_completed", "usage"} \cup Terminals
    BY DEF Terminals, Failure, Queues
  <2>8. consumer' \in {"calling", "owned", "joining", "closing", "stopped", "cancelled"}
    OBVIOUS
  <2>9. call' \in [Calls -> CallPlaces]
    BY DEF CallPlaces
  <2> QED
    BY <2>1, <2>2, <2>3, <2>4, <2>5, <2>6, <2>7, <2>8, <2>9
<1>2. WorkIsOwned'
  BY DEF WorkIsOwned, CleanupIsLast, Tasks, TaskDone, CleanupExists, CleanupDone
<1>3. CleanupIsLast'
  <2> USE DEF Inv, TypeOK, CleanupIsLast, ForceCancelCleanup, CallStep, CleanupExists,
              CleanupDone
  <2>1. cleanupFailed' <=> cleanupFailed \/ ~ReleaseConfirmed
    BY DEF ReleaseConfirmed
  <2>2. CASE ~CleanupExists
    BY <2>1, <2>2 DEF ReleaseConfirmed
  <2>3. CASE CleanupDone
    BY <2>1, <2>3 DEF WorkIsOwned, TaskDone, Tasks
  <2>4. CASE CleanupExists /\ ~CleanupDone
    <3>1. cleanupFailed'
      BY <2>1, <2>4 DEF ReleaseConfirmed
    <3>2. cleanup' = [cleanup EXCEPT !.cancelled = TRUE]
      BY <2>4
    <3> QED
      BY <2>4, <3>1, <3>2 DEF TaskDone, Tasks, Cleanups
  <2> QED
    BY <2>2, <2>3, <2>4
<1>4. CallsAreTold'
  BY DEF WorkIsOwned, CleanupIsLast, CallsAreTold, EventsAreOrdered, Over,
     Confirmed, Terminals, Tasks, Cleanups, TaskDone, CleanupExists, CleanupDone
<1>5. EventsAreOrdered'
  BY DEF WorkIsOwned, CleanupIsLast, EventsAreOrdered, Completing, Terminals,
     Failure, Tasks, Cleanups, TaskDone, CleanupExists, CleanupDone
<1> QED
  BY <1>1, <1>2, <1>3, <1>4, <1>5

LEMMA ForceReturnsKeeps ==
  ASSUME Inv, NEW c \in Forcers, ForceReturns(c)
  PROVE  Inv'
<1> USE DEF Inv, TypeOK, ForceReturns, At, CallStep, Calls
<1>1. TypeOK'
  <2>1. task' \in Tasks
    BY DEF Tasks, TaskDone
  <2>2. cleanup' \in Cleanups
    BY DEF Cleanups
  <2>3. /\ state' \in {"active", "resources_closing", "terminal_pending", "closed"}
       /\ client' \in {"none", "open", "closed", "unconfirmed"}
       /\ stream' \in {"none", "open", "closed", "unconfirmed"}
    OBVIOUS
  <2>4. automaton' \in AutomatonStates
    OBVIOUS
  <2>5. /\ held' \in BOOLEAN /\ cleanupFailed' \in BOOLEAN
       /\ cancelSelected' \in BOOLEAN /\ consumerCancelled' \in BOOLEAN
    OBVIOUS
  <2>6. queue' \in Queues
    BY DEF Queues, Failure
  <2>7. last' \in {"none", "delta", "text_completed", "usage"} \cup Terminals
    BY DEF Terminals, Failure, Queues
  <2>8. consumer' \in {"calling", "owned", "joining", "closing", "stopped", "cancelled"}
    OBVIOUS
  <2>9. call' \in [Calls -> CallPlaces]
    BY DEF CallPlaces
  <2> QED
    BY <2>1, <2>2, <2>3, <2>4, <2>5, <2>6, <2>7, <2>8, <2>9
<1>2. WorkIsOwned'
  BY DEF WorkIsOwned, CleanupIsLast, Tasks, TaskDone, CleanupExists, CleanupDone
<1>3. CleanupIsLast'
  BY DEF WorkIsOwned, CleanupIsLast, Tasks, Cleanups, TaskDone, CleanupExists,
     CleanupDone
<1>4. CallsAreTold'
  BY DEF WorkIsOwned, CleanupIsLast, CallsAreTold, EventsAreOrdered, Over,
     Confirmed, Terminals, Tasks, Cleanups, TaskDone, CleanupExists, CleanupDone
<1>5. EventsAreOrdered'
  BY DEF WorkIsOwned, CleanupIsLast, EventsAreOrdered, Completing, Terminals,
     Failure, Tasks, Cleanups, TaskDone, CleanupExists, CleanupDone
<1> QED
  BY <1>1, <1>2, <1>3, <1>4, <1>5

-----------------------------------------------------------------------------
LEMMA NextKeeps ==
  ASSUME Inv, [Next]_vars
  PROVE  Inv'
<1>1. CASE ConsumerProgress
  BY <1>1, StreamCreatedKeeps, ObservationArrivesKeeps, TaskRaisedKeeps,
     ConsumerInstallsKeeps, ConsumerClosesKeeps DEF ConsumerProgress
<1>2. CASE ConsumerCalls
  BY <1>2, ConsumerFindsKeeps, ConsumerReadsKeeps, ClientFactoryRaisesKeeps
  DEF ConsumerCalls
<1>3. CASE ConsumerIsCancelled
  BY <1>3, ConsumerIsCancelledKeeps
<1>4. CASE CleanupProgress
  BY <1>4, CleanupStartsKeeps, CleanupReapsKeeps, CleanupClosesStreamKeeps,
     CleanupClosesClientKeeps, CleanupCancelledKeeps DEF CleanupProgress
<1>5. CASE TaskProgress
  BY <1>5, TaskEndsKeeps DEF TaskProgress
<1>6. CASE CallProgress
  BY <1>6, CancelReturnsKeeps, ForceReturnsKeeps DEF CallProgress
<1>7. ASSUME NEW c \in Cancellers, Cancel(c) PROVE Inv'
  BY <1>7, CancelKeeps
<1>8. ASSUME NEW c \in Waiters, WaitClosed(c) PROVE Inv'
  BY <1>8, WaitClosedKeeps
<1>9. ASSUME NEW c \in Forcers, ForceCancelCleanup(c) PROVE Inv'
  BY <1>9, ForceCancelCleanupKeeps
<1>10. CASE UNCHANGED vars
  BY <1>10 DEF vars, Inv, TypeOK, WorkIsOwned, CleanupIsLast, CallsAreTold,
     EventsAreOrdered, TaskDone, CleanupExists, CleanupDone, Over, Confirmed
<1> QED
  BY <1>1, <1>2, <1>3, <1>4, <1>5, <1>6, <1>7, <1>8, <1>9, <1>10 DEF Next

(* The inductive invariant: SDK work, cleanup, calls and events agree at   *)
(* every step of the operation (openai_responses.py:192-512).              *)
THEOREM OperationInvariant == Spec => []Inv
<1>1. Init => Inv
  BY InitHolds
<1>2. Inv /\ [Next]_vars => Inv'
  BY NextKeeps
<1> QED
  BY <1>1, <1>2, PTL DEF Spec

(* A cancel(), wait_closed() or force_cancel_cleanup() that returns has    *)
(* the release it reports behind it, however many of them run at once      *)
(* (openai_responses.py:192-286).                                          *)
THEOREM ReturnsStayHonest == Spec => []ReturnsAreHonest
<1>1. Inv => ReturnsAreHonest
  <2> SUFFICES ASSUME Inv PROVE ReturnsAreHonest
    OBVIOUS
  <2> USE DEF Inv, TypeOK, CallsAreTold, CleanupIsLast, WorkIsOwned, CleanupExists,
              CleanupDone, Confirmed
  <2>1. ASSUME NEW c \in Calls, call[c] \in {"returned", "cancelled", "already_closed"}
        PROVE  /\ TaskDone /\ (CleanupExists => CleanupDone)
               /\ {client, stream} \subseteq {"none", "closed"}
    <3>1. state = "closed" /\ Confirmed
      BY <2>1 DEF Over
    <3>2. CASE CleanupExists
      BY <3>1, <3>2
    <3>3. CASE ~CleanupExists
      BY <3>1, <3>3
    <3> QED
      BY <3>2, <3>3
  <2>2. ASSUME NEW c \in Calls, Over(c), call[c] # "error"
        PROVE  TaskDone /\ (CleanupExists => CleanupDone)
    <3>1. call[c] \in {"returned", "cancelled", "already_closed", "reaped"}
      BY <2>2 DEF Over, CallPlaces
    <3> QED
      BY <2>1, <3>1
  <2>3. ASSUME NEW c \in Cancellers, NEW d \in Cancellers, call[c] = "cancelled"
        PROVE  (call[d] = "cancelled" => c = d) /\ last \notin Terminals
    BY <2>3 DEF Calls
  <2> QED
    BY <2>1, <2>2, <2>3 DEF ReturnsAreHonest
<1> QED
  BY <1>1, OperationInvariant, PTL

(* The step of an event: which one may follow which. *)
Follows ==
  /\ \A c \in Calls : ~Over(c)
  /\ \/ last' = "delta" /\ last = "none"
     \/ last' = "text_completed" /\ last = "delta"
     \/ last' = "usage" /\ last = "text_completed"
     \/ /\ last' = "completed" /\ last \in {"text_completed", "usage"}
        /\ client = "closed" /\ stream = "closed"
     \/ last' = "failed" /\ last \in {"none", "delta", "text_completed"}

LEMMA ProgressFollows ==
  ASSUME Inv, ObservationArrives, last' # last
  PROVE  Follows
<1>1. state = "active" /\ consumer = "owned"
  BY DEF ObservationArrives, Resumes, ReadsOn, Terminates
<1>2. \A c \in Calls : ~Over(c)
  BY <1>1 DEF Inv, CallsAreTold
<1>3. PICK o \in Outcomes : /\ o.events # << >> /\ o.to # "terminal"
                            /\ Give(Head(o.events))
  BY <1>1 DEF ObservationArrives, ReadsOn, Terminates
<1>4. CASE o.events = <<"delta">> /\ automaton \in {"delta", "delta_or_done"}
  BY <1>1, <1>2, <1>3, <1>4 DEF Inv, EventsAreOrdered, Give, Early, Follows
<1>5. CASE o.events = <<"text_completed">> /\ automaton = "delta_or_done"
  BY <1>1, <1>2, <1>3, <1>5 DEF Inv, EventsAreOrdered, Give, Follows
<1> QED
  BY <1>3, <1>4, <1>5, OutcomesAreOrdered

LEMMA TerminalsFollow ==
  ASSUME Inv, ConsumerFinds, last' # last
  PROVE  Follows
<1> USE DEF Inv, TypeOK, EventsAreOrdered, ConsumerFinds
<1>1. state = "terminal_pending" /\ consumer = "calling" /\ Give(Head(queue))
  OBVIOUS
<1>2. \A c \in Calls : ~Over(c)
  BY <1>1 DEF CallsAreTold
<1>3. last' = Head(queue) /\ queue \in Queues /\ queue # << >> /\ last \notin Terminals
  BY <1>1 DEF Give
<1>4. CASE queue \in Completing
  <2>1. client = "closed" /\ stream = "closed"
    BY <1>1, <1>4 DEF CleanupIsLast, WorkIsOwned
  <2>2. CASE queue = <<"completed">>
    BY <1>1, <1>2, <1>3, <2>1, <2>2 DEF Follows
  <2>3. CASE queue = <<"usage", "completed">>
    BY <1>1, <1>2, <1>3, <2>3 DEF Follows
  <2> QED
    BY <1>4, <2>2, <2>3 DEF Completing
<1>5. CASE queue = <<Failure>>
  <2>1. last' = "failed" /\ last # "usage"
    BY <1>1, <1>3, <1>5 DEF Failure
  <2> QED
    BY <1>2, <1>3, <2>1 DEF Follows, Terminals
<1> QED
  BY <1>3, <1>4, <1>5 DEF Queues, Completing

(* No event follows a returned call, events come in the port's order, and  *)
(* completion is told only of a turn that released everything              *)
(* (openai_responses.py:288-319, 396-411, 546-745).                        *)
THEOREM EventsStayLegal == Spec => EventsKeepThePort
<1>1. Inv /\ [Next]_vars => [last' # last => Follows]_vars
  <2> SUFFICES ASSUME Inv, Next, last' # last PROVE Follows
    BY DEF vars
  <2>1. CASE ObservationArrives
    BY <2>1, ProgressFollows
  <2>2. CASE ConsumerFinds
    BY <2>2, TerminalsFollow
  <2> QED
    BY <2>1, <2>2
    DEF Next, ConsumerProgress, ConsumerCalls, CleanupProgress, TaskProgress, CallProgress,
        StreamCreated, TaskRaised, ConsumerInstalls, ConsumerCloses, ConsumerReads,
        ClientFactoryRaises, ConsumerIsCancelled, CleanupStarts, CleanupReaps,
        CleanupClosesStream, CleanupClosesClient, CleanupCancelled, CleanupStep, TaskEnds,
        CancelReturns, ForceReturns, Cancel, WaitClosed, ForceCancelCleanup, CallStep,
        ReadsOn, Terminates
<1> QED
  BY <1>1, OperationInvariant, PTL DEF Spec, EventsKeepThePort, Follows

=============================================================================
