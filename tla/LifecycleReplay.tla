--------------------------- MODULE LifecycleReplay ---------------------------
(***************************************************************************)
(* One stream of facts and events, offered in any order to the Python      *)
(* reducer and to its TypeScript copy, each folding what it accepts (the   *)
(* two replay functions).  history is what the Python reducer accepted.    *)
(*                                                                         *)
(* LegalHistory says which streams describe one session without mentioning *)
(* a state, so the reducer is compared with a definition that is not       *)
(* another reducer.                                                        *)
(***************************************************************************)
EXTENDS SessionLifecycleTs, FiniteSets, SequencesExt

CONSTANT MaxHistory   \* bound on the accepted updates of one stream
ASSUME MaxHistoryAssumption == MaxHistory \in Nat

VARIABLES
  python,      \* state of replay_session_updates
  typescript,  \* state of replaySessionLifecycle
  history      \* the updates the Python reducer accepted, in order

vars == <<python, typescript, history>>

-----------------------------------------------------------------------------
(* The inputs worth offering: every identity, sequences around the next    *)
(* one, and texts that do and do not confirm the accumulated one.          *)

NearSequences == python.last_sequence .. python.last_sequence + 2
CompletionTexts ==
  {python.assistant_text, << >>}
    \cup {Append(python.assistant_text, f) : f \in Fragments}

PayloadTexts(type) ==
  CASE type = "assistant.delta" -> {<<f>> : f \in Fragments}
    [] type = "assistant.completed" -> CompletionTexts
    [] OTHER -> {<< >>}

Inputs ==
  Facts \cup UNION {[type : {t}, correlation_id : Commands, session_id : Sessions,
                     sequence : NearSequences, text : PayloadTexts(t), code : Codes]
                    : t \in EventTypes}

-----------------------------------------------------------------------------
Init ==
  /\ python = InitialSessionState
  /\ typescript = InitialSessionState
  /\ history = << >>

(* One turn of both replay loops.  A refused update ends them with the     *)
(* projection they have, so every stream that goes on from it is explored. *)
Replay(u) ==
  /\ Len(history) < MaxHistory
  /\ python' = After(python, u)
  /\ typescript' = TsReduceSessionLifecycle(typescript, u).state
  /\ history' = IF Accepts(python, u) THEN Append(history, u) ELSE history

Next == \E u \in Inputs : Replay(u)
Spec == Init /\ [][Next]_vars

-----------------------------------------------------------------------------
(* Which histories describe one session. *)

IsEvent(u) == u.type \in EventTypes
Positions(h, type) == {i \in DOMAIN h : h[i].type = type}
Before(h, i, type) == {j \in Positions(h, type) : j < i}

OneTaskThenOneStart(h) ==
  \A i \in DOMAIN h : /\ h[i].type = "task.submitted" <=> i = 1
                      /\ h[i].type = "session.started" <=> i = 2

NothingAfterATerminal(h) ==
  \A i \in 1 .. Len(h) - 1 :
    h[i].type \notin {"session.completed", "session.cancelled", "session.failed"}

OneSession(h) == \A i \in 2 .. Len(h) : h[i].session_id = h[2].session_id

EventsAreNumbered(h) ==
  \A i \in DOMAIN h : IsEvent(h[i]) =>
    h[i].sequence = Cardinality({j \in 1 .. i : IsEvent(h[j])})

EventsNameTheirCommand(h) ==
  \A i \in DOMAIN h : IsEvent(h[i]) =>
    IF h[i].type = "session.cancelled"
      THEN \E j \in Before(h, i, "cancel.requested") :
             h[i].correlation_id = h[j].command_id
      ELSE h[i].correlation_id = h[1].command_id

Awaiting(h, i) ==
  /\ Before(h, i, "cancel.requested") = {}
  /\ Cardinality(Before(h, i, "approval.requested"))
       > Cardinality(Before(h, i, "approval.resolved"))

ApprovalsBracketAPause(h) ==
  \A i \in 3 .. Len(h) :
    CASE h[i].type = "approval.resolved" -> Awaiting(h, i)
      [] h[i].type \in {"cancel.requested", "session.failed"} -> TRUE
      [] OTHER -> ~Awaiting(h, i)

CancelledOnceAtMost(h) ==
  \A i \in Positions(h, "cancel.requested") : \A j \in i + 1 .. Len(h) :
    h[j].type \notin {"cancel.requested", "approval.requested", "approval.resolved"}

DeltasUpTo(h, i) ==
  FlattenSeq([k \in 1 .. i |-> IF h[k].type = "assistant.delta" THEN h[k].text
                               ELSE << >>])

AssistantTextIsConfirmed(h) ==
  /\ \A i \in Positions(h, "assistant.completed") :
       /\ h[i].text = DeltasUpTo(h, i)
       /\ \A j \in i + 1 .. Len(h) :
            h[j].type \notin {"assistant.delta", "assistant.completed"}
  /\ \A i \in Positions(h, "session.completed") :
       Before(h, i, "assistant.completed") # {}

LegalHistory(h) ==
  /\ OneTaskThenOneStart(h)
  /\ NothingAfterATerminal(h)
  /\ OneSession(h)
  /\ EventsAreNumbered(h)
  /\ EventsNameTheirCommand(h)
  /\ ApprovalsBracketAPause(h)
  /\ CancelledOnceAtMost(h)
  /\ AssistantTextIsConfirmed(h)

-----------------------------------------------------------------------------
TypeOK ==
  /\ python \in SessionState
  /\ typescript \in SessionState
  /\ Len(history) <= MaxHistory

(* The two reducers are one function: on whatever stream they were folded, *)
(* they hold the same projection and give every next input the same        *)
(* verdict, down to the failure code the client displays.                  *)
ReducersAgree ==
  /\ python = typescript
  /\ \A u \in Inputs :
       ReduceSessionState(python, u) = TsReduceSessionLifecycle(typescript, u)

(* The reducer accepts an update exactly when the stream so far, extended  *)
(* by it, is the history of one session: nothing illegal passes, nothing   *)
(* legal is refused.                                                       *)
ReducerDecidesHistories ==
  /\ LegalHistory(history)
  /\ \A u \in Inputs : Accepts(python, u) <=> LegalHistory(Append(history, u))

(* A projection never forgets: its text only grows, its sequence and its   *)
(* identities stay once set, and a terminal projection is final.           *)
ProjectionIsMonotone ==
  [][/\ python.status \in TerminalStatuses => python' = python
     /\ python'.last_sequence >= python.last_sequence
     /\ IsPrefix(python.assistant_text, python'.assistant_text)
     /\ python.assistant_completed =>
          /\ python'.assistant_completed
          /\ python'.assistant_text = python.assistant_text
     /\ python.session_id # None => python'.session_id = python.session_id
     /\ python.cancel_command_id # None =>
          python'.cancel_command_id = python.cancel_command_id]_vars
=============================================================================
