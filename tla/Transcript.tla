----------------------------- MODULE Transcript -----------------------------
(***************************************************************************)
(* The transcript of one session (persistence/transcript.py): a writer     *)
(* that sanitizes every input the live reducer accepted, folds it into a   *)
(* safe projection of its own and appends it to a file, and a reader that  *)
(* replays the file.  The two were written apart and must agree; between   *)
(* them stand short writes, failed flushes, failed rollbacks and crashes.  *)
(*                                                                         *)
(* A call holds the lock without ever awaiting, so it is one action; a     *)
(* crash inside it is one of its outcomes.  A text is a sequence of        *)
(* pieces, each with its size.  Whether a delta holds a secret is a choice *)
(* of the action.  The limits on the bytes of a file and of a line are     *)
(* represented by the limit on its records.                                *)
(***************************************************************************)
EXTENDS SessionLifecycle, LoopLimits

CONSTANTS
  SessionId,       \* the session this transcript belongs to
  RawBytes,        \* sizes of the deltas offered
  TextLimit,       \* TranscriptSettings.text_limit_bytes
  MarkerBytes,     \* size of _TRUNCATION_MARKER
  MaxReplayText,   \* _MAX_REPLAY_ASSISTANT_BYTES
  MaxRecords,      \* _MAX_TRANSCRIPT_RECORDS
  MaxSequence      \* bound on the events of the session

(* Pieces of text: raw ones, and what the sanitizer puts in their place.   *)
Piece(what, bytes) == [what |-> what, bytes |-> bytes]
Redacted == Piece("redacted", 1)
Omitted == Piece("omitted", 1)
Truncated(bytes) == Piece("truncated", bytes)
RawPieces == {Piece("raw", b) : b \in RawBytes}

PersistenceFailures == {"write_failed", "flush_failed", "summary_failed"}

(* The limit leaves room for the marker (TranscriptSettings).              *)
ASSUME TranscriptAssumption ==
  /\ SessionId \in Sessions
  /\ None \notin PersistenceFailures
  /\ RawBytes \subseteq Nat \ {0}
  /\ RawPieces \cup {Redacted, Omitted} \subseteq Fragments
  /\ \A b \in MarkerBytes .. TextLimit : Truncated(b) \in Fragments
  /\ MarkerBytes \in Nat \ {0} /\ TextLimit \in Nat /\ TextLimit > MarkerBytes
  /\ MaxReplayText \in Nat /\ MaxRecords \in Nat /\ MaxSequence \in Nat

VARIABLES
  live,       \* the session's own reducer state
  safe,       \* _state: the projection of what was persisted
  evidence,   \* _evidence
  order,      \* _next_record_order
  budget,     \* the sanitizer's content bytes and whether they ran out
  failure,    \* code of _failure, or None
  reported,   \* _failure_reported
  closed,     \* _closed
  disk,       \* the complete lines of the file
  torn,       \* whether a line without its LF follows them
  summary,    \* the summary file
  crashed,    \* whether the process died in a call
  told        \* what the last call returned

vars == <<live, safe, evidence, order, budget, failure, reported, closed, disk,
          torn, summary, crashed, told>>

Unobserved == "unobserved"
NoEvidence == [usage |-> FALSE, limits |-> Unobserved]
NoSummary == [place |-> "none", status |-> "none", evidence |-> NoEvidence]

-----------------------------------------------------------------------------
(* Predicates the writer and the reader share. *)

IsTerminal(u) ==
  u.type \in {"session.completed", "session.cancelled", "session.failed"}
UsesLimitCode(u) == u.type = "session.failed" /\ u.code \in LimitFailureCodes
LimitsMatchTerminal(exhausted, u) ==
  IF exhausted = Unexhausted THEN ~UsesLimitCode(u)
  ELSE u.type = "session.failed" /\ u.code = LimitFailureCode(exhausted)

(* The size of every prefix of a text, and of the whole.                   *)
PrefixBytes(text) ==
  LET upTo[n \in 0 .. Len(text)] == IF n = 0 THEN 0 ELSE upTo[n - 1] + text[n].bytes
  IN upTo
TextBytes(text) == PrefixBytes(text)[Len(text)]

(* One line of the file: a lifecycle input, or an observation. *)
LifecycleRecord(n, u) == [kind |-> "lifecycle", order |-> n, input |-> u]
UsageRecord(n) == [kind |-> "usage", order |-> n, input |-> None]
LimitsRecord(n, x) == [kind |-> "limits", order |-> n, input |-> x]
Garbled == [kind |-> "garbled", order |-> 0, input |-> None]

-----------------------------------------------------------------------------
(* replay_transcript: a fold that stops at the first unsafe line. *)

EmptyReplay == [ok |-> TRUE, state |-> InitialSessionState, evidence |-> NoEvidence,
                pending |-> FALSE, bytes |-> 0, lines |-> 0]

(* Limits evidence must be followed by its terminal and by nothing else;   *)
(* a terminal with a limit's code must follow its evidence.                *)
PendingLimitsHold(t, r) ==
  IF t.pending
    THEN /\ r.kind = "lifecycle" /\ IsTerminal(r.input)
         /\ LimitsMatchTerminal(t.evidence.limits, r.input)
    ELSE r.kind = "lifecycle" => ~UsesLimitCode(r.input)

UsageFits(e, s) ==
  /\ ~e.usage /\ e.limits = Unobserved
  /\ s.status = "running" /\ s.assistant_text # << >> /\ ~s.assistant_completed
LimitsFit(e, s) ==
  e.limits = Unobserved /\ s.session_id = SessionId /\ s.status \notin TerminalStatuses

LifecycleFits(t, u) ==
  /\ u.type = "assistant.delta" =>
       ~t.evidence.usage /\ t.bytes + TextBytes(u.text) <= MaxReplayText
  /\ Accepts(t.state, u)

ReplayLine(t, r) ==
  LET fits ==
        /\ t.ok /\ r.kind # "garbled"
        /\ t.lines < MaxRecords /\ r.order = t.lines + 1
        /\ PendingLimitsHold(t, r)
        /\ CASE r.kind = "usage" -> UsageFits(t.evidence, t.state)
             [] r.kind = "limits" -> LimitsFit(t.evidence, t.state)
             [] r.kind = "lifecycle" -> LifecycleFits(t, r.input)
      next == [t EXCEPT !.lines = @ + 1, !.pending = (r.kind = "limits")]
  IN IF ~fits THEN [t EXCEPT !.ok = FALSE]
     ELSE CASE r.kind = "usage" -> [next EXCEPT !.evidence.usage = TRUE]
            [] r.kind = "limits" -> [next EXCEPT !.evidence.limits = r.input]
            [] r.kind = "lifecycle" ->
                 [next EXCEPT !.state = After(t.state, r.input),
                              !.bytes = @ + (IF r.input.type = "assistant.delta"
                                               THEN TextBytes(r.input.text) ELSE 0)]

(* What the reader holds after each line, and after the last.              *)
Replays(lines) ==
  LET upTo[n \in 0 .. Len(lines)] ==
        IF n = 0 THEN EmptyReplay ELSE ReplayLine(upTo[n - 1], lines[n])
  IN upTo
Replay(lines) == Replays(lines)[Len(lines)]

-----------------------------------------------------------------------------
(* The sanitizer *)

Redactions(p) == {p, Redacted}

(* _bounded_assistant_fragment: the piece persisted and the budget left.   *)
(* Every delta leaves a piece, so that the events stay numbered.           *)
Bounded(b, p) ==
  LET remaining == TextLimit - b.bytes
  IN IF b.exhausted THEN [budget |-> b, text |-> <<Omitted>>]
     ELSE IF p.bytes <= remaining
       THEN [budget |-> [b EXCEPT !.bytes = @ + p.bytes], text |-> <<p>>]
     ELSE IF remaining > MarkerBytes
       THEN [budget |-> [bytes |-> TextLimit, exhausted |-> TRUE],
             text |-> <<Truncated(remaining)>>]
     ELSE [budget |-> [b EXCEPT !.exhausted = TRUE],
           text |-> <<Truncated(MarkerBytes)>>]

(* sanitize_update: every safe copy u may become, with the budget it       *)
(* leaves.  The text of the completion is what the safe deltas add up to.  *)
Sanitizations(u) ==
  CASE u.type = "assistant.delta" ->
         {[budget |-> Bounded(budget, p).budget,
           update |-> [u EXCEPT !.text = Bounded(budget, p).text]]
          : p \in Redactions(u.text[1])}
    [] u.type = "assistant.completed" ->
         {[budget |-> budget,
           update |-> [u EXCEPT !.text = IF safe.assistant_text = << >>
                                           THEN <<Omitted>> ELSE safe.assistant_text]]}
    [] OTHER -> {[budget |-> budget, update |-> u]}

-----------------------------------------------------------------------------
(* What the writer refuses before it appends. *)

(* _same_lifecycle_invariants: everything but the text. *)
SameLifecycle(a, b) ==
  /\ a.status = b.status /\ a.session_id = b.session_id
  /\ a.start_command_id = b.start_command_id
  /\ a.cancel_command_id = b.cancel_command_id
  /\ a.last_sequence = b.last_sequence
  /\ a.assistant_completed = b.assistant_completed
  /\ a.session_failure = b.session_failure

(* slip: a limit's failure code needs no evidence *)
UpdateAdmittedUnproved(u, accepted) ==
  /\ evidence.limits # Unobserved =>
       IsTerminal(u) /\ LimitsMatchTerminal(evidence.limits, u)
  /\ ~(evidence.usage /\ u.type = "assistant.delta")
  /\ Accepts(safe, u) /\ SameLifecycle(After(safe, u), accepted)
  /\ TextBytes(After(safe, u).assistant_text) <= MaxReplayText

UpdateAdmitted(u, accepted) ==
  /\ evidence.limits = Unobserved => ~UsesLimitCode(u)
  /\ evidence.limits # Unobserved =>
       IsTerminal(u) /\ LimitsMatchTerminal(evidence.limits, u)
  /\ ~(evidence.usage /\ u.type = "assistant.delta")
  /\ Accepts(safe, u) /\ SameLifecycle(After(safe, u), accepted)
  /\ TextBytes(After(safe, u).assistant_text) <= MaxReplayText

UsageAdmitted ==
  /\ ~evidence.usage /\ evidence.limits = Unobserved
  /\ safe.status = "running" /\ safe.assistant_text # << >>
  /\ ~safe.assistant_completed

LimitsAdmitted ==
  /\ evidence.limits = Unobserved
  /\ safe.session_id = SessionId
  /\ safe.status \notin TerminalStatuses

-----------------------------------------------------------------------------
(* The file.  A line that follows a torn one is lost with it.              *)

Extended(r) == Append(disk, IF torn THEN Garbled ELSE r)

(* _append_and_flush: every way an append may end.  A failed write leaves  *)
(* part of the line, a failed flush all of it, unless the rollback works;  *)
(* a crash leaves whatever had reached the file.                           *)
Appends(r) ==
  LET end(lines, t, code, dead) ==
        [disk |-> lines, torn |-> t, code |-> code, crashed |-> dead]
  IN {end(Extended(r), FALSE, None, FALSE)}
       \cup {end(disk, t, "write_failed", FALSE) : t \in {torn, TRUE}}
       \cup {end(disk, torn, "flush_failed", FALSE),
             end(Extended(r), FALSE, "flush_failed", FALSE)}
       \cup {end(disk, t, None, TRUE) : t \in {torn, TRUE}}
       \cup {end(Extended(r), FALSE, None, TRUE)}

(* slip: the summary is written in its place, and a crash cuts it short *)
SummariesInPlace(s, e) ==
  LET end(status, code, dead) ==
        [summary |-> [place |-> "final", status |-> status, evidence |-> e],
         code |-> code, crashed |-> dead]
  IN {end(s.status, None, FALSE), end(s.status, None, TRUE), end("none", None, TRUE),
      end("none", "summary_failed", FALSE)}

(* _write_summary: written aside, flushed, then moved into place.          *)
Summaries(s, e) ==
  LET end(place, code, dead) ==
        [summary |-> [place |-> place, status |-> s.status, evidence |-> e],
         code |-> code, crashed |-> dead]
  IN {end("final", None, FALSE), end("final", None, TRUE), end("temporary", None, TRUE),
      [end("none", None, TRUE) EXCEPT !.summary = summary],
      end("temporary", "summary_failed", FALSE),
      [end("none", "summary_failed", FALSE) EXCEPT !.summary = summary]}

-----------------------------------------------------------------------------
(* The calls *)

Init ==
  /\ live = InitialSessionState /\ safe = InitialSessionState
  /\ evidence = NoEvidence
  /\ order = 1
  /\ budget = [bytes |-> 0, exhausted |-> FALSE]
  /\ failure = None /\ reported = FALSE /\ closed = FALSE
  /\ disk = << >> /\ torn = FALSE
  /\ summary = NoSummary
  /\ crashed = FALSE /\ told = None

Healthy == failure = None /\ ~closed

(* slip: the failure is returned and forgotten *)
LatchNothing(code) ==
  /\ failure' = None
  /\ reported' = FALSE
  /\ closed' = closed
  /\ told' = code

(* _latch_failure and _take_failure at the end of a call *)
Latch(code) ==
  /\ failure' = code
  /\ reported' = TRUE
  /\ closed' = TRUE
  /\ told' = code

(* The call does nothing: it reports a failure that was not, or is over.   *)
Idle ==
  /\ ~Healthy
  /\ told' = IF failure # None /\ ~reported THEN failure ELSE None
  /\ reported' = (reported \/ failure # None)
  /\ UNCHANGED <<safe, evidence, order, budget, failure, closed, disk, torn,
                 summary, crashed>>

Refuse ==
  /\ Latch("write_failed")
  /\ UNCHANGED <<safe, evidence, order, disk, torn, summary, crashed>>

(* An append that failed or crashed changes nothing but the file.          *)
Stop(a) ==
  /\ disk' = a.disk /\ torn' = a.torn /\ crashed' = a.crashed
  /\ IF a.crashed THEN UNCHANGED <<failure, reported, closed, told>> ELSE Latch(a.code)
  /\ UNCHANGED <<safe, evidence, order, summary>>

Commit(a, state, seen) ==
  /\ disk' = a.disk /\ torn' = a.torn
  /\ safe' = state /\ evidence' = seen /\ order' = order + 1

(* The end of record for a terminal: the summary, then the file is closed. *)
Summarize(u, a) ==
  \E s \in Summaries(After(safe, u), evidence) :
    /\ Commit(a, After(safe, u), evidence)
    /\ summary' = s.summary /\ crashed' = s.crashed
    /\ IF s.crashed THEN UNCHANGED <<failure, reported, closed, told>>
       ELSE IF s.code # None THEN Latch(s.code)
       ELSE closed' = TRUE /\ told' = None /\ UNCHANGED <<failure, reported>>

Persist(u, accepted) ==
  IF ~UpdateAdmitted(u, accepted) \/ order > MaxRecords THEN Refuse
  ELSE \E a \in Appends(LifecycleRecord(order, u)) :
         IF a.crashed \/ a.code # None THEN Stop(a)
         ELSE IF IsTerminal(u) THEN Summarize(u, a)
         ELSE /\ Commit(a, After(safe, u), evidence)
              /\ told' = None
              /\ UNCHANGED <<failure, reported, closed, summary, crashed>>

(* The session's reducer accepted u and its observer hands it over.        *)
Record(u) ==
  /\ ~crashed /\ Accepts(live, u)
  /\ live' = After(live, u)
  /\ \/ Idle
     \/ /\ Healthy
        /\ \E z \in Sanitizations(u) :
             budget' = z.budget /\ Persist(z.update, After(live, u))

Observe(admitted, r, seen) ==
  /\ ~crashed
  /\ UNCHANGED live
  /\ \/ Idle
     \/ /\ Healthy
        /\ UNCHANGED budget
        /\ IF ~admitted \/ order > MaxRecords THEN Refuse
           ELSE \E a \in Appends(r) :
                  IF a.crashed \/ a.code # None THEN Stop(a)
                  ELSE /\ Commit(a, safe, seen)
                       /\ told' = None
                       /\ UNCHANGED <<failure, reported, closed, summary, crashed>>

RecordModelUsage ==
  Observe(UsageAdmitted, UsageRecord(order), [evidence EXCEPT !.usage = TRUE])
RecordLoopLimits(x) ==
  Observe(LimitsAdmitted, LimitsRecord(order, x), [evidence EXCEPT !.limits = x])

Close ==
  /\ ~crashed /\ ~closed
  /\ closed' = TRUE
  /\ told' = None
  /\ UNCHANGED <<live, safe, evidence, order, budget, failure, reported, disk, torn,
                 summary, crashed>>

(* What the session's reducer may be offered next: the sessions of this    *)
(* code never pause for an approval, and no event has an empty text.       *)
Updates ==
  LET event(type, corr, text, code) ==
        WireEvent(type, corr, SessionId, live.last_sequence + 1, text, code)
  IN {TaskSubmitted(c) : c \in Commands}
       \cup {CancelRequested(c, SessionId) : c \in Commands}
       \cup {event("session.started", live.start_command_id, << >>, None),
             event("session.completed", live.start_command_id, << >>, None),
             event("session.cancelled", live.cancel_command_id, << >>, None)}
       \cup {event("assistant.delta", live.start_command_id, <<p>>, None) : p \in RawPieces}
       \cup {event("assistant.completed", live.start_command_id, text, None)
             : text \in {live.assistant_text} \ {<< >>}}
       \cup {event("session.failed", live.start_command_id, << >>, c) : c \in Codes}

(* Of a writer that is done, one further record is explored.              *)
Offering == live.last_sequence < MaxSequence /\ (Healthy \/ told # None)

Observations == {x \in Exhaustions : LimitFailureCode(x) \in Codes} \cup {Unexhausted}

Next ==
  \/ Offering /\ \E u \in Updates : Record(u)
  \/ RecordModelUsage
  \/ \E x \in Observations : RecordLoopLimits(x)
  \/ Close

Spec == Init /\ [][Next]_vars

-----------------------------------------------------------------------------
(* Properties *)

(* The writer admits an input exactly when the reader will replay the file *)
(* that ends with it: nothing is persisted that replay refuses, and no     *)
(* sound input is refused (record 715-740, 791-800, 850-857 against        *)
(* replay_transcript 1105-1184).  Nor does sanitizing ever turn an input   *)
(* the session accepted into one its safe copy cannot follow (459-485).    *)
WriterAndReaderAgree ==
  (Healthy /\ ~crashed) =>
    LET after(r) == Replay(Append(disk, r)).ok
        room == order <= MaxRecords
    IN /\ \A u \in Updates : Accepts(live, u) =>
            \A z \in Sanitizations(u) :
              /\ (UpdateAdmitted(z.update, After(live, u)) /\ room)
                   <=> after(LifecycleRecord(order, z.update))
              /\ Accepts(safe, z.update)
              /\ SameLifecycle(After(safe, z.update), After(live, u))
       /\ (UsageAdmitted /\ room) <=> after(UsageRecord(order))
       /\ \A x \in Observations :
            (LimitsAdmitted /\ room) <=> after(LimitsRecord(order, x))

(* Whatever failed and wherever the process died, the complete lines of    *)
(* the file replay; while the writer is sound they replay to its own       *)
(* projection, which tells of the session everything but its words; and a  *)
(* tape that replays as complete tells the session's outcome (907-913,     *)
(* 1458-1467).                                                             *)
FileReplays ==
  /\ Replay(disk).ok
  /\ (failure = None /\ ~crashed) =>
       /\ ~torn
       /\ Replay(disk).state = safe
       /\ Replay(disk).evidence = evidence
       /\ ~closed => SameLifecycle(safe, live)
  /\ Replay(disk).state.status \in TerminalStatuses =>
       SameLifecycle(Replay(disk).state, live)

(* A summary stands only beside the complete transcript it summarizes,     *)
(* through every crash and failure (745-761, 915-942).                     *)
SummaryTellsTheTape ==
  summary.place = "final" =>
    /\ ~torn
    /\ Replay(disk).state.status = summary.status
    /\ summary.status \in TerminalStatuses
    /\ Replay(disk).evidence = summary.evidence

(* The first failure is returned by the call that met it and by no other,  *)
(* and nothing is written after it (944-953).                              *)
FirstFailureIsTheLast ==
  [][/\ failure # None =>
          /\ UNCHANGED <<disk, torn, summary, failure>>
          /\ told' = None
     /\ told' # None /\ told' # told => failure' = told' /\ closed']_vars
=============================================================================
