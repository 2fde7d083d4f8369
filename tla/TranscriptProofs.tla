-------------------------- MODULE TranscriptProofs --------------------------
(***************************************************************************)
(* What the transcript's file says of the session, proved for every        *)
(* session, every text and every limit.  The reader and the size of a text *)
(* are functions of sequences of any length: the first part shows what     *)
(* each makes of one line, or one piece, more.                             *)
(***************************************************************************)
EXTENDS Transcript, SessionLifecycleProofs

-----------------------------------------------------------------------------
(* The inductive invariant. *)

Pieces ==
  RawPieces \cup {Redacted, Omitted}
    \cup {Truncated(b) : b \in MarkerBytes .. TextLimit}

Evidences ==
  [usage : BOOLEAN, limits : Exhaustions \cup {Unexhausted, Unobserved}]

(* The inputs a record may hold: an event's correlation is whatever        *)
(* identity the session has.                                               *)
Recordable ==
  Facts
    \cup [type : EventTypes, correlation_id : Commands \cup {None},
          session_id : Sessions, sequence : Nat, text : Seq(Fragments),
          code : Codes \cup {None}]

Lines ==
  {LifecycleRecord(n, u) : n \in Nat, u \in Recordable}
    \cup {UsageRecord(n) : n \in Nat}
    \cup {LimitsRecord(n, x) : n \in Nat, x \in Observations}
    \cup {Garbled}

ReplayStates ==
  [ok : BOOLEAN, state : SessionState, evidence : Evidences, pending : BOOLEAN,
   bytes : Nat, lines : Nat]

Shapes ==
  /\ live \in SessionState
  /\ safe \in SessionState /\ safe.assistant_text \in Seq(Pieces)
  /\ evidence \in Evidences
  /\ order \in Nat
  /\ budget \in [bytes : 0 .. TextLimit, exhausted : BOOLEAN]
  /\ failure \in PersistenceFailures \cup {None}
  /\ reported \in BOOLEAN /\ closed \in BOOLEAN
  /\ torn \in BOOLEAN /\ crashed \in BOOLEAN
  /\ disk \in Seq(Lines)
  /\ Replay(disk) \in ReplayStates

(* A failure is told by the call that met it, and ends the writer. *)
FailureAgrees == failure # None => reported /\ closed

(* The safe projection stands where the session's does.  Its words may be  *)
(* others, but there are some exactly when the session has said some.      *)
Follows(a, b) ==
  /\ SameLifecycle(a, b)
  /\ a.assistant_text = << >> <=> b.assistant_text = << >>

(* What the reader would hold is what the writer holds, down to the limits *)
(* each keeps: lines, bytes of text, evidence that awaits its terminal.    *)
WriterAgrees ==
  (failure = None /\ ~crashed) =>
    LET t == Replay(disk)
    IN /\ ~torn
       /\ t.state = safe /\ t.evidence = evidence /\ t.lines + 1 = order
       /\ t.bytes = TextBytes(safe.assistant_text) /\ t.bytes <= MaxReplayText
       /\ t.pending <=>
            evidence.limits # Unobserved /\ safe.status \notin TerminalStatuses
       /\ safe.status = "idle" => safe.assistant_text = << >>

(* An open writer has not met the end of the session it follows. *)
OpenAgrees ==
  (Healthy /\ ~crashed) =>
    /\ Follows(safe, live)
    /\ safe.status \notin TerminalStatuses
    /\ summary.place # "final"

(* Whoever reads a terminal reads the session's. *)
TapeAgrees ==
  /\ Replay(disk).ok
  /\ Replay(disk).state.status \in TerminalStatuses =>
       SameLifecycle(Replay(disk).state, live)

(* A summary in place was moved there after its transcript was whole, and  *)
(* nobody writes after it.                                                 *)
SummaryAgrees ==
  summary.place = "final" =>
    /\ closed \/ crashed
    /\ SummaryTellsTheTape

TranscriptInv ==
  /\ Shapes
  /\ FailureAgrees
  /\ WriterAgrees
  /\ OpenAgrees
  /\ TapeAgrees
  /\ SummaryAgrees

-----------------------------------------------------------------------------
(* Part one: the two folds. *)

(* The reader's states over a file: the definition is not circular.        *)
LEMMA ReplaysDefined ==
  ASSUME NEW lines, Len(lines) \in Nat
  PROVE  Replays(lines) =
           [n \in 0 .. Len(lines) |->
              IF n = 0 THEN EmptyReplay
              ELSE ReplayLine(Replays(lines)[n - 1], lines[n])]
PROOF
  <1> DEFINE Runs(g, m) ==
        g = [n \in 0 .. m |-> IF n = 0 THEN EmptyReplay
                              ELSE ReplayLine(g[n - 1], lines[n])]
  <1> DEFINE S == {m \in Nat : \E g : Runs(g, m)}
  <1>1. 0 \in S
    <2> DEFINE g == [n \in 0 .. 0 |-> EmptyReplay]
    <2>1. Runs(g, 0)
      OBVIOUS
    <2> QED
      BY <2>1
  <1>2. ASSUME NEW m \in Nat, m \in S PROVE m + 1 \in S
    <2>1. PICK g : Runs(g, m)
      BY <1>2
    <2> DEFINE h == [n \in 0 .. m + 1 |->
                       IF n <= m THEN g[n] ELSE ReplayLine(g[m], lines[m + 1])]
    <2>2. ASSUME NEW n \in 0 .. m + 1
          PROVE  h[n] = IF n = 0 THEN EmptyReplay ELSE ReplayLine(h[n - 1], lines[n])
      <3>1. CASE n = 0
        BY <2>1, <3>1
      <3>2. CASE n # 0 /\ n <= m
        <4>1. n - 1 \in 0 .. m /\ n \in 0 .. m
          BY <3>2
        <4>2. g[n] = ReplayLine(g[n - 1], lines[n])
          BY <2>1, <3>2, <4>1
        <4>3. h[n] = g[n] /\ h[n - 1] = g[n - 1]
          BY <3>2, <4>1
        <4> QED
          BY <3>2, <4>2, <4>3
      <3>3. CASE n = m + 1
        <4>1. h[n] = ReplayLine(g[m], lines[m + 1]) /\ h[n - 1] = g[m]
          BY <3>3
        <4> QED
          BY <3>3, <4>1
      <3> QED
        BY <3>1, <3>2, <3>3
    <2>3. Runs(h, m + 1)
      BY <2>2
    <2>4. \E f : Runs(f, m + 1)
      <3> HIDE DEF Runs, h
      <3> QED
        BY <2>3
    <2> QED
      BY <2>4
  <1>3. Len(lines) \in S
    <2> HIDE DEF S
    <2> QED
      BY <1>1, <1>2, SetInduction
  <1>4. \E g : Runs(g, Len(lines))
    BY <1>3
  <1>5. Replays(lines) = CHOOSE g : Runs(g, Len(lines))
    BY DEF Replays
  <1>6. Runs(Replays(lines), Len(lines))
    <2> HIDE DEF Runs
    <2> QED
      BY <1>4, <1>5
  <1> QED
    BY <1>6

(* Before the first line the reader holds nothing.                         *)
LEMMA ReplayOfNothing == Replay(<< >>) = EmptyReplay
PROOF
  BY ReplaysDefined DEF Replay

(* One line more is one step more of the reader.                           *)
LEMMA ReplayOfOneMore ==
  ASSUME NEW X, NEW lines \in Seq(X), NEW r \in X
  PROVE  Replay(Append(lines, r)) = ReplayLine(Replay(lines), r)
PROOF
  <1> DEFINE more == Append(lines, r)
  <1> DEFINE A == Replays(lines)
  <1> DEFINE B == Replays(more)
  <1>1. /\ Len(lines) \in Nat /\ Len(more) = Len(lines) + 1
        /\ more[Len(lines) + 1] = r
        /\ \A n \in 1 .. Len(lines) : more[n] = lines[n]
    OBVIOUS
  <1>2. /\ A = [n \in 0 .. Len(lines) |-> IF n = 0 THEN EmptyReplay
                                          ELSE ReplayLine(A[n - 1], lines[n])]
        /\ B = [n \in 0 .. Len(more) |-> IF n = 0 THEN EmptyReplay
                                         ELSE ReplayLine(B[n - 1], more[n])]
    BY <1>1, ReplaysDefined
  <1> DEFINE S == {n \in Nat : n <= Len(lines) => A[n] = B[n]}
  <1> HIDE DEF A, B, more
  <1>3. 0 \in S
    BY <1>1, <1>2
  <1>4. ASSUME NEW n \in Nat, n \in S PROVE n + 1 \in S
    <2> SUFFICES ASSUME n + 1 <= Len(lines) PROVE A[n + 1] = B[n + 1]
      OBVIOUS
    <2>1. /\ n + 1 \in 0 .. Len(lines) /\ n + 1 \in 0 .. Len(more)
          /\ n + 1 \in 1 .. Len(lines) /\ n + 1 # 0 /\ (n + 1) - 1 = n
      BY <1>1
    <2>2. A[n + 1] = ReplayLine(A[n], lines[n + 1])
      BY <1>2, <2>1
    <2>3. B[n + 1] = ReplayLine(B[n], more[n + 1])
      BY <1>2, <2>1
    <2>4. A[n] = B[n]
      BY <1>1, <1>4
    <2> QED
      BY <1>1, <2>1, <2>2, <2>3, <2>4
  <1>5. Len(lines) \in S
    <2> HIDE DEF S
    <2> QED
      BY <1>1, <1>3, <1>4, SetInduction
  <1>6. B[Len(lines) + 1] = ReplayLine(B[Len(lines)], more[Len(lines) + 1])
    <2>1. Len(lines) + 1 \in 0 .. Len(more) /\ (Len(lines) + 1) - 1 = Len(lines)
      BY <1>1
    <2> QED
      BY <1>1, <1>2, <2>1
  <1>7. Replay(more) = B[Len(lines) + 1] /\ Replay(lines) = A[Len(lines)]
    BY <1>1 DEF Replay, A, B
  <1> QED
    BY <1>1, <1>5, <1>6, <1>7 DEF more

(* The same of the sizes of a text's prefixes.                             *)
LEMMA PrefixBytesDefined ==
  ASSUME NEW text, Len(text) \in Nat
  PROVE  PrefixBytes(text) =
           [n \in 0 .. Len(text) |->
              IF n = 0 THEN 0 ELSE PrefixBytes(text)[n - 1] + text[n].bytes]
PROOF
  <1> DEFINE Sums(g, m) ==
        g = [n \in 0 .. m |-> IF n = 0 THEN 0 ELSE g[n - 1] + text[n].bytes]
  <1> DEFINE S == {m \in Nat : \E g : Sums(g, m)}
  <1>1. 0 \in S
    <2> DEFINE g == [n \in 0 .. 0 |-> 0]
    <2>1. Sums(g, 0)
      OBVIOUS
    <2> QED
      BY <2>1
  <1>2. ASSUME NEW m \in Nat, m \in S PROVE m + 1 \in S
    <2>1. PICK g : Sums(g, m)
      BY <1>2
    <2> DEFINE h == [n \in 0 .. m + 1 |->
                       IF n <= m THEN g[n] ELSE g[m] + text[m + 1].bytes]
    <2>2. ASSUME NEW n \in 0 .. m + 1
          PROVE  h[n] = IF n = 0 THEN 0 ELSE h[n - 1] + text[n].bytes
      <3>1. CASE n = 0
        BY <2>1, <3>1
      <3>2. CASE n # 0 /\ n <= m
        <4>1. n - 1 \in 0 .. m /\ n \in 0 .. m
          BY <3>2
        <4>2. g[n] = g[n - 1] + text[n].bytes
          BY <2>1, <3>2, <4>1
        <4>3. h[n] = g[n] /\ h[n - 1] = g[n - 1]
          BY <3>2, <4>1
        <4> QED
          BY <3>2, <4>2, <4>3
      <3>3. CASE n = m + 1
        <4>1. h[n] = g[m] + text[m + 1].bytes /\ h[n - 1] = g[m]
          BY <3>3
        <4> QED
          BY <3>3, <4>1
      <3> QED
        BY <3>1, <3>2, <3>3
    <2>3. Sums(h, m + 1)
      BY <2>2
    <2>4. \E f : Sums(f, m + 1)
      <3> HIDE DEF Sums, h
      <3> QED
        BY <2>3
    <2> QED
      BY <2>4
  <1>3. Len(text) \in S
    <2> HIDE DEF S
    <2> QED
      BY <1>1, <1>2, SetInduction
  <1>4. \E g : Sums(g, Len(text))
    BY <1>3
  <1>5. PrefixBytes(text) = CHOOSE g : Sums(g, Len(text))
    BY DEF PrefixBytes
  <1>6. Sums(PrefixBytes(text), Len(text))
    <2> HIDE DEF Sums
    <2> QED
      BY <1>4, <1>5
  <1> QED
    BY <1>6

LEMMA PieceBytes == \A p \in Pieces : p.bytes \in Nat
PROOF
  BY TranscriptAssumption DEF Pieces, RawPieces, Redacted, Omitted, Truncated, Piece

(* The size of every prefix, and so of the whole, is a number of bytes.    *)
LEMMA TextBytesNat ==
  ASSUME NEW text \in Seq(Pieces)
  PROVE  \A n \in 0 .. Len(text) : PrefixBytes(text)[n] \in Nat
PROOF
  <1> DEFINE A == PrefixBytes(text)
  <1>1. A = [n \in 0 .. Len(text) |-> IF n = 0 THEN 0 ELSE A[n - 1] + text[n].bytes]
    BY PrefixBytesDefined
  <1> DEFINE S == {n \in Nat : n <= Len(text) => A[n] \in Nat}
  <1> HIDE DEF A
  <1>2. 0 \in S
    BY <1>1
  <1>3. ASSUME NEW n \in Nat, n \in S PROVE n + 1 \in S
    <2> SUFFICES ASSUME n + 1 <= Len(text) PROVE A[n + 1] \in Nat
      OBVIOUS
    <2>1. n + 1 \in 0 .. Len(text) /\ n + 1 \in 1 .. Len(text) /\ (n + 1) - 1 = n
      OBVIOUS
    <2>2. A[n + 1] = A[n] + text[n + 1].bytes
      BY <1>1, <2>1
    <2>3. text[n + 1].bytes \in Nat
      BY <2>1, PieceBytes
    <2> QED
      BY <1>3, <2>2, <2>3
  <1>4. Nat \subseteq S
    <2> HIDE DEF S
    <2> QED
      BY <1>2, <1>3, SetInduction
  <1> QED
    BY <1>4 DEF A

LEMMA BytesOfNothing == TextBytes(<< >>) = 0
PROOF
  BY PrefixBytesDefined DEF TextBytes

(* One piece more adds its own size.                                       *)
LEMMA BytesOfOneMore ==
  ASSUME NEW text \in Seq(Pieces), NEW p \in Pieces
  PROVE  /\ TextBytes(text) \in Nat /\ p.bytes \in Nat
         /\ TextBytes(text \o <<p>>) = TextBytes(text) + p.bytes
PROOF
  <1> DEFINE more == text \o <<p>>
  <1> DEFINE A == PrefixBytes(text)
  <1> DEFINE B == PrefixBytes(more)
  <1>1. /\ Len(text) \in Nat /\ Len(more) = Len(text) + 1
        /\ more[Len(text) + 1] = p
        /\ \A n \in 1 .. Len(text) : more[n] = text[n]
    OBVIOUS
  <1>2. /\ A = [n \in 0 .. Len(text) |-> IF n = 0 THEN 0 ELSE A[n - 1] + text[n].bytes]
        /\ B = [n \in 0 .. Len(more) |-> IF n = 0 THEN 0 ELSE B[n - 1] + more[n].bytes]
    BY <1>1, PrefixBytesDefined
  <1> DEFINE S == {n \in Nat : n <= Len(text) => A[n] = B[n]}
  <1> HIDE DEF A, B, more
  <1>3. 0 \in S
    BY <1>1, <1>2
  <1>4. ASSUME NEW n \in Nat, n \in S PROVE n + 1 \in S
    <2> SUFFICES ASSUME n + 1 <= Len(text) PROVE A[n + 1] = B[n + 1]
      OBVIOUS
    <2>1. /\ n + 1 \in 0 .. Len(text) /\ n + 1 \in 0 .. Len(more)
          /\ n + 1 \in 1 .. Len(text) /\ n + 1 # 0 /\ (n + 1) - 1 = n
      BY <1>1
    <2>2. A[n + 1] = A[n] + text[n + 1].bytes
      BY <1>2, <2>1
    <2>3. B[n + 1] = B[n] + more[n + 1].bytes
      BY <1>2, <2>1
    <2>4. A[n] = B[n]
      BY <1>1, <1>4
    <2> QED
      BY <1>1, <2>1, <2>2, <2>3, <2>4
  <1>5. Len(text) \in S
    <2> HIDE DEF S
    <2> QED
      BY <1>1, <1>3, <1>4, SetInduction
  <1>6. B[Len(text) + 1] = B[Len(text)] + more[Len(text) + 1].bytes
    <2>1. Len(text) + 1 \in 0 .. Len(more) /\ (Len(text) + 1) - 1 = Len(text)
      BY <1>1
    <2> QED
      BY <1>1, <1>2, <2>1
  <1>7. /\ TextBytes(more) = B[Len(text) + 1] /\ TextBytes(text) = A[Len(text)]
        /\ A[Len(text)] \in Nat
    BY <1>1, TextBytesNat DEF TextBytes, A, B
  <1> QED
    BY <1>1, <1>5, <1>6, <1>7, PieceBytes DEF more

LEMMA BytesOfOne ==
  ASSUME NEW p \in Pieces
  PROVE  TextBytes(<<p>>) = p.bytes
PROOF
  <1>1. << >> \o <<p>> = <<p>> /\ << >> \in Seq(Pieces)
    OBVIOUS
  <1>2. p.bytes \in Nat /\ TextBytes(<< >> \o <<p>>) = TextBytes(<< >>) + p.bytes
    BY <1>1, BytesOfOneMore
  <1> QED
    BY <1>1, <1>2, BytesOfNothing

-----------------------------------------------------------------------------
(* Part two: the reducer, over a session's state and the safe copy that    *)
(* follows it.                                                             *)

(* What an accepted event leaves; the status is final if it is a terminal. *)
LEMMA EventLeaves ==
  ASSUME NEW s \in SessionState, NEW type \in EventTypes, NEW correlation,
         NEW sid \in Sessions, NEW n \in Nat, NEW text \in Seq(Fragments),
         NEW code \in Codes \cup {None},
         Accepts(s, WireEvent(type, correlation, sid, n, text, code))
  PROVE  LET e == WireEvent(type, correlation, sid, n, text, code)
         IN /\ After(s, e) \in SessionState
            /\ After(s, e).status \in TerminalStatuses <=> IsTerminal(e)
            /\ After(s, e).status # "idle"
PROOF
  <1> DEFINE e == WireEvent(type, correlation, sid, n, text, code)
  <1>1. /\ After(s, e) = ApplyEvent(s, e)
        /\ EventFailure(s, e) = None
        /\ s.status \notin TerminalStatuses
    BY EventVerdict DEF WireEvent
  <1>2. /\ e.type = type /\ e.session_id = sid /\ e.sequence = n /\ e.text = text
        /\ e.code = code
    BY DEF WireEvent
  <1>3. ApplyEvent(s, e) \in SessionState
    <2> HIDE DEF e
    <2> QED
      BY <1>2, ApplyEventKeepsType
  <1>4. s.status \in LegalStatuses(type)
    BY <1>1, <1>2, NoneAssumption DEF EventFailure, FailureCodes
  <1>5. s.status # "idle"
    BY <1>4 DEF LegalStatuses, EventTypes
  <1>6. ApplyEvent(s, e).status =
          CASE type = "session.started" -> "running"
            [] type \in {"assistant.delta", "assistant.completed"} -> s.status
            [] type = "session.completed" -> "completed"
            [] type = "session.cancelled" -> "cancelled"
            [] type = "session.failed" -> "failed"
    BY <1>2 DEF ApplyEvent, SessionState, EventTypes
  <1> QED
    BY <1>1, <1>2, <1>3, <1>5, <1>6 DEF IsTerminal, EventTypes, TerminalStatuses

(* The copy accepts the event that stands for one the session accepted,    *)
(* whatever its words, if a completion repeats the copy's own.             *)
LEMMA CopyFollowsEvent ==
  ASSUME NEW a \in SessionState, NEW b \in SessionState, SameLifecycle(a, b),
         NEW type \in EventTypes, NEW correlation, NEW sid, NEW n, NEW text,
         NEW other, NEW code,
         type = "assistant.completed" => other = a.assistant_text,
         Accepts(b, WireEvent(type, correlation, sid, n, text, code))
  PROVE  LET e == WireEvent(type, correlation, sid, n, text, code)
             f == WireEvent(type, correlation, sid, n, other, code)
         IN Accepts(a, f) /\ SameLifecycle(After(a, f), After(b, e))
PROOF
  <1> DEFINE e == WireEvent(type, correlation, sid, n, text, code)
  <1> DEFINE f == WireEvent(type, correlation, sid, n, other, code)
  <1>1. /\ After(b, e) = ApplyEvent(b, e)
        /\ EventFailure(b, e) = None
        /\ b.status \notin TerminalStatuses
    BY EventVerdict DEF WireEvent
  <1>2. /\ e.type = type /\ e.correlation_id = correlation
        /\ e.session_id = sid /\ e.sequence = n /\ e.text = text /\ e.code = code
        /\ f.type = type /\ f.correlation_id = correlation
        /\ f.session_id = sid /\ f.sequence = n /\ f.text = other /\ f.code = code
    BY DEF WireEvent
  <1>3. /\ b.status \in LegalStatuses(type)
        /\ correlation = ExpectedCorrelation(b, e)
        /\ type # "session.started" => sid = b.session_id
        /\ SequenceFailure(b, n) = None
        /\ PayloadFailure(b, e) = None
    BY <1>1, <1>2, NoneAssumption DEF EventFailure, FailureCodes
  <1>4. /\ a.status \in LegalStatuses(type)
        /\ correlation = ExpectedCorrelation(a, f)
        /\ type # "session.started" => sid = a.session_id
        /\ SequenceFailure(a, n) = None
    BY <1>2, <1>3 DEF SameLifecycle, ExpectedCorrelation, SequenceFailure
  <1>5. PayloadFailure(a, f) = None
    BY <1>2, <1>3, NoneAssumption DEF SameLifecycle, PayloadFailure, FailureCodes
  <1>6. EventFailure(a, f) = None
    BY <1>2, <1>4, <1>5 DEF EventFailure
  <1>7. Accepts(a, f) /\ After(a, f) = ApplyEvent(a, f)
    BY <1>1, <1>2, <1>6, EventVerdict DEF SameLifecycle
  <1>8. SameLifecycle(ApplyEvent(a, f), ApplyEvent(b, e))
    BY <1>2 DEF ApplyEvent, SameLifecycle, SessionState, EventTypes
  <1> QED
    BY <1>1, <1>7, <1>8

(* The same of the two facts a session accepts.                            *)
LEMMA CopyFollowsTask ==
  ASSUME NEW a \in SessionState, NEW b \in SessionState, SameLifecycle(a, b),
         NEW c \in Commands, Accepts(b, TaskSubmitted(c))
  PROVE  LET u == TaskSubmitted(c)
         IN /\ Accepts(a, u) /\ SameLifecycle(After(a, u), After(b, u))
            /\ a.status = "idle"
            /\ \A s \in {After(a, u), After(b, u)} :
                 /\ s \in SessionState
                 /\ s.status \notin TerminalStatuses \cup {"idle"}
                 /\ s.assistant_text = << >>
PROOF
  <1> DEFINE u == TaskSubmitted(c)
  <1> DEFINE next == [InitialSessionState EXCEPT !.status = "starting",
                                                 !.start_command_id = c]
  <1>1. b.status = "idle"
    BY NoneAssumption DEF Accepts, ReduceSessionState, TaskSubmitted, Reject,
       FailureCodes, EventTypes
  <1>2. ASSUME NEW s \in {a, b}
        PROVE  Accepts(s, u) /\ After(s, u) = next
    <2>1. s.status = "idle"
      BY <1>1 DEF SameLifecycle
    <2> QED
      BY <2>1 DEF Accepts, After, ReduceSessionState, TaskSubmitted, Accept,
                  TerminalStatuses, EventTypes
  <1>3. next \in SessionState /\ next.status = "starting" /\ next.assistant_text = << >>
    <2>1. InitialSessionState \in SessionState
      BY DEF InitialSessionState, SessionState, Statuses
    <2>2. next \in SessionState
      BY <2>1 DEF SessionState, Statuses
    <2> QED
      BY <2>2 DEF InitialSessionState
  <1>4. SameLifecycle(next, next)
    BY DEF SameLifecycle
  <1> HIDE DEF next, u
  <1> QED
    BY <1>1, <1>2, <1>3, <1>4 DEF SameLifecycle, TerminalStatuses, u

LEMMA CopyFollowsCancellation ==
  ASSUME NEW a \in SessionState, NEW b \in SessionState, SameLifecycle(a, b),
         NEW c \in Commands, NEW sid \in Sessions,
         Accepts(b, CancelRequested(c, sid))
  PROVE  LET u == CancelRequested(c, sid)
         IN /\ Accepts(a, u) /\ SameLifecycle(After(a, u), After(b, u))
            /\ \A s \in {a, b} :
                 /\ After(s, u) \in SessionState
                 /\ After(s, u).status = "cancelling"
                 /\ After(s, u).assistant_text = s.assistant_text
PROOF
  <1> DEFINE u == CancelRequested(c, sid)
  <1>1. /\ b.status \in {"running", "awaiting_approval"}
        /\ b.session_id = sid
    BY NoneAssumption DEF Accepts, ReduceSessionState, ReduceSessionFact,
       CancelRequested, Reject, FailureCodes, EventTypes
  <1>2. ASSUME NEW s \in {a, b}
        PROVE  /\ Accepts(s, u)
               /\ After(s, u) = [s EXCEPT !.status = "cancelling", !.cancel_command_id = c]
    <2>1. s.status \in {"running", "awaiting_approval"} /\ s.session_id = sid
      BY <1>1 DEF SameLifecycle
    <2> QED
      BY <2>1 DEF Accepts, After, ReduceSessionState, ReduceSessionFact, CancelRequested,
                  Accept, TerminalStatuses, EventTypes
  <1>3. ASSUME NEW s \in {a, b}
        PROVE  /\ After(s, u) \in SessionState
               /\ After(s, u).status = "cancelling"
               /\ After(s, u).cancel_command_id = c
               /\ After(s, u).assistant_text = s.assistant_text
               /\ After(s, u).session_id = s.session_id
               /\ After(s, u).start_command_id = s.start_command_id
               /\ After(s, u).last_sequence = s.last_sequence
               /\ After(s, u).assistant_completed = s.assistant_completed
               /\ After(s, u).session_failure = s.session_failure
    <2>1. [s EXCEPT !.status = "cancelling", !.cancel_command_id = c] \in SessionState
      BY DEF SessionState, Statuses
    <2> QED
      BY <1>2, <2>1 DEF SessionState
  <1> HIDE DEF u
  <1>4. SameLifecycle(After(a, u), After(b, u))
    BY <1>3 DEF SameLifecycle
  <1> QED
    BY <1>2, <1>3, <1>4 DEF u

-----------------------------------------------------------------------------
(* Part three: the sanitizer. *)

(* However much room is left, a piece of text becomes one piece of text.   *)
LEMMA BoundedIsOnePiece ==
  ASSUME budget \in [bytes : 0 .. TextLimit, exhausted : BOOLEAN],
         NEW p \in RawPieces \cup {Redacted}
  PROVE  /\ Bounded(budget, p).budget \in [bytes : 0 .. TextLimit, exhausted : BOOLEAN]
         /\ \E q \in Pieces : Bounded(budget, p).text = <<q>>
PROOF
  <1> DEFINE remaining == TextLimit - budget.bytes
  <1>1. /\ p \in Pieces /\ p.bytes \in Nat /\ Omitted \in Pieces
        /\ remaining \in 0 .. TextLimit
        /\ TextLimit \in Nat /\ MarkerBytes \in Nat /\ MarkerBytes < TextLimit
        /\ budget.bytes \in 0 .. TextLimit
    BY TranscriptAssumption, PieceBytes DEF Pieces
  <1>2. \A b \in MarkerBytes .. TextLimit : Truncated(b) \in Pieces
    BY DEF Pieces
  <1>3. CASE budget.exhausted
    BY <1>1, <1>3 DEF Bounded
  <1>4. CASE ~budget.exhausted /\ p.bytes <= remaining
    <2>1. /\ Bounded(budget, p).text = <<p>>
          /\ Bounded(budget, p).budget = [budget EXCEPT !.bytes = @ + p.bytes]
      BY <1>4 DEF Bounded
    <2>2. budget.bytes + p.bytes \in 0 .. TextLimit
      BY <1>1, <1>4
    <2> QED
      BY <1>1, <2>1, <2>2
  <1>5. CASE ~budget.exhausted /\ ~(p.bytes <= remaining) /\ remaining > MarkerBytes
    <2>1. /\ Bounded(budget, p).text = <<Truncated(remaining)>>
          /\ Bounded(budget, p).budget = [bytes |-> TextLimit, exhausted |-> TRUE]
      BY <1>5 DEF Bounded
    <2>2. remaining \in MarkerBytes .. TextLimit /\ TextLimit \in 0 .. TextLimit
      BY <1>1, <1>5
    <2> QED
      BY <1>2, <2>1, <2>2
  <1>6. CASE ~budget.exhausted /\ ~(p.bytes <= remaining) /\ ~(remaining > MarkerBytes)
    <2>1. /\ Bounded(budget, p).text = <<Truncated(MarkerBytes)>>
          /\ Bounded(budget, p).budget = [budget EXCEPT !.exhausted = TRUE]
      BY <1>6 DEF Bounded
    <2>2. MarkerBytes \in MarkerBytes .. TextLimit
      BY <1>1
    <2> QED
      BY <1>2, <2>1, <2>2
  <1> QED
    BY <1>3, <1>4, <1>5, <1>6

LEMMA PiecesAreFragments == Pieces \subseteq Fragments
PROOF
  BY TranscriptAssumption DEF Pieces

(* What the session's reducer is offered: a fact, or an event.             *)
EventForm(u, type, correlation, text, code) ==
  /\ u = WireEvent(type, correlation, SessionId, live.last_sequence + 1, text, code)
  /\ type = "assistant.delta" => \E p \in RawPieces : text = <<p>>
  /\ type = "assistant.completed" => text = live.assistant_text /\ text # << >>

LEMMA UpdateForms ==
  ASSUME Shapes, NEW u \in Updates
  PROVE  \/ \E c \in Commands : u = TaskSubmitted(c)
         \/ \E c \in Commands : u = CancelRequested(c, SessionId)
         \/ \E type \in EventTypes, correlation \in Commands \cup {None},
               text \in Seq(Fragments), code \in Codes \cup {None} :
              EventForm(u, type, correlation, text, code)
PROOF
  <1> DEFINE Formed(v) ==
        \E type \in EventTypes, correlation \in Commands \cup {None},
           text \in Seq(Fragments), code \in Codes \cup {None} :
          EventForm(v, type, correlation, text, code)
  <1> DEFINE event(type, corr, text, code) ==
        WireEvent(type, corr, SessionId, live.last_sequence + 1, text, code)
  <1>1. /\ live.start_command_id \in Commands \cup {None}
        /\ live.cancel_command_id \in Commands \cup {None}
        /\ live.assistant_text \in Seq(Fragments)
        /\ << >> \in Seq(Fragments) /\ None \in Codes \cup {None}
    BY DEF Shapes, SessionState
  <1>2. \A p \in RawPieces : <<p>> \in Seq(Fragments)
    BY TranscriptAssumption
  <1>3. \A type \in {"session.started", "session.completed"} :
          Formed(event(type, live.start_command_id, << >>, None))
    BY <1>1 DEF EventForm, EventTypes
  <1>4. Formed(event("session.cancelled", live.cancel_command_id, << >>, None))
    BY <1>1 DEF EventForm, EventTypes
  <1>5. \A p \in RawPieces :
          Formed(event("assistant.delta", live.start_command_id, <<p>>, None))
    BY <1>1, <1>2 DEF EventForm, EventTypes
  <1>6. live.assistant_text # << >> =>
          Formed(event("assistant.completed", live.start_command_id,
                       live.assistant_text, None))
    BY <1>1 DEF EventForm, EventTypes
  <1>7. \A c \in Codes :
          Formed(event("session.failed", live.start_command_id, << >>, c))
    BY <1>1 DEF EventForm, EventTypes
  <1> HIDE DEF Formed, event
  <1>8. \/ u \in {TaskSubmitted(c) : c \in Commands}
        \/ u \in {CancelRequested(c, SessionId) : c \in Commands}
        \/ u \in {event("session.started", live.start_command_id, << >>, None),
                  event("session.completed", live.start_command_id, << >>, None),
                  event("session.cancelled", live.cancel_command_id, << >>, None)}
        \/ u \in {event("assistant.delta", live.start_command_id, <<p>>, None)
                  : p \in RawPieces}
        \/ u \in {event("assistant.completed", live.start_command_id, text, None)
                  : text \in {live.assistant_text} \ {<< >>}}
        \/ u \in {event("session.failed", live.start_command_id, << >>, c) : c \in Codes}
    BY DEF Updates, event
  <1>9. \/ \E c \in Commands : u = TaskSubmitted(c)
        \/ \E c \in Commands : u = CancelRequested(c, SessionId)
        \/ Formed(u)
    BY <1>3, <1>4, <1>5, <1>6, <1>7, <1>8
  <1> QED
    BY <1>9 DEF Formed

(* What a safe copy v is to the input u it stands for: the safe projection *)
(* accepts it, and goes on following the session's.                        *)
Mirrors(v, u) ==
  LET next == After(safe, v)
  IN /\ v \in Recordable
     /\ After(live, u) \in SessionState /\ next \in SessionState
     /\ Accepts(safe, v)
     /\ Follows(next, After(live, u))
     /\ next.status \in TerminalStatuses <=> IsTerminal(v)
     /\ next.status # "idle"
     /\ next.assistant_text \in Seq(Pieces)
     /\ IF v.type = "assistant.delta"
          THEN /\ TextBytes(v.text) \in Nat
               /\ TextBytes(next.assistant_text) =
                    TextBytes(safe.assistant_text) + TextBytes(v.text)
          ELSE next.assistant_text = safe.assistant_text

(* An event of the session, and the event that stands for it.              *)
LEMMA EventMirrors ==
  ASSUME Shapes, Follows(safe, live),
         NEW type \in EventTypes, NEW correlation \in Commands \cup {None},
         NEW text \in Seq(Fragments), NEW other \in Seq(Fragments),
         NEW code \in Codes \cup {None},
         type = "assistant.delta" =>
           /\ \E p \in RawPieces : text = <<p>>
           /\ \E q \in Pieces : other = <<q>>,
         type = "assistant.completed" => other = safe.assistant_text,
         Accepts(live, WireEvent(type, correlation, SessionId,
                                 live.last_sequence + 1, text, code))
  PROVE  Mirrors(WireEvent(type, correlation, SessionId, live.last_sequence + 1,
                           other, code),
                 WireEvent(type, correlation, SessionId, live.last_sequence + 1,
                           text, code))
PROOF
  <1> DEFINE n == live.last_sequence + 1
  <1> DEFINE u == WireEvent(type, correlation, SessionId, n, text, code)
  <1> DEFINE v == WireEvent(type, correlation, SessionId, n, other, code)
  <1>1. /\ safe \in SessionState /\ live \in SessionState /\ n \in Nat
        /\ safe.assistant_text \in Seq(Pieces) /\ SessionId \in Sessions
    BY TranscriptAssumption DEF Shapes, SessionState
  <1>2. v \in Recordable
    BY <1>1 DEF Recordable, WireEvent
  <1>3. v.type = type /\ v.text = other
    BY DEF WireEvent
  <1> HIDE DEF n
  <1>4. Accepts(safe, v) /\ SameLifecycle(After(safe, v), After(live, u))
    BY <1>1, CopyFollowsEvent DEF Follows, n
  <1>5. After(live, u) \in SessionState
    BY <1>1, EventLeaves DEF n
  <1>6. /\ After(safe, v) \in SessionState
        /\ After(safe, v).status \in TerminalStatuses <=> IsTerminal(v)
        /\ After(safe, v).status # "idle"
    BY <1>1, <1>4, EventLeaves
  <1>7. /\ After(safe, v).assistant_text =
             IF type = "assistant.delta" THEN safe.assistant_text \o other
             ELSE safe.assistant_text
        /\ After(live, u).assistant_text =
             IF type = "assistant.delta" THEN live.assistant_text \o text
             ELSE live.assistant_text
    BY <1>1, <1>4, EventText DEF n
  <1> HIDE DEF u, v
  <1>8. CASE type = "assistant.delta"
    <2>1. PICK p \in RawPieces : text = <<p>>
      BY <1>8
    <2>2. PICK q \in Pieces : other = <<q>>
      BY <1>8
    <2>3. /\ After(safe, v).assistant_text = safe.assistant_text \o <<q>>
          /\ After(live, u).assistant_text = live.assistant_text \o <<p>>
      BY <1>7, <1>8, <2>1, <2>2
    <2>4. safe.assistant_text \o <<q>> # << >> /\ live.assistant_text \o <<p>> # << >>
      <3>1. live.assistant_text \in Seq(Fragments)
        BY <1>1 DEF SessionState
      <3> QED
        BY <1>1, <3>1
    <2>5. safe.assistant_text \o <<q>> \in Seq(Pieces)
      BY <1>1
    <2>6. /\ TextBytes(<<q>>) = q.bytes /\ q.bytes \in Nat
          /\ TextBytes(safe.assistant_text \o <<q>>) =
               TextBytes(safe.assistant_text) + q.bytes
      BY <1>1, BytesOfOne, BytesOfOneMore
    <2>7. Follows(After(safe, v), After(live, u))
      BY <1>4, <2>3, <2>4 DEF Follows
    <2> QED
      BY <1>2, <1>3, <1>4, <1>5, <1>6, <1>8, <2>2, <2>3, <2>5, <2>6, <2>7
      DEF Mirrors, u, v, n
  <1>9. CASE type # "assistant.delta"
    <2>1. Follows(After(safe, v), After(live, u))
      BY <1>4, <1>7, <1>9 DEF Follows
    <2> QED
      BY <1>1, <1>2, <1>3, <1>4, <1>5, <1>6, <1>7, <1>9, <2>1 DEF Mirrors, u, v, n
  <1> QED
    BY <1>8, <1>9 DEF u, v, n

(* Every copy the sanitizer may make of an input the session accepted      *)
(* mirrors it, and leaves a budget that is one.                            *)
LEMMA SanitizedMirrors ==
  ASSUME Shapes, WriterAgrees, OpenAgrees, Healthy, ~crashed,
         NEW u \in Updates, Accepts(live, u), NEW z \in Sanitizations(u)
  PROVE  /\ z.budget \in [bytes : 0 .. TextLimit, exhausted : BOOLEAN]
         /\ z.update.type = u.type
         /\ Mirrors(z.update, u)
PROOF
  <1>1. /\ safe \in SessionState /\ live \in SessionState
        /\ safe.assistant_text \in Seq(Pieces)
        /\ budget \in [bytes : 0 .. TextLimit, exhausted : BOOLEAN]
        /\ SessionId \in Sessions
    BY TranscriptAssumption DEF Shapes
  <1>2. /\ Follows(safe, live) /\ SameLifecycle(safe, live)
        /\ safe.status = "idle" => safe.assistant_text = << >>
    BY DEF Healthy, WriterAgrees, OpenAgrees, Follows
  <1>3. CASE \E c \in Commands : u = TaskSubmitted(c)
    <2>1. PICK c \in Commands : u = TaskSubmitted(c)
      BY <1>3
    <2>2. u.type = "task.submitted" /\ u \in Recordable /\ ~IsTerminal(u)
      BY <2>1 DEF TaskSubmitted, Recordable, Facts, IsTerminal
    <2>3. z.budget = budget /\ z.update = u
      BY <2>2 DEF Sanitizations
    <2>4. Mirrors(u, u)
      <3>1. /\ Accepts(safe, u) /\ SameLifecycle(After(safe, u), After(live, u))
            /\ safe.status = "idle"
            /\ After(safe, u) \in SessionState /\ After(live, u) \in SessionState
            /\ After(safe, u).status \notin TerminalStatuses \cup {"idle"}
            /\ After(safe, u).assistant_text = << >>
            /\ After(live, u).assistant_text = << >>
        BY <1>1, <1>2, <2>1, CopyFollowsTask
      <3> QED
        BY <1>1, <1>2, <2>2, <3>1 DEF Mirrors, Follows
    <2> QED
      BY <1>1, <2>3, <2>4
  <1>4. CASE \E c \in Commands : u = CancelRequested(c, SessionId)
    <2>1. PICK c \in Commands : u = CancelRequested(c, SessionId)
      BY <1>4
    <2>2. u.type = "cancel.requested" /\ u \in Recordable /\ ~IsTerminal(u)
      BY <1>1, <2>1 DEF CancelRequested, Recordable, Facts, IsTerminal
    <2>3. z.budget = budget /\ z.update = u
      BY <2>2 DEF Sanitizations
    <2>4. Mirrors(u, u)
      <3>1. /\ Accepts(safe, u) /\ SameLifecycle(After(safe, u), After(live, u))
            /\ After(safe, u) \in SessionState /\ After(live, u) \in SessionState
            /\ After(safe, u).status = "cancelling"
            /\ After(safe, u).assistant_text = safe.assistant_text
            /\ After(live, u).assistant_text = live.assistant_text
        BY <1>1, <1>2, <2>1, CopyFollowsCancellation
      <3> QED
        BY <1>1, <1>2, <2>2, <3>1 DEF Mirrors, Follows, TerminalStatuses
    <2> QED
      BY <1>1, <2>3, <2>4
  <1>5. CASE \E type \in EventTypes, correlation \in Commands \cup {None},
                text \in Seq(Fragments), code \in Codes \cup {None} :
               EventForm(u, type, correlation, text, code)
    <2>1. PICK type \in EventTypes, correlation \in Commands \cup {None},
               text \in Seq(Fragments), code \in Codes \cup {None} :
            EventForm(u, type, correlation, text, code)
      BY <1>5
    <2> DEFINE event(t) ==
          WireEvent(type, correlation, SessionId, live.last_sequence + 1, t, code)
    <2>2. u = event(text) /\ u.type = type /\ u.text = text
      BY <2>1 DEF EventForm, WireEvent
    <2>3. \A t : [u EXCEPT !.text = t] = event(t)
      BY <2>2 DEF WireEvent
    <2>4. \A t : event(t).type = type
      BY DEF WireEvent
    <2> HIDE DEF event
    <2>5. \E other \in Seq(Fragments) :
            /\ z.update = event(other)
            /\ type = "assistant.delta" => \E q \in Pieces : other = <<q>>
            /\ type = "assistant.completed" => other = safe.assistant_text
            /\ z.budget \in [bytes : 0 .. TextLimit, exhausted : BOOLEAN]
      <3>1. CASE type = "assistant.delta"
        <4>1. PICK raw \in RawPieces : text = <<raw>>
          BY <2>1, <3>1 DEF EventForm
        <4>2. PICK p \in Redactions(raw) :
                z = [budget |-> Bounded(budget, p).budget,
                     update |-> [u EXCEPT !.text = Bounded(budget, p).text]]
          BY <2>2, <3>1, <4>1 DEF Sanitizations
        <4>3. p \in RawPieces \cup {Redacted}
          BY <4>2 DEF Redactions
        <4>4. PICK q \in Pieces : Bounded(budget, p).text = <<q>>
          BY <1>1, <4>3, BoundedIsOnePiece
        <4>5. <<q>> \in Seq(Fragments)
          BY PiecesAreFragments
        <4>6. z.update = event(<<q>>) /\ z.budget = Bounded(budget, p).budget
          BY <2>3, <4>2, <4>4
        <4> QED
          BY <1>1, <3>1, <4>3, <4>5, <4>6, BoundedIsOnePiece
      <3>2. CASE type = "assistant.completed"
        <4>1. safe.assistant_text # << >>
          BY <1>2, <2>1, <3>2 DEF EventForm, Follows
        <4>2. z.budget = budget /\ z.update = event(safe.assistant_text)
          BY <2>2, <2>3, <3>2, <4>1 DEF Sanitizations
        <4>3. safe.assistant_text \in Seq(Fragments)
          BY <1>1 DEF SessionState
        <4> QED
          BY <1>1, <3>2, <4>2, <4>3
      <3>3. CASE type \notin {"assistant.delta", "assistant.completed"}
        <4>1. z.budget = budget /\ z.update = event(text)
          BY <2>2, <3>3 DEF Sanitizations
        <4> QED
          BY <1>1, <3>3, <4>1
      <3> QED
        BY <3>1, <3>2, <3>3
    <2>6. PICK other \in Seq(Fragments) :
            /\ z.update = event(other)
            /\ type = "assistant.delta" => \E q \in Pieces : other = <<q>>
            /\ type = "assistant.completed" => other = safe.assistant_text
            /\ z.budget \in [bytes : 0 .. TextLimit, exhausted : BOOLEAN]
      BY <2>5
    <2>7. Mirrors(event(other), event(text))
      <3>1. type = "assistant.delta" => \E p \in RawPieces : text = <<p>>
        BY <2>1 DEF EventForm
      <3> QED
        BY <1>2, <2>2, <2>6, <3>1, EventMirrors DEF event
    <2> QED
      BY <2>2, <2>4, <2>6, <2>7
  <1> QED
    BY <1>3, <1>4, <1>5, UpdateForms

-----------------------------------------------------------------------------
(* Part four: one line more. *)

(* When the reader takes a line, by kind.                                  *)
LEMMA LifecycleLine ==
  ASSUME NEW t \in ReplayStates, NEW n, NEW u
  PROVE  LET r == LifecycleRecord(n, u)
             next == ReplayLine(t, r)
             fits == /\ t.ok /\ t.lines < MaxRecords /\ n = t.lines + 1
                     /\ PendingLimitsHold(t, r) /\ LifecycleFits(t, u)
         IN /\ next.ok <=> fits
            /\ fits =>
                 next = [ok |-> TRUE, state |-> After(t.state, u), evidence |-> t.evidence,
                         pending |-> FALSE, lines |-> t.lines + 1,
                         bytes |-> t.bytes + (IF u.type = "assistant.delta"
                                                THEN TextBytes(u.text) ELSE 0)]
PROOF
  <1> DEFINE r == LifecycleRecord(n, u)
  <1>1. r.kind = "lifecycle" /\ r.order = n /\ r.input = u
    BY DEF LifecycleRecord
  <1> HIDE DEF r
  <1> DEFINE fits == /\ t.ok /\ t.lines < MaxRecords /\ n = t.lines + 1
                     /\ PendingLimitsHold(t, r) /\ LifecycleFits(t, u)
  <1>2. CASE ~fits
    <2>1. ReplayLine(t, r) = [t EXCEPT !.ok = FALSE]
      BY <1>1, <1>2 DEF ReplayLine
    <2> QED
      BY <1>2, <2>1 DEF ReplayStates, r
  <1>3. CASE fits
    <2>1. ReplayLine(t, r) =
            [[t EXCEPT !.lines = @ + 1, !.pending = FALSE]
               EXCEPT !.state = After(t.state, u),
                      !.bytes = @ + (IF u.type = "assistant.delta"
                                       THEN TextBytes(u.text) ELSE 0)]
      BY <1>1, <1>3 DEF ReplayLine
    <2> QED
      BY <1>3, <2>1 DEF ReplayStates, r
  <1> QED
    BY <1>2, <1>3

LEMMA UsageLine ==
  ASSUME NEW t \in ReplayStates, NEW n
  PROVE  LET r == UsageRecord(n)
             next == ReplayLine(t, r)
             fits == /\ t.ok /\ t.lines < MaxRecords /\ n = t.lines + 1
                     /\ ~t.pending /\ UsageFits(t.evidence, t.state)
         IN /\ next.ok <=> fits
            /\ fits =>
                 next = [ok |-> TRUE, state |-> t.state,
                         evidence |-> [t.evidence EXCEPT !.usage = TRUE],
                         pending |-> FALSE, lines |-> t.lines + 1, bytes |-> t.bytes]
PROOF
  <1> DEFINE r == UsageRecord(n)
  <1>1. r.kind = "usage" /\ r.order = n
    BY DEF UsageRecord
  <1> HIDE DEF r
  <1>2. PendingLimitsHold(t, r) <=> ~t.pending
    BY <1>1 DEF PendingLimitsHold, ReplayStates
  <1> DEFINE fits == /\ t.ok /\ t.lines < MaxRecords /\ n = t.lines + 1
                     /\ ~t.pending /\ UsageFits(t.evidence, t.state)
  <1>3. CASE ~fits
    <2>1. ReplayLine(t, r) = [t EXCEPT !.ok = FALSE]
      BY <1>1, <1>2, <1>3 DEF ReplayLine
    <2> QED
      BY <1>3, <2>1 DEF ReplayStates, r
  <1>4. CASE fits
    <2>1. ReplayLine(t, r) =
            [[t EXCEPT !.lines = @ + 1, !.pending = FALSE] EXCEPT !.evidence.usage = TRUE]
      BY <1>1, <1>2, <1>4 DEF ReplayLine
    <2> QED
      BY <1>4, <2>1 DEF ReplayStates, r
  <1> QED
    BY <1>3, <1>4

LEMMA LimitsLine ==
  ASSUME NEW t \in ReplayStates, NEW n, NEW x
  PROVE  LET r == LimitsRecord(n, x)
             next == ReplayLine(t, r)
             fits == /\ t.ok /\ t.lines < MaxRecords /\ n = t.lines + 1
                     /\ ~t.pending /\ LimitsFit(t.evidence, t.state)
         IN /\ next.ok <=> fits
            /\ fits =>
                 next = [ok |-> TRUE, state |-> t.state,
                         evidence |-> [t.evidence EXCEPT !.limits = x],
                         pending |-> TRUE, lines |-> t.lines + 1, bytes |-> t.bytes]
PROOF
  <1> DEFINE r == LimitsRecord(n, x)
  <1>1. r.kind = "limits" /\ r.order = n /\ r.input = x
    BY DEF LimitsRecord
  <1> HIDE DEF r
  <1>2. PendingLimitsHold(t, r) <=> ~t.pending
    BY <1>1 DEF PendingLimitsHold, ReplayStates
  <1> DEFINE fits == /\ t.ok /\ t.lines < MaxRecords /\ n = t.lines + 1
                     /\ ~t.pending /\ LimitsFit(t.evidence, t.state)
  <1>3. CASE ~fits
    <2>1. ReplayLine(t, r) = [t EXCEPT !.ok = FALSE]
      BY <1>1, <1>2, <1>3 DEF ReplayLine
    <2> QED
      BY <1>3, <2>1 DEF ReplayStates, r
  <1>4. CASE fits
    <2>1. ReplayLine(t, r) =
            [[t EXCEPT !.lines = @ + 1, !.pending = TRUE] EXCEPT !.evidence.limits = x]
      BY <1>1, <1>2, <1>4 DEF ReplayLine
    <2> QED
      BY <1>4, <2>1 DEF ReplayStates, r
  <1> QED
    BY <1>3, <1>4

(* What is written is written as a line of the file.                       *)
LEMMA RecordsAreLines ==
  ASSUME order \in Nat
  PROVE  /\ \A v \in Recordable : LifecycleRecord(order, v) \in Lines
         /\ UsageRecord(order) \in Lines
         /\ \A x \in Observations : LimitsRecord(order, x) \in Lines
PROOF
  BY DEF Lines

(* An open writer's view of its reader.                                    *)
LEMMA OpenWriter ==
  ASSUME TranscriptInv, Healthy, ~crashed
  PROVE  LET t == Replay(disk)
         IN /\ t \in ReplayStates /\ t.ok
            /\ t.state = safe /\ t.evidence = evidence /\ t.lines + 1 = order
            /\ t.bytes = TextBytes(safe.assistant_text) /\ t.bytes <= MaxReplayText
            /\ t.pending <=> evidence.limits # Unobserved
            /\ Follows(safe, live) /\ safe.status \notin TerminalStatuses
            /\ torn = FALSE /\ summary.place # "final"
            /\ failure = None /\ ~closed
PROOF
  BY DEF TranscriptInv, Shapes, WriterAgrees, OpenAgrees, TapeAgrees, Healthy

(* The writer admits the copy of an accepted input exactly when the reader *)
(* will take its line; and this is what the reader then holds.             *)
LEMMA UpdateIsReplayed ==
  ASSUME TranscriptInv, Healthy, ~crashed, NEW u, NEW v, Mirrors(v, u)
  PROVE  LET next == ReplayLine(Replay(disk), LifecycleRecord(order, v))
         IN /\ (UpdateAdmitted(v, After(live, u)) /\ order <= MaxRecords) <=> next.ok
            /\ next.ok =>
                 /\ next = [ok |-> TRUE, state |-> After(safe, v), evidence |-> evidence,
                            pending |-> FALSE, lines |-> order,
                            bytes |-> TextBytes(After(safe, v).assistant_text)]
                 /\ next.bytes <= MaxReplayText
                 /\ evidence.limits # Unobserved => IsTerminal(v)
PROOF
  <1> DEFINE t == Replay(disk)
  <1> DEFINE r == LifecycleRecord(order, v)
  <1> DEFINE next == ReplayLine(t, r)
  <1> DEFINE copy == After(safe, v)
  <1>1. /\ t \in ReplayStates /\ t.ok
        /\ t.state = safe /\ t.evidence = evidence /\ t.lines + 1 = order
        /\ t.bytes = TextBytes(safe.assistant_text) /\ t.bytes <= MaxReplayText
        /\ t.pending <=> evidence.limits # Unobserved
    BY OpenWriter
  <1>2. /\ Accepts(safe, v) /\ SameLifecycle(copy, After(live, u))
        /\ IF v.type = "assistant.delta"
             THEN /\ TextBytes(v.text) \in Nat
                  /\ TextBytes(copy.assistant_text) =
                       TextBytes(safe.assistant_text) + TextBytes(v.text)
             ELSE copy.assistant_text = safe.assistant_text
    BY DEF Mirrors, Follows
  <1>3. r.kind = "lifecycle" /\ r.input = v
    BY DEF LifecycleRecord
  <1> HIDE DEF t, r, copy
  <1>4. /\ next.ok <=>
             /\ t.lines < MaxRecords /\ order = t.lines + 1
             /\ PendingLimitsHold(t, r) /\ LifecycleFits(t, v)
        /\ next.ok =>
             next = [ok |-> TRUE, state |-> After(t.state, v), evidence |-> t.evidence,
                     pending |-> FALSE, lines |-> t.lines + 1,
                     bytes |-> t.bytes + (IF v.type = "assistant.delta"
                                            THEN TextBytes(v.text) ELSE 0)]
    <2> HIDE DEF next
    <2> QED
      BY <1>1, LifecycleLine DEF next, r
  <1>5. t.lines \in Nat /\ t.bytes \in Nat /\ MaxRecords \in Nat /\ MaxReplayText \in Nat
    BY <1>1, TranscriptAssumption DEF ReplayStates
  <1>6. t.lines < MaxRecords <=> order <= MaxRecords
    BY <1>1, <1>5
  <1>7. LifecycleFits(t, v) <=>
          /\ ~(evidence.usage /\ v.type = "assistant.delta")
          /\ TextBytes(copy.assistant_text) <= MaxReplayText
    BY <1>1, <1>2, <1>5 DEF LifecycleFits
  <1>8. PendingLimitsHold(t, r) <=>
          /\ evidence.limits = Unobserved => ~UsesLimitCode(v)
          /\ evidence.limits # Unobserved =>
               IsTerminal(v) /\ LimitsMatchTerminal(evidence.limits, v)
    BY <1>1, <1>3 DEF PendingLimitsHold
  <1>9. UpdateAdmitted(v, After(live, u)) <=>
          PendingLimitsHold(t, r) /\ LifecycleFits(t, v)
    BY <1>2, <1>7, <1>8 DEF UpdateAdmitted, copy
  <1>10. (UpdateAdmitted(v, After(live, u)) /\ order <= MaxRecords) <=> next.ok
    <2> HIDE DEF next
    <2> QED
      BY <1>1, <1>4, <1>6, <1>9
  <1>11. ASSUME next.ok
         PROVE  /\ next = [ok |-> TRUE, state |-> copy, evidence |-> evidence,
                           pending |-> FALSE, lines |-> order,
                           bytes |-> TextBytes(copy.assistant_text)]
                /\ TextBytes(copy.assistant_text) <= MaxReplayText
                /\ evidence.limits # Unobserved => IsTerminal(v)
    <2>1. t.bytes + (IF v.type = "assistant.delta" THEN TextBytes(v.text) ELSE 0)
            = TextBytes(copy.assistant_text)
      BY <1>1, <1>2, <1>5
    <2>2. t.lines + 1 = order /\ After(t.state, v) = copy
      BY <1>1 DEF copy
    <2> HIDE DEF next
    <2> QED
      BY <1>1, <1>4, <1>7, <1>8, <1>11, <2>1, <2>2
  <1> QED
    BY <1>10, <1>11 DEF t, r, copy

(* The same of the two observations.                                       *)
LEMMA UsageIsReplayed ==
  ASSUME TranscriptInv, Healthy, ~crashed
  PROVE  LET next == ReplayLine(Replay(disk), UsageRecord(order))
         IN /\ (UsageAdmitted /\ order <= MaxRecords) <=> next.ok
            /\ next.ok =>
                 /\ next = [ok |-> TRUE, state |-> safe,
                            evidence |-> [evidence EXCEPT !.usage = TRUE],
                            pending |-> FALSE, lines |-> order,
                            bytes |-> TextBytes(safe.assistant_text)]
                 /\ evidence.limits = Unobserved
PROOF
  <1> DEFINE t == Replay(disk)
  <1> DEFINE next == ReplayLine(t, UsageRecord(order))
  <1>1. /\ t \in ReplayStates /\ t.ok
        /\ t.state = safe /\ t.evidence = evidence /\ t.lines + 1 = order
        /\ t.bytes = TextBytes(safe.assistant_text)
        /\ t.pending <=> evidence.limits # Unobserved
    BY OpenWriter
  <1> HIDE DEF t
  <1>2. t.lines \in Nat /\ MaxRecords \in Nat
    BY <1>1, TranscriptAssumption DEF ReplayStates
  <1>3. t.lines < MaxRecords <=> order <= MaxRecords
    BY <1>1, <1>2
  <1>4. UsageAdmitted <=> ~t.pending /\ UsageFits(t.evidence, t.state)
    BY <1>1 DEF UsageAdmitted, UsageFits
  <1> QED
    BY <1>1, <1>3, <1>4, UsageLine DEF UsageFits, t

LEMMA LimitsAreReplayed ==
  ASSUME TranscriptInv, Healthy, ~crashed, NEW x
  PROVE  LET next == ReplayLine(Replay(disk), LimitsRecord(order, x))
         IN /\ (LimitsAdmitted /\ order <= MaxRecords) <=> next.ok
            /\ next.ok =>
                 next = [ok |-> TRUE, state |-> safe,
                         evidence |-> [evidence EXCEPT !.limits = x],
                         pending |-> TRUE, lines |-> order,
                         bytes |-> TextBytes(safe.assistant_text)]
PROOF
  <1> DEFINE t == Replay(disk)
  <1> DEFINE next == ReplayLine(t, LimitsRecord(order, x))
  <1>1. /\ t \in ReplayStates /\ t.ok
        /\ t.state = safe /\ t.evidence = evidence /\ t.lines + 1 = order
        /\ t.bytes = TextBytes(safe.assistant_text)
        /\ t.pending <=> evidence.limits # Unobserved
    BY OpenWriter
  <1> HIDE DEF t
  <1>2. t.lines \in Nat /\ MaxRecords \in Nat
    BY <1>1, TranscriptAssumption DEF ReplayStates
  <1>3. t.lines < MaxRecords <=> order <= MaxRecords
    BY <1>1, <1>2
  <1>4. LimitsAdmitted <=> ~t.pending /\ LimitsFit(t.evidence, t.state)
    BY <1>1 DEF LimitsAdmitted, LimitsFit
  <1> QED
    BY <1>1, <1>3, <1>4, LimitsLine DEF t

-----------------------------------------------------------------------------
(* Part five: every call keeps the invariant. *)

(* How an append may end: with its line in the file, whole and last; or    *)
(* failed or cut, with the file as it was or with the line, and perhaps a  *)
(* torn one behind it.                                                     *)
LEMMA AppendEnds ==
  ASSUME torn = FALSE, NEW r, NEW a \in Appends(r)
  PROVE  /\ a.disk \in {disk, Append(disk, r)}
         /\ a.torn \in BOOLEAN /\ a.crashed \in BOOLEAN
         /\ a.code \in PersistenceFailures \cup {None}
         /\ ~(a.crashed \/ a.code # None) => a.disk = Append(disk, r) /\ ~a.torn
PROOF
  <1>1. Extended(r) = Append(disk, r)
    BY DEF Extended
  <1>2. \E lines \in {disk, Append(disk, r)}, t \in BOOLEAN,
           code \in PersistenceFailures \cup {None}, dead \in BOOLEAN :
          /\ a = [disk |-> lines, torn |-> t, code |-> code, crashed |-> dead]
          /\ dead \/ code # None \/ (lines = Append(disk, r) /\ ~t)
    <2>1. \/ a = [disk |-> Append(disk, r), torn |-> FALSE, code |-> None,
                 crashed |-> FALSE]
          \/ \E t \in {torn, TRUE} :
               a = [disk |-> disk, torn |-> t, code |-> "write_failed", crashed |-> FALSE]
          \/ a = [disk |-> disk, torn |-> torn, code |-> "flush_failed",
                 crashed |-> FALSE]
          \/ a = [disk |-> Append(disk, r), torn |-> FALSE, code |-> "flush_failed",
                 crashed |-> FALSE]
          \/ \E t \in {torn, TRUE} :
               a = [disk |-> disk, torn |-> t, code |-> None, crashed |-> TRUE]
          \/ a = [disk |-> Append(disk, r), torn |-> FALSE, code |-> None,
                 crashed |-> TRUE]
      BY <1>1 DEF Appends
    <2>2. {torn, TRUE} \subseteq BOOLEAN /\ torn \in BOOLEAN
      OBVIOUS
    <2>3. None \notin {"write_failed", "flush_failed"}
      BY TranscriptAssumption DEF PersistenceFailures
    <2> QED
      BY <2>1, <2>2, <2>3 DEF PersistenceFailures
  <1> QED
    BY <1>2

(* A line the reader takes, and what it then holds: what the writer is     *)
(* about to hold, following the session as it now is.                      *)
Advances(r, next) ==
  /\ r \in Lines
  /\ next = ReplayLine(Replay(disk), r)
  /\ next \in ReplayStates /\ next.ok /\ next.lines = order
  /\ next.state.assistant_text \in Seq(Pieces)
  /\ next.bytes = TextBytes(next.state.assistant_text) /\ next.bytes <= MaxReplayText
  /\ next.pending <=>
       next.evidence.limits # Unobserved /\ next.state.status \notin TerminalStatuses
  /\ next.state.status # "idle" \/ next.state.assistant_text = << >>
  /\ Follows(next.state, live')

(* What every step of a call leaves typed, whatever became of the file.    *)
Typed ==
  /\ live' \in SessionState
  /\ budget' \in [bytes : 0 .. TextLimit, exhausted : BOOLEAN]

(* A call that fails or dies leaves a file that is still the session's.    *)
LEMMA StopKeeps ==
  ASSUME TranscriptInv, Healthy, ~crashed, Typed,
         NEW r, NEW next, Advances(r, next),
         NEW a \in Appends(r), a.crashed \/ a.code # None, Stop(a)
  PROVE  TranscriptInv'
PROOF
  <1> DEFINE t == Replay(disk)
  <1>1. /\ t \in ReplayStates /\ t.ok /\ t.state = safe
        /\ safe.status \notin TerminalStatuses
        /\ torn = FALSE /\ summary.place # "final" /\ failure = None /\ ~closed
    BY OpenWriter
  <1>2. /\ a.disk \in {disk, Append(disk, r)}
        /\ a.torn \in BOOLEAN /\ a.crashed \in BOOLEAN
        /\ a.code \in PersistenceFailures \cup {None}
    BY <1>1, AppendEnds
  <1>3. /\ disk' = a.disk /\ torn' = a.torn /\ crashed' = a.crashed
        /\ UNCHANGED <<safe, evidence, order, summary>>
        /\ IF a.crashed THEN UNCHANGED <<failure, reported, closed>>
           ELSE failure' = a.code /\ reported' = TRUE /\ closed' = TRUE
    BY DEF Stop, Latch
  <1>4. /\ disk \in Seq(Lines) /\ r \in Lines /\ reported \in BOOLEAN
        /\ closed \in BOOLEAN /\ failure \in PersistenceFailures \cup {None}
    BY DEF TranscriptInv, Shapes, Advances
  <1>5. disk' \in Seq(Lines)
    BY <1>2, <1>3, <1>4
  <1>6. Replay(disk') \in {t, next}
    BY <1>2, <1>3, <1>4, ReplayOfOneMore DEF Advances
  <1> HIDE DEF t
  <1>7. Replay(disk)' = Replay(disk')
    OBVIOUS
  <1>8. /\ Replay(disk') \in ReplayStates
        /\ Replay(disk').ok
        /\ Replay(disk').state.status \in TerminalStatuses =>
             SameLifecycle(Replay(disk').state, live')
    BY <1>1, <1>6 DEF Advances, Follows
  <1>9. Shapes'
    BY <1>2, <1>3, <1>4, <1>5, <1>7, <1>8 DEF TranscriptInv, Shapes, Typed
  <1>10. FailureAgrees'
    BY <1>1, <1>3 DEF FailureAgrees
  <1>11. crashed' \/ failure' # None
    BY <1>2, <1>3
  <1>12. WriterAgrees' /\ OpenAgrees'
    BY <1>11 DEF WriterAgrees, OpenAgrees, Healthy
  <1>13. TapeAgrees'
    BY <1>7, <1>8 DEF TapeAgrees, SameLifecycle
  <1>14. SummaryAgrees'
    BY <1>1, <1>3 DEF SummaryAgrees
  <1> QED
    BY <1>9, <1>10, <1>12, <1>13, <1>14 DEF TranscriptInv

(* A call that writes its line leaves a file that replays to the writer's  *)
(* own projection.                                                         *)
LEMMA CommitKeeps ==
  ASSUME TranscriptInv, Healthy, ~crashed, Typed,
         NEW r, NEW next, Advances(r, next),
         next.state.status \notin TerminalStatuses,
         NEW a \in Appends(r), ~(a.crashed \/ a.code # None),
         Commit(a, next.state, next.evidence),
         UNCHANGED <<failure, reported, closed, summary, crashed>>
  PROVE  TranscriptInv'
PROOF
  <1>1. /\ torn = FALSE /\ summary.place # "final" /\ failure = None /\ ~closed
        /\ order \in Nat
    BY OpenWriter DEF TranscriptInv, Shapes
  <1>2. /\ disk' = Append(disk, r) /\ ~torn' /\ torn' \in BOOLEAN
        /\ safe' = next.state /\ evidence' = next.evidence /\ order' = order + 1
    BY <1>1, AppendEnds DEF Commit
  <1>3. disk \in Seq(Lines) /\ r \in Lines
    BY DEF TranscriptInv, Shapes, Advances
  <1>4. Replay(disk') = next /\ disk' \in Seq(Lines)
    BY <1>2, <1>3, ReplayOfOneMore DEF Advances
  <1>5. Replay(disk)' = next
    BY <1>4
  <1>6. /\ next \in ReplayStates /\ next.state \in SessionState
        /\ next.evidence \in Evidences
    BY DEF Advances, ReplayStates
  <1>7. Shapes'
    BY <1>1, <1>2, <1>4, <1>5, <1>6 DEF TranscriptInv, Shapes, Typed, Advances
  <1>8. FailureAgrees'
    BY DEF TranscriptInv, FailureAgrees
  <1>9. WriterAgrees'
    BY <1>2, <1>5 DEF WriterAgrees, Advances
  <1>10. OpenAgrees'
    BY <1>1, <1>2 DEF OpenAgrees, Advances, Follows, SameLifecycle
  <1>11. TapeAgrees'
    BY <1>5 DEF TapeAgrees, Advances
  <1>12. SummaryAgrees'
    BY <1>1 DEF SummaryAgrees
  <1> QED
    BY <1>7, <1>8, <1>9, <1>10, <1>11, <1>12 DEF TranscriptInv

(* The end of the session: the transcript is whole, and then the summary   *)
(* is written, or not.                                                     *)
LEMMA SummarizeKeeps ==
  ASSUME TranscriptInv, Healthy, ~crashed, Typed,
         NEW r, NEW next, Advances(r, next),
         next.state.status \in TerminalStatuses, next.evidence = evidence,
         NEW a \in Appends(r), ~(a.crashed \/ a.code # None),
         NEW v, After(safe, v) = next.state, Summarize(v, a)
  PROVE  TranscriptInv'
PROOF
  <1>1. /\ torn = FALSE /\ summary.place # "final" /\ failure = None /\ ~closed
        /\ order \in Nat
    BY OpenWriter DEF TranscriptInv, Shapes
  <1>2. PICK s \in Summaries(next.state, evidence) :
          /\ Commit(a, next.state, evidence)
          /\ summary' = s.summary /\ crashed' = s.crashed
          /\ IF s.crashed THEN UNCHANGED <<failure, reported, closed, told>>
             ELSE IF s.code # None THEN Latch(s.code)
             ELSE closed' = TRUE /\ told' = None /\ UNCHANGED <<failure, reported>>
    BY DEF Summarize
  <1>3. /\ disk' = Append(disk, r) /\ ~torn' /\ torn' \in BOOLEAN
        /\ safe' = next.state /\ evidence' = next.evidence /\ order' = order + 1
    BY <1>1, <1>2, AppendEnds DEF Commit
  <1>4. /\ s.crashed \in BOOLEAN /\ s.code \in PersistenceFailures \cup {None}
        /\ \/ s.summary = summary
           \/ s.summary.place = "temporary"
           \/ /\ s.summary.status = next.state.status
              /\ s.summary.evidence = evidence
    <2>1. \E place \in {"final", "temporary"}, dead \in BOOLEAN,
             code \in {None, "summary_failed"} :
            \/ s = [summary |-> [place |-> place, status |-> next.state.status,
                                evidence |-> evidence],
                    code |-> code, crashed |-> dead]
            \/ s = [summary |-> summary, code |-> code, crashed |-> dead]
      BY DEF Summaries
    <2> QED
      BY <2>1 DEF PersistenceFailures
  <1>5. /\ disk \in Seq(Lines) /\ r \in Lines /\ reported \in BOOLEAN
        /\ closed \in BOOLEAN
    BY DEF TranscriptInv, Shapes, Advances
  <1>6. Replay(disk') = next /\ disk' \in Seq(Lines)
    BY <1>3, <1>5, ReplayOfOneMore DEF Advances
  <1>7. Replay(disk)' = next
    BY <1>6
  <1>8. /\ next \in ReplayStates /\ next.state \in SessionState
        /\ next.evidence \in Evidences
    BY DEF Advances, ReplayStates
  <1>9. /\ crashed' \in BOOLEAN /\ reported' \in BOOLEAN /\ closed' \in BOOLEAN
        /\ failure' \in PersistenceFailures \cup {None}
        /\ crashed' \/ closed'
        /\ failure' # None => reported' /\ closed'
    BY <1>1, <1>2, <1>4, <1>5 DEF Latch
  <1>10. Shapes'
    BY <1>1, <1>3, <1>6, <1>7, <1>8, <1>9 DEF TranscriptInv, Shapes, Typed, Advances
  <1>11. FailureAgrees'
    BY <1>9 DEF FailureAgrees
  <1>12. WriterAgrees'
    BY <1>3, <1>7 DEF WriterAgrees, Advances
  <1>13. OpenAgrees'
    BY <1>9 DEF OpenAgrees, Healthy
  <1>14. TapeAgrees'
    BY <1>7 DEF TapeAgrees, Advances, Follows, SameLifecycle
  <1>15. SummaryAgrees'
    BY <1>1, <1>2, <1>3, <1>4, <1>7, <1>9 DEF SummaryAgrees, SummaryTellsTheTape
  <1> QED
    BY <1>10, <1>11, <1>12, <1>13, <1>14, <1>15 DEF TranscriptInv

(* A call the writer refuses before it writes. *)
LEMMA RefuseKeeps ==
  ASSUME TranscriptInv, Healthy, ~crashed, Typed, Refuse
  PROVE  TranscriptInv'
PROOF
  <1>1. /\ Replay(disk).ok /\ Replay(disk).state = safe
        /\ safe.status \notin TerminalStatuses /\ summary.place # "final"
    BY OpenWriter
  <1>2. /\ UNCHANGED <<safe, evidence, order, disk, torn, summary, crashed>>
        /\ failure' = "write_failed" /\ reported' = TRUE /\ closed' = TRUE
    BY DEF Refuse, Latch
  <1>3. Replay(disk)' = Replay(disk)
    BY <1>2
  <1>4. Shapes'
    BY <1>2, <1>3 DEF TranscriptInv, Shapes, Typed, PersistenceFailures
  <1>5. FailureAgrees' /\ WriterAgrees' /\ OpenAgrees'
    BY <1>2, TranscriptAssumption
    DEF FailureAgrees, WriterAgrees, OpenAgrees, Healthy, PersistenceFailures
  <1>6. TapeAgrees' /\ SummaryAgrees'
    BY <1>1, <1>2, <1>3 DEF TapeAgrees, SummaryAgrees
  <1> QED
    BY <1>4, <1>5, <1>6 DEF TranscriptInv

(* A call of a writer that is done: nothing but the session moves, and if  *)
(* the file tells its terminal, not even that.                             *)
LEMMA IdleKeeps ==
  ASSUME TranscriptInv, ~crashed, Typed, Idle,
         live.status \in TerminalStatuses => UNCHANGED live
  PROVE  TranscriptInv'
PROOF
  <1>1. /\ UNCHANGED <<safe, evidence, order, budget, failure, closed, disk, torn,
                       summary, crashed>>
        /\ reported' = (reported \/ failure # None)
        /\ ~Healthy
    BY DEF Idle
  <1>2. Replay(disk)' = Replay(disk)
    BY <1>1
  <1>3. Shapes'
    BY <1>1, <1>2 DEF TranscriptInv, Shapes, Typed
  <1>4. FailureAgrees' /\ WriterAgrees' /\ OpenAgrees'
    BY <1>1, <1>2 DEF TranscriptInv, FailureAgrees, WriterAgrees, OpenAgrees, Healthy
  <1>5. TapeAgrees'
    BY <1>1, <1>2 DEF TranscriptInv, TapeAgrees, SameLifecycle
  <1>6. SummaryAgrees'
    BY <1>1, <1>2 DEF TranscriptInv, SummaryAgrees, SummaryTellsTheTape
  <1> QED
    BY <1>3, <1>4, <1>5, <1>6 DEF TranscriptInv

(* A session's reducer accepts nothing at its end, and leaves a typed      *)
(* state.                                                                  *)
LEMMA SessionMoves ==
  ASSUME Shapes, NEW u \in Updates, Accepts(live, u)
  PROVE  live.status \notin TerminalStatuses /\ After(live, u) \in SessionState
PROOF
  <1>1. live \in SessionState /\ SessionId \in Sessions /\ SameLifecycle(live, live)
    BY TranscriptAssumption DEF Shapes, SameLifecycle
  <1>2. live.status \notin TerminalStatuses
    BY NoneAssumption DEF Accepts, ReduceSessionState, Reject, FailureCodes
  <1>3. CASE \E c \in Commands : u = TaskSubmitted(c)
    BY <1>1, <1>2, <1>3, CopyFollowsTask
  <1>4. CASE \E c \in Commands : u = CancelRequested(c, SessionId)
    BY <1>1, <1>2, <1>4, CopyFollowsCancellation
  <1>5. CASE \E type \in EventTypes, correlation \in Commands \cup {None},
                text \in Seq(Fragments), code \in Codes \cup {None} :
               EventForm(u, type, correlation, text, code)
    <2>1. PICK type \in EventTypes, correlation \in Commands \cup {None},
               text \in Seq(Fragments), code \in Codes \cup {None} :
            u = WireEvent(type, correlation, SessionId, live.last_sequence + 1, text, code)
      BY <1>5 DEF EventForm
    <2>2. live.last_sequence + 1 \in Nat
      BY <1>1 DEF SessionState
    <2> QED
      BY <1>1, <1>2, <2>1, <2>2, EventLeaves
  <1> QED
    BY <1>3, <1>4, <1>5, UpdateForms

(* The line of an admitted input is one the reader takes.                  *)
LEMMA AdmittedAdvances ==
  ASSUME TranscriptInv, Healthy, ~crashed, NEW u, NEW v, Mirrors(v, u),
         UpdateAdmitted(v, After(live, u)), order <= MaxRecords,
         live' = After(live, u)
  PROVE  LET r == LifecycleRecord(order, v)
             next == ReplayLine(Replay(disk), r)
         IN /\ Advances(r, next)
            /\ next.state = After(safe, v) /\ next.evidence = evidence
            /\ next.state.status \in TerminalStatuses <=> IsTerminal(v)
PROOF
  <1> DEFINE r == LifecycleRecord(order, v)
  <1> DEFINE next == ReplayLine(Replay(disk), r)
  <1> DEFINE copy == After(safe, v)
  <1>1. /\ next = [ok |-> TRUE, state |-> copy, evidence |-> evidence,
                   pending |-> FALSE, lines |-> order,
                   bytes |-> TextBytes(copy.assistant_text)]
        /\ next.bytes <= MaxReplayText
        /\ evidence.limits # Unobserved => IsTerminal(v)
    BY UpdateIsReplayed
  <1>2. /\ v \in Recordable /\ copy \in SessionState
        /\ Follows(copy, After(live, u))
        /\ copy.status \in TerminalStatuses <=> IsTerminal(v)
        /\ copy.status # "idle" /\ copy.assistant_text \in Seq(Pieces)
    BY DEF Mirrors
  <1>3. order \in Nat /\ evidence \in Evidences
    BY DEF TranscriptInv, Shapes
  <1>4. r \in Lines
    BY <1>2, <1>3, RecordsAreLines
  <1>5. TextBytes(copy.assistant_text) \in Nat
    BY <1>2, TextBytesNat DEF TextBytes
  <1> HIDE DEF copy
  <1>6. [ok |-> TRUE, state |-> copy, evidence |-> evidence, pending |-> FALSE,
         lines |-> order, bytes |-> TextBytes(copy.assistant_text)] \in ReplayStates
    BY <1>2, <1>3, <1>5 DEF ReplayStates
  <1>7. next = ReplayLine(Replay(disk), r)
    OBVIOUS
  <1> HIDE DEF r, next
  <1>8. Advances(r, next)
    BY <1>1, <1>2, <1>4, <1>6, <1>7 DEF Advances
  <1> QED
    BY <1>1, <1>2, <1>8 DEF r, next, copy

LEMMA RecordKeeps ==
  ASSUME TranscriptInv, NEW u \in Updates, Record(u)
  PROVE  TranscriptInv'
PROOF
  <1>1. ~crashed /\ Accepts(live, u) /\ live' = After(live, u)
    BY DEF Record
  <1>2. live.status \notin TerminalStatuses /\ live' \in SessionState
    BY <1>1, SessionMoves DEF TranscriptInv
  <1>3. CASE Idle
    <2>1. Typed
      BY <1>2, <1>3 DEF Typed, Idle, TranscriptInv, Shapes
    <2> QED
      BY <1>1, <1>2, <1>3, <2>1, IdleKeeps
  <1>4. CASE /\ Healthy
             /\ \E z \in Sanitizations(u) :
                  budget' = z.budget /\ Persist(z.update, After(live, u))
    <2>1. PICK z \in Sanitizations(u) :
            budget' = z.budget /\ Persist(z.update, After(live, u))
      BY <1>4
    <2> DEFINE v == z.update
    <2> DEFINE r == LifecycleRecord(order, v)
    <2> DEFINE next == ReplayLine(Replay(disk), r)
    <2>2. z.budget \in [bytes : 0 .. TextLimit, exhausted : BOOLEAN] /\ Mirrors(v, u)
      BY <1>1, <1>4, SanitizedMirrors DEF TranscriptInv
    <2>3. Typed
      BY <1>2, <2>1, <2>2 DEF Typed
    <2> HIDE DEF v
    <2>4. CASE Refuse
      BY <1>1, <1>4, <2>3, <2>4, RefuseKeeps
    <2>5. CASE ~Refuse
      <3>1. /\ UpdateAdmitted(v, After(live, u)) /\ ~(order > MaxRecords)
            /\ \E a \in Appends(r) :
                 IF a.crashed \/ a.code # None THEN Stop(a)
                 ELSE IF IsTerminal(v) THEN Summarize(v, a)
                 ELSE /\ Commit(a, After(safe, v), evidence)
                      /\ told' = None
                      /\ UNCHANGED <<failure, reported, closed, summary, crashed>>
        BY <2>1, <2>5 DEF Persist, v
      <3>2. order <= MaxRecords
        BY <3>1, TranscriptAssumption DEF TranscriptInv, Shapes
      <3>3. /\ Advances(r, next)
            /\ next.state = After(safe, v) /\ next.evidence = evidence
            /\ next.state.status \in TerminalStatuses <=> IsTerminal(v)
        BY <1>1, <1>4, <2>2, <3>1, <3>2, AdmittedAdvances
      <3> HIDE DEF r, next
      <3>4. PICK a \in Appends(r) :
              IF a.crashed \/ a.code # None THEN Stop(a)
              ELSE IF IsTerminal(v) THEN Summarize(v, a)
              ELSE /\ Commit(a, After(safe, v), evidence)
                   /\ told' = None
                   /\ UNCHANGED <<failure, reported, closed, summary, crashed>>
        BY <3>1
      <3>5. CASE a.crashed \/ a.code # None
        BY <1>1, <1>4, <2>3, <3>3, <3>4, <3>5, StopKeeps
      <3>6. CASE ~(a.crashed \/ a.code # None) /\ IsTerminal(v)
        BY <1>1, <1>4, <2>3, <3>3, <3>4, <3>6, SummarizeKeeps
      <3>7. CASE ~(a.crashed \/ a.code # None) /\ ~IsTerminal(v)
        BY <1>1, <1>4, <2>3, <3>3, <3>4, <3>7, CommitKeeps
      <3> QED
        BY <3>5, <3>6, <3>7
    <2> QED
      BY <2>4, <2>5
  <1> QED
    BY <1>3, <1>4 DEF Record

(* An observation leaves the projections alone. *)
LEMMA ObserveKeeps ==
  ASSUME TranscriptInv, NEW admitted, NEW r, NEW seen, Observe(admitted, r, seen),
         Healthy /\ ~crashed /\ admitted /\ order <= MaxRecords =>
           LET next == ReplayLine(Replay(disk), r)
           IN Advances(r, next) /\ next.state = safe /\ next.evidence = seen
  PROVE  TranscriptInv'
PROOF
  <1>1. ~crashed /\ live' = live
    BY DEF Observe
  <1>2. Typed
    BY DEF Observe, Idle, Typed, TranscriptInv, Shapes
  <1>3. CASE Idle
    BY <1>1, <1>2, <1>3, IdleKeeps
  <1>4. CASE Healthy /\ Refuse
    BY <1>1, <1>2, <1>4, RefuseKeeps
  <1>5. CASE /\ Healthy /\ admitted /\ ~(order > MaxRecords)
             /\ \E a \in Appends(r) :
                  IF a.crashed \/ a.code # None THEN Stop(a)
                  ELSE /\ Commit(a, safe, seen)
                       /\ told' = None
                       /\ UNCHANGED <<failure, reported, closed, summary, crashed>>
    <2> DEFINE next == ReplayLine(Replay(disk), r)
    <2>1. order <= MaxRecords
      BY <1>5, TranscriptAssumption DEF TranscriptInv, Shapes
    <2>2. Advances(r, next) /\ next.state = safe /\ next.evidence = seen
      BY <1>1, <1>5, <2>1
    <2> HIDE DEF next
    <2>3. safe.status \notin TerminalStatuses
      BY <1>1, <1>5, OpenWriter
    <2>4. PICK a \in Appends(r) :
            IF a.crashed \/ a.code # None THEN Stop(a)
            ELSE /\ Commit(a, safe, seen)
                 /\ told' = None
                 /\ UNCHANGED <<failure, reported, closed, summary, crashed>>
      BY <1>5
    <2>5. CASE a.crashed \/ a.code # None
      BY <1>1, <1>2, <1>5, <2>2, <2>4, <2>5, StopKeeps
    <2>6. CASE ~(a.crashed \/ a.code # None)
      BY <1>1, <1>2, <1>5, <2>2, <2>3, <2>4, <2>6, CommitKeeps
    <2> QED
      BY <2>5, <2>6
  <1> QED
    BY <1>3, <1>4, <1>5 DEF Observe

(* The lines of the two observations are ones the reader takes.            *)
LEMMA UsageAdvances ==
  ASSUME TranscriptInv, Healthy, ~crashed, UsageAdmitted, order <= MaxRecords,
         UNCHANGED live
  PROVE  LET next == ReplayLine(Replay(disk), UsageRecord(order))
         IN /\ Advances(UsageRecord(order), next)
            /\ next.state = safe
            /\ next.evidence = [evidence EXCEPT !.usage = TRUE]
PROOF
  <1> DEFINE next == ReplayLine(Replay(disk), UsageRecord(order))
  <1> DEFINE seen == [evidence EXCEPT !.usage = TRUE]
  <1>1. /\ next = [ok |-> TRUE, state |-> safe, evidence |-> seen,
                   pending |-> FALSE, lines |-> order,
                   bytes |-> TextBytes(safe.assistant_text)]
        /\ evidence.limits = Unobserved
    BY UsageIsReplayed
  <1>2. /\ safe \in SessionState /\ safe.assistant_text \in Seq(Pieces)
        /\ order \in Nat /\ evidence \in Evidences
    BY DEF TranscriptInv, Shapes
  <1>3. /\ TextBytes(safe.assistant_text) <= MaxReplayText
        /\ Follows(safe, live) /\ safe.status \notin TerminalStatuses
    BY OpenWriter
  <1>4. safe.status = "idle" => safe.assistant_text = << >>
    BY DEF TranscriptInv, WriterAgrees, Healthy
  <1>5. TextBytes(safe.assistant_text) \in Nat
    BY <1>2, TextBytesNat DEF TextBytes
  <1>6. seen \in Evidences /\ seen.limits = Unobserved
    BY <1>1, <1>2 DEF Evidences
  <1>7. UsageRecord(order) \in Lines
    BY <1>2, RecordsAreLines
  <1> HIDE DEF seen
  <1>8. next \in ReplayStates
    BY <1>1, <1>2, <1>5, <1>6 DEF ReplayStates
  <1> HIDE DEF next
  <1>9. Advances(UsageRecord(order), next)
    BY <1>1, <1>2, <1>3, <1>4, <1>6, <1>7, <1>8 DEF Advances, next
  <1> QED
    BY <1>1, <1>9 DEF next, seen

LEMMA LimitsAdvance ==
  ASSUME TranscriptInv, Healthy, ~crashed, NEW x \in Observations, LimitsAdmitted,
         order <= MaxRecords, UNCHANGED live
  PROVE  LET next == ReplayLine(Replay(disk), LimitsRecord(order, x))
         IN /\ Advances(LimitsRecord(order, x), next)
            /\ next.state = safe
            /\ next.evidence = [evidence EXCEPT !.limits = x]
PROOF
  <1> DEFINE next == ReplayLine(Replay(disk), LimitsRecord(order, x))
  <1> DEFINE seen == [evidence EXCEPT !.limits = x]
  <1>1. next = [ok |-> TRUE, state |-> safe, evidence |-> seen,
                pending |-> TRUE, lines |-> order,
                bytes |-> TextBytes(safe.assistant_text)]
    BY LimitsAreReplayed
  <1>2. /\ safe \in SessionState /\ safe.assistant_text \in Seq(Pieces)
        /\ order \in Nat /\ evidence \in Evidences
    BY DEF TranscriptInv, Shapes
  <1>3. /\ TextBytes(safe.assistant_text) <= MaxReplayText
        /\ Follows(safe, live) /\ safe.status \notin TerminalStatuses
    BY OpenWriter
  <1>4. safe.status = "idle" => safe.assistant_text = << >>
    BY DEF TranscriptInv, WriterAgrees, Healthy
  <1>5. TextBytes(safe.assistant_text) \in Nat
    BY <1>2, TextBytesNat DEF TextBytes
  <1>6. seen \in Evidences /\ seen.limits # Unobserved
    BY <1>2 DEF Evidences, Observations, Exhaustions, Unexhausted, Unobserved
  <1>7. LimitsRecord(order, x) \in Lines
    BY <1>2, RecordsAreLines
  <1> HIDE DEF seen
  <1>8. next \in ReplayStates
    BY <1>1, <1>2, <1>5, <1>6 DEF ReplayStates
  <1> HIDE DEF next
  <1>9. Advances(LimitsRecord(order, x), next)
    BY <1>1, <1>2, <1>3, <1>4, <1>6, <1>7, <1>8 DEF Advances, next
  <1> QED
    BY <1>1, <1>9 DEF next, seen

LEMMA CloseKeeps ==
  ASSUME TranscriptInv, Close
  PROVE  TranscriptInv'
PROOF
  <1>1. /\ closed' = TRUE
        /\ UNCHANGED <<live, safe, evidence, order, budget, failure, reported, disk,
                       torn, summary, crashed>>
    BY DEF Close
  <1>2. Replay(disk)' = Replay(disk)
    BY <1>1
  <1>3. Shapes' /\ FailureAgrees'
    BY <1>1, <1>2 DEF TranscriptInv, Shapes, FailureAgrees
  <1>4. WriterAgrees' /\ OpenAgrees'
    BY <1>1, <1>2 DEF TranscriptInv, WriterAgrees, OpenAgrees, Healthy
  <1>5. TapeAgrees' /\ SummaryAgrees'
    BY <1>1, <1>2
    DEF TranscriptInv, TapeAgrees, SameLifecycle, SummaryAgrees, SummaryTellsTheTape
  <1> QED
    BY <1>3, <1>4, <1>5 DEF TranscriptInv

LEMMA TranscriptStarts == Init => TranscriptInv
PROOF
  <1> SUFFICES ASSUME Init PROVE TranscriptInv
    OBVIOUS
  <1>1. Replay(disk) = EmptyReplay
    BY ReplayOfNothing DEF Init
  <1>2. TextBytes(<< >>) = 0
    BY BytesOfNothing
  <1>3. /\ InitialSessionState \in SessionState
        /\ InitialSessionState.status = "idle"
        /\ InitialSessionState.assistant_text = << >>
    BY DEF InitialSessionState, SessionState, Statuses
  <1>4. NoEvidence \in Evidences /\ NoEvidence.limits = Unobserved
    BY DEF NoEvidence, Evidences
  <1>5. /\ EmptyReplay \in ReplayStates
        /\ EmptyReplay.ok /\ EmptyReplay.state = InitialSessionState
        /\ EmptyReplay.evidence = NoEvidence /\ EmptyReplay.pending = FALSE
        /\ EmptyReplay.bytes = 0 /\ EmptyReplay.lines = 0
    BY <1>3, <1>4 DEF EmptyReplay, ReplayStates
  <1>6. 0 <= MaxReplayText /\ 0 \in 0 .. TextLimit
    BY TranscriptAssumption
  <1>7. Shapes
    <2>1. budget \in [bytes : 0 .. TextLimit, exhausted : BOOLEAN]
      BY <1>6 DEF Init
    <2>2. disk \in Seq(Lines)
      <3>1. << >> \in Seq(Lines)
        OBVIOUS
      <3> QED
        BY <3>1 DEF Init
    <2>3. /\ order \in Nat /\ failure \in PersistenceFailures \cup {None}
          /\ reported \in BOOLEAN /\ closed \in BOOLEAN
          /\ torn \in BOOLEAN /\ crashed \in BOOLEAN
      BY DEF Init
    <2>4. /\ live \in SessionState /\ safe \in SessionState
          /\ safe.assistant_text \in Seq(Pieces)
          /\ evidence \in Evidences
      BY <1>3, <1>4 DEF Init
    <2> QED
      BY <1>1, <1>5, <2>1, <2>2, <2>3, <2>4 DEF Shapes
  <1>8. FailureAgrees /\ SummaryAgrees
    BY DEF Init, FailureAgrees, SummaryAgrees, NoSummary
  <1>9. WriterAgrees
    BY <1>1, <1>2, <1>3, <1>4, <1>5, <1>6 DEF Init, WriterAgrees
  <1>10. OpenAgrees /\ TapeAgrees
    BY <1>1, <1>3, <1>5
    DEF Init, OpenAgrees, TapeAgrees, Follows, SameLifecycle, TerminalStatuses, NoSummary
  <1> QED
    BY <1>7, <1>8, <1>9, <1>10 DEF TranscriptInv

(* A step that changes nothing. *)
LEMMA TranscriptStutters ==
  ASSUME TranscriptInv, UNCHANGED vars
  PROVE  TranscriptInv'
PROOF
  <1>1. UNCHANGED <<live, safe, evidence, order, budget, failure, reported, closed,
                    disk, torn, summary, crashed>>
    BY DEF vars
  <1>2. Replay(disk)' = Replay(disk)
    BY <1>1
  <1>3. Shapes' /\ FailureAgrees'
    BY <1>1, <1>2 DEF TranscriptInv, Shapes, FailureAgrees
  <1>4. WriterAgrees' /\ OpenAgrees'
    BY <1>1, <1>2 DEF TranscriptInv, WriterAgrees, OpenAgrees, Healthy, Follows,
                      SameLifecycle
  <1>5. TapeAgrees' /\ SummaryAgrees'
    BY <1>1, <1>2
    DEF TranscriptInv, TapeAgrees, SameLifecycle, SummaryAgrees, SummaryTellsTheTape
  <1> QED
    BY <1>3, <1>4, <1>5 DEF TranscriptInv

(* Whatever is recorded, wherever an append or a summary fails or the      *)
(* process dies, reader, writer and session agree (transcript.py 693-942   *)
(* against 1012-1200).                                                     *)
THEOREM TranscriptInvariant == Spec => []TranscriptInv
PROOF
  <1>1. TranscriptInv /\ [Next]_vars => TranscriptInv'
    <2> SUFFICES ASSUME TranscriptInv, [Next]_vars PROVE TranscriptInv'
      OBVIOUS
    <2>1. CASE \E u \in Updates : Record(u)
      BY <2>1, RecordKeeps
    <2>2. CASE RecordModelUsage
      <3>1. ASSUME Healthy, ~crashed, UsageAdmitted, order <= MaxRecords
            PROVE  LET next == ReplayLine(Replay(disk), UsageRecord(order))
                   IN /\ Advances(UsageRecord(order), next)
                      /\ next.state = safe
                      /\ next.evidence = [evidence EXCEPT !.usage = TRUE]
        BY <2>2, <3>1, UsageAdvances DEF RecordModelUsage, Observe
      <3> QED
        BY <2>2, <3>1, ObserveKeeps DEF RecordModelUsage
    <2>3. CASE \E x \in Observations : RecordLoopLimits(x)
      <3>1. PICK x \in Observations : RecordLoopLimits(x)
        BY <2>3
      <3>2. ASSUME Healthy, ~crashed, LimitsAdmitted, order <= MaxRecords
            PROVE  LET next == ReplayLine(Replay(disk), LimitsRecord(order, x))
                   IN /\ Advances(LimitsRecord(order, x), next)
                      /\ next.state = safe
                      /\ next.evidence = [evidence EXCEPT !.limits = x]
        BY <3>1, <3>2, LimitsAdvance DEF RecordLoopLimits, Observe
      <3> QED
        BY <3>1, <3>2, ObserveKeeps DEF RecordLoopLimits
    <2>4. CASE Close
      BY <2>4, CloseKeeps
    <2>5. CASE UNCHANGED vars
      BY <2>5, TranscriptStutters
    <2> QED
      BY <2>1, <2>2, <2>3, <2>4, <2>5 DEF Next
  <1> QED
    BY <1>1, TranscriptStarts, PTL DEF Spec

-----------------------------------------------------------------------------
(* Part six: what the runs check, for every session and every text. *)

(* Nothing is persisted that replay refuses and no sound input is refused  *)
(* (transcript.py 714-740, 791-800, 850-857 against 1105-1184).            *)
THEOREM WriterAgreesWithReader == Spec => []WriterAndReaderAgree
PROOF
  <1>1. TranscriptInv => WriterAndReaderAgree
    <2> SUFFICES ASSUME TranscriptInv, Healthy, ~crashed PROVE WriterAndReaderAgree
      BY DEF WriterAndReaderAgree
    <2> DEFINE after(r) == Replay(Append(disk, r)).ok
    <2>1. disk \in Seq(Lines) /\ order \in Nat
      BY DEF TranscriptInv, Shapes
    <2>2. \A r \in Lines : after(r) = ReplayLine(Replay(disk), r).ok
      BY <2>1, ReplayOfOneMore
    <2> HIDE DEF after
    <2>3. ASSUME NEW u \in Updates, Accepts(live, u), NEW z \in Sanitizations(u)
          PROVE  /\ (UpdateAdmitted(z.update, After(live, u)) /\ order <= MaxRecords)
                      <=> after(LifecycleRecord(order, z.update))
                 /\ Accepts(safe, z.update)
                 /\ SameLifecycle(After(safe, z.update), After(live, u))
      <3>1. Mirrors(z.update, u)
        BY <2>3, SanitizedMirrors DEF TranscriptInv
      <3>2. /\ z.update \in Recordable /\ Accepts(safe, z.update)
            /\ SameLifecycle(After(safe, z.update), After(live, u))
        BY <3>1 DEF Mirrors, Follows
      <3>3. LifecycleRecord(order, z.update) \in Lines
        BY <2>1, <3>2, RecordsAreLines
      <3> QED
        BY <2>2, <3>1, <3>2, <3>3, UpdateIsReplayed
    <2>4. (UsageAdmitted /\ order <= MaxRecords) <=> after(UsageRecord(order))
      BY <2>1, <2>2, RecordsAreLines, UsageIsReplayed
    <2>5. ASSUME NEW x \in Observations
          PROVE  (LimitsAdmitted /\ order <= MaxRecords) <=> after(LimitsRecord(order, x))
      BY <2>1, <2>2, RecordsAreLines, LimitsAreReplayed
    <2> QED
      BY <2>3, <2>4, <2>5 DEF WriterAndReaderAgree, after
  <1> QED
    BY <1>1, TranscriptInvariant, PTL

(* Whatever failed and wherever the process died, the file replays, and    *)
(* tells of the session what it may (transcript.py 907-913, 1458-1467).    *)
THEOREM FileAlwaysReplays == Spec => []FileReplays
PROOF
  <1>1. TranscriptInv => FileReplays
    BY DEF TranscriptInv, FileReplays, WriterAgrees, OpenAgrees, TapeAgrees, Healthy,
           Follows
  <1> QED
    BY <1>1, TranscriptInvariant, PTL

(* A summary is never found without its transcript (745-761, 915-942).     *)
THEOREM SummaryStandsForTheTape == Spec => []SummaryTellsTheTape
PROOF
  <1>1. TranscriptInv => SummaryTellsTheTape
    BY DEF TranscriptInv, SummaryAgrees, SummaryTellsTheTape
  <1> QED
    BY <1>1, TranscriptInvariant, PTL

(* The first failure is told once, by the call that met it, and nothing is *)
(* written after it (transcript.py 944-953).                               *)
THEOREM NothingAfterTheFirstFailure == Spec => FirstFailureIsTheLast
PROOF
  <1> DEFINE Last ==
        /\ failure # None =>
             /\ UNCHANGED <<disk, torn, summary, failure>>
             /\ told' = None
        /\ told' # None /\ told' # told => failure' = told' /\ closed'
  <1>1. TranscriptInv /\ [Next]_vars => [Last]_vars
    <2> SUFFICES ASSUME TranscriptInv, Next PROVE Last
      OBVIOUS
    <2>1. failure # None => reported /\ closed /\ ~Healthy
      BY DEF TranscriptInv, FailureAgrees, Healthy
    <2>2. CASE Idle
      BY <2>1, <2>2 DEF Idle
    <2>3. CASE Close
      BY <2>1, <2>3 DEF Close
    <2>4. CASE Healthy /\ ~Close
      <3>1. failure = None
        BY <2>4 DEF Healthy
      <3>2. \A code : Latch(code) => failure' = told' /\ closed'
        BY DEF Latch
      <3>3. Refuse => Last
        BY <3>1, <3>2 DEF Refuse
      <3>4. \A a : Stop(a) => Last
        BY <3>1, <3>2 DEF Stop
      <3>5. \A u, a : Summarize(u, a) => Last
        BY <3>1, <3>2 DEF Summarize
      <3>6. told' = None => Last
        BY <3>1
      <3> HIDE DEF Last
      <3>7. \A v, accepted : Persist(v, accepted) => Last
        BY <3>3, <3>4, <3>5, <3>6 DEF Persist
      <3>8. ASSUME Idle PROVE FALSE
        BY <2>4, <3>8 DEF Idle
      <3>9. \A u : Record(u) => Last
        BY <3>7, <3>8 DEF Record
      <3>10. \A admitted, r, seen : Observe(admitted, r, seen) => Last
        BY <3>3, <3>4, <3>6, <3>8 DEF Observe
      <3> QED
        BY <2>4, <3>9, <3>10 DEF Next, RecordModelUsage, RecordLoopLimits
    <2>5. CASE ~Healthy /\ ~Idle /\ ~Close
      BY <2>5 DEF Next, Record, RecordModelUsage, RecordLoopLimits, Observe
    <2> QED
      BY <2>2, <2>3, <2>4, <2>5
  <1> QED
    BY <1>1, TranscriptInvariant, PTL DEF Spec, FirstFailureIsTheLast
=============================================================================
