----------------------------- MODULE LineReaders -----------------------------
(***************************************************************************)
(* The two readers that cut the pipe between the processes into lines:     *)
(* _BoundedLineReader (protocol/streams.py), which works by segments of a  *)
(* chunk, and NdjsonLineReader (protocol-stream.ts), which works byte by   *)
(* byte.  A line is a sequence of bytes of the kinds the readers tell      *)
(* apart; "hi" and "lo" are the halves of one character.                   *)
(***************************************************************************)
EXTENDS Naturals, Sequences, SequencesExt

CONSTANTS MaxLineBytes, MaxStream, MaxChunk   \* the line limit; two bounds
ASSUME LineReadersAssumption ==
  MaxLineBytes \in Nat \ {0} /\ MaxStream \in Nat /\ MaxChunk \in Nat

VARIABLES
  received,    \* every byte of the pipe so far
  ended,       \* the pipe was closed
  pyReader, tsReader
readers == <<received, ended, pyReader, tsReader>>

Bytes == {"a", "hi", "lo", "CR", "LF"}
Chunks == UNION {[1 .. n -> Bytes] : n \in 1 .. MaxChunk}
NewReader == [buffer |-> << >>, discarding |-> FALSE, results |-> << >>]
Reports(r, result) == [r EXCEPT !.buffer = << >>, !.results = Append(@, result)]

IsUtf8(line) ==
  \A i \in DOMAIN line :
    /\ line[i] = "hi" => i < Len(line) /\ line[i + 1] = "lo"
    /\ line[i] = "lo" => i > 1 /\ line[i - 1] = "hi"

(* _decode_json_object up to the JSON, and the end of #completeLine. *)
Decoded(line) ==
  CASE line = << >> \/ Contains(line, "CR") -> "invalid_framing"
    [] line # << >> /\ ~Contains(line, "CR") /\ ~IsUtf8(line) -> "invalid_utf8"
    [] OTHER -> line

(* One turn of the loop in feed: what is left of the chunk, up to the next *)
(* line feed or to the end.                                                *)
FeedSegment(t) ==
  LET newline == SelectInSeq(t.rest, LAMBDA b : b = "LF")
      ends == newline # 0
      line == t.reader.buffer
                \o SubSeq(t.rest, 1, IF ends THEN newline - 1 ELSE Len(t.rest))
  IN [rest |-> IF ends THEN SubSeq(t.rest, newline + 1, Len(t.rest)) ELSE << >>,
      reader |->
        CASE t.reader.discarding -> [t.reader EXCEPT !.discarding = ~ends]
          [] ~t.reader.discarding /\ Len(line) > MaxLineBytes ->
               [Reports(t.reader, "line_too_long") EXCEPT !.discarding = ~ends]
          [] OTHER -> IF ends THEN Reports(t.reader, Decoded(line))
                      ELSE [t.reader EXCEPT !.buffer = line]]

Feed(r, chunk) ==
  LET Turn[n \in 0 .. Len(chunk)] ==
        IF n = 0 THEN [rest |-> chunk, reader |-> r]
        ELSE IF Turn[n - 1].rest = << >> THEN Turn[n - 1]
        ELSE FeedSegment(Turn[n - 1])
  IN Turn[Len(chunk)].reader

TsCompleteLine(r) ==
  IF r.discarding THEN [r EXCEPT !.discarding = FALSE] ELSE Reports(r, Decoded(r.buffer))

(* slip: the rest of a line that was too long is read as a line *)
TsTakesAnyByte(r, byte) ==
  CASE byte = "LF" -> TsCompleteLine(r)
    [] byte # "LF" /\ ~r.discarding /\ Len(r.buffer) = MaxLineBytes ->
         Reports(r, "line_too_long")
    [] OTHER -> [r EXCEPT !.buffer = Append(@, byte)]

TsTakes(r, byte) ==
  CASE byte = "LF" -> TsCompleteLine(r)
    [] byte # "LF" /\ r.discarding -> r
    [] byte # "LF" /\ ~r.discarding /\ Len(r.buffer) = MaxLineBytes ->
         [Reports(r, "line_too_long") EXCEPT !.discarding = TRUE]
    [] OTHER -> [r EXCEPT !.buffer = Append(@, byte)]

Push(r, chunk) == FoldLeft(TsTakes, r, chunk)

(* finish() is the same in both. *)
Finish(r) ==
  IF ~r.discarding /\ r.buffer # << >> THEN Reports(r, "invalid_framing")
  ELSE [r EXCEPT !.discarding = FALSE]

-----------------------------------------------------------------------------
ReadersInit ==
  /\ received = << >> /\ ended = FALSE
  /\ pyReader = NewReader /\ tsReader = NewReader

ChunkArrives(chunk) ==
  /\ ~ended /\ Len(received) + Len(chunk) <= MaxStream
  /\ received' = received \o chunk
  /\ pyReader' = Feed(pyReader, chunk)
  /\ tsReader' = Push(tsReader, chunk)
  /\ UNCHANGED ended

PipeEnds ==
  /\ ~ended /\ ended' = TRUE
  /\ pyReader' = Finish(pyReader)
  /\ tsReader' = Finish(tsReader)
  /\ UNCHANGED received

ReadersNext == PipeEnds \/ \E chunk \in Chunks : ChunkArrives(chunk)
ReadersSpec == ReadersInit /\ [][ReadersNext]_readers

-----------------------------------------------------------------------------
(* What a stream means, whatever the chunks it came in: its lines between  *)
(* line feeds, each read whole or refused whole.                           *)

LineFeeds(s) == {0} \cup {i \in DOMAIN s : s[i] = "LF"}
LineStart(s, i) ==
  CHOOSE j \in LineFeeds(s) : j < i /\ \A k \in LineFeeds(s) : k < i => k <= j
LineUpTo(s, i) == SubSeq(s, LineStart(s, i) + 1, i - 1)
Meaning(line) == IF Len(line) > MaxLineBytes THEN "line_too_long" ELSE Decoded(line)
Lines(s) ==
  FlattenSeq([i \in DOMAIN s |-> IF s[i] = "LF" THEN <<Meaning(LineUpTo(s, i))>>
                                  ELSE << >>])
Rest(s) == LineUpTo(s, Len(s) + 1)

Expected ==
  Lines(received)
    \o IF Len(Rest(received)) > MaxLineBytes THEN <<"line_too_long">>
       ELSE IF ended /\ Rest(received) # << >> THEN <<"invalid_framing">> ELSE << >>

(* streams.py:53-122, protocol-stream.ts:70-151: both readers report what  *)
(* the stream means at every chunk boundary - a line that is too long is   *)
(* dropped whole and told once, the next one read intact - and neither     *)
(* keeps more than one line's worth of bytes.                              *)
ReadersAgree ==
  \A r \in {pyReader, tsReader} :
    r.results = Expected /\ Len(r.buffer) <= MaxLineBytes
=============================================================================
