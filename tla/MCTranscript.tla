---------------------------- MODULE MCTranscript ----------------------------
(***************************************************************************)
(* Deltas of three and five bytes against a text limit of four with a      *)
(* marker of two, so that a delta may fit, be cut, or find only the        *)
(* marker's room; a replay limit of five, and few enough records that the  *)
(* file fills up.                                                          *)
(***************************************************************************)
EXTENDS Transcript, TLC

CONSTANTS start, cancel, sid

MCFragments ==
  RawPieces \cup {Redacted, Omitted} \cup {Truncated(b) : b \in MarkerBytes .. TextLimit}
MCCodes == {"provider_unavailable", "tool_call_limit_exceeded",
            "provider_work_deadline_exceeded"}

(* Which command starts and which cancels is all that tells them apart.    *)
CommandSymmetry == Permutations(Commands)
=============================================================================
