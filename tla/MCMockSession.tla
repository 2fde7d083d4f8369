---------------------------- MODULE MCMockSession ----------------------------
(* MockSession with a tape of three deltas, the length of the code's, and  *)
(* two competing cancellations.                                            *)
EXTENDS MockSession

CONSTANTS start, c1, c2, sid, f1, f2, f3

MCCommands == {start, c1, c2}
MCTape == <<f1, f2, f3>>
=============================================================================
