--------------------------- MODULE MCMockSessionSeen ---------------------------
(* The instance of MCMockSession, with what its events have shown. *)
EXTENDS MCMockSession, MockSessionSeen
================================================================================
