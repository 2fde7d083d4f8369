--------------------------- MODULE MCRuntimeLoop ---------------------------
(***************************************************************************)
(* Two sessions, so that a command may name the one before.  Lines are     *)
(* unbounded in number: the loop holds at most the one read ahead.         *)
(***************************************************************************)
EXTENDS RuntimeLoop
=============================================================================
