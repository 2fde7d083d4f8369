------------------------- MODULE MCOpenAIOperation -------------------------
(***************************************************************************)
(* Two cancellations, so that one may be told the other won; one forced    *)
(* cleanup and one waiter.                                                 *)
(***************************************************************************)
EXTENDS OpenAIOperation, TLC

CancelSymmetry == Permutations(Cancellers)
=============================================================================
