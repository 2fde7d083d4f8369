--------------------------- MODULE SessionContract ---------------------------
(***************************************************************************)
(* What a session promises whoever watches its events, whichever class     *)
(* implements it.  The lifecycle reducer permits more: text while a        *)
(* cancellation is pending, a completion or a failure after it, a failure  *)
(* after assistant.completed.  A session does none of that:                *)
(*                                                                         *)
(*   - text grows by whole fragments, and only while nothing else was      *)
(*     decided;                                                            *)
(*   - assistant.completed commits the session to session.completed;       *)
(*   - a session whose cancellation was accepted is cancelled, or failed,  *)
(*     and shows no more text.                                             *)
(*                                                                         *)
(* A session may stop anywhere: its sink may fail, or it is torn down.     *)
(***************************************************************************)
EXTENDS Sequences

CONSTANT Fragments

VARIABLES
  status,   \* SessionState.status
  said,     \* the fragments shown so far
  sealed    \* whether assistant.completed was shown

contract == <<status, said, sealed>>

Init == status = "starting" /\ said = << >> /\ ~sealed

Start ==
  /\ status = "starting"
  /\ status' = "running"
  /\ UNCHANGED <<said, sealed>>

Say(f) ==
  /\ status = "running" /\ ~sealed
  /\ said' = Append(said, f)
  /\ UNCHANGED <<status, sealed>>

AcceptCancellation ==
  /\ status = "running" /\ ~sealed
  /\ status' = "cancelling"
  /\ UNCHANGED <<said, sealed>>

Seal ==
  /\ status = "running" /\ ~sealed
  /\ said # << >>
  /\ sealed' = TRUE
  /\ UNCHANGED <<status, said>>

Complete ==
  /\ status = "running" /\ sealed
  /\ status' = "completed"
  /\ UNCHANGED <<said, sealed>>

Fail ==
  /\ status \in {"running", "cancelling"} /\ ~sealed
  /\ status' = "failed"
  /\ UNCHANGED <<said, sealed>>

Cancel ==
  /\ status = "cancelling"
  /\ status' = "cancelled"
  /\ UNCHANGED <<said, sealed>>

Next ==
  \/ Start \/ (\E f \in Fragments : Say(f)) \/ AcceptCancellation
  \/ Seal \/ Complete \/ Fail \/ Cancel

Spec == Init /\ [][Next]_contract
=============================================================================
