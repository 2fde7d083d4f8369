---------------------------- MODULE MockSessionSeen ----------------------------
(***************************************************************************)
(* MockSession as the command loop sees it.  Its reducer can lag the wire  *)
(* for good (a write may outlive the cancelled task), so what its events   *)
(* have shown is added as a history variable.                              *)
(***************************************************************************)
EXTENDS MockSession

VARIABLE shown   \* the status the events on stdout tell, "nothing" before any

(* What the event that run() writes at a place tells of the session. *)
TellsAt(place) ==
  CASE place = "completing" -> "completed"
    [] place = "cancel_writing" -> "cancelled"
    [] OTHER -> "running"

SeenInit == Init /\ shown = "nothing"
SeenNext ==
  /\ Next
  /\ shown' = IF sequence' = sequence THEN shown ELSE TellsAt(run)
SeenSpec == SeenInit /\ [][SeenNext]_<<vars, shown>>
SeenFairSpec == SeenSpec /\ Fairness

View == INSTANCE SessionView
Seen ==
  View!Sight(shown, outcome,
             IF shown \in View!Terminals THEN "done" ELSE "no",
             CASE run \in {"returned", "cancelled", "failed"} -> run
               [] run = "raised" -> "failed"
               [] OTHER -> "running",
             "none")

(* KeepsView: a mock starts unseen, and all it does is what RuntimeLoop's  *)
(* sessions may do: its one outcome is granted or selected before it is    *)
(* shown, and its run() ends only as that module lets it.  A cancelled run *)
(* meets its interrupt in the step that cancels it (RunTaskCancelled).     *)
KeepsView ==
  Seen = View!Born /\ [][View!InAFewMoves("mock", Seen, Seen')]_Seen
================================================================================
