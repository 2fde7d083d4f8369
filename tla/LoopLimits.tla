----------------------------- MODULE LoopLimits -----------------------------
(***************************************************************************)
(* The budgets of one provider-backed session (loop_limits.py): a tracker  *)
(* counts admitted model turns, accepted output bytes and observed tool    *)
(* calls, and remembers which budget was exhausted FIRST.  The elapsed     *)
(* time budget has no counter here: the session tells the tracker when it  *)
(* is spent.                                                               *)
(*                                                                         *)
(* A tracker is a record and each method a pair: the tracker it leaves and *)
(* the Boolean it returns.                                                 *)
(***************************************************************************)
EXTENDS Integers

CONSTANTS
  MaxModelTurns,    \* LoopLimits.max_model_turns
  MaxOutputBytes,   \* LoopLimits.max_assistant_output_bytes
  MaxToolCalls      \* LoopLimits.max_observed_tool_calls

(* _require_configured_limit: every configured limit is at least one. *)
ASSUME LimitsAssumption ==
  /\ MaxModelTurns \in Nat \ {0}
  /\ MaxOutputBytes \in Nat \ {0}
  /\ MaxToolCalls \in Nat \ {0}

Exhaustions == {"model_turns", "provider_work", "assistant_output", "tool_calls"}
Unexhausted == "none"

Trackers ==
  [turns : Nat, bytes : Nat, tools : Nat, exhausted : Exhaustions \cup {Unexhausted}]

FreshTracker == [turns |-> 0, bytes |-> 0, tools |-> 0, exhausted |-> Unexhausted]

(* Every method first gives way to an earlier exhaustion. *)
Spent(t) == t.exhausted # Unexhausted
Granted(t) == [tracker |-> t, granted |-> TRUE]
Refused(t) == [tracker |-> t, granted |-> FALSE]

AdmitModelTurn(t) ==
  IF Spent(t) THEN Refused(t)
  ELSE IF t.turns >= MaxModelTurns
    THEN Refused([t EXCEPT !.exhausted = "model_turns"])
  ELSE Granted([t EXCEPT !.turns = @ + 1])

(* slip: a reservation that exactly fills the budget is refused *)
ReserveAssistantOutputShort(t, bytes) ==
  IF Spent(t) THEN Refused(t)
  ELSE IF bytes >= MaxOutputBytes - t.bytes
    THEN Refused([t EXCEPT !.exhausted = "assistant_output"])
  ELSE Granted([t EXCEPT !.bytes = @ + bytes])

ReserveAssistantOutput(t, bytes) ==
  IF Spent(t) THEN Refused(t)
  ELSE IF bytes > MaxOutputBytes - t.bytes
    THEN Refused([t EXCEPT !.exhausted = "assistant_output"])
  ELSE Granted([t EXCEPT !.bytes = @ + bytes])

(* slip: the rejecting call is neither counted nor marked *)
ObserveToolCallUnmarked(t) ==
  IF Spent(t) \/ t.tools >= MaxToolCalls THEN Refused(t)
  ELSE Granted([t EXCEPT !.tools = @ + 1])

(* The rejecting call is counted too: maximum plus one is its evidence. *)
ObserveToolCall(t) ==
  LET counted == [t EXCEPT !.tools = @ + 1]
  IN IF Spent(t) THEN Refused(t)
     ELSE IF counted.tools > MaxToolCalls
       THEN Refused([counted EXCEPT !.exhausted = "tool_calls"])
     ELSE Granted(counted)

MarkProviderWorkExhausted(t) ==
  IF Spent(t) THEN t ELSE [t EXCEPT !.exhausted = "provider_work"]

-----------------------------------------------------------------------------
(* LoopLimitsObserved.__post_init__: what the evidence record refuses to   *)
(* be built from.  snapshot() raises ValueError outside this set.          *)
ValidEvidence(t) ==
  LET maximumToolCount ==
        MaxToolCalls + (IF t.exhausted = "tool_calls" THEN 1 ELSE 0)
  IN /\ t.exhausted \in Exhaustions \cup {Unexhausted}
     /\ t.turns \in 0 .. MaxModelTurns
     /\ t.bytes \in 0 .. MaxOutputBytes
     /\ t.tools \in 0 .. maximumToolCount
     /\ t.exhausted = "tool_calls" => t.tools = maximumToolCount
     /\ t.exhausted = "model_turns" => t.turns = MaxModelTurns
     /\ t.turns = 0 => /\ t.bytes = 0
                       /\ t.tools = 0
                       /\ t.exhausted \notin {"assistant_output", "tool_calls"}

(* loop_limit_failure_code: the failure a session reports for a budget. *)
LimitFailureCode(exhaustion) ==
  CASE exhaustion = "model_turns" -> "model_turn_limit_exceeded"
    [] exhaustion = "provider_work" -> "provider_work_deadline_exceeded"
    [] exhaustion = "assistant_output" -> "assistant_output_limit_exceeded"
    [] exhaustion = "tool_calls" -> "tool_call_limit_exceeded"

LimitFailureCodes == {LimitFailureCode(x) : x \in Exhaustions}
=============================================================================
