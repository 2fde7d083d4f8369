------------------------- MODULE MCProviderSession -------------------------
(***************************************************************************)
(* Small instances of ProviderSession for TLC: a fragment of one byte      *)
(* against a budget of one or two, up to two competing cancellations, one  *)
(* teardown request, one cancellation of the task of run().                *)
(***************************************************************************)
EXTENDS ProviderSession, TLC

CONSTANTS start, c1, c2, sid, f1

TwoCancels == {start, c1, c2}
OneCancel == {start, c1}
NoCancel == {start}
OneFragment == {f1}
OneByte == f1 :> 1
ReportedCodes ==
  {"provider_invalid_response", "tool_unavailable", "provider_unavailable",
   "model_turn_limit_exceeded", "provider_work_deadline_exceeded",
   "assistant_output_limit_exceeded", "tool_call_limit_exceeded"}

(* The tracker every production session has; one whose last model turn is  *)
(* spent; one whose last tool call is.                                     *)
AtTheTurnLimit == [FreshTracker EXCEPT !.turns = MaxModelTurns]
AtTheToolLimit == [FreshTracker EXCEPT !.turns = 1, !.tools = MaxToolCalls]
FreshSeed == {FreshTracker}
FreshOrTurnLimit == {FreshTracker, AtTheTurnLimit}
EverySeed == {FreshTracker, AtTheTurnLimit, AtTheToolLimit}

(* Two cancellations are interchangeable. *)
CancelSymmetry == Permutations({c1, c2})
=============================================================================
