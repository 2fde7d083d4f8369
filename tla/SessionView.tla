------------------------------ MODULE SessionView ------------------------------
(***************************************************************************)
(* One session as the command loop of runtime.py sees it, whichever class  *)
(* it has (kind).  A view is a record with at least these fields:          *)
(*   shown        its status as its events on stdout tell it               *)
(*   selected     the outcome it is committed to, or "none"                *)
(*   settled      that outcome's finalization: "no", "done" or "raised"    *)
(*   task         of run(): "running"; "failing", an exception being on    *)
(*                its way out; "returned", "failed" or "cancelled"         *)
(*   interrupt    "pending" once the task was cancelled and until it       *)
(*                meets it, else "none"                                    *)
(* A move is the set of the views it leads to, empty when it cannot be     *)
(* made.  RuntimeLoop's sessions make these moves; MockSession and         *)
(* ProviderSession make no others.                                         *)
(***************************************************************************)

Terminals == {"completed", "cancelled", "failed"}
When(condition, views) == {w \in views : condition}

(* The finalizer of a provider session goes on while its run() fails, and  *)
(* outlives one that was cancelled while it failed.                        *)
Working(kind, v) ==
  v.task = "running" \/ (kind = "provider" /\ v.task \in {"failing", "cancelled"})
Unsettled(kind, v) == Working(kind, v) /\ v.settled = "no"

Announces(v) ==
  When(v.task = "running" /\ v.shown = "nothing", {[v EXCEPT !.shown = "running"]})

(* By itself it selects the end of its tape or of the provider's turn, a   *)
(* failure, or a teardown once run() is on its way out.                    *)
SelectsItself(kind, v) ==
  LET Of(outcome) == {[v EXCEPT !.selected = outcome]}
  IN When(Working(kind, v) /\ v.selected = "none",
       When(v.task = "running" /\ v.shown = "running", Of("completed"))
         \cup When(kind = "provider", Of("failed"))
         \cup When(kind = "provider" /\ (v.task = "failing" \/ v.interrupt = "pending"),
                   Of("teardown")))

ShowsTerminal(kind, v) ==
  When(Unsettled(kind, v) /\ v.shown = "running" /\ v.selected \in Terminals,
       {[v EXCEPT !.shown = v.selected, !.settled = "done"]})

(* A finalization with nothing to show: of a teardown, or of any outcome   *)
(* when the start could not be written.                                    *)
SettlesSilently(v) ==
  When(/\ Unsettled("provider", v) /\ v.selected # "none"
       /\ v.selected = "teardown" \/ (v.task # "running" /\ v.shown = "nothing"),
       {[v EXCEPT !.settled = "done"]})

FinalizationRaises(v) ==
  When(Unsettled("provider", v) /\ v.selected # "none", {[v EXCEPT !.settled = "raised"]})

Returns(v) ==
  When(v.task = "running" /\ v.settled = "done" /\ v.interrupt = "none",
       {[v EXCEPT !.task = "returned"]})

(* A write of run() raises; a provider session then joins its finalizer,   *)
(* and fails with it when that one raised.                                 *)
Stumbles(kind, v) ==
  When(v.task = "running" /\ (kind = "provider" \/ v.shown \notin Terminals),
       {[v EXCEPT !.task = "failing"]})

Fails(kind, v) ==
  When(IF kind = "mock" THEN v.task = "failing"
       ELSE \/ v.task = "failing" /\ v.settled # "no"
            \/ v.task = "running" /\ v.settled = "raised",
       {[v EXCEPT !.task = "failed", !.interrupt = "none"]})

(* A cancelled mock stops wherever it waits, though a write in progress    *)
(* finishes; a provider session tears itself down first unless it is       *)
(* failing, or has swallowed the cancellation while it reaped its read.    *)
ObeysInterrupt(kind, v) ==
  When(/\ v.interrupt = "pending"
       /\ \/ v.task = "running" /\ (kind = "mock" \/ v.settled # "no")
          \/ v.task = "failing" /\ kind = "provider" /\ v.selected # "none",
       {[v EXCEPT !.task = "cancelled", !.interrupt = "none"]})

SwallowsInterrupt(v) ==
  When(v.task = "running" /\ v.interrupt = "pending", {[v EXCEPT !.interrupt = "none"]})

(* What others do to it: a request is granted unless another outcome won,  *)
(* a mock's even once its task is over; the task is cancelled.             *)
Granted(kind, v, outcome) ==
  When(v.selected = "none" /\ (kind = "mock" \/ Working(kind, v)),
       {[v EXCEPT !.selected = outcome]})

Interrupts(v) ==
  When(v.task \in {"running", "failing"}, {[v EXCEPT !.interrupt = "pending"]})

-----------------------------------------------------------------------------
Sight(shown, selected, settled, task, interrupt) ==
  [shown |-> shown, selected |-> selected, settled |-> settled, task |-> task,
   interrupt |-> interrupt]
Born == Sight("nothing", "none", "no", "running", "none")

Moves(kind, v) ==
  Announces(v) \cup SelectsItself(kind, v) \cup ShowsTerminal(kind, v)
    \cup Returns(v) \cup Stumbles(kind, v) \cup Fails(kind, v)
    \cup ObeysInterrupt(kind, v) \cup Interrupts(v) \cup Granted(kind, v, "cancelled")
    \cup When(kind = "provider",
           SettlesSilently(v) \cup FinalizationRaises(v) \cup SwallowsInterrupt(v)
             \cup Granted(kind, v, "teardown"))

(* What a session does between two suspensions is up to three moves.       *)
InAFewMoves(kind, v, w) ==
  \/ w = v \/ w \in Moves(kind, v)
  \/ \E u \in Moves(kind, v) :
       w \in Moves(kind, u) \/ \E x \in Moves(kind, u) : w \in Moves(kind, x)
=============================================================================
