-------------------------- MODULE MCLifecycleReplay --------------------------
(***************************************************************************)
(* What Python and TypeScript each write by hand: the reducer and the line *)
(* reader.  The two pairs share nothing, so a behaviour exercises one of   *)
(* them.  Two commands (a task and its cancellation, or a stranger's), two *)
(* sessions, two fragments, one failure code; lines of at most two bytes.  *)
(***************************************************************************)
EXTENDS LifecycleReplay, LineReaders, TLC

TwinsInit == Init /\ ReadersInit
TwinsNext ==
  \/ received = << >> /\ ~ended /\ Next /\ UNCHANGED readers
  \/ python = InitialSessionState /\ ReadersNext /\ UNCHANGED vars
TwinsSpec == TwinsInit /\ [][TwinsNext]_<<vars, readers>>

Identities == Permutations(Commands) \cup Permutations(Sessions)
                \cup Permutations(Fragments)
=============================================================================
