------------------------ MODULE MCRuntimeSupervisor ------------------------
(***************************************************************************)
(* The supervisor's state is finite: its whole state space is searched.    *)
(***************************************************************************)
EXTENDS RuntimeSupervisor
=============================================================================
