-------------------------- MODULE MCSuperuserGuard --------------------------
(* Instance of SuperuserGuard for TLC.  No symmetry: the run checks liveness. *)
EXTENDS SuperuserGuard
=============================================================================
