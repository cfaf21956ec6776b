------------------------------- MODULE LanPlane -------------------------------
(***************************************************************************)
(* The two halves of the path manager, for one run: a behaviour is one of  *)
(* the agreement on a path or of the gameplay packets, while the other     *)
(* half keeps its first state.  Packets see the paths only through usable, *)
(* so the state spaces add up.                                             *)
(***************************************************************************)
EXTENDS LanPath, LanData

VARIABLE half

PlaneInit ==
    /\ half \in {"path", "data"}
    /\ PathInit /\ DataInit
    /\ half = "path" => way = "send"
    /\ half = "data" => late = MaxLate

PlaneNext ==
    /\ UNCHANGED half
    /\ \/ half = "path" /\ PathNext /\ UNCHANGED dataVars
       \/ half = "data" /\ DataNext /\ UNCHANGED pathVars

PlaneSpec ==
    /\ PlaneInit /\ [][PlaneNext]_<<half, pathVars, dataVars>>
    /\ WF_pathVars(half = "path" /\ Arrive)
    /\ WF_pathVars(half = "path" /\ Connect)
    /\ SF_pathVars(half = "path" /\ maintain_paths(1))
    /\ SF_pathVars(half = "path" /\ maintain_paths(2))
================================================================================
