------------------------------ MODULE MCGpuPause ------------------------------
(***************************************************************************)
(* GpuPause for TLC.  Cohorts are interchangeable: every definition treats *)
(* them alike, so states that differ by a permutation are explored once    *)
(* (the liveness run does not use the symmetry).                           *)
(***************************************************************************)
EXTENDS GpuPause, TLC

CohortSymmetry == Permutations(Cohorts)
=============================================================================
