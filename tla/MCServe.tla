-------------------------------- MODULE MCServe --------------------------------
(***************************************************************************)
(* The server for TLC.  A behaviour is about the manager alone, whose      *)
(* calls and close come at any moment, or about the requests, which decide *)
(* when they come, without a change of the pointer file.                   *)
(***************************************************************************)
EXTENDS Serve

CONSTANT Spare      \* a request that only the second kind makes

VARIABLE part
allVars == <<vars, part>>

(* For the requests, one manifest is like another.                           *)
MCInit ==
    /\ part \in {"manager", "requests"} /\ Init
    /\ part = "requests" => Pointer \in {CHOOSE x \in Contents : TRUE} \cup Unusable

Play ==
    \/ part = "manager" /\ ModelsNext /\ mpc'[Spare] = "none" /\ UNCHANGED avars
    \/ part = "requests" /\ Next /\ UNCHANGED published

MCSpec == MCInit /\ [][Play /\ UNCHANGED part]_allVars /\ Fairness
=============================================================================
