------------------------------ MODULE RequestPool ------------------------------
(***************************************************************************)
(* What the inference broker promises its producers: a bounded number of   *)
(* accepted requests is open at a time, and each of them is settled, once. *)
(***************************************************************************)
EXTENDS Naturals, FiniteSets

CONSTANTS Requests, Capacity

VARIABLE state

Verdicts == {"result", "error", "cancelled"}
OpenRequests == {r \in Requests : state[r] = "open"}

PoolInit == state = [r \in Requests |-> "new"]

Accept(r) ==
    /\ state[r] = "new" /\ Cardinality(OpenRequests) < Capacity
    /\ state' = [state EXCEPT ![r] = "open"]

(* A request without rows needs no inference and is answered on the spot.    *)
AnswerAtOnce(r) ==
    /\ state[r] = "new"
    /\ state' = [state EXCEPT ![r] = "result"]

Settle(r) ==
    /\ state[r] = "open"
    /\ \E v \in Verdicts : state' = [state EXCEPT ![r] = v]

(* A broker that closes cancels all that waits in its queue in one step.     *)
CancelMany ==
    \E dropped \in SUBSET OpenRequests :
        state' = [r \in Requests |-> IF r \in dropped THEN "cancelled" ELSE state[r]]

PoolNext == CancelMany \/ \E r \in Requests : Accept(r) \/ AnswerAtOnce(r) \/ Settle(r)

(* Safety alone, which is what the proofs establish; and with the promise    *)
(* that whatever is open gets settled: each request is made once, so that    *)
(* again and again there comes a moment when none is open.                   *)
PoolSafe == PoolInit /\ [][PoolNext]_state
PoolSpec == PoolSafe /\ []<>(OpenRequests = {})
=============================================================================
