------------------------------ MODULE GpuLedger ------------------------------
(***************************************************************************)
(* What the pause protocol promises the accounting of arena measurements   *)
(* (measurement_scheduling.py): GPU leases, identified by tokens, are      *)
(* granted one at a time, the arena measures only under a granted lease,   *)
(* and a lease is settled only when the arena has left it and the journal  *)
(* has its beginning.                                                      *)
(*                                                                         *)
(* A grant is acknowledged to the arena before it is journalled; in        *)
(* between the coordinator is pledged to write it.  Only the loss of the   *)
(* machine, which ends the measurement too, releases it from the pledge.   *)
(***************************************************************************)
EXTENDS Naturals

CONSTANT Tokens   \* lease tokens; 0 is no token

VARIABLES
    asked,      \* the tokens registered so far
    entry,      \* what the journal says of each token
    pledge,     \* the token granted but not yet in the journal, 0 for none
    user        \* the token the arena measures under, 0 for none

vars == <<asked, entry, pledge, user>>

Outstanding == {t \in Tokens : entry[t] = "ready" \/ t = pledge}

Init ==
    /\ asked = {} /\ entry = [t \in Tokens |-> "none"]
    /\ pledge = 0 /\ user = 0

Register(t) ==
    /\ t \notin asked /\ Outstanding = {}
    /\ asked' = asked \cup {t}
    /\ UNCHANGED <<entry, pledge, user>>

Grant(t) ==
    /\ t \in asked /\ entry[t] = "none" /\ Outstanding = {} /\ user = 0
    /\ pledge' = t
    /\ UNCHANGED <<asked, entry, user>>

Record ==
    /\ pledge # 0
    /\ entry' = [entry EXCEPT ![pledge] = "ready"] /\ pledge' = 0
    /\ UNCHANGED <<asked, user>>

Enter(t) ==
    /\ user = 0 /\ t \in Outstanding
    /\ user' = t
    /\ UNCHANGED <<asked, entry, pledge>>

Leave ==
    /\ user' = 0
    /\ UNCHANGED <<asked, entry, pledge>>

Settle(t) ==
    /\ t \in asked /\ t # user /\ t # pledge
    /\ entry' = [entry EXCEPT ![t] = "settled"]
    /\ UNCHANGED <<asked, pledge, user>>

PowerLoss ==
    /\ pledge' = 0 /\ user' = 0
    /\ UNCHANGED <<asked, entry>>

Next ==
    \/ \E t \in Tokens : Register(t) \/ Grant(t) \/ Enter(t) \/ Settle(t)
    \/ Record \/ Leave \/ PowerLoss
Spec == Init /\ [][Next]_vars

TypeOK ==
    /\ asked \subseteq Tokens
    /\ user \in Tokens \cup {0} /\ pledge \in Tokens \cup {0}
    /\ entry \in [Tokens -> {"none", "ready", "settled"}]

(* At most one lease is outstanding, and the arena measures under it.        *)
OneLease ==
    /\ \A t, u \in Outstanding : t = u
    /\ user # 0 => user \in Outstanding
=============================================================================
