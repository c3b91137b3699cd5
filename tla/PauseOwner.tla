------------------------------ MODULE PauseOwner ------------------------------
(***************************************************************************)
(* The arena process: PromotionSupervisor asking for leases one after the  *)
(* other through CoordinatorPauseLease (promotion.py).  Any lease that     *)
(* does not end well ends the process: the exception that left __enter__   *)
(* or __exit__ leaves the supervisor's loop, and so does an interruption.  *)
(***************************************************************************)
EXTENDS PauseShared

OwnerFrame == UNCHANGED <<ack, hb, actorVars, coordVars, books, budgets>>

Written(state) ==
    [token |-> oTok, pid |-> oPid, state |-> state, fresh |-> TRUE]

(* The token-matched acknowledgement that _read_ack returns.                 *)
OwnAck(states) == ack.token = oTok /\ ack.state \in states

(* A process that ends may leave children in its session that still use the  *)
(* GPU.                                                                      *)
OwnerEnds ==
    /\ oPc' = "exited"
    /\ oKids' \in (IF "arenaKids" \in Faults THEN BOOLEAN ELSE {FALSE})

(* MeasurementServiceLedger.refresh: drop a lease the journal has settled; a *)
(* journal it refuses is an error.                                           *)
Refused(o) == o.tok # NoToken /\ entry[o.tok] = "refused"
Refreshed(o) == IF o.tok # NoToken /\ entry[o.tok] = "settled" THEN NoOpen ELSE o

(* reconcile_unrequested: drop a registration whose process died before it   *)
(* published the request.                                                    *)
Reconciled(o) ==
    IF /\ o.tok # NoToken /\ entry[o.tok] = "none" /\ req.token # o.tok
       /\ ~(OwnerLive /\ oPid = o.pid)
      THEN NoOpen ELSE o

(* _gpu_pause: register_lease makes a fresh token durable in the ledger      *)
(* before anything is asked of the coordinator ...                           *)
OwnerRegister ==
    /\ oPc = "idle" /\ ~oStop /\ lastTok < MaxLeases
    /\ ~Refused(open) /\ Reconciled(Refreshed(open)) = NoOpen
    /\ lastTok' = lastTok + 1 /\ oTok' = lastTok + 1
    /\ open' = [tok |-> lastTok + 1, pid |-> oPid]
    /\ oPc' = "registered"
    /\ UNCHANGED <<req, oPid, oStop, oKids>> /\ OwnerFrame

(* ... or raises while an earlier lease is unsettled, which ends the process.*)
OwnerBlocked ==
    /\ oPc = "idle" /\ ~oStop /\ lastTok < MaxLeases
    /\ Refused(open) \/ Reconciled(Refreshed(open)) # NoOpen
    /\ OwnerEnds
    /\ UNCHANGED <<req, oPid, oTok, oStop, lastTok, open>> /\ OwnerFrame

(* __enter__ publishes the request and starts the heartbeat thread.          *)
OwnerRequest ==
    /\ oPc = "registered"
    /\ oPc' = "waitReady" /\ req' = Written("requested")
    /\ UNCHANGED <<oPid, oTok, oStop, oKids, lastTok, open>> /\ OwnerFrame

(* The heartbeat thread rewrites the request with the state of the moment.   *)
OwnerHeartbeat ==
    /\ oPc \in {"waitReady", "granted", "body"} /\ ~req.fresh
    /\ req' = Written(IF oPc = "body" THEN "active" ELSE "requested")
    /\ UNCHANGED ownerVars /\ OwnerFrame

(* _wait_until_ready returns on a token-matched ready acknowledgement ...    *)
OwnerSeesReady ==
    /\ oPc = "waitReady" /\ ~oStop /\ OwnAck({"ready"})
    /\ oPc' = "granted"
    /\ UNCHANGED <<req, oPid, oTok, oStop, oKids, lastTok, open>> /\ OwnerFrame

(* ... and only then __enter__ publishes "active" and yields to the body.    *)
OwnerActivate ==
    /\ oPc = "granted"
    /\ oPc' = "body" /\ req' = Written("active")
    /\ UNCHANGED <<oPid, oTok, oStop, oKids, lastTok, open>> /\ OwnerFrame

(* _wait_until_ready raises: shutdown, a rejecting acknowledgement or the    *)
(* deadline.  _cancel publishes "cancelled" and waits for the release.       *)
OwnerCancel ==
    /\ oPc = "waitReady"
    /\ \/ oStop
       \/ OwnAck({"failed", "stopping", "draining", "recovered"})
       \/ "timeout" \in Faults
    /\ oPc' = "waitFailed" /\ req' = Written("cancelled")
    /\ UNCHANGED <<oPid, oTok, oStop, oKids, lastTok, open>> /\ OwnerFrame

(* __exit__: the body is over (failed, when it raised), the heartbeat thread *)
(* is stopped and "released" is published.                                   *)
OwnerRelease ==
    /\ oPc = "body"
    /\ oPc' \in ({"waitRelease"}
                 \cup (IF "arena" \in Faults THEN {"waitFailed"} ELSE {}))
    /\ req' = Written("released")
    /\ UNCHANGED <<oPid, oTok, oStop, oKids, lastTok, open>> /\ OwnerFrame

(* _wait_until_released returns, the ledger is refreshed, and after a good   *)
(* lease the supervisor goes on.                                             *)
OwnerReleased ==
    /\ oPc = "waitRelease" /\ ~Refused(open)
    /\ oStop \/ OwnAck({"released", "recovered", "draining", "stopping"})
    /\ oPc' = "idle" /\ open' = Refreshed(open)
    /\ UNCHANGED <<req, oPid, oTok, oStop, oKids, lastTok>> /\ OwnerFrame

(* The release failed or timed out, or the lease had failed before: the      *)
(* exception ends the process, after the same refresh.                       *)
OwnerFails ==
    /\ \/ oPc = "waitRelease" /\ (OwnAck({"failed"}) \/ "timeout" \in Faults)
       \/ oPc = "waitFailed" /\ (oStop \/ "timeout" \in Faults
            \/ OwnAck({"released", "recovered", "draining", "stopping",
                       "failed"}))
    /\ OwnerEnds /\ open' = Refreshed(open)
    /\ UNCHANGED <<req, oPid, oTok, oStop, lastTok>> /\ OwnerFrame

(* Between leases a stop request ends the process.                           *)
OwnerStops ==
    /\ oPc = "idle" /\ oStop
    /\ OwnerEnds
    /\ UNCHANGED <<req, oPid, oTok, oStop, lastTok, open>> /\ OwnerFrame

(* The process dies where it stands: of the coordinator's SIGKILL ...        *)
OwnerKilled ==
    /\ OwnerLive /\ oState \in {"killing", "lease_killing"}
    /\ OwnerEnds
    /\ UNCHANGED <<req, oPid, oTok, oStop, lastTok, open>> /\ OwnerFrame

(* ... or of itself.                                                         *)
OwnerCrash ==
    /\ OwnerLive /\ crashes < MaxCrashes /\ crashes' = crashes + 1
    /\ OwnerEnds
    /\ UNCHANGED <<files, oPid, oTok, oStop, lastTok, open, actorVars,
                   coordVars, books, run>>

OwnerStep ==
    \/ OwnerRegister \/ OwnerBlocked \/ OwnerRequest \/ OwnerHeartbeat
    \/ OwnerSeesReady \/ OwnerActivate \/ OwnerCancel \/ OwnerRelease
    \/ OwnerReleased \/ OwnerFails \/ OwnerStops \/ OwnerKilled
OwnerNext == OwnerStep \/ OwnerCrash
=============================================================================
