--------------------------- MODULE PauseCoordinator ---------------------------
(***************************************************************************)
(* The coordinator (orchestration.py): one thread whose loop reads the     *)
(* request file, reconciles the pause lease with what it read, and then    *)
(* monitors the pause target (the actor) and the pause owner (the arena).  *)
(* The other processes run between any two of these steps.                 *)
(*                                                                         *)
(* Deadlines are choices: an action that the code takes once a deadline    *)
(* has passed may be taken at any time.                                    *)
(***************************************************************************)
EXTENDS PauseShared

CoordFrame == UNCHANGED <<req, hb, lastTok, open>>
KeepOwner == UNCHANGED <<oPid, oPc, oTok, oStop, oKids>>
KeepActor == UNCHANGED actorVars
KeepLoop == UNCHANGED <<cReq, draining, exiting, run, crashes>>

-----------------------------------------------------------------------------
(* Processes: signals, reaping, starting                                     *)

SignalActor ==
    /\ aStop' = (aStop \/ ActorLive)
    /\ UNCHANGED <<aPid, aPc, aKids, coh, busy, gate, aStep, aAck, aDet>>

SignalOwner ==
    /\ oStop' = (oStop \/ OwnerLive)
    /\ UNCHANGED <<oPid, oPc, oTok, oKids>>

(* _reap_worker_process_group collects the leader and kills what is left of  *)
(* its group; it fails when a child survives the grace period.               *)
ReapActor ==
    /\ aPc' = "none" /\ aKids' = FALSE
    /\ UNCHANGED <<aPid, aStop, coh, busy, gate, aStep, aAck, aDet>>

ReapOwner ==
    /\ oPc' = "none" /\ oKids' = FALSE
    /\ UNCHANGED <<oPid, oTok, oStop>>

(* _start: a new process, with a new pid and nothing adopted.                *)
StartActor ==
    /\ aPid < MaxActors
    /\ aPid' = aPid + 1 /\ aPc' = "live" /\ aStop' = FALSE /\ aKids' = FALSE
    /\ coh' = [c \in Cohorts |-> "run"] /\ busy' = FALSE /\ gate' = OpenGate
    /\ aStep' = "read" /\ aAck' = NoAck /\ aDet' = NoHeartbeat

StartOwner ==
    /\ oPid < MaxOwners
    /\ oPid' = oPid + 1 /\ oPc' = "idle" /\ oTok' = NoToken
    /\ oStop' = FALSE /\ oKids' = FALSE

-----------------------------------------------------------------------------
(* Acknowledgements, journal events and lease outcomes                       *)

Ack(l, state) ==
    [token |-> l.token, state |-> state, tpid |-> l.tpid, fresh |-> TRUE]

(* A journal event: counted for its token, and what it makes of the token's  *)
(* entry.                                                                    *)
NextEntry(e, event) ==
    CASE event = "released" /\ e # "refused" -> "settled"
      [] event = "ready"    /\ e = "none"    -> "ready"
      [] event = "ready"    /\ e = "ready"   -> "refused"
      [] event = "rejected" /\ e = "none"    -> "settled"
      [] event = "rejected" /\ e = "ready"   -> "refused"
      [] OTHER -> e

Journal(event, t) ==
    /\ releases' = IF event = "released" THEN [releases EXCEPT ![t] = @ + 1]
                   ELSE releases
    /\ readies' = IF event = "ready" THEN [readies EXCEPT ![t] = @ + 1]
                  ELSE readies
    /\ entry' = [entry EXCEPT ![t] = NextEntry(@, event)]

(* _pause_event and _write_pause_ack are two durable writes, in either order.*)
(* The second one is left to WriteEvent or WriteAck.                         *)
OweEvent(event, t) == owed' = [NoDebt EXCEPT !.event = event, !.token = t]
OweAck(a) == owed' = [NoDebt EXCEPT !.ack = a]
OweNothing == owed' = NoDebt

(* _record_pause_release: the release event, once per lease.                 *)
RecordRelease(l) ==
    IF l.recorded THEN UNCHANGED books ELSE Journal("released", l.token)

(* Mutant: no guard against a second readiness.                              *)
Mutant_MarkReady(l) ==
    /\ lease' = [l EXCEPT !.state = "ready"]
    /\ ack' = Ack(l, "ready") /\ OweEvent("ready", l.token)

(* _mark_pause_ready, on a lease whose target is parked or gone: the         *)
(* acknowledgement first, then the event.                                    *)
MarkReady(l) ==
    \/ /\ l.state = "ready" \/ l.release
       /\ lease' = l /\ OweNothing /\ UNCHANGED ack
    \/ /\ l.state # "ready" /\ ~l.release
       /\ lease' = [l EXCEPT !.state = "ready"]
       /\ ack' = Ack(l, "ready") /\ OweEvent("ready", l.token)

(* _fail_pause_lease                                                         *)
FailLease(l) ==
    /\ pauseFailed' = TRUE
    /\ lease' = [l EXCEPT !.failed = TRUE]
    /\ ack' = Ack(l, "failed")

(* Mutants: a heartbeat that has adopted the lease proves readiness; any      *)
(* shared phase proves the release.                                          *)
Mutant_Adopted(l) == hb.pid = l.tpid /\ hb.token = l.token /\ hb.fresh
Mutant_Shared(l) ==
    hb.pid = l.tpid /\ hb.kind = "shared" /\ hb.clear /\ hb.fresh

(* The heartbeat proves that this actor parked for this lease ...            *)
Quiescent(l) ==
    hb.pid = l.tpid /\ hb.kind = "ready" /\ hb.token = l.token /\ hb.fresh

(* ... or that it completed the release of this lease.                       *)
Resumed(l) ==
    hb.pid = l.tpid /\ hb.kind = "shared" /\ hb.last = l.token /\ hb.clear
    /\ hb.fresh

(* Mutant: the lease is not dropped when its resume is confirmed.            *)
Mutant_ConfirmKeeps(l, ts, ackNow, failed) ==
    \/ /\ ActorLive /\ Resumed(l)
       /\ lease' = l /\ tState' = "running"
       /\ ack' = ackNow /\ pauseFailed' = failed
    \/ /\ ~(ActorLive /\ Resumed(l))
       /\ lease' = l /\ tState' = ts /\ ack' = ackNow /\ pauseFailed' = failed

(* _confirm_actor_resume, with the acknowledgement and pause_failed as of    *)
(* this moment.                                                              *)
ConfirmResume(l, ts, ackNow, failed) ==
    \/ /\ ActorLive /\ Resumed(l)
       /\ lease' = NoLease /\ tState' = "running"
       /\ ack' = ackNow /\ pauseFailed' = failed
    \/ /\ ActorLive /\ ~Resumed(l) /\ "timeout" \in Faults
       /\ FailLease(l) /\ tState' = ts
    \/ /\ ~(ActorLive /\ Resumed(l))
       /\ lease' = l /\ tState' = ts /\ ack' = ackNow /\ pauseFailed' = failed

(* _finish_pause_release on a lease l whose release is requested, with the   *)
(* target in state ts.  reap says that the target process has just exited    *)
(* and is collected in this step; ackNow and failed as above.                *)
Collect(reap) == IF reap THEN ReapActor ELSE KeepActor

(* The gate of a live actor opens once the owner is known to be gone.        *)
Resumable(l, ts, reap) ==
    /\ ActorLive /\ ~reap /\ l.tpid # 0
    /\ ts \in {"running", "pause_suspended"}

MustHold(l, ts, reap) ==
    \/ l.ownerStop /\ ~l.ownerReaped
    \/ ~Resumable(l, ts, reap) /\ ~l.reaped

Outcome(l) ==
    IF draining THEN "draining" ELSE IF l.failed THEN "recovered" ELSE "released"

HoldRelease(l, ts, reap, ackNow, failed) ==
    /\ lease' = l /\ tState' = ts /\ ack' = ackNow /\ pauseFailed' = failed
    /\ Collect(reap) /\ OweNothing /\ UNCHANGED books

(* Mutant: the acknowledgement is written before the release event.          *)
Mutant_AckFirst(l, state, ackNow) ==
    /\ ack' = Ack(l, state) /\ UNCHANGED books
    /\ IF l.recorded THEN OweNothing ELSE OweEvent("released", l.token)

(* Mutant: the release event is forgotten.                                   *)
Mutant_Unrecorded(l, state, ackNow) ==
    /\ UNCHANGED books /\ ack' = ackNow /\ OweAck(Ack(l, state))

(* Every release writes the event first, then the acknowledgement.           *)
RecordThenAck(l, state, ackNow) ==
    /\ RecordRelease(l) /\ ack' = ackNow /\ OweAck(Ack(l, state))

(* The target resumes; one that drains is sent SIGTERM after the             *)
(* acknowledgement.                                                          *)
ResumeTarget(l, ackNow, failed) ==
    /\ lease' = [l EXCEPT !.suspended = FALSE, !.state = "resuming",
                          !.recorded = TRUE]
    /\ RecordThenAck(l, Outcome(l), ackNow) /\ pauseFailed' = failed
    /\ tState' = "pause_resuming" /\ KeepActor

(* These two drop the lease after the acknowledgement; here they do so with  *)
(* the event, since only the coordinator reads it.                           *)
DrainTarget(l, reap, ackNow, failed) ==
    /\ lease' = NoLease /\ tState' = "drained"
    /\ RecordThenAck(l, "draining", ackNow) /\ pauseFailed' = failed
    /\ Collect(reap)

RestartTarget(l, reap, ackNow, failed) ==
    \/ /\ StartActor /\ lease' = NoLease /\ tState' = "running"
       /\ RecordThenAck(l, Outcome(l), ackNow) /\ pauseFailed' = failed
    \/ /\ "spawn" \in Faults \/ aPid >= MaxActors
       /\ FailLease(l) /\ tState' = "exhausted"
       /\ Collect(reap) /\ OweNothing /\ UNCHANGED books

FinishRelease(l, ts, reap, ackNow, failed) ==
    \/ /\ l.state = "resuming" /\ l.reaped /\ draining
       /\ lease' = NoLease /\ tState' = "drained"
       /\ ack' = Ack(l, "draining") /\ pauseFailed' = failed
       /\ Collect(reap) /\ OweNothing /\ UNCHANGED books
    \/ /\ l.state = "resuming" /\ ~(l.reaped /\ draining)
       /\ ConfirmResume(l, ts, ackNow, failed)
       /\ Collect(reap) /\ OweNothing /\ UNCHANGED books
    \/ /\ l.state # "resuming"
       /\ \/ /\ MustHold(l, ts, reap)
             /\ HoldRelease(l, ts, reap, ackNow, failed)
          \/ /\ ~MustHold(l, ts, reap) /\ Resumable(l, ts, reap)
             /\ ResumeTarget(l, ackNow, failed)
          \/ /\ ~MustHold(l, ts, reap) /\ ~Resumable(l, ts, reap) /\ draining
             /\ DrainTarget(l, reap, ackNow, failed)
          \/ /\ ~MustHold(l, ts, reap) /\ ~Resumable(l, ts, reap) /\ ~draining
             /\ RestartTarget(l, reap, ackNow, failed)

-----------------------------------------------------------------------------
(* The end of the arena process                                              *)

(* _handle_worker_exit of the owner: collect the group and back off, or give *)
(* up (a fatal failure, an exhausted budget, children that survive).         *)
Mutant_OwnerParks == ReapOwner /\ oState' = "paused"
OwnerBacksOff == ReapOwner /\ oState' = "backoff"
OwnerGivenUp ==
    /\ oState' = "exhausted"
    /\ \/ "exhaust" \in Faults /\ ReapOwner
       \/ oKids /\ KeepOwner

(* _pause_owner_exited                                                       *)
OwnerExited(l) ==
    LET gone == [l EXCEPT !.ownerReaped = TRUE, !.ownerStop = TRUE,
                          !.release = TRUE, !.failed = TRUE]
    IN  \/ OwnerBacksOff /\ FinishRelease(gone, tState, FALSE, ack, pauseFailed)
        \/ OwnerGivenUp /\ FinishRelease(gone, tState, FALSE,
                                         Ack(gone, "failed"), TRUE)

(* Mutant: the target comes back without waiting for the owner.               *)
Mutant_RecoverAtOnce(l) ==
    /\ FinishRelease([l EXCEPT !.release = TRUE, !.ownerStop = TRUE,
                               !.failed = TRUE, !.ownerReaped = TRUE],
                     tState, FALSE, ack, pauseFailed)
    /\ KeepOwner /\ UNCHANGED oState

(* _begin_pause_owner_recovery: the owner is stopped first; the target comes *)
(* back only when the owner has been collected.                              *)
RecoverOwner(l) ==
    LET stopping == [l EXCEPT !.release = TRUE, !.ownerStop = TRUE,
                              !.failed = TRUE]
        gone == [stopping EXCEPT !.ownerReaped = TRUE]
    IN  \/ /\ l.ownerStop
           /\ lease' = l
           /\ UNCHANGED <<ack, owed, tState, oState, pauseFailed, books>>
           /\ KeepOwner /\ KeepActor
        \/ /\ ~l.ownerStop /\ OwnerLive /\ oPid = l.pid
           /\ lease' = stopping /\ oState' = "lease_terminating"
           /\ SignalOwner /\ KeepActor
           /\ UNCHANGED <<ack, owed, tState, pauseFailed, books>>
        \/ /\ ~l.ownerStop /\ oPc = "exited" /\ oPid = l.pid
           /\ OwnerExited(stopping)
        \/ /\ ~l.ownerStop /\ (oPc = "none" \/ oPid # l.pid)
           /\ FinishRelease(gone, tState, FALSE, ack, pauseFailed)
           /\ KeepOwner /\ UNCHANGED oState

-----------------------------------------------------------------------------
(* _reconcile_pause_lease                                                    *)

CoordRead ==
    /\ cPc = "read" /\ cPc' = "reconcile" /\ owed = NoDebt
    /\ cReq' = req
    /\ UNCHANGED <<files, actorVars, ownerVars, lease, tState, oState,
                   draining, pauseFailed, exiting, owed, books, budgets>>

(* The request file as it was read, as a lease.                              *)
Parsed == [NoLease EXCEPT !.token = cReq.token, !.pid = cReq.pid,
                          !.state = "requested"]
OwnerMatches == OwnerLive /\ oPid = cReq.pid
Settled == ack.token = cReq.token /\ ack.state \in ReleaseStates
Withdrawn == cReq.state \in {"released", "cancelled"}
Admissible == cReq.state = "requested" \/ (Withdrawn /\ ~Settled)

Reconcile == /\ cPc = "reconcile" /\ cPc' = "target" /\ owed = NoDebt
             /\ KeepLoop /\ CoordFrame
KeepWorkers == KeepActor /\ KeepOwner /\ UNCHANGED <<tState, oState>>

NothingAsked ==
    /\ Reconcile /\ ~Held /\ ~Admissible
    /\ KeepWorkers /\ UNCHANGED <<ack, owed, lease, pauseFailed, books>>

RejectRequest ==
    /\ Reconcile /\ ~Held /\ Admissible /\ ~(cReq.fresh /\ OwnerMatches)
    /\ Journal("rejected", cReq.token) /\ OweAck(Ack(Parsed, "failed"))
    /\ KeepWorkers /\ UNCHANGED <<ack, lease, pauseFailed>>

(* A cancellation that won the race with the first poll.                     *)
SettleUnadmitted ==
    /\ Reconcile /\ ~Held /\ Admissible /\ Withdrawn
    /\ cReq.fresh /\ OwnerMatches
    /\ RecordThenAck(Parsed, "released", ack)
    /\ KeepWorkers /\ UNCHANGED <<lease, pauseFailed>>

Admit == Reconcile /\ ~Held /\ cReq.state = "requested"
         /\ cReq.fresh /\ OwnerMatches

(* _begin_actor_suspend: ask a live actor to park.                           *)
AdmitSuspend ==
    /\ Admit /\ ActorLive /\ Strategy = "suspend"
    /\ lease' = [Parsed EXCEPT !.state = "waiting", !.tpid = aPid]
    /\ ack' = Ack(lease', "waiting")
    /\ KeepWorkers /\ UNCHANGED <<owed, pauseFailed, books>>

(* Or terminate it.                                                          *)
AdmitTerminate ==
    /\ Admit /\ ActorLive /\ Strategy = "terminate"
    /\ lease' = [Parsed EXCEPT !.state = "stopping"]
    /\ tState' = "pause_terminating" /\ SignalActor
    /\ KeepOwner /\ UNCHANGED <<ack, owed, oState, pauseFailed, books>>

(* No actor is running: collect what is left of it and grant at once.        *)
AdmitAbsent ==
    /\ Admit /\ ~ActorLive
    /\ \/ /\ tState' = "paused" /\ ReapActor
          /\ MarkReady([Parsed EXCEPT !.reaped = TRUE])
          /\ UNCHANGED pauseFailed
       \/ /\ aKids /\ FailLease(Parsed)
          /\ KeepActor /\ UNCHANGED <<owed, tState>>
    /\ KeepOwner /\ UNCHANGED <<oState, books>>

ReconcileResuming ==
    /\ Reconcile /\ lease.state = "resuming"
    /\ ConfirmResume(lease, tState, ack, pauseFailed)
    /\ KeepActor /\ KeepOwner /\ UNCHANGED <<owed, oState, books>>

InProgress == Reconcile /\ Held /\ lease.state # "resuming"
Foreign == cReq.token # lease.token

(* The request is gone or another's, its heartbeat is stale, or its owner.   *)
ReconcileLost ==
    /\ InProgress
    /\ Foreign \/ (~Withdrawn /\ ~(cReq.fresh /\ OwnerLive /\ oPid = lease.pid))
    /\ RecoverOwner(lease)

ReconcileRelease ==
    /\ InProgress /\ ~Foreign /\ Withdrawn
    /\ LET l == [lease EXCEPT !.release = TRUE,
                   !.failed = IF lease.release THEN @
                              ELSE cReq.state = "cancelled"]
       IN  FinishRelease(l, tState, FALSE, ack, pauseFailed)
    /\ KeepOwner /\ UNCHANGED oState

Healthy == /\ InProgress /\ ~Foreign /\ ~Withdrawn
           /\ cReq.fresh /\ OwnerLive /\ oPid = lease.pid
Observed == lease.tpid # 0 /\ lease.state \in {"waiting", "ready"}
            /\ tState \in {"running", "pause_suspended"} /\ ActorLive

(* _observe_suspended_target                                                 *)
ReconcileObserve ==
    /\ Healthy /\ Observed
    /\ \/ /\ Quiescent(lease)
          /\ tState' = "pause_suspended"
          /\ MarkReady([lease EXCEPT !.suspended = TRUE])
          /\ KeepActor /\ KeepOwner /\ UNCHANGED <<oState, pauseFailed, books>>
       \/ /\ ~Quiescent(lease) /\ lease.state = "ready"
          /\ RecoverOwner(lease)
       \/ /\ ~Quiescent(lease) /\ lease.state = "waiting"
          /\ \/ UNCHANGED <<lease, ack, pauseFailed>>
             \/ "timeout" \in Faults /\ FailLease(lease)
          /\ KeepWorkers /\ UNCHANGED <<owed, books>>

ReconcileWait ==
    /\ Healthy /\ ~Observed
    /\ KeepWorkers /\ UNCHANGED <<lease, ack, owed, pauseFailed, books>>

CoordReconcile ==
    \/ NothingAsked \/ RejectRequest \/ SettleUnadmitted
    \/ AdmitSuspend \/ AdmitTerminate \/ AdmitAbsent
    \/ ReconcileResuming \/ ReconcileLost \/ ReconcileRelease
    \/ ReconcileObserve \/ ReconcileWait

-----------------------------------------------------------------------------
(* The second write of a step                                                *)

KeepThread == UNCHANGED <<cPc, pauseFailed, lease, oState>> /\ KeepLoop /\ CoordFrame

WriteEvent ==
    /\ owed.event # "none" /\ Journal(owed.event, owed.token) /\ OweNothing
    /\ KeepWorkers /\ UNCHANGED ack /\ KeepThread

WriteAck ==
    /\ owed.ack # NoAck /\ ack' = owed.ack /\ OweNothing
    /\ IF lease.state = "resuming" /\ draining
         THEN tState' = "draining" /\ SignalActor
         ELSE UNCHANGED tState /\ KeepActor
    /\ KeepOwner /\ UNCHANGED books /\ KeepThread
=============================================================================
