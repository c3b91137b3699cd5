------------------------------- MODULE GpuPause -------------------------------
(***************************************************************************)
(* The GPU pause protocol: the arena (PauseOwner), the actor (PauseActor)  *)
(* and the coordinator (PauseCoordinator, PauseMonitor) composed with the  *)
(* environment that stalls heartbeats, loses the request file and kills    *)
(* processes.                                                              *)
(***************************************************************************)
EXTENDS PauseOwner, PauseActor, PauseMonitor

(* A writer is stalled until its file is stale for its readers.              *)
GoStale ==
    /\ "stale" \in Faults
    /\ \/ req.fresh /\ req' = [req EXCEPT !.fresh = FALSE]
          /\ UNCHANGED <<ack, hb>>
       \/ ack.fresh /\ ack' = [ack EXCEPT !.fresh = FALSE]
          /\ UNCHANGED <<req, hb>>
       \/ hb.fresh /\ hb' = [hb EXCEPT !.fresh = FALSE]
          /\ UNCHANGED <<req, ack>>
    /\ UNCHANGED <<actorVars, ownerVars, coordVars, books, budgets>>

(* Somebody deletes the request file.                                        *)
RequestVanishes ==
    /\ "vanish" \in Faults /\ req # NoRequest /\ req' = NoRequest
    /\ UNCHANGED <<ack, hb, actorVars, ownerVars, coordVars, books, budgets>>

Init ==
    /\ req = NoRequest /\ ack = NoAck /\ hb = NoHeartbeat
    /\ aPid = 1 /\ aPc = "live" /\ aStop = FALSE /\ aKids = FALSE
    /\ coh = [c \in Cohorts |-> "run"] /\ busy = FALSE /\ gate = OpenGate
    /\ aStep = "read" /\ aAck = NoAck /\ aDet = NoHeartbeat
    /\ oPid = 1 /\ oPc = "idle" /\ oTok = NoToken /\ oStop = FALSE
    /\ oKids = FALSE /\ lastTok = 0
    /\ cPc = "read" /\ cReq = NoRequest /\ lease = NoLease
    /\ tState = "running" /\ oState = "running"
    /\ draining = FALSE /\ pauseFailed = FALSE /\ exiting = FALSE
    /\ owed = NoDebt
    /\ releases = [t \in Tokens |-> 0] /\ readies = [t \in Tokens |-> 0]
    /\ entry = [t \in Tokens |-> "none"] /\ open = NoOpen
    /\ run = 1 /\ crashes = 0

Next == OwnerNext \/ ActorNext \/ CoordNext \/ GoStale \/ RequestVanishes
Spec == Init /\ [][Next]_vars

-----------------------------------------------------------------------------
(* Safety                                                                    *)

Running == cPc \in {"read", "reconcile", "target", "owner"}
Acknowledges(states) ==
    /\ ack'.state \in states
    /\ ack'.state # ack.state \/ ack'.token # ack.token
Proven(t) == gate.lease = t /\ Live # {} /\ Parked = Live /\ ~busy

(* While the arena computes inside its lease, no producer of a living actor  *)
(* touches the GPU, unless that actor has been told to stop (a shutdown, a   *)
(* drain) or is stopping after a failure of its own.                         *)
GpuExclusive ==
    oPc = "body" /\ ActorLive => aStop \/ (~busy /\ \A c \in Cohorts : coh[c] # "run")

(* A ready acknowledgement is written only when the target is gone with all  *)
(* of its group, or parked for this very token with an idle broker, or on    *)
(* its way out.                                                              *)
ReadyIsProven ==
    [][Acknowledges({"ready"}) =>
         \/ aPc' = "none" /\ ~aKids'
         \/ ActorLive /\ (aStop \/ Proven(ack'.token))]_vars

(* An arena inside its lease is covered by it: a running coordinator still   *)
(* holds the lease, granted and not released.                                *)
BodyIsLeased ==
    oPc = "body" /\ Running =>
        lease.token = oTok /\ lease.pid = oPid /\ lease.state = "ready"

(* An actor parks, and stays parked, only for the lease that a running       *)
(* coordinator still holds for it: whoever parked it is going to resume it.  *)
ParkedIsLeased ==
    Running /\ ActorLive /\ ~aStop /\ gate.lease # NoToken =>
        Held /\ lease.token = gate.lease /\ lease.tpid = aPid
LeaseHeld == BodyIsLeased /\ ParkedIsLeased

(* The gate of the actor is opened only when the owner of the lease has left *)
(* it or is dead: losing the request file or its heartbeat is not enough.    *)
ResumeAfterOwner ==
    [][Acknowledges({"released", "recovered"}) =>
         ~(oTok' = ack'.token /\ oPc' \in {"waitReady", "granted", "body"})]_vars

(* A release acknowledgement stays until the actor it is addressed to has    *)
(* completed the release (or is stopping): the next request cannot overwrite *)
(* a release the actor has not seen.                                         *)
ReleaseAckHeld ==
    [][(/\ ack.state \in {"released", "recovered"} /\ ack.tpid = aPid
        /\ ack.tpid # 0 /\ ActorLive /\ ~aStop /\ ack'.token # ack.token)
       => gate.last = ack.token /\ Parked = {}]_vars

(* Whenever an acknowledgement ends a lease (other than a shutdown's, which  *)
(* comes first and settles the lease at its end), the release event that the *)
(* ledger settles the token with is durable: a crash between the two writes  *)
(* never lets arena and actor go on with an interval the journal has lost.   *)
ShutdownBegins == cPc = "stop" /\ cPc' = "stopTerm"
EventBeforeAck ==
    [][~ShutdownBegins /\ Acknowledges({"released", "recovered", "draining"})
         => releases[ack'.token] > 0]_vars

(* For each token the journal has at most one ready and one release event.   *)
JournalOnce == \A t \in Tokens : releases[t] <= 1 /\ readies[t] <= 1

(* Once the journal has closed a token (rejected or released it) the         *)
(* coordinator does not grant it: a rejected request is an unadmitted one    *)
(* and holds no GPU.  The code breaks this one: see the README.              *)
RejectionIsFinal ==
    [][\A t \in Tokens : entry[t] = "settled" => readies'[t] = readies[t]]_vars

(* A release event is evidence that the GPU work of the lease has stopped:   *)
(* it is not recorded while the arena's process group survives its leader.   *)
(* The code breaks this one too.                                             *)
ReleaseAfterGroup ==
    [][\A t \in Tokens : readies[t] > 0 /\ releases'[t] > releases[t]
          => ~(oTok' = t /\ oKids')]_vars

(* The ledger always accepts the journal, and a token whose ready event is   *)
(* in the journal is still to be settled by the coordinator that granted it. *)
LedgerSound ==
    /\ \A t \in Tokens : entry[t] # "refused"
    /\ Running /\ ~Held => \A t \in Tokens : entry[t] # "ready"

(* The protocol implements the accounting view of a lease.                   *)
Ledger == INSTANCE GpuLedger WITH
              asked <- 1..lastTok,
              pledge <- IF owed.event = "ready" THEN owed.token ELSE NoToken,
              user <- IF oPc = "body" THEN oTok ELSE NoToken
LedgerView == Ledger!Spec

-----------------------------------------------------------------------------
(* Liveness, without deadlines and as long as the machine stays up.  Every   *)
(* process that is alive runs: the arena between its waits (when it asks for *)
(* a lease is its own choice), each cohort thread up to its next checkpoint, *)
(* the broker, the control thread, and the coordinator's loop, which restarts*)
(* a worker once its backoff is over and kills one that outlives its grace.  *)

OwnerProgress ==
    \/ OwnerRequest \/ OwnerSeesReady \/ OwnerActivate \/ OwnerCancel
    \/ OwnerRelease \/ OwnerReleased \/ OwnerFails \/ OwnerStops
    \/ OwnerBlocked \/ OwnerKilled
CoordProgress ==
    \/ CoordRead \/ CoordReconcile \/ WriteEvent \/ WriteAck
    \/ TargetExited \/ TargetExitedOtherwise \/ TargetHardKill
    \/ TargetRestart \/ TargetFine
    \/ OwnerExitedInLease \/ OwnerExitedOtherwise \/ OwnerHardKill
    \/ OwnerRestart \/ OwnerFine
    \/ StopAll \/ StopKill \/ StopReap

Fairness ==
    /\ WF_vars(OwnerProgress)
    /\ \A c \in Cohorts : /\ WF_vars(CohortPark(c)) /\ WF_vars(CohortUnpark(c))
                          /\ WF_vars(aStop /\ CohortFinish(c))
    /\ WF_vars(BrokerIdle)
    /\ WF_vars(PollRead \/ Poll \/ Publish \/ ActorExit \/ ActorKilled)
    /\ WF_vars(CoordProgress)
FairSpec == Spec /\ Fairness

(* Every lease the arena asks for is granted or refused, every lease it has  *)
(* left is acknowledged, ...                                                 *)
OwnerAnswered ==
    /\ oPc = "waitReady" ~> oPc # "waitReady"
    /\ oPc \in {"waitRelease", "waitFailed"} ~> oPc \in {"idle", "exited", "none"}

(* ... every lease whose readiness is in the journal is settled there while  *)
(* a coordinator is up (the code breaks this when the machine is lost in the *)
(* middle of a lease), ...                                                   *)
ReadySettled ==
    \A t \in Tokens :
        (cPc # "down" /\ entry[t] = "ready") ~> (cPc = "down" \/ entry[t] # "ready")

(* ... every release is confirmed by the actor, even one that it never saw    *)
(* the lease of, so that the coordinator can admit the next request and      *)
(* restart an arena that has died, ...                                       *)
ReleaseConfirmed ==
    (Running /\ lease.state = "resuming") ~> ~(Running /\ lease.state = "resuming")

(* ... and no cohort stays parked, whatever became of the arena.             *)
ParkedResumes ==
    \A c \in Cohorts :
        (ActorLive /\ coh[c] = "parked") ~> ~(ActorLive /\ coh[c] = "parked")
=============================================================================
