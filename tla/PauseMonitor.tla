----------------------------- MODULE PauseMonitor -----------------------------
(***************************************************************************)
(* The rest of the coordinator's loop (orchestration.py): monitoring the   *)
(* actor and the arena, draining when the learner has completed, and the   *)
(* shutdown that ends every run of the coordinator.                        *)
(***************************************************************************)
EXTENDS PauseCoordinator

(* A monitor step of the actor, then one of the arena; an exhausted worker   *)
(* ends the loop after the cycle.                                            *)
MonitorTarget == /\ cPc = "target" /\ cPc' = "owner" /\ owed = NoDebt
                 /\ CoordFrame /\ UNCHANGED <<cReq, draining, budgets>>
MonitorOwner  == /\ cPc = "owner" /\ owed = NoDebt
                 /\ CoordFrame /\ UNCHANGED <<cReq, draining, budgets>>
EndCycle == cPc' = IF exiting' \/ pauseFailed' THEN "stop" ELSE "read"
KeepLease == UNCHANGED <<lease, ack, owed, pauseFailed, books>>

-----------------------------------------------------------------------------
(* The actor                                                                 *)

(* Its heartbeat is stale or stuck.                                          *)
TargetUnhealthy ==
    /\ MonitorTarget /\ "health" \in Faults /\ tState = "running" /\ ActorLive
    /\ tState' = "terminating" /\ SignalActor
    /\ KeepOwner /\ KeepLease /\ UNCHANGED <<oState, exiting>>

(* _pause_target_exited: the target of the lease in progress has exited.     *)
ExitedInLease == aPc = "exited" /\ Held
                 /\ (tState \in PauseStates \/ lease.tpid # 0)

TargetExited ==
    /\ MonitorTarget /\ ExitedInLease
    /\ LET l == [lease EXCEPT !.suspended = FALSE]
           gone == [l EXCEPT !.reaped = TRUE]
       IN  \/ /\ aKids /\ FailLease(l)
              /\ KeepActor /\ UNCHANGED <<tState, owed, books>>
           \/ /\ l.tpid # 0 /\ ~draining
              /\ FailLease(gone) /\ tState' = "paused"
              /\ ReapActor /\ UNCHANGED <<owed, books>>
           \/ /\ (l.tpid = 0 \/ draining) /\ l.release
              /\ FinishRelease(gone, "paused", TRUE, ack, pauseFailed)
           \/ /\ (l.tpid = 0 \/ draining) /\ ~l.release
              /\ MarkReady(gone) /\ tState' = "paused" /\ ReapActor
              /\ UNCHANGED <<pauseFailed, books>>
    /\ KeepOwner /\ UNCHANGED <<oState, exiting>>

(* Any other exit: drained, backed off for a restart, or given up.           *)
TargetExitedOtherwise ==
    /\ MonitorTarget /\ aPc = "exited" /\ ~ExitedInLease
    /\ tState \in {"running", "terminating", "killing", "draining"}
    /\ \/ /\ draining \/ tState = "draining"
          /\ tState' = "drained" /\ ReapActor /\ UNCHANGED exiting
       \/ /\ ~draining /\ tState # "draining"
          /\ tState' = "backoff" /\ ReapActor /\ UNCHANGED exiting
       \/ /\ "exhaust" \in Faults /\ ~draining /\ tState # "draining"
          /\ tState' = "exhausted" /\ ReapActor /\ exiting' = TRUE
       \/ /\ aKids
          /\ tState' = "exhausted" /\ KeepActor /\ exiting' = TRUE
    /\ KeepOwner /\ KeepLease /\ UNCHANGED oState

(* The grace after SIGTERM is over: SIGKILL.                                 *)
TargetHardKill ==
    /\ MonitorTarget /\ ActorLive
    /\ \/ tState = "pause_terminating" /\ tState' = "pause_killing"
       \/ tState = "terminating" /\ tState' = "killing"
    /\ KeepActor /\ KeepOwner /\ KeepLease /\ UNCHANGED <<oState, exiting>>

(* The grace after SIGKILL is over too.                                      *)
TargetUnkillable ==
    /\ MonitorTarget /\ ActorLive /\ "timeout" \in Faults
    /\ \/ /\ tState = "pause_killing"
          /\ IF Held THEN FailLease(lease)
                     ELSE pauseFailed' = TRUE /\ UNCHANGED <<lease, ack>>
          /\ UNCHANGED tState
       \/ /\ tState = "killing"
          /\ tState' = "exhausted" /\ UNCHANGED <<lease, ack, pauseFailed>>
    /\ exiting' = TRUE
    /\ KeepActor /\ KeepOwner /\ UNCHANGED <<oState, owed, books>>

TargetRestart ==
    /\ MonitorTarget /\ tState = "backoff" /\ aPc = "none"
    /\ \/ draining /\ tState' = "drained" /\ KeepActor /\ UNCHANGED exiting
       \/ ~draining /\ tState' = "running" /\ StartActor /\ UNCHANGED exiting
       \/ /\ ~draining /\ "spawn" \in Faults
          /\ tState' = "exhausted" /\ KeepActor /\ exiting' = TRUE
    /\ KeepOwner /\ KeepLease /\ UNCHANGED oState

(* Nothing to do, or a deadline that has not passed.                         *)
TargetFine ==
    /\ MonitorTarget
    /\ ~ExitedInLease
    /\ aPc # "exited"
       \/ tState \notin {"running", "terminating", "killing", "draining"}
    /\ KeepWorkers /\ KeepLease /\ UNCHANGED exiting

-----------------------------------------------------------------------------
(* The arena                                                                 *)

OwnerUnhealthy ==
    /\ MonitorOwner /\ "health" \in Faults /\ oState = "running" /\ OwnerLive
    /\ \/ Held /\ RecoverOwner(lease)
       \/ /\ ~Held /\ oState' = "terminating" /\ SignalOwner
          /\ KeepActor /\ KeepLease /\ UNCHANGED tState
    /\ UNCHANGED exiting
    /\ EndCycle

OwnerExitedInLease ==
    /\ MonitorOwner /\ oPc = "exited" /\ Held /\ oPid = lease.pid
    /\ OwnerExited(lease)
    /\ UNCHANGED exiting
    /\ EndCycle

OwnerExitedOtherwise ==
    /\ MonitorOwner /\ oPc = "exited" /\ ~(Held /\ oPid = lease.pid)
    /\ oState \in {"running", "terminating", "killing", "lease_terminating",
                   "lease_killing"}
    /\ \/ OwnerBacksOff /\ UNCHANGED exiting
       \/ OwnerGivenUp /\ exiting' = TRUE
    /\ KeepActor /\ KeepLease /\ UNCHANGED tState
    /\ EndCycle

OwnerHardKill ==
    /\ MonitorOwner /\ OwnerLive
    /\ \/ oState = "lease_terminating" /\ oState' = "lease_killing"
       \/ oState = "terminating" /\ oState' = "killing"
    /\ KeepActor /\ KeepOwner /\ KeepLease /\ UNCHANGED <<tState, exiting>>
    /\ EndCycle

OwnerUnkillable ==
    /\ MonitorOwner /\ OwnerLive /\ "timeout" \in Faults
    /\ \/ /\ oState = "lease_killing"
          /\ IF Held THEN FailLease(lease)
                     ELSE pauseFailed' = TRUE /\ UNCHANGED <<lease, ack>>
          /\ UNCHANGED oState
       \/ /\ oState = "killing"
          /\ oState' = "exhausted" /\ UNCHANGED <<lease, ack, pauseFailed>>
    /\ exiting' = TRUE
    /\ KeepActor /\ KeepOwner /\ UNCHANGED <<tState, owed, books>>
    /\ EndCycle

(* The owner is not restarted while a lease is in progress.                  *)
OwnerRestart ==
    /\ MonitorOwner /\ oState = "backoff" /\ oPc = "none" /\ ~Held
    /\ \/ oState' = "running" /\ StartOwner /\ UNCHANGED exiting
       \/ /\ "spawn" \in Faults
          /\ oState' = "exhausted" /\ KeepOwner /\ exiting' = TRUE
    /\ KeepActor /\ KeepLease /\ UNCHANGED tState
    /\ EndCycle

OwnerFine ==
    /\ MonitorOwner
    /\ oPc # "exited" \/ (oState = "exhausted" /\ ~(Held /\ oPid = lease.pid))
    /\ KeepWorkers /\ KeepLease /\ UNCHANGED exiting /\ EndCycle

-----------------------------------------------------------------------------
(* Draining and shutdown                                                     *)

(* The learner's monitor step finds it completed: _begin_drain.              *)
BeginDrain ==
    /\ cPc = "target" /\ owed = NoDebt /\ "drain" \in Faults /\ ~draining
    /\ draining' = TRUE
    /\ LET freed == Held /\ lease.tpid # 0 /\ ActorLive
           ts == IF freed THEN "running" ELSE tState
       IN  /\ lease' = IF freed THEN [lease EXCEPT !.suspended = FALSE]
                       ELSE lease
           /\ \/ /\ Held /\ ActorLive /\ ts \notin PauseStates
                 /\ tState' = "pause_terminating" /\ SignalActor
              \/ /\ Held /\ ~(ActorLive /\ ts \notin PauseStates)
                 /\ tState' = ts /\ KeepActor
              \/ /\ ~Held /\ ActorLive
                 /\ tState' = "draining" /\ SignalActor
              \/ /\ ~Held /\ ~ActorLive /\ KeepActor
                 /\ tState' = IF tState = "backoff" THEN "drained" ELSE tState
    /\ KeepOwner /\ CoordFrame
    /\ UNCHANGED <<cPc, cReq, oState, ack, owed, pauseFailed, exiting, books,
                   budgets>>

(* The loop ends: a stop signal, a drain that is complete or overdue.        *)
EndLoop ==
    /\ cPc = "read" /\ owed = NoDebt /\ ("stop" \in Faults \/ draining)
    /\ cPc' = "stop"
    /\ UNCHANGED <<files, actorVars, ownerVars, cReq, lease, tState, oState,
                   draining, pauseFailed, exiting, owed, books, budgets>>

KeepFlags == CoordFrame
             /\ UNCHANGED <<cReq, draining, pauseFailed, exiting, budgets>>

(* _stop_all: tell the participants, terminate everyone ...                  *)
StopAll ==
    /\ cPc = "stop" /\ cPc' = "stopTerm" /\ owed = NoDebt
    /\ ack' = IF ~Held THEN ack
              ELSE Ack(lease, IF lease.tpid # 0 THEN "draining"
                              ELSE IF pauseFailed THEN "failed" ELSE "stopping")
    /\ SignalActor /\ SignalOwner
    /\ tState' = IF ActorLive THEN "stopping" ELSE tState
    /\ oState' = IF OwnerLive THEN "stopping" ELSE oState
    /\ UNCHANGED <<owed, lease, books>> /\ KeepFlags

(* ... kill whoever is left after the grace ...                              *)
StopKill ==
    /\ cPc = "stopTerm" /\ cPc' = "stopKill"
    /\ tState' = IF ActorLive THEN "killing" ELSE tState
    /\ oState' = IF OwnerLive THEN "killing" ELSE oState
    /\ KeepActor /\ KeepOwner /\ UNCHANGED <<ack, owed, lease, books>> /\ KeepFlags

(* ... collect the groups, and settle what the owner's group held: the lease *)
(* in progress, and a request that came too late to be read.                 *)
LateRequest == req.state # "none" /\ req.pid = oPid
               /\ (Held => req.token # lease.token)
               /\ ~(ack.token = req.token /\ ack.state \in ReleaseStates)

StopReap ==
    /\ cPc = "stopKill" /\ cPc' = "down"
    /\ ActorLive => "timeout" \in Faults
    /\ OwnerLive => "timeout" \in Faults
    /\ IF aPc = "exited" THEN ReapActor \/ (aKids /\ KeepActor) ELSE KeepActor
    /\ IF oPc = "exited" THEN ReapOwner \/ (oKids /\ KeepOwner) ELSE KeepOwner
    /\ LET reapedNow == oPc = "exited" /\ oPc' = "none"
           settles == Held /\ \/ lease.ownerReaped /\ oPc' = "none"
                              \/ reapedNow /\ lease.pid = oPid
           counted == settles /\ ~lease.recorded
           late == reapedNow /\ LateRequest
       IN  /\ CASE counted -> Journal("released", lease.token)
                [] ~counted /\ late -> Journal("released", req.token)
                [] OTHER -> UNCHANGED books
           /\ IF counted /\ late THEN OweEvent("released", req.token)
                                 ELSE OweNothing
           /\ lease' = IF settles THEN NoLease ELSE lease
    /\ tState' = "stopped" /\ oState' = "stopped"
    /\ UNCHANGED ack /\ KeepFlags

(* The machine loses every process at once.                                  *)
HostCrash ==
    /\ "host" \in Faults /\ crashes < MaxCrashes
    /\ cPc # "down" \/ owed # NoDebt
    /\ crashes' = crashes + 1
    /\ cPc' = "down" /\ aPc' = "none" /\ oPc' = "none"
    /\ aKids' = FALSE /\ oKids' = FALSE /\ OweNothing
    /\ UNCHANGED <<files, aPid, aStop, coh, busy, gate, aStep, aAck, aDet,
                   oPid, oTok, oStop, lastTok, open, cReq, lease, tState, oState,
                   draining, pauseFailed, exiting, books, run>>

(* A new coordinator starts both workers; the three files are as they were.  *)
CoordStart ==
    /\ cPc = "down" /\ owed = NoDebt /\ run < MaxRuns
    /\ run' = run + 1
    /\ cPc' = "read" /\ cReq' = NoRequest /\ lease' = NoLease
    /\ draining' = FALSE /\ pauseFailed' = FALSE /\ exiting' = FALSE
    /\ tState' = "running" /\ StartActor
    /\ oState' = "running" /\ StartOwner
    /\ UNCHANGED <<files, lastTok, open, owed, books, crashes>>

CoordNext ==
    \/ CoordRead \/ CoordReconcile \/ WriteEvent \/ WriteAck
    \/ TargetUnhealthy \/ TargetExited \/ TargetExitedOtherwise
    \/ TargetHardKill \/ TargetUnkillable \/ TargetRestart \/ TargetFine
    \/ OwnerUnhealthy \/ OwnerExitedInLease \/ OwnerExitedOtherwise
    \/ OwnerHardKill \/ OwnerUnkillable \/ OwnerRestart \/ OwnerFine
    \/ BeginDrain \/ EndLoop \/ StopAll \/ StopKill \/ StopReap
    \/ HostCrash \/ CoordStart
=============================================================================
