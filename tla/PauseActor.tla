------------------------------ MODULE PauseActor ------------------------------
(***************************************************************************)
(* The actor process: cohort threads that park at checkpoints, and the     *)
(* control thread that polls ActorPauseGate (actor_pause.py) and publishes *)
(* the heartbeat (actor.py, _run_cohorts).  A poll reads the               *)
(* acknowledgement file first, updates the gate under its lock second and  *)
(* publishes third; anything may happen in between.                        *)
(***************************************************************************)
EXTENDS PauseShared

ActorFrame == UNCHANGED <<req, ack, ownerVars, coordVars, books, budgets>>
Control == <<aStep, aAck, aDet>>

(* checkpoint: park while a lease is adopted, unless closed or stopping.     *)
MustPark == gate.lease # NoToken /\ ~gate.closed /\ ~aStop

CohortPark(c) ==
    /\ ActorLive /\ coh[c] = "run" /\ MustPark
    /\ coh' = [coh EXCEPT ![c] = "parked"]
    /\ UNCHANGED <<aPid, aPc, aStop, aKids, busy, gate, Control, hb>>
    /\ ActorFrame

CohortUnpark(c) ==
    /\ ActorLive /\ coh[c] = "parked" /\ ~MustPark
    /\ coh' = [coh EXCEPT ![c] = "run"]
    /\ gate' = [gate EXCEPT !.synced = FALSE]
    /\ UNCHANGED <<aPid, aPc, aStop, aKids, busy, Control, hb>> /\ ActorFrame

(* A running cohort submits inference; the broker is busy until it has       *)
(* answered and let go of the job.                                           *)
CohortSubmit(c) ==
    /\ ActorLive /\ coh[c] = "run" /\ ~busy
    /\ busy' = TRUE
    /\ UNCHANGED <<aPid, aPc, aStop, aKids, coh, gate, Control, hb>>
    /\ ActorFrame

BrokerIdle ==
    /\ ActorLive /\ busy
    /\ busy' = FALSE
    /\ UNCHANGED <<aPid, aPc, aStop, aKids, coh, gate, Control, hb>>
    /\ ActorFrame

(* run_child returns because the process stops, or raises and makes it stop; *)
(* either way the gate forgets the cohort (finish).                          *)
CohortFinish(c) ==
    /\ ActorLive /\ coh[c] = "run" /\ (aStop \/ "cohort" \in Faults)
    /\ aStop' = TRUE
    /\ coh' = [coh EXCEPT ![c] = "done"]
    /\ gate' = [gate EXCEPT !.synced = FALSE]
    /\ UNCHANGED <<aPid, aPc, aKids, busy, Control, hb>> /\ ActorFrame

-----------------------------------------------------------------------------
(* ActorPauseGate.poll                                                       *)

PollRead ==
    /\ ActorLive /\ aStep = "read" /\ Live # {}
    /\ aStep' = "poll" /\ aAck' = ack
    /\ UNCHANGED <<aPid, aPc, aStop, aKids, coh, busy, gate, aDet, hb>>
    /\ ActorFrame

(* _matching_ack, on the acknowledgement read before the lock was taken.     *)
Matches(token, states) ==
    aAck.token = token /\ aAck.tpid = aPid /\ aAck.state \in states

(* _requested_lease: a fresh request, authorised by a waiting ack.           *)
Adoptable ==
    /\ req.state \in {"requested", "active"} /\ req.fresh
    /\ Matches(req.token, {"waiting"})

(* _unadopted_release: a lease released before this actor adopted it.        *)
Mutant_NoUnadoptedRelease == FALSE
UnadoptedRelease ==
    aAck.token # NoToken /\ aAck.fresh /\ Matches(aAck.token, ReleaseStates)

(* The details a poll returns about gate g.                                  *)
Details(g, kind, token) ==
    [pid |-> aPid, kind |-> kind, token |-> token, last |-> g.last,
     clear |-> Parked = {}, fresh |-> TRUE]

Close(g) == [g EXCEPT !.closed = TRUE, !.lease = NoToken,
                      !.releasing = NoToken, !.synced = FALSE]

PollClosed ==
    /\ gate.closed \/ aStop
    /\ gate' = Close(gate)
    /\ aDet' = Details(gate', "stopping", NoToken)

PollReleasing ==
    /\ ~gate.closed /\ ~aStop /\ gate.releasing # NoToken
    /\ IF Parked # {}
         THEN /\ gate' = gate
              /\ aDet' = Details(gate, "resuming", gate.releasing)
         ELSE /\ gate' = [gate EXCEPT !.last = gate.releasing,
                                      !.releasing = NoToken]
              /\ aDet' = Details(gate', "shared", NoToken)

PollIdle ==
    /\ ~gate.closed /\ ~aStop
    /\ gate.releasing = NoToken /\ gate.lease = NoToken
    /\ UnadoptedRelease \/ ~Adoptable
    /\ gate' = IF UnadoptedRelease THEN [gate EXCEPT !.last = aAck.token]
                                   ELSE [gate EXCEPT !.synced = FALSE]
    /\ aDet' = Details(gate', "shared", NoToken)

(* Every live cohort parked, and then the broker idle.                       *)
Mutant_SomeParked == Parked # {} /\ ~busy
AllIdle == Live # {} /\ Parked = Live /\ ~busy

(* Adoption, a release of the adopted lease, or the readiness proof, with    *)
(* CUDA synchronised once everything is idle.                                *)
PollAdopted ==
    /\ ~gate.closed /\ ~aStop /\ gate.releasing = NoToken
    /\ gate.lease # NoToken \/ (~UnadoptedRelease /\ Adoptable)
    /\ LET g == IF gate.lease # NoToken THEN gate
                ELSE [gate EXCEPT !.lease = req.token, !.synced = FALSE]
       IN  IF Matches(g.lease, ReleaseStates)
             THEN /\ gate' = [g EXCEPT !.lease = NoToken, !.synced = FALSE,
                                       !.releasing = g.lease]
                  /\ aDet' = Details(gate', "resuming", g.lease)
             ELSE /\ gate' = [g EXCEPT !.synced = g.synced \/ AllIdle]
                  /\ aDet' = Details(gate',
                                     IF AllIdle THEN "ready" ELSE "quiescing",
                                     g.lease)

Poll ==
    /\ ActorLive /\ aStep = "poll" /\ aStep' = "publish"
    /\ PollClosed \/ PollReleasing \/ PollIdle \/ PollAdopted
    /\ UNCHANGED <<aPid, aPc, aStop, aKids, coh, busy, aAck, hb>>
    /\ ActorFrame

Publish ==
    /\ ActorLive /\ aStep = "publish" /\ aStep' = "read"
    /\ hb' = aDet
    /\ UNCHANGED <<aPid, aPc, aStop, aKids, coh, busy, gate, aAck, aDet>>
    /\ ActorFrame

(* The heartbeat thread keeps re-dating the last published details.          *)
ActorHeartbeat ==
    /\ ActorLive /\ hb.pid = aPid /\ ~hb.fresh
    /\ hb' = [hb EXCEPT !.fresh = TRUE]
    /\ UNCHANGED actorVars /\ ActorFrame

(* The control thread fails (synchronize, a heartbeat write): the handler    *)
(* stops every cohort and closes the gate before joining the producers.      *)
ControlFails ==
    /\ ActorLive /\ "control" \in Faults /\ aStep # "join"
    /\ aStep' = "join" /\ aStop' = TRUE /\ gate' = Close(gate)
    /\ UNCHANGED <<aPid, aPc, aKids, coh, busy, aAck, aDet, hb>> /\ ActorFrame

ActorEnds ==
    /\ aPc' = "exited" /\ busy' = FALSE
    /\ aKids' \in (IF "actorKids" \in Faults THEN BOOLEAN ELSE {FALSE})

(* Every producer is done: close the gate, the broker and the heartbeat.     *)
ActorExit ==
    /\ ActorLive /\ aStep \in {"read", "join"} /\ Live = {}
    /\ ActorEnds /\ gate' = Close(gate)
    /\ hb' = Details(gate', "stopping", NoToken)
    /\ UNCHANGED <<aPid, aStop, coh, Control>> /\ ActorFrame

(* The process dies where it stands: of the coordinator's SIGKILL ...        *)
ActorKilled ==
    /\ ActorLive /\ tState \in {"killing", "pause_killing"}
    /\ ActorEnds
    /\ UNCHANGED <<aPid, aStop, coh, gate, Control, hb>> /\ ActorFrame

(* ... or of itself.                                                         *)
ActorCrash ==
    /\ ActorLive /\ crashes < MaxCrashes /\ crashes' = crashes + 1
    /\ ActorEnds
    /\ UNCHANGED <<aPid, aStop, coh, gate, Control, files, ownerVars,
                   coordVars, books, run>>

ActorNext ==
    \/ \E c \in Cohorts : \/ CohortPark(c) \/ CohortUnpark(c)
                          \/ CohortSubmit(c) \/ CohortFinish(c)
    \/ BrokerIdle \/ PollRead \/ Poll \/ Publish \/ ActorHeartbeat
    \/ ControlFails \/ ActorExit \/ ActorKilled \/ ActorCrash
=============================================================================
