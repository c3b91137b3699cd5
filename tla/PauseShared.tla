----------------------------- MODULE PauseShared -----------------------------
(***************************************************************************)
(* State shared by the three processes that hand one GPU back and forth:   *)
(*                                                                         *)
(*   the coordinator  deltreltrain/orchestration.py  (Coordinator)         *)
(*   the arena        deltreltrain/promotion.py      (CoordinatorPauseLease)*)
(*   the actor        deltreltrain/actor_pause.py    (ActorPauseGate)      *)
(*                                                                         *)
(* They talk only through three files, each replaced atomically by its     *)
(* single writer: the request (arena), the acknowledgement (coordinator)   *)
(* and the heartbeat (actor).  Coordinator and process state are kept in   *)
(* one variable group per process; every action belongs to one process.    *)
(***************************************************************************)
EXTENDS Naturals, FiniteSets

CONSTANTS
    Cohorts,     \* producer threads of the actor, gpu.actor_cohorts
    Strategy,    \* promotion.pause_strategy
    Faults,      \* the kinds of trouble the environment may cause
    MaxLeases,   \* bound: leases the arena ever asks for
    MaxActors,   \* bound: actor processes ever started
    MaxOwners,   \* bound: arena processes ever started
    MaxCrashes,  \* bound: spontaneous process deaths
    MaxRuns      \* bound: coordinator processes ever started

FaultKinds == {"stale", "timeout", "health", "cohort", "control", "arena",
               "vanish", "drain", "stop", "spawn", "exhaust", "host",
               "actorKids", "arenaKids"}

ASSUME PauseConstants ==
    /\ Cohorts # {} /\ IsFiniteSet(Cohorts)
    /\ Strategy \in {"suspend", "terminate"}
    /\ Faults \subseteq FaultKinds
    /\ MaxLeases \in Nat \ {0} /\ MaxActors \in Nat \ {0}
    /\ MaxOwners \in Nat \ {0} /\ MaxRuns \in Nat \ {0}
    /\ MaxCrashes \in Nat

Tokens == 1..MaxLeases      \* uuid4 lease tokens, in the order of their use
Pids == Nat                 \* process incarnations; 0 is "no process"
NoToken == 0

VARIABLES
    req, ack, hb,                                   \* the three files
    aPid, aPc, aStop, aKids, coh, busy, gate,       \* the actor process
    aStep, aAck, aDet,                              \* its control thread
    oPid, oPc, oTok, oStop, oKids, lastTok,         \* the arena process
    cPc, cReq, lease, tState, oState,               \* the coordinator
    draining, pauseFailed, exiting,
    owed,                                           \* its second durable write
    releases, readies, entry,                       \* the journal, by token
    open,                                           \* the accounting ledger
    run, crashes                                    \* budgets

files     == <<req, ack, hb>>
actorVars == <<aPid, aPc, aStop, aKids, coh, busy, gate, aStep, aAck, aDet>>
ownerVars == <<oPid, oPc, oTok, oStop, oKids, lastTok, open>>
coordVars == <<cPc, cReq, lease, tState, oState, draining, pauseFailed,
               exiting, owed>>
books     == <<releases, readies, entry>>
budgets   == <<run, crashes>>
vars == <<files, actorVars, ownerVars, coordVars, books, budgets>>

-----------------------------------------------------------------------------
(* The request file, as the arena writes it and the others read it.  fresh  *)
(* is "time - heartbeat_ns <= stale_heartbeat_seconds".                      *)

RequestStates == {"none", "requested", "active", "released", "cancelled"}
Request == [token : Nat, pid : Pids, state : RequestStates, fresh : BOOLEAN]
NoRequest == [token |-> 0, pid |-> 0, state |-> "none", fresh |-> FALSE]

(* The acknowledgement file; tpid is target_pid (0 for None).                *)
AckStates == {"none", "waiting", "ready", "released", "recovered", "draining",
              "stopping", "failed"}
Mutant_ReleaseStates == {"released", "draining"}
ReleaseStates == {"released", "recovered", "draining"}
Acknowledgement ==
    [token : Nat, state : AckStates, tpid : Pids, fresh : BOOLEAN]
NoAck == [token |-> 0, state |-> "none", tpid |-> 0, fresh |-> FALSE]

(* What the actor's heartbeat says about the pause: ready stands for phase   *)
(* arena_gpu_pause with actor_quiescent, inference_idle, cuda_synchronized   *)
(* and all live cohorts parked; clear for parked_cohorts = 0.                *)
HeartbeatKinds == {"starting", "shared", "quiescing", "ready", "resuming",
                   "stopping"}
Heartbeat == [pid : Pids, kind : HeartbeatKinds, token : Nat, last : Nat,
              clear : BOOLEAN, fresh : BOOLEAN]
NoHeartbeat == [pid |-> 0, kind |-> "starting", token |-> 0, last |-> 0,
                clear |-> TRUE, fresh |-> FALSE]

(* ActorPauseGate: the adopted lease, the lease being released, the last     *)
(* token whose release was completed.                                        *)
Gate == [lease : Nat, releasing : Nat, last : Nat, synced : BOOLEAN,
         closed : BOOLEAN]
OpenGate == [lease |-> 0, releasing |-> 0, last |-> 0, synced |-> FALSE,
             closed |-> FALSE]

(* PauseLease, the coordinator's record of the lease in progress.            *)
LeaseStates == {"none", "requested", "waiting", "stopping", "ready",
                "resuming"}
Lease == [token : Nat, pid : Pids, state : LeaseStates, tpid : Pids,
          reaped : BOOLEAN, suspended : BOOLEAN, release : BOOLEAN,
          ownerStop : BOOLEAN, ownerReaped : BOOLEAN, failed : BOOLEAN,
          recorded : BOOLEAN]
NoLease == [token |-> 0, pid |-> 0, state |-> "none", tpid |-> 0,
            reaped |-> FALSE, suspended |-> FALSE, release |-> FALSE,
            ownerStop |-> FALSE, ownerReaped |-> FALSE, failed |-> FALSE,
            recorded |-> FALSE]

(* ManagedWorker.state of the pause target (actor) and the owner (arena).    *)
TargetStates == {"running", "terminating", "killing", "backoff", "paused",
                 "pause_terminating", "pause_killing", "pause_suspended",
                 "pause_resuming", "draining", "drained", "exhausted",
                 "stopping", "stopped"}
PauseStates == {"paused", "pause_terminating", "pause_killing",
                "pause_suspended", "pause_resuming"}
OwnerStates == {"running", "terminating", "killing", "backoff",
                "lease_terminating", "lease_killing", "exhausted",
                "stopping", "stopped"}

(* What the coordinator's journal says of a token, as the ledger reads it:   *)
(* settled once a terminal event follows the registration; refused when the  *)
(* journal shows a second ready event, or a rejection after the ready event. *)
Entries == {"none", "ready", "settled", "refused"}
(* The journal's events that the ledger reads: pause_lease_ready,            *)
(* pause_lease_released and pause_request_rejected.                          *)
Events == {"none", "ready", "released", "rejected"}

(* A step of the coordinator that writes both the journal and the            *)
(* acknowledgement file makes two durable writes; owed is the second one,    *)
(* while it is outstanding: an event for a token, or an acknowledgement.     *)
Debt == [event : Events, token : Nat, ack : Acknowledgement]
NoDebt == [event |-> "none", token |-> NoToken, ack |-> NoAck]

(* The ledger's outstanding lease: its token and the pid that registered it. *)
Open == [tok : Nat, pid : Pids]
NoOpen == [tok |-> 0, pid |-> 0]

ActorPcs == {"none", "live", "exited"}
OwnerPcs == {"none", "idle", "registered", "waitReady", "granted", "body",
             "waitRelease", "waitFailed", "exited"}
CoordPcs == {"read", "reconcile", "target", "owner", "stop", "stopTerm",
             "stopKill", "down"}

-----------------------------------------------------------------------------
ActorLive == aPc = "live"
OwnerLive == oPc \notin {"none", "exited"}
Held == lease.state # "none"
Parked == {c \in Cohorts : coh[c] = "parked"}
Live == {c \in Cohorts : coh[c] # "done"}

(* The arena computes on the shared GPU inside "with lease"; a child that   *)
(* outlives its process still holds the GPU.                                *)
OwnerUsesGpu == oPc = "body" \/ oKids
ActorUsesGpu ==
    \/ ActorLive /\ (busy \/ \E c \in Cohorts : coh[c] = "run")
    \/ aKids

FilesOK == req \in Request /\ ack \in Acknowledgement /\ hb \in Heartbeat
ActorOK ==
    /\ aPid \in Pids /\ aPc \in ActorPcs /\ aStop \in BOOLEAN
    /\ aKids \in BOOLEAN /\ busy \in BOOLEAN /\ gate \in Gate
    /\ coh \in [Cohorts -> {"run", "parked", "done"}]
    /\ aStep \in {"read", "poll", "publish", "join"}
    /\ aAck \in Acknowledgement /\ aDet \in Heartbeat
OwnerOK ==
    /\ oPid \in Pids /\ oPc \in OwnerPcs /\ oTok \in Nat
    /\ oStop \in BOOLEAN /\ oKids \in BOOLEAN /\ lastTok \in Nat
    /\ open \in Open
CoordOK ==
    /\ cPc \in CoordPcs /\ cReq \in Request /\ lease \in Lease
    /\ tState \in TargetStates /\ oState \in OwnerStates
    /\ draining \in BOOLEAN /\ pauseFailed \in BOOLEAN /\ exiting \in BOOLEAN
    /\ owed \in Debt
BooksOK ==
    /\ releases \in [Tokens -> Nat] /\ readies \in [Tokens -> Nat]
    /\ entry \in [Tokens -> Entries]
BudgetsOK == run \in Nat /\ crashes \in Nat

TypeOK == FilesOK /\ ActorOK /\ OwnerOK /\ CoordOK /\ BooksOK /\ BudgetsOK
=============================================================================
