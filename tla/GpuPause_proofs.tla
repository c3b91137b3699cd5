---------------------------- MODULE GpuPause_proofs ----------------------------
(***************************************************************************)
(* Theorems about the GPU pause protocol, for any number of cohorts, any   *)
(* budget of leases, processes and crashes and any set of faults, unless a *)
(* theorem excludes one.  In this order:                                   *)
(*                                                                         *)
(*   - TypeCorrect; EventFirst, from EventInv;                             *)
(*   - the arena and its lease: LeaseCoversBody, OwnerGoneFirst, from OwnInv;*)
(*     here the coordinator's actions are reduced to a few moves, which all*)
(*     later parts use instead of the actions;                             *)
(*   - the actor and its proof that it is parked: GpuNeverShared,          *)
(*     ReadyProved, from PauseInv, ReleaseSeen, from GateInv, and          *)
(*     LeaseIsHeld, from ParkInv;                                          *)
(*   - the journal: CountedOnce, from JournalInv, and LedgerAccepts, from  *)
(*     LedgerInv;                                                          *)
(*   - the refinement of GpuLedger: ImplementsLedger, OneLeaseOutstanding and*)
(*     RejectedStaysClosed, from ViewInv.                                  *)
(***************************************************************************)
EXTENDS GpuPause, TLAPS

-----------------------------------------------------------------------------
(* Type correctness, one lemma per process                                   *)

(* A process that ends may or may not leave children behind.                 *)
LEMMA OwnerEndsType == OwnerEnds => oPc' \in OwnerPcs /\ oKids' \in BOOLEAN
BY DEF OwnerEnds, OwnerPcs

LEMMA RefreshedType == open \in Open => Refreshed(open) \in Open
BY DEF Refreshed, Open, NoOpen, Pids

(* The arena only writes well-formed requests.                               *)
LEMMA OwnerTypes == ASSUME TypeOK, OwnerNext PROVE TypeOK'
<1> USE DEF TypeOK
<1>1. FilesOK'
  <2>1. UNCHANGED <<ack, hb>>
    BY DEF files, OwnerFrame, OwnerNext, OwnerStep, OwnerRegister,
           OwnerBlocked, OwnerRequest, OwnerHeartbeat, OwnerSeesReady,
           OwnerActivate, OwnerCancel, OwnerRelease, OwnerReleased,
           OwnerFails, OwnerStops, OwnerKilled, OwnerCrash
  <2>2. req' = req \/ \E state \in RequestStates : req' = Written(state)
    BY DEF files, OwnerFrame, OwnerNext, OwnerStep, OwnerRegister,
           OwnerBlocked, OwnerRequest, OwnerHeartbeat, OwnerSeesReady,
           OwnerActivate, OwnerCancel, OwnerRelease, OwnerReleased,
           OwnerFails, OwnerStops, OwnerKilled, OwnerCrash, RequestStates
  <2>3. \A state \in RequestStates : Written(state) \in Request
    BY DEF Written, Request, OwnerOK
  <2> QED BY <2>1, <2>2, <2>3 DEF FilesOK
<1>2. OwnerOK'
  <2> USE DEF OwnerOK, ownerVars, Pids
  <2>1. CASE OwnerRegister
    BY <2>1 DEF OwnerRegister, Open, OwnerPcs
  <2>2. CASE OwnerRequest \/ OwnerHeartbeat \/ OwnerSeesReady \/ OwnerActivate
             \/ OwnerCancel \/ OwnerRelease
    BY <2>2 DEF OwnerRequest, OwnerHeartbeat, OwnerSeesReady, OwnerActivate,
                OwnerCancel, OwnerRelease, OwnerPcs
  <2>3. CASE OwnerReleased
    BY <2>3, RefreshedType DEF OwnerReleased, OwnerPcs
  <2>4. CASE OwnerFails
    BY <2>4, RefreshedType, OwnerEndsType DEF OwnerFails
  <2>5. CASE OwnerBlocked \/ OwnerStops \/ OwnerKilled \/ OwnerCrash
    BY <2>5, OwnerEndsType
    DEF OwnerBlocked, OwnerStops, OwnerKilled, OwnerCrash
  <2> QED BY <2>1, <2>2, <2>3, <2>4, <2>5 DEF OwnerNext, OwnerStep
<1>3. BudgetsOK'
  BY DEF BudgetsOK, budgets, OwnerFrame, OwnerNext, OwnerStep, OwnerRegister,
         OwnerBlocked, OwnerRequest, OwnerHeartbeat, OwnerSeesReady,
         OwnerActivate, OwnerCancel, OwnerRelease, OwnerReleased, OwnerFails,
         OwnerStops, OwnerKilled, OwnerCrash
<1>4. UNCHANGED <<actorVars, coordVars, books>>
  BY DEF OwnerFrame, OwnerNext, OwnerStep, OwnerRegister, OwnerBlocked,
         OwnerRequest, OwnerHeartbeat, OwnerSeesReady, OwnerActivate,
         OwnerCancel, OwnerRelease, OwnerReleased, OwnerFails, OwnerStops,
         OwnerKilled, OwnerCrash
<1>5. ActorOK' /\ CoordOK' /\ BooksOK'
  BY <1>4 DEF ActorOK, CoordOK, BooksOK, actorVars, coordVars, books
<1> QED BY <1>1, <1>2, <1>3, <1>5

(* What a poll reports and leaves behind.                                    *)
LEMMA DetailsType ==
    ASSUME ActorOK, NEW g \in Gate, NEW kind \in HeartbeatKinds, NEW token \in Nat
    PROVE  Details(g, kind, token) \in Heartbeat
BY DEF Details, Heartbeat, ActorOK, Gate

LEMMA CloseType == ASSUME NEW g \in Gate PROVE Close(g) \in Gate
BY DEF Close, Gate, NoToken

LEMMA PollTypes ==
    ASSUME FilesOK, ActorOK, PollClosed \/ PollReleasing \/ PollIdle \/ PollAdopted
    PROVE  gate' \in Gate /\ aDet' \in Heartbeat
<1> USE DEF HeartbeatKinds, NoToken
<1>0. gate \in Gate /\ req.token \in Nat /\ aAck.token \in Nat
  BY DEF ActorOK, FilesOK, Request, Acknowledgement
<1>1. CASE PollClosed
  BY <1>0, <1>1, CloseType, DetailsType DEF PollClosed
<1>2. CASE PollReleasing
  <2>0. \/ gate' = gate
        \/ gate' = [gate EXCEPT !.last = gate.releasing, !.releasing = NoToken]
    BY <1>2 DEF PollReleasing
  <2>2. gate.releasing \in Nat  BY <1>0 DEF Gate
  <2>1. CASE gate' = gate  BY <1>0, <1>2, <2>1, <2>2, DetailsType DEF PollReleasing
  <2>3. CASE gate' # gate
    <3>1. gate' = [gate EXCEPT !.last = gate.releasing, !.releasing = NoToken]
      BY <2>0, <2>3
    <3>2. gate' \in Gate  BY <1>0, <2>2, <3>1 DEF Gate
    <3> QED BY <1>2, <2>2, <3>2, DetailsType DEF PollReleasing
  <2> QED BY <2>1, <2>3
<1>3. CASE PollIdle
  <2>0. \/ gate' = [gate EXCEPT !.last = aAck.token]
        \/ gate' = [gate EXCEPT !.synced = FALSE]
    BY <1>3 DEF PollIdle
  <2>1. gate' \in Gate  BY <1>0, <2>0 DEF Gate
  <2> QED BY <1>3, <2>1, DetailsType DEF PollIdle
<1>4. CASE PollAdopted
  <2> DEFINE g == IF gate.lease # NoToken THEN gate
                  ELSE [gate EXCEPT !.lease = req.token, !.synced = FALSE]
  <2>1. g \in Gate  BY <1>0 DEF Gate
  <2>2. g.lease \in Nat  BY <2>1 DEF Gate
  <2>3. CASE Matches(g.lease, ReleaseStates)
    <3>1. gate' = [g EXCEPT !.lease = NoToken, !.synced = FALSE,
                            !.releasing = g.lease]
      BY <1>4, <2>3 DEF PollAdopted
    <3>2. gate' \in Gate  BY <2>1, <2>2, <3>1 DEF Gate
    <3> QED BY <1>4, <2>2, <2>3, <3>2, DetailsType DEF PollAdopted
  <2>4. CASE ~Matches(g.lease, ReleaseStates)
    <3>1. gate' = [g EXCEPT !.synced = g.synced \/ AllIdle]
      BY <1>4, <2>4 DEF PollAdopted
    <3>2. gate' \in Gate  BY <2>1, <3>1 DEF Gate
    <3> QED BY <1>4, <2>2, <2>4, <3>2, DetailsType DEF PollAdopted
  <2> QED BY <2>3, <2>4
<1> QED BY <1>1, <1>2, <1>3, <1>4

LEMMA ActorEndsType ==
    ActorEnds => aPc' \in ActorPcs /\ busy' \in BOOLEAN /\ aKids' \in BOOLEAN
BY DEF ActorEnds, ActorPcs

(* The cohorts park and finish, the control thread polls and publishes.      *)
LEMMA ActorTypes == ASSUME TypeOK, ActorNext PROVE TypeOK'
<1> USE DEF TypeOK
<1>1. UNCHANGED <<req, ack, ownerVars, coordVars, books, run>>
      /\ (UNCHANGED crashes \/ crashes' = crashes + 1)
  BY DEF files, budgets, ActorFrame, ActorNext, CohortPark, CohortUnpark, CohortSubmit,
         CohortFinish, BrokerIdle, PollRead, Poll, Publish, ActorHeartbeat,
         ControlFails, ActorExit, ActorKilled, ActorCrash
<1>2. OwnerOK' /\ CoordOK' /\ BooksOK' /\ BudgetsOK'
  BY <1>1 DEF OwnerOK, CoordOK, BooksOK, BudgetsOK, ownerVars, coordVars, books
<1>3. FilesOK' /\ ActorOK'
  <2>0. hb' \in Heartbeat => FilesOK'  BY <1>1 DEF FilesOK
  <2>1. CASE \E c \in Cohorts : CohortPark(c) \/ CohortUnpark(c)
                                \/ CohortSubmit(c) \/ CohortFinish(c)
    <3>1. PICK c \in Cohorts : CohortPark(c) \/ CohortUnpark(c)
                               \/ CohortSubmit(c) \/ CohortFinish(c)
      BY <2>1
    <3>2. hb' = hb
      BY <3>1 DEF CohortPark, CohortUnpark, CohortSubmit, CohortFinish
    <3>3. UNCHANGED <<aPid, aPc, aKids, Control>> /\ aStop' \in BOOLEAN
          /\ busy' \in BOOLEAN
      BY <3>1 DEF CohortPark, CohortUnpark, CohortSubmit, CohortFinish, ActorOK
    <3>4. \/ coh' = coh \/ coh' = [coh EXCEPT ![c] = "parked"]
          \/ coh' = [coh EXCEPT ![c] = "run"] \/ coh' = [coh EXCEPT ![c] = "done"]
      BY <3>1 DEF CohortPark, CohortUnpark, CohortSubmit, CohortFinish
    <3>5. gate' = gate \/ gate' = [gate EXCEPT !.synced = FALSE]
      BY <3>1 DEF CohortPark, CohortUnpark, CohortSubmit, CohortFinish
    <3>6. gate' \in Gate  BY <3>5 DEF ActorOK, Gate
    <3>7. coh' \in [Cohorts -> {"run", "parked", "done"}]
      BY <3>4 DEF ActorOK
    <3> QED BY <2>0, <3>2, <3>3, <3>6, <3>7 DEF ActorOK, FilesOK, Control
  <2>2. CASE BrokerIdle \/ PollRead
    BY <2>2, <2>0 DEF BrokerIdle, PollRead, FilesOK, ActorOK, Control
  <2>3. CASE Poll
    <3>1. gate' \in Gate /\ aDet' \in Heartbeat  BY <2>3, PollTypes DEF Poll
    <3> QED BY <2>3, <2>0, <3>1 DEF Poll, FilesOK, ActorOK
  <2>4. CASE Publish
    BY <2>4, <2>0 DEF Publish, ActorOK
  <2>5. CASE ActorHeartbeat
    <3>1. hb' \in Heartbeat  BY <2>5 DEF ActorHeartbeat, FilesOK, Heartbeat
    <3> QED BY <2>5, <2>0, <3>1 DEF ActorHeartbeat, ActorOK, actorVars
  <2>6. CASE ControlFails
    BY <2>6, <2>0, CloseType DEF ControlFails, FilesOK, ActorOK
  <2>7. CASE ActorExit
    <3>1. gate' \in Gate  BY <2>7, CloseType DEF ActorExit, ActorOK
    <3>2. hb' \in Heartbeat
      BY <2>7, <3>1, DetailsType DEF ActorExit, HeartbeatKinds, NoToken
    <3> QED BY <2>7, <2>0, <3>1, <3>2, ActorEndsType DEF ActorExit, ActorOK, Control
  <2>8. CASE ActorKilled \/ ActorCrash
    BY <2>8, <2>0, ActorEndsType
    DEF ActorKilled, ActorCrash, FilesOK, ActorOK, Control, files
  <2> QED BY <2>1, <2>2, <2>3, <2>4, <2>5, <2>6, <2>7, <2>8 DEF ActorNext
<1> QED BY <1>2, <1>3

-----------------------------------------------------------------------------
(* The coordinator: the pieces its actions share                             *)

LEMMA AckType ==
    ASSUME NEW l \in Lease, NEW state \in AckStates
    PROVE  Ack(l, state) \in Acknowledgement
BY DEF Ack, Acknowledgement, Lease

LEMMA ActorMoves ==
    ASSUME ActorOK, KeepActor \/ SignalActor \/ ReapActor \/ StartActor
    PROVE  ActorOK'
<1> USE DEF ActorOK, ActorPcs, Pids
<1>1. CASE KeepActor   BY <1>1 DEF KeepActor, actorVars
<1>2. CASE SignalActor BY <1>2 DEF SignalActor, ActorLive
<1>3. CASE ReapActor   BY <1>3 DEF ReapActor
<1>4. CASE StartActor
  <2>0. aPid' \in Nat  BY <1>4 DEF StartActor
  <2>1. aPc' \in ActorPcs /\ aStop' \in BOOLEAN /\ aKids' \in BOOLEAN
    BY <1>4 DEF StartActor
  <2>2. gate' \in Gate /\ busy' \in BOOLEAN  BY <1>4 DEF StartActor, OpenGate, Gate
  <2>3. coh' \in [Cohorts -> {"run", "parked", "done"}]  BY <1>4 DEF StartActor
  <2>4. aStep' \in {"read", "poll", "publish", "join"}  BY <1>4 DEF StartActor
  <2>5. aAck' \in Acknowledgement
    BY <1>4 DEF StartActor, NoAck, Acknowledgement, AckStates
  <2>6. aDet' \in Heartbeat
    BY <1>4 DEF StartActor, NoHeartbeat, Heartbeat, HeartbeatKinds
  <2> QED BY <2>0, <2>1, <2>2, <2>3, <2>4, <2>5, <2>6
<1> QED BY <1>1, <1>2, <1>3, <1>4

LEMMA OwnerMoves ==
    ASSUME OwnerOK, KeepOwner \/ SignalOwner \/ ReapOwner \/ StartOwner,
           UNCHANGED <<lastTok, open>>
    PROVE  OwnerOK'
<1> USE DEF OwnerOK, OwnerPcs, Pids, NoToken
<1>1. CASE KeepOwner   BY <1>1 DEF KeepOwner
<1>2. CASE SignalOwner BY <1>2 DEF SignalOwner, OwnerLive
<1>3. CASE ReapOwner   BY <1>3 DEF ReapOwner
<1>4. CASE StartOwner
  <2>1. oPid' \in Nat  BY <1>4 DEF StartOwner
  <2>2. oPc' \in OwnerPcs /\ oTok' \in Nat /\ oStop' \in BOOLEAN /\ oKids' \in BOOLEAN
    BY <1>4 DEF StartOwner
  <2> QED BY <2>1, <2>2
<1> QED BY <1>1, <1>2, <1>3, <1>4

LEMMA NextEntryType ==
    ASSUME NEW e \in Entries, NEW event PROVE NextEntry(e, event) \in Entries
BY DEF NextEntry, Entries

LEMMA JournalType ==
    ASSUME BooksOK, NEW event, NEW t, Journal(event, t) PROVE BooksOK'
<1>1. releases' \in [Tokens -> Nat]
  <2>1. \/ releases' = releases
        \/ releases' = [releases EXCEPT ![t] = @ + 1]
    BY Zenon DEF Journal
  <2> QED BY <2>1 DEF BooksOK
<1>2. readies' \in [Tokens -> Nat]
  <2>1. \/ readies' = readies
        \/ readies' = [readies EXCEPT ![t] = @ + 1]
    BY Zenon DEF Journal
  <2> QED BY <2>1 DEF BooksOK
<1>3. entry' \in [Tokens -> Entries]
  <2>1. \A u \in Tokens : entry[u] \in Entries  BY DEF BooksOK
  <2>2. \A u \in Tokens : NextEntry(entry[u], event) \in Entries
    BY <2>1, NextEntryType
  <2>3. entry' = [entry EXCEPT ![t] = NextEntry(@, event)]  BY Zenon DEF Journal
  <2> QED BY <2>1, <2>2, <2>3 DEF BooksOK
<1> QED BY <1>1, <1>2, <1>3 DEF BooksOK

LEMMA NoDebtType == NoAck \in Acknowledgement /\ NoDebt \in Debt
BY DEF NoDebt, Debt, NoAck, Acknowledgement, AckStates, Events, Pids, NoToken

LEMMA OweTypes ==
    /\ OweNothing => owed' \in Debt
    /\ \A event \in Events, t \in Nat : OweEvent(event, t) => owed' \in Debt
    /\ \A a \in Acknowledgement : OweAck(a) => owed' \in Debt
BY NoDebtType DEF OweNothing, OweEvent, OweAck, Debt

LEMMA RecordType ==
    ASSUME BooksOK, NEW l \in Lease, RecordRelease(l) PROVE BooksOK'
BY JournalType DEF RecordRelease, BooksOK, books

LEMMA FailType ==
    ASSUME NEW l \in Lease, FailLease(l)
    PROVE  lease' \in Lease /\ ack' \in Acknowledgement /\ pauseFailed' \in BOOLEAN
BY AckType DEF FailLease, Lease, AckStates

LEMMA MarkType ==
    ASSUME FilesOK, NEW l \in Lease, MarkReady(l)
    PROVE  lease' \in Lease /\ ack' \in Acknowledgement /\ owed' \in Debt
<1>1. CASE l.state = "ready" \/ l.release
  BY <1>1, OweTypes DEF MarkReady, FilesOK
<1>2. CASE l.state # "ready" /\ ~l.release
  <2>1. lease' \in Lease  BY <1>2 DEF MarkReady, Lease, LeaseStates
  <2>2. ack' \in Acknowledgement  BY <1>2, AckType DEF MarkReady, AckStates
  <2>3. owed' \in Debt  BY <1>2, OweTypes DEF MarkReady, Lease, Events
  <2> QED BY <2>1, <2>2, <2>3
<1> QED BY <1>1, <1>2

LEMMA NoLeaseType == NoLease \in Lease
BY DEF NoLease, Lease, LeaseStates, Pids

LEMMA RecordAckType ==
    ASSUME BooksOK, NEW l \in Lease, NEW state \in AckStates,
           NEW ackNow \in Acknowledgement, RecordThenAck(l, state, ackNow)
    PROVE  BooksOK' /\ ack' \in Acknowledgement /\ owed' \in Debt
BY AckType, OweTypes, RecordType DEF RecordThenAck

LEMMA BooksKept == ASSUME BooksOK, UNCHANGED books PROVE BooksOK'
BY DEF BooksOK, books

(* What the end of a lease may leave behind.                                 *)
Outcomes ==
    /\ lease' \in Lease /\ tState' \in TargetStates
    /\ ack' \in Acknowledgement /\ pauseFailed' \in BOOLEAN
    /\ owed' \in Debt

LEMMA ConfirmType ==
    ASSUME NEW l \in Lease, NEW ts \in TargetStates, NEW failed \in BOOLEAN,
           NEW ackNow \in Acknowledgement, ConfirmResume(l, ts, ackNow, failed),
           owed' \in Debt
    PROVE  Outcomes
BY NoLeaseType, FailType DEF ConfirmResume, Outcomes, TargetStates

LEMMA OutcomeType == ASSUME NEW l \in Lease PROVE Outcome(l) \in AckStates
BY DEF Outcome, AckStates

LEMMA CollectType ==
    ASSUME ActorOK, NEW reap, Collect(reap) PROVE ActorOK'
BY ActorMoves DEF Collect

(* The end of a release keeps everything well-formed, whichever way it goes. *)
LEMMA FinishType ==
    ASSUME ActorOK, BooksOK, NEW l \in Lease, NEW ts \in TargetStates, NEW reap,
           NEW ackNow \in Acknowledgement, NEW failed \in BOOLEAN,
           FinishRelease(l, ts, reap, ackNow, failed)
    PROVE  Outcomes /\ ActorOK' /\ BooksOK'
<1>1. CASE l.state = "resuming" /\ l.reaped /\ draining
  BY <1>1, BooksKept, NoLeaseType, AckType, OweTypes, CollectType
  DEF FinishRelease, Outcomes, TargetStates, AckStates
<1>2. CASE l.state = "resuming" /\ ~(l.reaped /\ draining)
  BY <1>2, BooksKept, OweTypes, ConfirmType, CollectType DEF FinishRelease
<1>3. CASE l.state # "resuming" /\ HoldRelease(l, ts, reap, ackNow, failed)
  BY <1>3, BooksKept, OweTypes, CollectType DEF HoldRelease, Outcomes
<1>4. CASE l.state # "resuming" /\ ResumeTarget(l, ackNow, failed)
  <2>1. lease' \in Lease  BY <1>4 DEF ResumeTarget, Lease, LeaseStates
  <2>2. ActorOK' /\ tState' \in TargetStates
    BY <1>4, ActorMoves DEF ResumeTarget, TargetStates
  <2>3. BooksOK' /\ ack' \in Acknowledgement /\ owed' \in Debt
    BY <1>4, OutcomeType, RecordAckType DEF ResumeTarget
  <2> QED BY <1>4, <2>1, <2>2, <2>3 DEF ResumeTarget, Outcomes
<1>5. CASE l.state # "resuming" /\ DrainTarget(l, reap, ackNow, failed)
  <2>1. BooksOK' /\ ack' \in Acknowledgement /\ owed' \in Debt
    BY <1>5, RecordAckType DEF DrainTarget, AckStates
  <2> QED BY <1>5, <2>1, NoLeaseType, CollectType
      DEF DrainTarget, Outcomes, TargetStates
<1>6. CASE l.state # "resuming" /\ RestartTarget(l, reap, ackNow, failed)
  <2>1. CASE RecordThenAck(l, Outcome(l), ackNow) /\ StartActor
             /\ lease' = NoLease /\ tState' = "running" /\ pauseFailed' = failed
    BY <2>1, NoLeaseType, OutcomeType, RecordAckType, ActorMoves
    DEF Outcomes, TargetStates
  <2>2. CASE FailLease(l) /\ tState' = "exhausted" /\ Collect(reap)
             /\ OweNothing /\ UNCHANGED books
    BY <2>2, BooksKept, OweTypes, FailType, CollectType
    DEF Outcomes, TargetStates
  <2> QED BY <1>6, <2>1, <2>2 DEF RestartTarget
<1> QED BY <1>1, <1>2, <1>3, <1>4, <1>5, <1>6 DEF FinishRelease

OwnerAfter == KeepOwner \/ SignalOwner \/ ReapOwner

LEMMA OwnerExitedType ==
    ASSUME TypeOK, NEW l \in Lease, OwnerExited(l)
    PROVE  /\ Outcomes /\ ActorOK' /\ BooksOK'
           /\ oState' \in OwnerStates /\ OwnerAfter
<1> DEFINE gone == [l EXCEPT !.ownerReaped = TRUE, !.ownerStop = TRUE,
                            !.release = TRUE, !.failed = TRUE]
<1>1. gone \in Lease  BY DEF Lease
<1>2. Ack(gone, "failed") \in Acknowledgement  BY <1>1, AckType DEF AckStates
<1>3. oState' \in OwnerStates /\ OwnerAfter
  BY DEF OwnerExited, OwnerBacksOff, OwnerGivenUp, OwnerStates, OwnerAfter
<1>4. /\ ActorOK /\ BooksOK /\ ack \in Acknowledgement /\ pauseFailed \in BOOLEAN
      /\ tState \in TargetStates
  BY DEF TypeOK, FilesOK, CoordOK
<1>5. \/ FinishRelease(gone, tState, FALSE, ack, pauseFailed)
      \/ FinishRelease(gone, tState, FALSE, Ack(gone, "failed"), TRUE)
  BY DEF OwnerExited
<1> QED BY <1>1, <1>2, <1>3, <1>4, <1>5, FinishType

LEMMA RecoverType ==
    ASSUME TypeOK, NEW l \in Lease, RecoverOwner(l)
    PROVE  /\ Outcomes /\ ActorOK' /\ BooksOK'
           /\ oState' \in OwnerStates /\ OwnerAfter
<1> DEFINE stopping == [l EXCEPT !.release = TRUE, !.ownerStop = TRUE, !.failed = TRUE]
           gone == [stopping EXCEPT !.ownerReaped = TRUE]
<1>1. stopping \in Lease  BY DEF Lease
<1>2. gone \in Lease  BY <1>1 DEF Lease
<1>3. /\ ActorOK /\ BooksOK /\ ack \in Acknowledgement /\ pauseFailed \in BOOLEAN
      /\ tState \in TargetStates /\ oState \in OwnerStates /\ owed \in Debt
  BY DEF TypeOK, FilesOK, CoordOK
<1>6. CASE KeepActor /\ UNCHANGED <<ack, owed, tState, pauseFailed, books>>
           /\ lease' \in {l, stopping}
           /\ (oState' = oState \/ oState' = "lease_terminating")
           /\ (KeepOwner \/ SignalOwner)
  BY <1>1, <1>3, <1>6, BooksKept, ActorMoves DEF Outcomes, OwnerStates, OwnerAfter
<1>7. CASE OwnerExited(stopping)
  BY <1>1, <1>7, OwnerExitedType
<1>8. CASE FinishRelease(gone, tState, FALSE, ack, pauseFailed)
           /\ KeepOwner /\ UNCHANGED oState
  BY <1>2, <1>3, <1>8, FinishType DEF OwnerAfter
<1> QED BY <1>6, <1>7, <1>8 DEF RecoverOwner

-----------------------------------------------------------------------------
(* The coordinator: its loop                                                 *)

(* What a reconciliation or a monitor step does to the lease, the workers    *)
(* and the books; the rest of its effect is on the loop's own flags.         *)
StepOK ==
    /\ Outcomes /\ ActorOK' /\ BooksOK' /\ oState' \in OwnerStates
    /\ KeepOwner \/ SignalOwner \/ ReapOwner \/ StartOwner
LoopOK ==
    /\ CoordFrame /\ cPc' \in CoordPcs /\ cReq' = cReq
    /\ draining' \in BOOLEAN /\ exiting' \in BOOLEAN
    /\ run' \in Nat /\ crashes' \in Nat

LEMMA StepType == ASSUME TypeOK, StepOK, LoopOK PROVE TypeOK'
<1>1. OwnerOK'  BY OwnerMoves DEF TypeOK, StepOK, LoopOK, CoordFrame
<1>2. FilesOK'
  BY DEF TypeOK, FilesOK, StepOK, Outcomes, LoopOK, CoordFrame
<1>3. CoordOK'
  BY DEF TypeOK, CoordOK, StepOK, Outcomes, LoopOK
<1> QED BY <1>1, <1>2, <1>3 DEF TypeOK, StepOK, LoopOK, BudgetsOK

LEMMA ParsedType == ASSUME TypeOK PROVE Parsed \in Lease
BY DEF TypeOK, CoordOK, Parsed, NoLease, Lease, LeaseStates, Request, Pids

(* Facts about the current state that every step needs.                      *)
LEMMA Parts ==
    ASSUME TypeOK
    PROVE  /\ FilesOK /\ ActorOK /\ OwnerOK /\ CoordOK /\ BooksOK
           /\ lease \in Lease /\ ack \in Acknowledgement /\ owed \in Debt
           /\ tState \in TargetStates /\ oState \in OwnerStates
           /\ pauseFailed \in BOOLEAN /\ draining \in BOOLEAN
           /\ exiting \in BOOLEAN /\ run \in Nat /\ crashes \in Nat
BY DEF TypeOK, FilesOK, CoordOK, BudgetsOK

LEMMA ActorKept == ASSUME ActorOK, KeepActor PROVE ActorOK'
BY ActorMoves

LEMMA WorkersKept ==
    ASSUME TypeOK, KeepWorkers
    PROVE  /\ ActorOK' /\ KeepOwner
           /\ tState' \in TargetStates /\ oState' \in OwnerStates
BY ActorKept, Parts DEF KeepWorkers

LEMMA ReconcileTypes == ASSUME TypeOK, CoordReconcile PROVE StepOK /\ LoopOK
<1>0. Parsed \in Lease  BY ParsedType
<1>p. /\ FilesOK /\ ActorOK /\ BooksOK /\ lease \in Lease /\ ack \in Acknowledgement
      /\ owed \in Debt /\ tState \in TargetStates /\ oState \in OwnerStates /\ pauseFailed \in BOOLEAN
  BY Parts
<1>1. LoopOK
  <2>1. Reconcile
    BY DEF CoordReconcile, NothingAsked, RejectRequest, SettleUnadmitted, Admit,
           AdmitSuspend, AdmitTerminate, AdmitAbsent, ReconcileResuming,
           ReconcileLost, ReconcileRelease, ReconcileObserve, ReconcileWait,
           InProgress, Healthy
  <2> QED BY <2>1, Parts DEF LoopOK, Reconcile, KeepLoop, CoordPcs
<1> SUFFICES StepOK  BY <1>1
<1> USE <1>p DEF StepOK
<1>2. CASE NothingAsked \/ ReconcileWait
  BY <1>2, WorkersKept, BooksKept DEF NothingAsked, ReconcileWait, Outcomes
<1>3. CASE RejectRequest
  <2>1. BooksOK'  BY <1>3, JournalType DEF RejectRequest
  <2>2. owed' \in Debt  BY <1>0, <1>3, AckType, OweTypes DEF RejectRequest, AckStates
  <2> QED BY <1>3, <2>1, <2>2, WorkersKept DEF RejectRequest, Outcomes
<1>4. CASE SettleUnadmitted
  <2>1. BooksOK' /\ ack' \in Acknowledgement /\ owed' \in Debt
    BY <1>0, <1>4, RecordAckType DEF SettleUnadmitted, AckStates
  <2> QED BY <1>4, <2>1, WorkersKept DEF SettleUnadmitted, Outcomes
<1>5. CASE AdmitSuspend
  <2>1. lease' \in Lease
    BY <1>0, <1>5 DEF AdmitSuspend, Lease, LeaseStates, ActorOK
  <2> QED BY <1>5, <2>1, AckType, WorkersKept, BooksKept
      DEF AdmitSuspend, Outcomes, AckStates
<1>6. CASE AdmitTerminate
  <2>1. lease' \in Lease  BY <1>0, <1>6 DEF AdmitTerminate, Lease, LeaseStates
  <2> QED BY <1>6, <2>1, ActorMoves, BooksKept
      DEF AdmitTerminate, Outcomes, TargetStates
<1>7. CASE AdmitAbsent
  <2>1. [Parsed EXCEPT !.reaped = TRUE] \in Lease  BY <1>0 DEF Lease
  <2>2. CASE tState' = "paused" /\ ReapActor
             /\ MarkReady([Parsed EXCEPT !.reaped = TRUE])
             /\ UNCHANGED pauseFailed
    BY <1>7, <2>1, <2>2, MarkType, ActorMoves, BooksKept
    DEF AdmitAbsent, Outcomes, TargetStates
  <2>3. CASE FailLease(Parsed) /\ KeepActor /\ UNCHANGED <<owed, tState>>
    BY <1>0, <1>7, <2>3, FailType, ActorKept, BooksKept DEF AdmitAbsent, Outcomes
  <2> QED BY <1>7, <2>2, <2>3 DEF AdmitAbsent
<1>8. CASE ReconcileResuming
  BY <1>8, ConfirmType, ActorKept, BooksKept DEF ReconcileResuming
<1>9. CASE ReconcileLost
  BY <1>9, RecoverType DEF ReconcileLost, OwnerAfter
<1>10. CASE ReconcileRelease
  <2> DEFINE l == [lease EXCEPT !.release = TRUE,
                     !.failed = IF lease.release THEN @
                                ELSE cReq.state = "cancelled"]
  <2>1. l \in Lease  BY DEF Lease
  <2>2. FinishRelease(l, tState, FALSE, ack, pauseFailed)  BY <1>10 DEF ReconcileRelease
  <2> QED BY <1>10, <2>1, <2>2, FinishType DEF ReconcileRelease
<1>11. CASE ReconcileObserve
  <2>1. CASE /\ tState' = "pause_suspended"
             /\ MarkReady([lease EXCEPT !.suspended = TRUE])
             /\ KeepActor /\ KeepOwner /\ UNCHANGED <<oState, pauseFailed, books>>
    <3>1. [lease EXCEPT !.suspended = TRUE] \in Lease  BY DEF Lease
    <3> QED BY <2>1, <3>1, MarkType, BooksKept, ActorKept DEF Outcomes, TargetStates
  <2>2. CASE RecoverOwner(lease)  BY <2>2, RecoverType DEF OwnerAfter
  <2>3. CASE /\ UNCHANGED <<lease, ack, pauseFailed>> \/ FailLease(lease)
             /\ KeepWorkers /\ UNCHANGED <<owed, books>>
    BY <2>3, FailType, WorkersKept, BooksKept DEF Outcomes
  <2> QED BY <1>11, <2>1, <2>2, <2>3 DEF ReconcileObserve
<1> QED BY <1>2, <1>3, <1>4, <1>5, <1>6, <1>7, <1>8, <1>9, <1>10, <1>11
        DEF CoordReconcile

(* The monitor step of the actor.                                            *)
LEMMA TargetTypes ==
    ASSUME TypeOK,
           \/ TargetUnhealthy \/ TargetExited \/ TargetExitedOtherwise
           \/ TargetHardKill \/ TargetUnkillable \/ TargetRestart \/ TargetFine
    PROVE  StepOK /\ LoopOK
<1>p. /\ FilesOK /\ ActorOK /\ BooksOK /\ lease \in Lease /\ ack \in Acknowledgement
      /\ owed \in Debt /\ tState \in TargetStates /\ oState \in OwnerStates /\ pauseFailed \in BOOLEAN
  BY Parts
<1>1. LoopOK
  <2>1. MonitorTarget
    BY DEF TargetUnhealthy, TargetExited, TargetExitedOtherwise, TargetHardKill,
           TargetUnkillable, TargetRestart, TargetFine
  <2>2. exiting' \in BOOLEAN
    BY Parts DEF TargetUnhealthy, TargetExited, TargetExitedOtherwise,
       TargetHardKill, TargetUnkillable, TargetRestart, TargetFine
  <2> QED BY <2>1, <2>2, Parts DEF LoopOK, MonitorTarget, CoordPcs, budgets
<1> SUFFICES StepOK  BY <1>1
<1> USE <1>p DEF StepOK
<1>2. CASE TargetUnhealthy
  BY <1>2, ActorMoves, BooksKept
  DEF TargetUnhealthy, KeepLease, Outcomes, TargetStates
<1>3. CASE TargetExited
  <2> DEFINE l == [lease EXCEPT !.suspended = FALSE]
             gone == [l EXCEPT !.reaped = TRUE]
  <2>1. l \in Lease  BY DEF Lease
  <2>2. gone \in Lease  BY <2>1 DEF Lease
  <2>3. KeepOwner /\ UNCHANGED oState  BY <1>3 DEF TargetExited
  <2>4. "paused" \in TargetStates  BY DEF TargetStates
  <2> HIDE DEF l, gone
  <2>5. CASE FailLease(l) /\ KeepActor /\ UNCHANGED <<tState, owed, books>>
    BY <2>1, <2>3, <2>5, FailType, ActorKept, BooksKept DEF Outcomes
  <2>6. CASE FailLease(gone) /\ tState' = "paused" /\ ReapActor
             /\ UNCHANGED <<owed, books>>
    BY <2>2, <2>3, <2>4, <2>6, FailType, ActorMoves, BooksKept DEF Outcomes
  <2>7. CASE FinishRelease(gone, "paused", TRUE, ack, pauseFailed)
    BY <2>2, <2>3, <2>4, <2>7, FinishType
  <2>8. CASE MarkReady(gone) /\ tState' = "paused" /\ ReapActor
             /\ UNCHANGED <<pauseFailed, books>>
    BY <2>2, <2>3, <2>4, <2>8, MarkType, BooksKept, ActorMoves DEF Outcomes
  <2> QED BY <1>3, <2>5, <2>6, <2>7, <2>8 DEF TargetExited, l, gone
<1>4. CASE TargetExitedOtherwise
  BY <1>4, ActorMoves, BooksKept
  DEF TargetExitedOtherwise, KeepLease, Outcomes, TargetStates
<1>5. CASE TargetHardKill
  BY <1>5, ActorKept, BooksKept
  DEF TargetHardKill, KeepLease, Outcomes, TargetStates
<1>6. CASE TargetUnkillable
  BY <1>6, ActorKept, BooksKept, FailType
  DEF TargetUnkillable, Outcomes, TargetStates
<1>7. CASE TargetRestart
  BY <1>7, ActorMoves, BooksKept
  DEF TargetRestart, KeepLease, Outcomes, TargetStates
<1>8. CASE TargetFine
  BY <1>8, WorkersKept, BooksKept DEF TargetFine, KeepLease, Outcomes
<1> QED BY <1>2, <1>3, <1>4, <1>5, <1>6, <1>7, <1>8

(* The monitor step of the arena.                                            *)
LEMMA OwnerMonitorTypes ==
    ASSUME TypeOK,
           \/ OwnerUnhealthy \/ OwnerExitedInLease \/ OwnerExitedOtherwise
           \/ OwnerHardKill \/ OwnerUnkillable \/ OwnerRestart \/ OwnerFine
    PROVE  StepOK /\ LoopOK
<1>p. /\ FilesOK /\ ActorOK /\ BooksOK /\ lease \in Lease /\ ack \in Acknowledgement
      /\ owed \in Debt /\ tState \in TargetStates /\ oState \in OwnerStates /\ pauseFailed \in BOOLEAN
  BY Parts
<1>1. LoopOK
  <2>1. MonitorOwner /\ EndCycle
    BY DEF OwnerUnhealthy, OwnerExitedInLease, OwnerExitedOtherwise,
           OwnerHardKill, OwnerUnkillable, OwnerRestart, OwnerFine
  <2>2. exiting' \in BOOLEAN
    BY Parts DEF OwnerUnhealthy, OwnerExitedInLease, OwnerExitedOtherwise,
       OwnerHardKill, OwnerUnkillable, OwnerRestart, OwnerFine
  <2> QED BY <2>1, <2>2, Parts
      DEF LoopOK, MonitorOwner, EndCycle, CoordPcs, budgets
<1> SUFFICES StepOK  BY <1>1
<1> USE <1>p DEF StepOK
<1>2. CASE OwnerUnhealthy
  <2>1. CASE RecoverOwner(lease)  BY <2>1, RecoverType DEF OwnerAfter
  <2>2. CASE oState' = "terminating" /\ SignalOwner
             /\ KeepActor /\ KeepLease /\ UNCHANGED tState
    BY <2>2, ActorKept, BooksKept DEF KeepLease, Outcomes, OwnerStates
  <2> QED BY <1>2, <2>1, <2>2 DEF OwnerUnhealthy
<1>3. CASE OwnerExitedInLease
  BY <1>3, OwnerExitedType DEF OwnerExitedInLease, OwnerAfter
<1>4. CASE OwnerExitedOtherwise
  BY <1>4, ActorKept, BooksKept
  DEF OwnerExitedOtherwise, OwnerBacksOff, OwnerGivenUp, KeepLease, Outcomes, OwnerStates
<1>5. CASE OwnerHardKill
  BY <1>5, ActorKept, BooksKept DEF OwnerHardKill, KeepLease, Outcomes, OwnerStates
<1>6. CASE OwnerUnkillable
  BY <1>6, ActorKept, BooksKept, FailType DEF OwnerUnkillable, Outcomes, OwnerStates
<1>7. CASE OwnerRestart
  BY <1>7, ActorKept, BooksKept DEF OwnerRestart, KeepLease, Outcomes, OwnerStates
<1>8. CASE OwnerFine
  BY <1>8, WorkersKept, BooksKept DEF OwnerFine, KeepLease, Outcomes
<1> QED BY <1>2, <1>3, <1>4, <1>5, <1>6, <1>7, <1>8

(* The drain, the shutdown, and what follows a crash of the machine.         *)
LEMMA ShutdownTypes ==
    ASSUME TypeOK,
           \/ BeginDrain \/ EndLoop \/ StopAll \/ StopKill \/ StopReap
           \/ HostCrash \/ CoordStart \/ CoordRead
    PROVE  TypeOK'
<1>p. /\ FilesOK /\ ActorOK /\ OwnerOK /\ CoordOK /\ BooksOK /\ BudgetsOK
      /\ lease \in Lease /\ ack \in Acknowledgement
      /\ owed \in Debt /\ tState \in TargetStates /\ oState \in OwnerStates /\ pauseFailed \in BOOLEAN
  BY Parts DEF TypeOK
<1> USE <1>p
<1>1. CASE CoordRead \/ EndLoop
  BY <1>1 DEF CoordRead, EndLoop, TypeOK, FilesOK, ActorOK, OwnerOK, CoordOK,
              BooksOK, BudgetsOK, files, actorVars, ownerVars, books, budgets, CoordPcs
<1>2. CASE BeginDrain
  <2>1. lease' \in Lease  BY <1>2 DEF BeginDrain, Lease
  <2>2. tState' \in TargetStates  BY <1>2 DEF BeginDrain, TargetStates
  <2>3. ActorOK'  BY <1>2, ActorMoves DEF BeginDrain
  <2>4. StepOK /\ LoopOK
    BY <1>2, <2>1, <2>2, <2>3, BooksKept
    DEF BeginDrain, StepOK, Outcomes, LoopOK, budgets, CoordOK, BudgetsOK
  <2> QED BY <2>4, StepType
<1>3. CASE StopAll
  <2>1. ack' \in Acknowledgement  BY <1>3, AckType DEF StopAll, AckStates
  <2>2. StepOK /\ LoopOK
    BY <1>3, <2>1, ActorMoves, BooksKept
    DEF StopAll, KeepFlags, StepOK, Outcomes, LoopOK, budgets, CoordOK,
        BudgetsOK, TargetStates, OwnerStates, CoordPcs
  <2> QED BY <2>2, StepType
<1>4. CASE StopKill
  <2>1. StepOK /\ LoopOK
    BY <1>4, ActorKept, BooksKept
    DEF StopKill, KeepFlags, StepOK, Outcomes, LoopOK, budgets, CoordOK,
        BudgetsOK, TargetStates, OwnerStates, CoordPcs
  <2> QED BY <2>1, StepType
<1>5. CASE StopReap
  <2>1. ActorOK'  BY <1>5, ActorMoves DEF StopReap
  <2>2. lease' \in Lease  BY <1>5, NoLeaseType DEF StopReap
  <2>3. BooksOK'  BY <1>5, JournalType, BooksKept DEF StopReap
  <2>5. owed' \in Debt
    BY <1>5, OweTypes DEF StopReap, FilesOK, Request, Events
  <2>4. StepOK /\ LoopOK
    BY <1>5, <2>1, <2>2, <2>3, <2>5
    DEF StopReap, KeepFlags, StepOK, Outcomes, LoopOK, budgets, CoordOK,
        BudgetsOK, TargetStates, OwnerStates, CoordPcs
  <2> QED BY <2>4, StepType
<1>6. CASE HostCrash
  <2>1. FilesOK' /\ BooksOK'
    BY <1>6 DEF HostCrash, FilesOK, BooksOK, files, books
  <2>2. BudgetsOK'  BY <1>6 DEF HostCrash, BudgetsOK
  <2>3. ActorOK' /\ OwnerOK' /\ CoordOK'
    BY <1>6, OweTypes
    DEF HostCrash, ActorOK, OwnerOK, CoordOK, CoordPcs, ActorPcs, OwnerPcs
  <2> QED BY <2>1, <2>2, <2>3 DEF TypeOK
<1>7. CASE CoordStart
  <2>1. ActorOK'  BY <1>7, ActorMoves DEF CoordStart
  <2>2. OwnerOK'  BY <1>7, OwnerMoves DEF CoordStart
  <2>3. NoRequest \in Request
    BY DEF NoRequest, Request, RequestStates, Pids
  <2>4. CoordOK'
    BY <1>7, <2>3, NoLeaseType
    DEF CoordStart, CoordOK, CoordPcs, TargetStates, OwnerStates
  <2> QED BY <1>7, <2>1, <2>2, <2>4, BooksKept
      DEF CoordStart, TypeOK, FilesOK, files, BudgetsOK
<1> QED BY <1>1, <1>2, <1>3, <1>4, <1>5, <1>6, <1>7

(* The second write of a step.                                               *)
LEMMA WriteTypes == ASSUME TypeOK, WriteEvent \/ WriteAck PROVE StepOK /\ LoopOK
<1>p. /\ ActorOK /\ BooksOK /\ CoordOK /\ lease \in Lease /\ ack \in Acknowledgement
      /\ owed \in Debt /\ tState \in TargetStates /\ oState \in OwnerStates
      /\ pauseFailed \in BOOLEAN /\ run \in Nat /\ crashes \in Nat
  BY Parts
<1>1. LoopOK
  BY <1>p DEF WriteEvent, WriteAck, KeepThread, KeepLoop, LoopOK, CoordOK
<1>2. BooksOK'  BY <1>p, JournalType, BooksKept DEF WriteEvent, WriteAck
<1>3. ActorOK'
  BY <1>p, ActorMoves DEF WriteEvent, WriteAck, KeepWorkers
<1>4. ack' \in Acknowledgement  BY <1>p DEF WriteEvent, WriteAck, Debt
<1>5. tState' \in TargetStates
  BY <1>p DEF WriteEvent, WriteAck, KeepWorkers, TargetStates
<1>6. owed' \in Debt  BY OweTypes DEF WriteEvent, WriteAck
<1>7. KeepOwner  BY DEF WriteEvent, WriteAck, KeepWorkers
<1>8. lease' = lease /\ pauseFailed' = pauseFailed /\ oState' = oState
  BY DEF WriteEvent, WriteAck, KeepThread
<1> QED BY <1>p, <1>1, <1>2, <1>3, <1>4, <1>5, <1>6, <1>7, <1>8 DEF StepOK, Outcomes

(* The environment only delays the files or takes the request away.          *)
LEMMA EnvironmentTypes == ASSUME TypeOK, GoStale \/ RequestVanishes PROVE TypeOK'
<1>1. UNCHANGED <<actorVars, ownerVars, coordVars, books, budgets>>
  BY DEF GoStale, RequestVanishes
<1>2. NoRequest \in Request  BY DEF NoRequest, Request, RequestStates, Pids
<1>3. FilesOK'
  BY <1>2 DEF GoStale, RequestVanishes, TypeOK, FilesOK, Request,
              Acknowledgement, Heartbeat
<1> QED BY <1>1, <1>3 DEF TypeOK, ActorOK, OwnerOK, CoordOK, BooksOK, BudgetsOK,
           actorVars, ownerVars, coordVars, books, budgets

LEMMA InitTypes == Init => TypeOK
<1> SUFFICES ASSUME Init PROVE TypeOK  OBVIOUS
<1> USE DEF Init
<1>1. FilesOK
  BY DEF FilesOK, NoRequest, Request, RequestStates, NoAck, Acknowledgement,
         AckStates, NoHeartbeat, Heartbeat, HeartbeatKinds, Pids
<1>2. ActorOK
  BY DEF ActorOK, ActorPcs, OpenGate, Gate, NoAck, Acknowledgement, AckStates,
         NoHeartbeat, Heartbeat, HeartbeatKinds, Pids
<1>3. OwnerOK  BY DEF OwnerOK, OwnerPcs, NoToken, NoOpen, Open, Pids
<1>4. CoordOK
  BY NoLeaseType, NoDebtType DEF CoordOK, CoordPcs, NoRequest, Request, RequestStates,
     TargetStates, OwnerStates, Pids
<1>5. BooksOK /\ BudgetsOK  BY DEF BooksOK, Entries, BudgetsOK
<1> QED BY <1>1, <1>2, <1>3, <1>4, <1>5 DEF TypeOK

LEMMA NextTypes == TypeOK /\ [Next]_vars => TypeOK'
<1> SUFFICES ASSUME TypeOK, [Next]_vars PROVE TypeOK'  OBVIOUS
<1>1. CASE UNCHANGED vars
  BY <1>1 DEF vars, TypeOK, FilesOK, ActorOK, OwnerOK, CoordOK, BooksOK,
     BudgetsOK, files, actorVars, ownerVars, coordVars, books, budgets
<1>2. CASE CoordNext
  BY <1>2, ReconcileTypes, TargetTypes, OwnerMonitorTypes, ShutdownTypes, WriteTypes, StepType
  DEF CoordNext
<1> QED BY <1>1, <1>2, OwnerTypes, ActorTypes, EnvironmentTypes DEF Next

(* Whatever the processes, the files and the environment do, every variable  *)
(* of the protocol stays well-formed: every file that is written parses,     *)
(* every lease and worker state is one the coordinator's code knows.         *)
THEOREM TypeCorrect == Spec => []TypeOK
BY InitTypes, NextTypes, PTL DEF Spec

-----------------------------------------------------------------------------
(* A release acknowledgement never precedes its release event                *)

(* The token of every request the arena can write is one it has registered,  *)
(* and so is the token of the request in the file, of the request the        *)
(* coordinator has read and of the lease it holds; a lease marked as         *)
(* recorded has its event in the journal.                                    *)
Evented(l) ==
    /\ l.token \in Tokens
    /\ l.recorded => releases[l.token] > 0
    /\ l.state = "resuming" => l.recorded
AckEvented(a) ==
    a.state \in {"released", "recovered"} => a.token \in Tokens /\ releases[a.token] > 0

OwedTrue ==
    /\ owed.event \in {"none", "ready", "released"}
    /\ owed.event # "none" => owed.ack = NoAck /\ owed.token \in Tokens
    /\ owed.event = "ready" => lease.state = "ready" /\ lease.token = owed.token
    /\ owed.event = "released" => cPc = "down"
    /\ owed.ack # NoAck =>
         /\ owed.ack.token \in Tokens
         /\ owed.ack.state \in {"failed", "released", "recovered", "draining"}
         /\ owed.ack.state # "failed" => releases[owed.ack.token] > 0
OwedWhen ==
    owed # NoDebt => \/ cPc \in {"target", "owner", "read", "stop"}
                     \/ cPc = "down" /\ owed.event = "released"
OwnerTokens ==
    /\ lastTok \in 0..MaxLeases
    /\ oPc \in {"registered", "waitReady", "granted", "body"} => oTok \in Tokens
    /\ req.state # "none" => req.token \in Tokens
EventInv ==
    /\ TypeOK /\ OwnerTokens
    /\ cReq.state # "none" => cReq.token \in Tokens
    /\ Held => Evented(lease)
    /\ AckEvented(ack) /\ OwedTrue /\ OwedWhen

(* No step takes an event back.                                              *)
EventsKept == \A t \in Tokens : releases[t] > 0 => releases'[t] > 0
AckOnTime ==
    Acknowledges(ReleaseStates) =>
        ack'.token \in Tokens /\ releases[ack'.token] > 0
EventStep ==
    /\ EventsKept
    /\ Held' => Evented(lease)'
    /\ AckEvented(ack)' /\ OwedTrue'
    /\ ~ShutdownBegins => AckOnTime

LEMMA JournalCounts ==
    /\ \A t : Journal("released", t) =>
         releases' = [releases EXCEPT ![t] = @ + 1] /\ readies' = readies
    /\ \A t : Journal("ready", t) =>
         readies' = [readies EXCEPT ![t] = @ + 1] /\ releases' = releases
    /\ \A t : Journal("rejected", t) => releases' = releases /\ readies' = readies
    /\ \A event, t : Journal(event, t) =>
         entry' = [entry EXCEPT ![t] = NextEntry(@, event)]
BY Zenon DEF Journal

(* What is owed after a step: nothing, the ready event of the lease just     *)
(* granted, or an acknowledgement.                                           *)
LEMMA OwedFields ==
    /\ NoDebt.event = "none" /\ NoDebt.token = NoToken /\ NoDebt.ack = NoAck
    /\ NoAck.state = "none" /\ NoAck.token = NoToken /\ NoAck.tpid = 0
    /\ OweNothing => owed' = NoDebt
    /\ \A event, t : OweEvent(event, t) =>
         owed'.event = event /\ owed'.token = t /\ owed'.ack = NoAck
    /\ \A a : OweAck(a) =>
         owed'.event = "none" /\ owed'.token = NoToken /\ owed'.ack = a
BY DEF NoDebt, NoAck, NoToken, OweNothing, OweEvent, OweAck

LEMMA NothingOwed ==
    /\ owed = NoDebt => OwedTrue
    /\ owed' = NoDebt => OwedTrue'
BY OwedFields DEF OwedTrue

LEMMA AckKept ==
    ASSUME ack' = ack \/ ack'.state \notin ReleaseStates
    PROVE  AckOnTime
BY DEF AckOnTime, Acknowledges

LEMMA RecordEvents ==
    ASSUME BooksOK, NEW l, Evented(l), RecordRelease(l)
    PROVE  EventsKept /\ l.token \in Tokens /\ releases'[l.token] > 0
<1>1. CASE l.recorded
  BY <1>1 DEF RecordRelease, Evented, EventsKept, books
<1>2. CASE ~l.recorded
  <2>1. releases' = [releases EXCEPT ![l.token] = @ + 1]
    BY <1>2, JournalCounts DEF RecordRelease
  <2> QED BY <2>1 DEF BooksOK, Evented, EventsKept
<1> QED BY <1>1, <1>2

(* A release: its event first, then its acknowledgement is owed.             *)
LEMMA ReleaseEvents ==
    ASSUME BooksOK, NEW l \in Lease, Evented(l), NEW state, NEW ackNow,
           AckEvented(ackNow), ackNow = ack \/ ackNow.state = "failed",
           state \in ReleaseStates, RecordThenAck(l, state, ackNow)
    PROVE  /\ EventsKept /\ AckEvented(ack)' /\ OwedTrue' /\ AckOnTime
           /\ l.token \in Tokens /\ releases'[l.token] > 0
<1>1. EventsKept /\ l.token \in Tokens /\ releases'[l.token] > 0
  BY RecordEvents DEF RecordThenAck
<1>2. ack' = ackNow /\ owed'.ack = Ack(l, state) /\ owed'.event = "none"
  BY OwedFields DEF RecordThenAck
<1>3. AckEvented(ack)'  BY <1>1, <1>2 DEF AckEvented, EventsKept
<1>4. OwedTrue'  BY <1>1, <1>2 DEF OwedTrue, Ack, ReleaseStates
<1>5. AckOnTime  BY <1>2, AckKept DEF ReleaseStates
<1> QED BY <1>1, <1>3, <1>4, <1>5

LEMMA KeptEvents == UNCHANGED releases => EventsKept
BY DEF EventsKept

(* Failing a lease or giving its ready acknowledgement records no release    *)
(* and acknowledges none.                                                    *)
LEMMA FailEvents ==
    ASSUME NEW l \in Lease, Evented(l), FailLease(l), UNCHANGED releases,
           owed' = NoDebt
    PROVE  EventStep
<1>1. lease' = [l EXCEPT !.failed = TRUE] /\ ack'.state = "failed"
  BY DEF FailLease, Ack
<1>2. lease'.token = l.token /\ lease'.recorded = l.recorded /\ lease'.state = l.state
  BY <1>1 DEF Lease
<1>3. AckOnTime /\ OwedTrue'  BY <1>1, AckKept, NothingOwed DEF ReleaseStates
<1> QED BY <1>1, <1>2, <1>3, KeptEvents DEF EventStep, Evented, AckEvented

LEMMA MarkEvents ==
    ASSUME NEW l \in Lease, Evented(l), AckEvented(ack), MarkReady(l), UNCHANGED releases
    PROVE  EventStep
<1>1. CASE lease' = l /\ UNCHANGED ack /\ OweNothing
  <2>1. AckOnTime /\ OwedTrue'  BY <1>1, AckKept, NothingOwed DEF OweNothing
  <2> QED BY <1>1, <2>1, KeptEvents DEF EventStep, Evented, AckEvented
<1>2. CASE /\ lease' = [l EXCEPT !.state = "ready"] /\ ack' = Ack(l, "ready")
           /\ OweEvent("ready", l.token)
  <2>1. lease'.token = l.token /\ lease'.recorded = l.recorded /\ lease'.state = "ready"
    BY <1>2 DEF Lease
  <2>2. ack'.state = "ready"  BY <1>2 DEF Ack
  <2>3. OwedTrue'  BY <1>2, <2>1, OwedFields DEF OwedTrue, Evented
  <2>4. AckOnTime  BY <2>2, AckKept DEF ReleaseStates
  <2> QED BY <2>1, <2>2, <2>3, <2>4, KeptEvents DEF EventStep, Evented, AckEvented
<1> QED BY <1>1, <1>2 DEF MarkReady

LEMMA ConfirmEvents ==
    ASSUME NEW l \in Lease, NEW ts, NEW failed, NEW ackNow, Evented(l),
           AckEvented(ackNow), ackNow = ack \/ ackNow.state = "failed",
           ConfirmResume(l, ts, ackNow, failed), UNCHANGED releases, owed' = NoDebt
    PROVE  EventStep
<1>1. CASE FailLease(l)  BY <1>1, FailEvents
<1>2. CASE lease' \in {l, NoLease} /\ ack' = ackNow
  <2>1. AckOnTime /\ OwedTrue'  BY <1>2, AckKept, NothingOwed DEF ReleaseStates
  <2> QED BY <1>2, <2>1, KeptEvents DEF EventStep, Evented, AckEvented, Held, NoLease
<1> QED BY <1>1, <1>2 DEF ConfirmResume

LEMMA FinishEvents ==
    ASSUME BooksOK, NEW l \in Lease, NEW ts, NEW reap, NEW ackNow, NEW failed,
           Evented(l), AckEvented(ackNow), ackNow = ack \/ ackNow.state = "failed",
           FinishRelease(l, ts, reap, ackNow, failed)
    PROVE  EventStep
<1>0. NoLease.state = "none" /\ Outcome(l) \in ReleaseStates
  BY DEF NoLease, Outcome, ReleaseStates
<1>9. UNCHANGED books => UNCHANGED releases  BY DEF books
<1>1. CASE l.state = "resuming" /\ l.reaped /\ draining
  <2>1. /\ lease' = NoLease /\ ack' = Ack(l, "draining") /\ owed' = NoDebt
        /\ UNCHANGED releases
    BY <1>1, <1>9, OwedFields DEF FinishRelease
  <2>2. ack'.token = l.token /\ ack'.state = "draining"  BY <2>1 DEF Ack
  <2>3. l.token \in Tokens /\ releases[l.token] > 0  BY <1>1 DEF Evented
  <2> QED BY <1>0, <2>1, <2>2, <2>3, KeptEvents, NothingOwed
      DEF EventStep, AckEvented, AckOnTime, Held
<1>2. CASE l.state = "resuming" /\ ~(l.reaped /\ draining)
  <2>1. ConfirmResume(l, ts, ackNow, failed) /\ owed' = NoDebt /\ UNCHANGED releases
    BY <1>2, <1>9, OwedFields DEF FinishRelease
  <2> QED BY <2>1, ConfirmEvents
<1>3. CASE HoldRelease(l, ts, reap, ackNow, failed)
  <2>1. lease' = l /\ ack' = ackNow /\ owed' = NoDebt /\ UNCHANGED releases
    BY <1>3, <1>9, OwedFields DEF HoldRelease
  <2>2. AckOnTime  BY <2>1, AckKept DEF ReleaseStates
  <2> QED BY <2>1, <2>2, KeptEvents, NothingOwed DEF EventStep, Evented, AckEvented
<1>4. CASE ResumeTarget(l, ackNow, failed)
  <2>1. lease'.token = l.token /\ lease'.recorded
    BY <1>4 DEF ResumeTarget, Lease
  <2>2. RecordThenAck(l, Outcome(l), ackNow)  BY <1>4 DEF ResumeTarget
  <2> QED BY <1>0, <2>1, <2>2, ReleaseEvents DEF EventStep, Evented
<1>5. CASE DrainTarget(l, reap, ackNow, failed)
  <2>1. lease' = NoLease /\ RecordThenAck(l, "draining", ackNow)
    BY <1>5 DEF DrainTarget
  <2> QED BY <1>0, <2>1, ReleaseEvents DEF EventStep, Held, ReleaseStates
<1>6. CASE RestartTarget(l, reap, ackNow, failed)
  <2>1. CASE lease' = NoLease /\ RecordThenAck(l, Outcome(l), ackNow)
    BY <1>0, <2>1, ReleaseEvents DEF EventStep, Held
  <2>2. CASE FailLease(l) /\ OweNothing /\ UNCHANGED books
    BY <1>9, <2>2, FailEvents, OwedFields
  <2> QED BY <1>6, <2>1, <2>2 DEF RestartTarget
<1> QED BY <1>1, <1>2, <1>3, <1>4, <1>5, <1>6 DEF FinishRelease

LEMMA OwnerExitedEvents ==
    ASSUME TypeOK, NEW l \in Lease, Evented(l), AckEvented(ack), OwnerExited(l)
    PROVE  EventStep
<1> DEFINE gone == [l EXCEPT !.ownerReaped = TRUE, !.ownerStop = TRUE,
                            !.release = TRUE, !.failed = TRUE]
           refusal == Ack(gone, "failed")
<1>1. gone \in Lease /\ gone.token = l.token /\ gone.recorded = l.recorded
      /\ gone.state = l.state
  BY DEF Lease
<1>2. Evented(gone)  BY <1>1 DEF Evented
<1>3. AckEvented(refusal) /\ refusal.state = "failed"  BY DEF AckEvented, Ack
<1>4. \/ FinishRelease(gone, tState, FALSE, ack, pauseFailed)
      \/ FinishRelease(gone, tState, FALSE, refusal, TRUE)
  BY DEF OwnerExited
<1> HIDE DEF gone, refusal
<1> QED BY <1>1, <1>2, <1>3, <1>4, FinishEvents, Parts

LEMMA RecoverEvents ==
    ASSUME TypeOK, NEW l \in Lease, Evented(l), AckEvented(ack), owed = NoDebt,
           RecoverOwner(l)
    PROVE  EventStep
<1> DEFINE stopping == [l EXCEPT !.release = TRUE, !.ownerStop = TRUE, !.failed = TRUE]
           gone == [stopping EXCEPT !.ownerReaped = TRUE]
<1>1. stopping \in Lease /\ stopping.token = l.token /\ stopping.recorded = l.recorded
      /\ stopping.state = l.state
  BY DEF Lease
<1>2. gone \in Lease /\ gone.token = l.token /\ gone.recorded = l.recorded
      /\ gone.state = l.state
  BY <1>1 DEF Lease
<1>3. Evented(stopping) /\ Evented(gone)  BY <1>1, <1>2 DEF Evented
<1>4. CASE lease' \in {l, stopping} /\ UNCHANGED <<ack, owed, releases>>
  BY <1>3, <1>4, KeptEvents, AckKept, NothingOwed DEF EventStep, Evented, AckEvented
<1>5. CASE OwnerExited(stopping)
  BY <1>1, <1>3, <1>5, OwnerExitedEvents
<1>6. CASE FinishRelease(gone, tState, FALSE, ack, pauseFailed)
  BY <1>2, <1>3, <1>6, FinishEvents, Parts
<1> QED BY <1>4, <1>5, <1>6 DEF RecoverOwner, books

LEMMA ReconcileEvents == ASSUME EventInv, CoordReconcile PROVE EventStep
<1>p. /\ TypeOK /\ BooksOK /\ lease \in Lease /\ ack \in Acknowledgement
      /\ AckEvented(ack) /\ (Held => Evented(lease)) /\ Parsed \in Lease
  BY Parts, ParsedType DEF EventInv
<1>d. owed = NoDebt
  BY DEF CoordReconcile, NothingAsked, RejectRequest, SettleUnadmitted, Admit,
         AdmitSuspend, AdmitTerminate, AdmitAbsent, ReconcileResuming,
         ReconcileLost, ReconcileRelease, ReconcileObserve, ReconcileWait,
         InProgress, Healthy, Reconcile
<1> USE <1>p, <1>d
<1>0. Admissible => Evented(Parsed)
  <2>1. Parsed.token = cReq.token /\ Parsed.recorded = FALSE /\ Parsed.state = "requested"
    BY DEF Parsed, NoLease
  <2> QED BY <2>1 DEF Admissible, Withdrawn, EventInv, Evented
<1>1. CASE UNCHANGED <<lease, ack, owed, releases>>
  BY <1>1, KeptEvents, NothingOwed, AckKept DEF EventStep, Evented, AckEvented, Held
<1>2. CASE RejectRequest
  <2>1. Parsed.token \in Tokens  BY <1>0, <1>2 DEF RejectRequest, Evented
  <2>2. UNCHANGED <<lease, ack, releases>>
    BY <1>2, JournalCounts DEF RejectRequest
  <2>3. owed'.event = "none" /\ owed'.ack = Ack(Parsed, "failed")
    BY <1>2, OwedFields DEF RejectRequest
  <2>4. OwedTrue'  BY <2>1, <2>3 DEF OwedTrue, Ack
  <2> QED BY <2>2, <2>4, KeptEvents, AckKept
      DEF EventStep, Evented, AckEvented, Held
<1>3. CASE SettleUnadmitted
  <2>1. RecordThenAck(Parsed, "released", ack) /\ Evented(Parsed) /\ lease' = lease
    BY <1>0, <1>3 DEF SettleUnadmitted
  <2> QED BY <1>3, <2>1, ReleaseEvents
      DEF SettleUnadmitted, EventStep, Held, ReleaseStates
<1>4. CASE AdmitSuspend
  <2>1. lease'.token = Parsed.token /\ lease'.recorded = Parsed.recorded
        /\ lease'.state = "waiting"
    BY <1>4 DEF AdmitSuspend, Lease
  <2>2. ack'.state = "waiting" /\ UNCHANGED <<owed, releases>>
    BY <1>4 DEF AdmitSuspend, Ack, books
  <2>3. Evented(Parsed)  BY <1>0, <1>4 DEF AdmitSuspend, Admit, Admissible
  <2>4. AckOnTime /\ OwedTrue'  BY <2>2, AckKept, NothingOwed DEF ReleaseStates
  <2> QED BY <2>1, <2>2, <2>3, <2>4, KeptEvents DEF EventStep, Evented, AckEvented
<1>5. CASE AdmitTerminate
  <2>1. lease'.token = Parsed.token /\ lease'.recorded = Parsed.recorded
        /\ lease'.state = "stopping"
    BY <1>5 DEF AdmitTerminate, Lease
  <2>2. UNCHANGED <<ack, owed, releases>>  BY <1>5 DEF AdmitTerminate, books
  <2>3. Evented(Parsed)  BY <1>0, <1>5 DEF AdmitTerminate, Admit, Admissible
  <2> QED BY <2>1, <2>2, <2>3, KeptEvents, AckKept, NothingOwed
      DEF EventStep, Evented, AckEvented
<1>6. CASE AdmitAbsent
  <2> DEFINE reaped == [Parsed EXCEPT !.reaped = TRUE]
  <2>1. reaped \in Lease /\ reaped.token = Parsed.token
        /\ reaped.recorded = Parsed.recorded /\ reaped.state = Parsed.state
    BY DEF Lease
  <2>2. Evented(Parsed)  BY <1>0, <1>6 DEF AdmitAbsent, Admit, Admissible
  <2>3. Evented(reaped)  BY <2>1, <2>2 DEF Evented
  <2>4. CASE MarkReady(reaped) /\ UNCHANGED releases
    BY <2>1, <2>3, <2>4, MarkEvents
  <2>5. CASE FailLease(Parsed) /\ UNCHANGED <<owed, releases>>
    BY <2>2, <2>5, FailEvents
  <2> QED BY <1>6, <2>4, <2>5 DEF AdmitAbsent, books
<1>7. CASE ReconcileResuming
  BY <1>7, ConfirmEvents DEF ReconcileResuming, Held, books
<1>8. CASE ReconcileLost
  BY <1>8, RecoverEvents DEF ReconcileLost, InProgress
<1>9. CASE ReconcileRelease
  <2> DEFINE l == [lease EXCEPT !.release = TRUE,
                     !.failed = IF lease.release THEN @
                                ELSE cReq.state = "cancelled"]
  <2>1. l \in Lease /\ l.token = lease.token /\ l.recorded = lease.recorded
        /\ l.state = lease.state
    BY DEF Lease
  <2>2. Evented(l)  BY <1>9, <2>1 DEF ReconcileRelease, InProgress, Evented
  <2>3. FinishRelease(l, tState, FALSE, ack, pauseFailed)
    BY <1>9 DEF ReconcileRelease
  <2> QED BY <2>1, <2>2, <2>3, FinishEvents
<1>10. CASE ReconcileObserve
  <2> DEFINE l == [lease EXCEPT !.suspended = TRUE]
  <2>0. Evented(lease)  BY <1>10 DEF ReconcileObserve, Healthy, InProgress
  <2>1. l \in Lease /\ l.token = lease.token /\ l.recorded = lease.recorded
        /\ l.state = lease.state
    BY DEF Lease
  <2>2. Evented(l)  BY <2>0, <2>1 DEF Evented
  <2>3. CASE MarkReady(l) /\ UNCHANGED releases
    BY <2>1, <2>2, <2>3, MarkEvents
  <2>4. CASE RecoverOwner(lease)  BY <2>0, <2>4, RecoverEvents
  <2>5. CASE UNCHANGED <<owed, releases>> /\ FailLease(lease)
    BY <2>0, <2>5, FailEvents
  <2> QED BY <1>1, <1>10, <2>3, <2>4, <2>5 DEF ReconcileObserve, books
<1> QED BY <1>1, <1>2, <1>3, <1>4, <1>5, <1>6, <1>7, <1>8, <1>9, <1>10
        DEF CoordReconcile, NothingAsked, ReconcileWait, books

LEMMA MonitorEvents ==
    ASSUME EventInv,
           \/ TargetUnhealthy \/ TargetExited \/ TargetExitedOtherwise
           \/ TargetHardKill \/ TargetUnkillable \/ TargetRestart \/ TargetFine
           \/ OwnerUnhealthy \/ OwnerExitedInLease \/ OwnerExitedOtherwise
           \/ OwnerHardKill \/ OwnerUnkillable \/ OwnerRestart \/ OwnerFine
    PROVE  EventStep
<1>p. /\ TypeOK /\ BooksOK /\ lease \in Lease /\ ack \in Acknowledgement
      /\ AckEvented(ack) /\ (Held => Evented(lease))
  BY Parts DEF EventInv
<1>d. owed = NoDebt
  BY DEF TargetUnhealthy, TargetExited, TargetExitedOtherwise, TargetHardKill,
         TargetUnkillable, TargetRestart, TargetFine, OwnerUnhealthy,
         OwnerExitedInLease, OwnerExitedOtherwise, OwnerHardKill, OwnerUnkillable,
         OwnerRestart, OwnerFine, MonitorTarget, MonitorOwner
<1> USE <1>p, <1>d
<1>1. CASE UNCHANGED <<lease, ack, owed, releases>>
  BY <1>1, KeptEvents, NothingOwed, AckKept DEF EventStep, Evented, AckEvented, Held
<1>2. CASE TargetExited
  <2> DEFINE l == [lease EXCEPT !.suspended = FALSE]
             gone == [l EXCEPT !.reaped = TRUE]
  <2>0. Evented(lease)  BY <1>2 DEF TargetExited, ExitedInLease
  <2>1. l \in Lease /\ l.token = lease.token /\ l.recorded = lease.recorded
        /\ l.state = lease.state
    BY DEF Lease
  <2>2. gone \in Lease /\ gone.token = lease.token /\ gone.recorded = lease.recorded
        /\ gone.state = lease.state
    BY <2>1 DEF Lease
  <2>3. Evented(l) /\ Evented(gone)  BY <2>0, <2>1, <2>2 DEF Evented
  <2> HIDE DEF l, gone
  <2>4. CASE (FailLease(l) \/ FailLease(gone)) /\ UNCHANGED <<owed, releases>>
    BY <2>1, <2>2, <2>3, <2>4, FailEvents
  <2>5. CASE FinishRelease(gone, "paused", TRUE, ack, pauseFailed)
    BY <2>2, <2>3, <2>5, FinishEvents
  <2>6. CASE MarkReady(gone) /\ UNCHANGED releases
    BY <2>2, <2>3, <2>6, MarkEvents
  <2> QED BY <1>2, <2>4, <2>5, <2>6 DEF TargetExited, l, gone, books
<1>3. CASE TargetUnkillable \/ OwnerUnkillable
  <2>1. CASE Held /\ FailLease(lease) /\ UNCHANGED <<owed, releases>>
    BY <2>1, FailEvents
  <2> QED BY <1>1, <1>3, <2>1 DEF TargetUnkillable, OwnerUnkillable, books
<1>4. CASE OwnerUnhealthy
  <2>1. CASE Held /\ RecoverOwner(lease)  BY <2>1, RecoverEvents
  <2> QED BY <1>1, <1>4, <2>1 DEF OwnerUnhealthy, KeepLease, books
<1>5. CASE OwnerExitedInLease
  BY <1>5, OwnerExitedEvents DEF OwnerExitedInLease
<1> QED BY <1>1, <1>2, <1>3, <1>4, <1>5
        DEF TargetUnhealthy, TargetExitedOtherwise, TargetHardKill, TargetRestart,
            TargetFine, OwnerExitedOtherwise, OwnerHardKill, OwnerRestart,
            OwnerFine, KeepLease, books

LEMMA ShutdownEvents ==
    ASSUME EventInv,
           \/ BeginDrain \/ EndLoop \/ StopAll \/ StopKill \/ StopReap
           \/ HostCrash \/ CoordStart \/ CoordRead
    PROVE  EventStep
<1>p. /\ TypeOK /\ BooksOK /\ lease \in Lease
      /\ AckEvented(ack) /\ (Held => Evented(lease)) /\ OwedTrue /\ OwedWhen
  BY Parts DEF EventInv
<1> USE <1>p
<1>0. NoLease.state = "none"  BY DEF NoLease
<1>1. CASE BeginDrain
  <2>1. lease' = lease \/ lease' = [lease EXCEPT !.suspended = FALSE]
    BY <1>1 DEF BeginDrain
  <2>2. lease'.token = lease.token /\ lease'.recorded = lease.recorded
        /\ lease'.state = lease.state
    BY <2>1 DEF Lease
  <2>3. UNCHANGED <<ack, releases>> /\ owed' = NoDebt
    BY <1>1 DEF BeginDrain, books
  <2> QED BY <2>2, <2>3, KeptEvents, AckKept, NothingOwed
      DEF EventStep, Evented, AckEvented, Held
<1>2. CASE StopAll
  <2>1. ack' = ack \/ ack'.state \in {"draining", "failed", "stopping"}
    BY <1>2 DEF StopAll, Ack
  <2>2. ShutdownBegins  BY <1>2 DEF StopAll, ShutdownBegins
  <2> QED BY <1>2, <2>1, <2>2, KeptEvents, NothingOwed
      DEF StopAll, EventStep, Evented, AckEvented, Held, books
<1>3. CASE StopReap
  <2>1. \/ UNCHANGED books
        \/ \E t \in Nat : Journal("released", t)
    BY <1>3 DEF StopReap, TypeOK, FilesOK, Request, Lease
  <2>2. EventsKept
    BY <2>1, JournalCounts DEF EventsKept, BooksOK, books
  <2>3. lease' \in {lease, NoLease} /\ ack' = ack  BY <1>3 DEF StopReap
  <2>4. owed' = NoDebt \/ (OweEvent("released", req.token) /\ req.state # "none")
    BY <1>3, OwedFields DEF StopReap, LateRequest
  <2>5. req.state # "none" => req.token \in Tokens  BY DEF EventInv, OwnerTokens
  <2>6. cPc' = "down"  BY <1>3 DEF StopReap
  <2>7. OwedTrue'  BY <2>4, <2>5, <2>6, OwedFields, NothingOwed DEF OwedTrue
  <2> QED BY <1>0, <2>2, <2>3, <2>7, AckKept
      DEF EventStep, EventsKept, Evented, AckEvented, Held
<1>4. CASE \/ EndLoop \/ StopKill \/ HostCrash \/ CoordStart \/ CoordRead
  <2>1. UNCHANGED <<ack, releases>> /\ lease' \in {lease, NoLease}
    BY <1>4 DEF EndLoop, StopKill, HostCrash, CoordStart, CoordRead, files, books
  <2>2. owed' = NoDebt
    BY <1>4, OwedFields
    DEF EndLoop, StopKill, HostCrash, CoordStart, CoordRead, OwedWhen
  <2> QED BY <1>0, <2>1, <2>2, KeptEvents, AckKept, NothingOwed
      DEF EventStep, Evented, AckEvented, Held
<1> QED BY <1>1, <1>2, <1>3, <1>4

(* The second write pays the debt: an acknowledgement whose event is in the  *)
(* journal, or an event.                                                     *)
LEMMA WriteEvents ==
    ASSUME EventInv, WriteEvent \/ WriteAck PROVE EventStep
<1>p. /\ BooksOK /\ AckEvented(ack) /\ OwedTrue /\ (Held => Evented(lease))
  BY Parts DEF EventInv
<1>1. lease' = lease /\ owed' = NoDebt
  BY OwedFields DEF WriteEvent, WriteAck, KeepThread
<1>2. CASE WriteEvent
  <2>1. ack' = ack  BY <1>2 DEF WriteEvent
  <2>2. owed.event = "ready" \/ owed.event = "released"
    BY <1>2, <1>p DEF WriteEvent, OwedTrue
  <2>3. EventsKept
    BY <1>2, <1>p, <2>2, JournalCounts DEF WriteEvent, EventsKept, BooksOK
  <2> QED BY <1>p, <1>1, <2>1, <2>3, AckKept, NothingOwed
      DEF EventStep, EventsKept, Evented, AckEvented, Held
<1>3. CASE WriteAck
  <2>1. ack' = owed.ack /\ owed.ack # NoAck /\ UNCHANGED releases
    BY <1>3 DEF WriteAck, books
  <2> QED BY <1>p, <1>1, <2>1, KeptEvents, NothingOwed
      DEF EventStep, OwedTrue, Evented, AckEvented, AckOnTime, Acknowledges,
          ReleaseStates, Held
<1> QED BY <1>2, <1>3

(* When a debt is incurred and paid.                                         *)
LEMMA OwedKept ==
    ASSUME EventInv, CoordNext PROVE OwedWhen'
<1>1. CASE \/ CoordReconcile
           \/ TargetUnhealthy \/ TargetExited \/ TargetExitedOtherwise
           \/ TargetHardKill \/ TargetUnkillable \/ TargetRestart \/ TargetFine
           \/ OwnerUnhealthy \/ OwnerExitedInLease \/ OwnerExitedOtherwise
           \/ OwnerHardKill \/ OwnerUnkillable \/ OwnerRestart \/ OwnerFine
  <2>1. cPc' \in {"target", "owner", "read", "stop"}
    BY <1>1 DEF CoordReconcile, NothingAsked, RejectRequest, SettleUnadmitted, Admit,
         AdmitSuspend, AdmitTerminate, AdmitAbsent, ReconcileResuming,
         ReconcileLost, ReconcileRelease, ReconcileObserve, ReconcileWait,
         InProgress, Healthy, Reconcile, TargetUnhealthy, TargetExited,
         TargetExitedOtherwise, TargetHardKill, TargetUnkillable, TargetRestart,
         TargetFine, OwnerUnhealthy, OwnerExitedInLease, OwnerExitedOtherwise,
         OwnerHardKill, OwnerUnkillable, OwnerRestart, OwnerFine, MonitorTarget,
         MonitorOwner, EndCycle
  <2> QED BY <2>1 DEF OwedWhen
<1>2. CASE StopReap
  BY <1>2, OwedFields DEF StopReap, OwedWhen
<1>3. CASE \/ BeginDrain \/ EndLoop \/ StopAll \/ StopKill
           \/ HostCrash \/ CoordStart \/ CoordRead \/ WriteEvent \/ WriteAck
  <2>1. owed' = NoDebt
    BY <1>3, OwedFields
    DEF BeginDrain, EndLoop, StopAll, StopKill, HostCrash, CoordStart, CoordRead,
        WriteEvent, WriteAck, EventInv, OwedWhen
  <2> QED BY <2>1 DEF OwedWhen
<1> QED BY <1>1, <1>2, <1>3 DEF CoordNext

(* The other processes never touch the journal or the lease, and the only    *)
(* thing the environment does to an acknowledgement is to let it grow stale. *)
LEMMA OtherEvents ==
    ASSUME EventInv, OwnerNext \/ ActorNext \/ GoStale \/ RequestVanishes
    PROVE  EventStep /\ OwedWhen'
<1>1. UNCHANGED <<coordVars, books>>
  BY DEF OwnerFrame, OwnerNext, OwnerStep, OwnerRegister,
         OwnerBlocked, OwnerRequest, OwnerHeartbeat, OwnerSeesReady,
         OwnerActivate, OwnerCancel, OwnerRelease, OwnerReleased, OwnerFails,
         OwnerStops, OwnerKilled, OwnerCrash, ActorFrame, ActorNext, CohortPark,
         CohortUnpark, CohortSubmit, CohortFinish, BrokerIdle, PollRead, Poll,
         Publish, ActorHeartbeat, ControlFails, ActorExit, ActorKilled, ActorCrash,
         GoStale, RequestVanishes
<1>2. ack' = ack \/ ack' = [ack EXCEPT !.fresh = FALSE]
  BY DEF OwnerFrame, files, OwnerNext, OwnerStep, OwnerRegister,
         OwnerBlocked, OwnerRequest, OwnerHeartbeat, OwnerSeesReady,
         OwnerActivate, OwnerCancel, OwnerRelease, OwnerReleased, OwnerFails,
         OwnerStops, OwnerKilled, OwnerCrash, ActorFrame, ActorNext, CohortPark,
         CohortUnpark, CohortSubmit, CohortFinish, BrokerIdle, PollRead, Poll,
         Publish, ActorHeartbeat, ControlFails, ActorExit, ActorKilled, ActorCrash,
         GoStale, RequestVanishes
<1>3. ack'.state = ack.state /\ ack'.token = ack.token
  BY <1>2, Parts DEF EventInv, Acknowledgement
<1>4. AckOnTime  BY <1>3 DEF AckOnTime, Acknowledges
<1>5. UNCHANGED <<lease, owed, cPc, releases>>  BY <1>1 DEF coordVars, books
<1>6. OwedTrue' /\ OwedWhen'  BY <1>5 DEF EventInv, OwedTrue, OwedWhen
<1> QED BY <1>3, <1>4, <1>5, <1>6, KeptEvents
    DEF EventInv, EventStep, Evented, AckEvented, Held

(* Tokens: the arena counts them up to its budget and writes only its own.   *)
LEMMA ArenaTokens == ASSUME EventInv, OwnerNext PROVE OwnerTokens'
<1>p. oPc \in OwnerPcs /\ oTok \in Nat /\ lastTok \in 0..MaxLeases /\ MaxLeases \in Nat
      /\ OwnerTokens
  BY PauseConstants DEF EventInv, OwnerTokens, TypeOK, OwnerOK
<1> USE <1>p
<1>1. CASE OwnerRegister
  <2>1. oTok' \in Tokens /\ lastTok' \in 0..MaxLeases
    BY <1>1 DEF OwnerRegister, Tokens
  <2> QED BY <1>1, <2>1 DEF OwnerRegister, OwnerTokens
<1>2. CASE OwnerRequest \/ OwnerHeartbeat \/ OwnerActivate \/ OwnerCancel \/ OwnerRelease
  <2>1. oTok \in Tokens /\ UNCHANGED <<lastTok, oTok>>
    BY <1>2 DEF OwnerRequest, OwnerHeartbeat, OwnerActivate, OwnerCancel,
                OwnerRelease, OwnerTokens, ownerVars
  <2>2. req'.token = oTok
    BY <1>2 DEF OwnerRequest, OwnerHeartbeat, OwnerActivate, OwnerCancel,
                OwnerRelease, Written
  <2> QED BY <2>1, <2>2 DEF OwnerTokens
<1>3. CASE \/ OwnerBlocked \/ OwnerSeesReady \/ OwnerReleased \/ OwnerFails
           \/ OwnerStops \/ OwnerKilled \/ OwnerCrash
  <2>1. UNCHANGED <<lastTok, oTok, req>>
    BY <1>3 DEF OwnerBlocked, OwnerSeesReady, OwnerReleased, OwnerFails,
                OwnerStops, OwnerKilled, OwnerCrash, files
  <2>2. oPc' \in {"exited", "idle"} \/ (oPc = "waitReady" /\ oPc' = "granted")
    BY <1>3 DEF OwnerBlocked, OwnerSeesReady, OwnerReleased, OwnerFails,
                OwnerStops, OwnerKilled, OwnerCrash, OwnerEnds
  <2> QED BY <2>1, <2>2 DEF OwnerTokens
<1> QED BY <1>1, <1>2, <1>3 DEF OwnerNext, OwnerStep

LEMMA TokensKept ==
    ASSUME OwnerTokens, UNCHANGED lastTok,
           UNCHANGED <<oPc, oTok>> \/ oPc' \in {"none", "idle"},
           req'.state # "none" => req'.token = req.token /\ req.state # "none"
    PROVE  OwnerTokens'
BY DEF OwnerTokens

LEMMA OtherTokens ==
    ASSUME EventInv, ActorNext \/ CoordNext \/ GoStale \/ RequestVanishes
    PROVE  OwnerTokens'
<1>p. TypeOK /\ OwnerTokens  BY DEF EventInv
<1>1. CASE ActorNext
  <2>1. UNCHANGED <<req, ownerVars>>
    BY <1>1 DEF files, ActorFrame, ActorNext, CohortPark, CohortUnpark,
           CohortSubmit, CohortFinish, BrokerIdle, PollRead, Poll, Publish,
           ActorHeartbeat, ControlFails, ActorExit, ActorKilled, ActorCrash
  <2> QED BY <1>p, <2>1, TokensKept DEF ownerVars
<1>2. CASE GoStale \/ RequestVanishes
  <2>1. UNCHANGED ownerVars  BY <1>2 DEF GoStale, RequestVanishes
  <2>2. req' \in {req, [req EXCEPT !.fresh = FALSE], NoRequest}
    BY <1>2 DEF GoStale, RequestVanishes
  <2>3. req'.state # "none" => req'.token = req.token /\ req.state # "none"
    BY <1>p, <2>2 DEF TypeOK, FilesOK, Request, NoRequest
  <2> QED BY <1>p, <2>1, <2>3, TokensKept DEF ownerVars
<1>3. CASE CoordNext
  <2>1. StepOK /\ LoopOK => UNCHANGED <<req, lastTok>>
            /\ (UNCHANGED <<oPc, oTok>> \/ oPc' \in {"none", "idle"})
    BY DEF StepOK, LoopOK, CoordFrame, KeepOwner, SignalOwner, ReapOwner, StartOwner
  <2>2. CASE \/ BeginDrain \/ EndLoop \/ StopAll \/ StopKill \/ StopReap
             \/ HostCrash \/ CoordStart \/ CoordRead
    <3>1. UNCHANGED <<req, lastTok>>
      BY <2>2 DEF BeginDrain, EndLoop, StopAll, StopKill, StopReap, HostCrash,
         CoordStart, CoordRead, KeepFlags, CoordFrame, files, ownerVars
    <3>2. UNCHANGED <<oPc, oTok>> \/ oPc' \in {"none", "idle"}
      BY <2>2 DEF BeginDrain, EndLoop, StopAll, StopKill, StopReap, HostCrash,
         CoordStart, CoordRead, KeepFlags, ownerVars, KeepOwner, SignalOwner,
         ReapOwner, StartOwner
    <3> QED BY <1>p, <3>1, <3>2, TokensKept
  <2> QED BY <1>p, <1>3, <2>1, <2>2, TokensKept, ReconcileTypes, TargetTypes,
             OwnerMonitorTypes, WriteTypes
      DEF CoordNext
<1> QED BY <1>1, <1>2, <1>3

LEMMA ReadTokens ==
    ASSUME EventInv, Next PROVE cReq'.state # "none" => cReq'.token \in Tokens
<1>1. CASE CoordRead
  BY <1>1 DEF CoordRead, EventInv, OwnerTokens
<1>2. CASE CoordStart  BY <1>2 DEF CoordStart, NoRequest
<1>3. CASE Next /\ ~CoordRead /\ ~CoordStart
  <2>0. TypeOK  BY DEF EventInv
  <2>1. CASE OwnerNext \/ ActorNext \/ GoStale \/ RequestVanishes
    <3>1. cReq' = cReq
      BY <2>1 DEF OwnerFrame, files, coordVars, OwnerNext, OwnerStep, OwnerRegister,
           OwnerBlocked, OwnerRequest, OwnerHeartbeat, OwnerSeesReady,
           OwnerActivate, OwnerCancel, OwnerRelease, OwnerReleased, OwnerFails,
           OwnerStops, OwnerKilled, OwnerCrash, ActorFrame, ActorNext,
           CohortPark, CohortUnpark, CohortSubmit, CohortFinish, BrokerIdle,
           PollRead, Poll, Publish, ActorHeartbeat, ControlFails, ActorExit,
           ActorKilled, ActorCrash, GoStale, RequestVanishes
    <3> QED BY <3>1 DEF EventInv
  <2>2. CASE CoordNext
    <3>1. \/ LoopOK
          \/ BeginDrain \/ EndLoop \/ StopAll \/ StopKill \/ StopReap \/ HostCrash
      BY <1>3, <2>0, <2>2, ReconcileTypes, TargetTypes, OwnerMonitorTypes, WriteTypes
      DEF CoordNext
    <3>2. cReq' = cReq
      BY <3>1 DEF LoopOK, BeginDrain, EndLoop, StopAll, StopKill, StopReap,
                  HostCrash, KeepFlags
    <3> QED BY <3>2 DEF EventInv
  <2> QED BY <1>3, <2>1, <2>2 DEF Next
<1> QED BY <1>1, <1>2, <1>3

LEMMA EventInductive == Spec => []EventInv
<1>1. Init => EventInv
  <2> SUFFICES ASSUME Init PROVE EventInv  OBVIOUS
  <2>1. OwnerTokens
    BY PauseConstants DEF Init, OwnerTokens, NoRequest
  <2>2. OwedTrue /\ OwedWhen  BY NothingOwed DEF Init, OwedWhen
  <2> QED BY <2>1, <2>2, InitTypes
      DEF Init, EventInv, NoRequest, Held, NoLease, AckEvented, NoAck
<1>2. EventInv /\ [Next]_vars => EventInv'
  <2> SUFFICES ASSUME EventInv, [Next]_vars PROVE EventInv'  OBVIOUS
  <2>0. TypeOK'  BY NextTypes DEF EventInv
  <2>1. CASE Next
    <3>1. EventStep /\ OwedWhen'
      BY <2>1, ReconcileEvents, MonitorEvents, ShutdownEvents, WriteEvents,
         OwedKept, OtherEvents
      DEF Next, CoordNext
    <3>2. OwnerTokens'  BY <2>1, ArenaTokens, OtherTokens DEF Next
    <3>3. cReq'.state # "none" => cReq'.token \in Tokens  BY <2>1, ReadTokens
    <3> QED BY <2>0, <3>1, <3>2, <3>3 DEF EventInv, EventStep
  <2>2. CASE UNCHANGED vars
    <3>1. UNCHANGED <<req, ack, oPc, oTok, lastTok, cReq, lease, releases, owed, cPc>>
      BY <2>2 DEF vars, files, ownerVars, coordVars, books
    <3>2. OwnerTokens'  BY <3>1, TokensKept DEF EventInv
    <3> QED BY <2>0, <3>1, <3>2 DEF EventInv, Held, Evented, AckEvented, OwedTrue, OwedWhen
  <2> QED BY <2>1, <2>2
<1> QED BY <1>1, <1>2, PTL DEF Spec

(* The journal says a lease is released before its acknowledgement does, in  *)
(* every interleaving and across every crash and restart: an arena that has  *)
(* seen its release can settle the lease in the measurement ledger.          *)
THEOREM EventFirst == Spec => EventBeforeAck
<1>1. ASSUME EventInv, [Next]_vars
      PROVE  [~ShutdownBegins /\ Acknowledges({"released", "recovered", "draining"})
                => releases[ack'.token] > 0]_vars
  <2>1. CASE Next
    <3>1. EventStep
      BY <1>1, <2>1, ReconcileEvents, MonitorEvents, ShutdownEvents, WriteEvents,
         OtherEvents
      DEF Next, CoordNext
    <3> QED BY <3>1 DEF EventStep, AckOnTime, ReleaseStates
  <2> QED BY <1>1, <2>1
<1> QED BY <1>1, EventInductive, PTL DEF Spec, EventBeforeAck

-----------------------------------------------------------------------------
(* Who holds the lease                                                       *)

(* From "stopTerm" on the coordinator has told every process to stop.        *)
Up == cPc \notin {"stopTerm", "stopKill", "down"}
Withdraws(r) == r.state \in {"released", "cancelled"}
(* The arena has registered the token and has not left its lease.            *)
Asking(t) == oTok = t /\ oPc \in {"registered", "waitReady", "granted", "body"}

(* Every token in circulation was registered, and a new one is newer than    *)
(* all of them.                                                              *)
TokensSeen ==
    /\ oTok <= lastTok /\ req.token <= lastTok /\ cReq.token <= lastTok
    /\ lease.token <= lastTok /\ ack.token <= lastTok
    /\ owed.ack.token <= lastTok
    /\ oPc = "registered" =>
        /\ oTok > req.token /\ oTok > cReq.token
        /\ oTok > lease.token /\ oTok > ack.token /\ oTok > owed.ack.token
    /\ oPc \in {"registered", "waitReady", "granted", "body", "waitRelease",
                "waitFailed"} => oTok # NoToken

(* A token belongs to the process that registered it.                        *)
PidsSeen ==
    /\ oPid > 0 /\ req.pid <= oPid /\ cReq.pid <= oPid
    /\ oTok # NoToken =>
        /\ req.token = oTok => req.pid = oPid
        /\ cReq.token = oTok => cReq.pid = oPid
        /\ lease.token = oTok => lease.pid = oPid
    /\ Up /\ Held => lease.pid = oPid

(* A withdrawn request is never asked for again, and what a living arena     *)
(* seems to ask for it does ask for.                                         *)
RequestTrue ==
    /\ Withdraws(req) => ~Asking(req.token)
    /\ Withdraws(cReq) => ~Asking(cReq.token)
    /\ OwnerLive /\ req.pid = oPid /\ req.state \in {"requested", "active"} =>
        Asking(req.token)

(* The release of a lease is requested when its owner has left it or is being*)
(* stopped, and begins when the owner has left it or is collected.           *)
LeaseLeft ==
    /\ Held /\ lease.release /\ ~lease.ownerStop => ~Asking(lease.token)
    /\ Held /\ lease.ownerReaped => ~(OwnerLive /\ oPid = lease.pid)
    /\ lease.state = "resuming" => lease.release /\ ~Asking(lease.token)

(* The request that was withdrawn is not in the file again, nor is that of a *)
(* lease whose release was asked for by its owner; an owner that has been    *)
(* collected is gone, or all but its children are; and the release of a lease*)
(* begins only for one of these two reasons.                                 *)
NotAsked(t) == req.token = t => req.state = "none" \/ Withdraws(req)
Over(p) == oPid # p \/ oPc = "none" \/ (oPc = "exited" /\ oKids)
RequestOver ==
    /\ Withdraws(cReq) => NotAsked(cReq.token)
    /\ Held /\ lease.release /\ ~lease.ownerStop => NotAsked(lease.token)
    /\ Held /\ lease.ownerReaped => Over(lease.pid)
    /\ lease.state = "resuming" => NotAsked(lease.token) \/ Over(lease.pid)

(* An arena that was granted the lease, or is about to see that it was, has  *)
(* the coordinator's lease.                                                  *)
GrantHeld ==
    /\ Up /\ oPc \in {"granted", "body"} =>
        lease.token = oTok /\ lease.state = "ready"
    /\ Up /\ oPc = "waitReady" /\ ack.token = oTok /\ ack.state = "ready" =>
        lease.token = oTok /\ lease.state = "ready"

(* Nor is an acknowledgement that ends a lease owed while the arena asks for *)
(* that lease.                                                               *)
OwedLeft ==
    /\ owed.ack.state \in {"none", "failed"} \cup ReleaseStates
    /\ owed.ack.state \in ReleaseStates => ~Asking(owed.ack.token)

OwnInv ==
    /\ TokensSeen /\ PidsSeen /\ RequestTrue /\ LeaseLeft /\ RequestOver
    /\ GrantHeld /\ OwedLeft

-----------------------------------------------------------------------------
(* The coordinator's moves: what a reconciliation or a monitor step does to  *)
(* the lease, its acknowledgement, its journal entries and the actor.        *)

SameLease(l) ==
    /\ l.token = lease.token /\ l.pid = lease.pid /\ l.state = lease.state
    /\ l.tpid = lease.tpid /\ l.recorded = lease.recorded
(* A lease whose release may begin is one its owner has left.                *)
AskingNext(t) ==
    oTok' = t /\ oPc' \in {"registered", "waitReady", "granted", "body"}
OverNext(p) == oPid' # p \/ oPc' = "none" \/ (oPc' = "exited" /\ oKids')
LeftBy(l) ==
    /\ l.release /\ ~l.ownerStop => ~AskingNext(l.token) /\ NotAsked(l.token)
    /\ l.ownerReaped => OverNext(l.pid)

Stays == (KeepActor \/ SignalActor) /\ (tState' = tState \/ tState' # "backoff")
Collected ==
    /\ ReapActor /\ ~ActorLive
    /\ tState' # "backoff" \/ (aPc = "exited" /\ ~ExitedInLease)
Counted(l) ==
    releases' = IF l.recorded THEN releases
                ELSE [releases EXCEPT ![l.token] = @ + 1]

(* The acknowledgement stays, unless the owner has just been given up.        *)
AckStays ==
    \/ ack' = ack
    \/ ack' = Ack(lease, "failed") /\ pauseFailed' /\ (oPc' = "none" \/ oKids)

(* Nothing happens to the lease.                                             *)
Quiet ==
    /\ owed' = NoDebt
    /\ UNCHANGED <<lease, ack, releases, readies>>
    /\ Stays \/ Collected \/ (StartActor /\ tState = "backoff" /\ tState' = "running")
(* Its release is requested, it waits for its owner, or it fails.            *)
Flagged ==
    /\ owed' = NoDebt
    /\ Held /\ SameLease(lease') /\ LeftBy(lease')
    /\ lease.release => lease'.release
    /\ ack' = ack \/ (ack' = Ack(lease, "failed") /\ pauseFailed')
    /\ UNCHANGED <<releases, readies>>
    /\ Stays \/ Collected
(* A request is rejected, or settled without ever having been admitted.      *)
Refuse ==
    /\ cPc = "reconcile" /\ ~Held /\ Admissible /\ ~(cReq.fresh /\ OwnerMatches)
    /\ OweAck(Ack(Parsed, "failed"))
    /\ KeepWorkers /\ UNCHANGED <<lease, ack, releases, readies>>
SettleEarly ==
    /\ cPc = "reconcile" /\ ~Held /\ Withdrawn /\ ~Settled /\ OwnerMatches
    /\ OweAck(Ack(Parsed, "released")) /\ Counted(Parsed)
    /\ KeepWorkers /\ UNCHANGED <<lease, ack, readies>>
(* A request is admitted, in one of four ways.                               *)
AdmitMove ==
    /\ cPc = "reconcile" /\ ~Held /\ cReq.state = "requested" /\ OwnerMatches
    /\ lease'.token = cReq.token /\ lease'.pid = cReq.pid
    /\ ~lease'.release /\ ~lease'.ownerReaped /\ ~lease'.recorded
    /\ KeepOwner /\ UNCHANGED <<releases, readies>>
    /\ \/ /\ lease'.state = "waiting" /\ lease'.tpid = aPid /\ ActorLive
          /\ ack' = Ack(lease', "waiting") /\ owed' = NoDebt
          /\ KeepActor /\ UNCHANGED tState
       \/ /\ lease'.state = "stopping" /\ lease'.tpid = 0 /\ owed' = NoDebt
          /\ SignalActor /\ tState' # "backoff" /\ UNCHANGED ack
       \/ /\ lease'.state = "ready" /\ lease'.tpid = 0 /\ ~ActorLive
          /\ ack' = Ack(lease', "ready") /\ OweEvent("ready", cReq.token)
          /\ ReapActor /\ tState' = "paused"
       \/ /\ lease'.state = "requested" /\ lease'.tpid = 0 /\ owed' = NoDebt
          /\ ack' = Ack(lease', "failed") /\ pauseFailed'
          /\ KeepActor /\ UNCHANGED tState
(* The lease is granted: the target is gone or has shown that it parked.     *)
GrantMove ==
    /\ Held /\ lease.state \notin {"ready", "resuming"} /\ ~lease.release
    /\ lease'.token = lease.token /\ lease'.pid = lease.pid
    /\ lease'.tpid = lease.tpid /\ lease'.recorded = lease.recorded
    /\ lease'.state = "ready" /\ ~lease'.release
    /\ lease'.ownerReaped = lease.ownerReaped
    /\ ack' = Ack(lease, "ready")
    /\ OweEvent("ready", lease.token) /\ UNCHANGED <<releases, readies>>
    /\ KeepOwner
    /\ \/ ReapActor /\ aPc = "exited" /\ tState' = "paused"
       \/ /\ KeepActor /\ ActorLive /\ Quiescent(lease) /\ lease.tpid # 0
          /\ lease.state = "waiting" /\ tState' = "pause_suspended"
(* The release is recorded, and its acknowledgement owed: to an actor that   *)
(* has to resume, or at once when there is none.                             *)
ResumeMove ==
    /\ Held /\ lease.state # "resuming" /\ ~AskingNext(lease.token)
    /\ NotAsked(lease.token) \/ OverNext(lease.pid)
    /\ ActorLive /\ lease.tpid # 0
    /\ lease'.token = lease.token /\ lease'.pid = lease.pid
    /\ lease'.tpid = lease.tpid /\ lease'.state = "resuming"
    /\ lease'.release /\ lease'.recorded /\ LeftBy(lease')
    /\ AckStays /\ \E s \in ReleaseStates : OweAck(Ack(lease, s))
    /\ Counted(lease) /\ UNCHANGED readies
    /\ Stays /\ KeepActor
CloseMove ==
    /\ Held /\ lease.state # "resuming" /\ ~AskingNext(lease.token)
    /\ NotAsked(lease.token) \/ OverNext(lease.pid)
    /\ lease' = NoLease /\ AckStays
    /\ Counted(lease) /\ UNCHANGED readies
    /\ \/ OweAck(Ack(lease, "draining")) /\ (Stays \/ Collected)
       \/ /\ \E s \in ReleaseStates : OweAck(Ack(lease, s))
          /\ StartActor /\ tState' = "running"
(* The actor has confirmed that it resumed, or the drain has collected it.   *)
ConfirmMove ==
    /\ lease.state = "resuming" /\ ActorLive /\ Resumed(lease)
    /\ cPc = "reconcile" \/ OverNext(lease.pid)
    /\ lease' = NoLease /\ tState' = "running"
    /\ ack' = ack \/ (ack' = Ack(lease, "failed") /\ (oPc' = "none" \/ oKids))
    /\ KeepActor /\ owed' = NoDebt /\ UNCHANGED <<releases, readies>>
DrainedMove ==
    /\ owed' = NoDebt
    /\ lease.state = "resuming" /\ lease' = NoLease
    /\ ack' = Ack(lease, "draining")
    /\ Stays \/ Collected
    /\ UNCHANGED <<releases, readies>>

OwnerMove ==
    \/ KeepOwner \/ SignalOwner
    \/ oPc = "exited" /\ ReapOwner
    \/ oPc = "none" /\ ~Held /\ StartOwner
LeaseMove ==
    \/ Quiet \/ Flagged \/ Refuse \/ SettleEarly \/ AdmitMove \/ GrantMove
    \/ ResumeMove \/ CloseMove \/ ConfirmMove \/ DrainedMove
CoordMove ==
    /\ cPc \in {"reconcile", "target", "owner"} /\ owed = NoDebt
    /\ cPc' \in {"target", "owner", "read", "stop"}
    /\ UNCHANGED <<req, hb, lastTok, cReq>>
    /\ OwnerMove /\ LeaseMove

(* A lease whose fields were set with EXCEPT is the same lease.              *)
LEMMA LeaseFields ==
    ASSUME lease \in Lease
    PROVE  /\ \A b \in BOOLEAN :
                /\ [lease EXCEPT !.suspended = b] \in Lease
                /\ SameLease([lease EXCEPT !.suspended = b])
                /\ [lease EXCEPT !.suspended = b].release = lease.release
                /\ [lease EXCEPT !.suspended = b].ownerStop = lease.ownerStop
                /\ [lease EXCEPT !.suspended = b].ownerReaped = lease.ownerReaped
           /\ lease.release \in BOOLEAN /\ lease.ownerStop \in BOOLEAN
           /\ lease.ownerReaped \in BOOLEAN
BY DEF Lease, SameLease

(* Failing a lease that is the same but for its marks.                       *)
LEMMA FailMove ==
    ASSUME NEW l \in Lease, Held, SameLease(l), LeftBy(l), lease.release => l.release,
           FailLease(l), UNCHANGED <<releases, readies>>, Stays \/ Collected,
           owed' = NoDebt
    PROVE  Flagged
<1>1. lease' = [l EXCEPT !.failed = TRUE] /\ ack' = Ack(l, "failed") /\ pauseFailed'
  BY DEF FailLease
<1>2. /\ SameLease(lease') /\ lease'.release = l.release
      /\ lease'.ownerStop = l.ownerStop /\ lease'.ownerReaped = l.ownerReaped
      /\ lease'.token = l.token /\ lease'.pid = l.pid
  BY <1>1 DEF Lease, SameLease
<1>3. LeftBy(lease')
  BY <1>2 DEF LeftBy
<1>4. ack' = Ack(lease, "failed")
  BY <1>1 DEF Ack, SameLease
<1> QED BY <1>1, <1>2, <1>3, <1>4 DEF Flagged

(* Waiting for the actor to confirm that it resumed.                         *)
LEMMA ConfirmMoves ==
    ASSUME NEW l \in Lease, NEW ts, NEW reap \in BOOLEAN, NEW ackNow,
           NEW failed \in BOOLEAN, Held, SameLease(l), LeftBy(l),
           lease.release => l.release, l.state = "resuming",
           \/ ackNow = ack
           \/ ackNow = Ack(lease, "failed") /\ failed /\ (oPc' = "none" \/ oKids),
           ts = tState \/ ts # "backoff", reap => aPc = "exited" /\ ts # "backoff",
           cPc = "reconcile" \/ ~ActorLive \/ l.ownerReaped,
           ConfirmResume(l, ts, ackNow, failed), Collect(reap),
           UNCHANGED <<releases, readies>>, owed' = NoDebt
    PROVE  LeaseMove
<1>0. /\ \A s : Ack(l, s) = Ack(lease, s)
      /\ l.token = lease.token /\ l.state = lease.state /\ l.tpid = lease.tpid
      /\ l.pid = lease.pid
  BY DEF SameLease, Ack
<1>c. ASSUME tState' = ts \/ tState' # "backoff" PROVE Stays \/ Collected
  BY <1>c DEF Collect, Stays, Collected, ActorLive
<1>1. CASE ActorLive /\ Resumed(l) /\ lease' = NoLease /\ tState' = "running"
           /\ ack' = ackNow /\ pauseFailed' = failed
  <2>1. KeepActor  BY <1>1 DEF Collect, ActorLive
  <2>2. Resumed(lease)  BY <1>0, <1>1 DEF Resumed
  <2>3. cPc = "reconcile" \/ OverNext(lease.pid)
    BY <1>0, <1>1 DEF LeftBy
  <2>4. ConfirmMove  BY <1>0, <1>1, <2>1, <2>2, <2>3 DEF ConfirmMove
  <2> QED BY <2>4 DEF LeaseMove
<1>2. CASE FailLease(l) /\ tState' = ts
  BY <1>c, <1>2, FailMove DEF LeaseMove
<1>3. CASE lease' = l /\ tState' = ts /\ ack' = ackNow /\ pauseFailed' = failed
  BY <1>c, <1>3 DEF LeaseMove, Flagged
<1> QED BY <1>1, <1>2, <1>3 DEF ConfirmResume

(* The end of a release, whichever way it goes.                              *)
LEMMA FinishMoves ==
    ASSUME lease \in Lease, NEW l \in Lease, NEW ts, NEW reap \in BOOLEAN, NEW ackNow,
           NEW failed \in BOOLEAN, Held, SameLease(l), LeftBy(l), l.release,
           l.ownerReaped \/ ~l.ownerStop => ~AskingNext(l.token),
           \/ ackNow = ack
           \/ ackNow = Ack(lease, "failed") /\ failed /\ (oPc' = "none" \/ oKids),
           ts = tState \/ ts # "backoff", reap => aPc = "exited" /\ ts # "backoff",
           cPc = "reconcile" \/ ~ActorLive \/ l.ownerReaped,
           FinishRelease(l, ts, reap, ackNow, failed)
    PROVE  LeaseMove
<1>0. /\ \A s : Ack(l, s) = Ack(lease, s)
      /\ l.token = lease.token /\ l.state = lease.state /\ l.tpid = lease.tpid
      /\ l.recorded = lease.recorded
  BY DEF SameLease, Ack
<1>c. ASSUME Collect(reap), tState' = ts \/ tState' # "backoff"
      PROVE  Stays \/ Collected
  BY <1>c DEF Collect, Stays, Collected, ActorLive
<1>b. (UNCHANGED books => UNCHANGED <<releases, readies>>) /\ (OweNothing => owed' = NoDebt)
  BY DEF books, OweNothing
<1>r. ASSUME NEW s, RecordThenAck(l, s, ackNow)
      PROVE  /\ Counted(lease) /\ UNCHANGED readies /\ OweAck(Ack(lease, s))
             /\ ack' = ackNow
  <2>1. RecordRelease(l) => Counted(lease) /\ UNCHANGED readies
    BY <1>0, JournalCounts DEF RecordRelease, Counted, books
  <2> QED BY <1>0, <1>r, <2>1 DEF RecordThenAck
<1>k. ASSUME ack' = ackNow, pauseFailed' = failed PROVE AckStays
  BY <1>k DEF AckStays
<1>o. Outcome(l) \in ReleaseStates
  BY DEF Outcome, ReleaseStates
<1>1. CASE l.state = "resuming" /\ l.reaped /\ draining
  <2>1. DrainedMove
    BY <1>0, <1>1, <1>b, <1>c DEF FinishRelease, DrainedMove
  <2> QED BY <2>1 DEF LeaseMove
<1>2. CASE l.state = "resuming" /\ ~(l.reaped /\ draining)
  BY <1>2, <1>b, ConfirmMoves DEF FinishRelease
<1>3. CASE l.state # "resuming" /\ HoldRelease(l, ts, reap, ackNow, failed)
  BY <1>b, <1>c, <1>3 DEF HoldRelease, LeaseMove, Flagged
<1>4. CASE l.state # "resuming" /\ ~MustHold(l, ts, reap) /\ Resumable(l, ts, reap)
           /\ ResumeTarget(l, ackNow, failed)
  <2>1. lease' = [l EXCEPT !.suspended = FALSE, !.state = "resuming", !.recorded = TRUE]
    BY <1>4 DEF ResumeTarget
  <2>2. /\ lease'.token = lease.token /\ lease'.pid = lease.pid
        /\ lease'.tpid = lease.tpid /\ lease'.state = "resuming"
        /\ lease'.release /\ lease'.recorded
        /\ lease'.ownerStop = l.ownerStop /\ lease'.ownerReaped = l.ownerReaped
        /\ lease'.token = l.token /\ lease'.pid = l.pid
    BY <1>0, <2>1 DEF Lease, SameLease
  <2>3. LeftBy(lease')
    BY <2>2 DEF LeftBy
  <2>4. l.ownerReaped \/ ~l.ownerStop
    BY <1>4 DEF MustHold
  <2>5. Stays /\ KeepActor
    BY <1>4 DEF ResumeTarget, Stays
  <2>6. ActorLive /\ lease.tpid # 0
    BY <1>0, <1>4 DEF Resumable
  <2>7. /\ OweAck(Ack(lease, Outcome(l))) /\ Counted(lease) /\ UNCHANGED readies
        /\ AckStays
    BY <1>k, <1>r, <1>4 DEF ResumeTarget
  <2>8. lease.state # "resuming" /\ ~AskingNext(lease.token)
    BY <1>0, <1>4, <2>4
  <2>10. NotAsked(lease.token) \/ OverNext(lease.pid)
    BY <2>2, <2>4 DEF LeftBy
  <2>9. ResumeMove
    BY <1>o, <2>2, <2>3, <2>5, <2>6, <2>7, <2>8, <2>10 DEF ResumeMove
  <2> QED BY <2>9 DEF LeaseMove
<1>5. CASE l.state # "resuming" /\ ~MustHold(l, ts, reap) /\ DrainTarget(l, reap, ackNow, failed)
  <2>1. l.ownerReaped \/ ~l.ownerStop
    BY <1>5 DEF MustHold
  <2>2. NotAsked(lease.token) \/ OverNext(lease.pid)
    BY <2>1 DEF LeftBy, SameLease
  <2>4. /\ OweAck(Ack(lease, "draining")) /\ Counted(lease) /\ UNCHANGED readies
        /\ AckStays
    BY <1>k, <1>r, <1>5 DEF DrainTarget
  <2>3. CloseMove
    BY <1>0, <1>c, <1>5, <2>1, <2>2, <2>4 DEF DrainTarget, CloseMove
  <2> QED BY <2>3 DEF LeaseMove
<1>6. CASE l.state # "resuming" /\ ~MustHold(l, ts, reap) /\ RestartTarget(l, reap, ackNow, failed)
  <2>1. l.ownerReaped \/ ~l.ownerStop
    BY <1>6 DEF MustHold
  <2>2. CASE StartActor /\ lease' = NoLease /\ tState' = "running"
             /\ RecordThenAck(l, Outcome(l), ackNow) /\ pauseFailed' = failed
    <3>0. NotAsked(lease.token) \/ OverNext(lease.pid)
      BY <2>1 DEF LeftBy, SameLease
    <3>2. /\ OweAck(Ack(lease, Outcome(l))) /\ Counted(lease) /\ UNCHANGED readies
          /\ AckStays
      BY <1>k, <1>r, <2>2
    <3>1. CloseMove
      BY <1>0, <1>o, <1>6, <2>1, <2>2, <3>0, <3>2 DEF CloseMove
    <3> QED BY <3>1 DEF LeaseMove
  <2>3. CASE FailLease(l) /\ tState' = "exhausted" /\ Collect(reap)
             /\ OweNothing /\ UNCHANGED books
    BY <1>b, <1>c, <2>3, FailMove DEF LeaseMove
  <2> QED BY <1>6, <2>2, <2>3 DEF RestartTarget
<1> QED BY <1>1, <1>2, <1>3, <1>4, <1>5, <1>6 DEF FinishRelease

(* The lease of an arena that stays where it is keeps its owner's marks, and *)
(* a lease whose owner has been collected is no longer asked for.            *)
LEMMA StillLeft ==
    ASSUME OwnInv, Held, KeepOwner \/ SignalOwner
    PROVE  /\ LeftBy(lease)
           /\ lease.ownerReaped => ~AskingNext(lease.token)
<1>1. UNCHANGED <<oPid, oPc, oTok, oKids>>
  BY DEF KeepOwner, SignalOwner
<1>2. LeftBy(lease)
  BY <1>1 DEF OwnInv, LeaseLeft, RequestOver, LeftBy, Asking, AskingNext, Over, OverNext
<1>3. lease.ownerReaped /\ Asking(lease.token) => FALSE
  BY DEF OwnInv, LeaseLeft, PidsSeen, TokensSeen, Asking, OwnerLive
<1> QED BY <1>1, <1>2, <1>3 DEF Asking, AskingNext

LEMMA MarkMoves ==
    ASSUME NEW l \in Lease, Held, SameLease(l), LeftBy(l), l.release = lease.release,
           l.ownerReaped = lease.ownerReaped,
           MarkReady(l), UNCHANGED books, lease.state = "resuming" => lease.release,
           KeepOwner,
           \/ ReapActor /\ aPc = "exited" /\ tState' = "paused"
           \/ /\ KeepActor /\ ActorLive /\ Quiescent(lease) /\ lease.tpid # 0
              /\ lease.state \in {"waiting", "ready"} /\ tState' = "pause_suspended"
    PROVE  LeaseMove
<1>0. /\ \A s : Ack(l, s) = Ack(lease, s)
      /\ l.token = lease.token /\ l.state = lease.state /\ l.pid = lease.pid
      /\ l.tpid = lease.tpid /\ l.recorded = lease.recorded
  BY DEF SameLease, Ack
<1>1. CASE l.state = "ready" \/ l.release
  <2>1. lease' = l /\ UNCHANGED <<ack, releases, readies>> /\ owed' = NoDebt
    BY <1>1 DEF MarkReady, OweNothing, books
  <2>2. Stays \/ Collected
    BY DEF Stays, Collected, ActorLive
  <2> QED BY <2>1, <2>2 DEF Flagged, LeaseMove
<1>2. CASE l.state # "ready" /\ ~l.release
  <2>1. /\ lease' = [l EXCEPT !.state = "ready"]
        /\ ack' = Ack(l, "ready") /\ OweEvent("ready", l.token)
        /\ UNCHANGED <<releases, readies>>
    BY <1>2 DEF MarkReady, books
  <2>2. /\ lease'.token = lease.token /\ lease'.pid = lease.pid
        /\ lease'.tpid = lease.tpid /\ lease'.recorded = lease.recorded
        /\ lease'.state = "ready" /\ ~lease'.release
        /\ lease'.ownerReaped = lease.ownerReaped
    BY <1>0, <1>2, <2>1 DEF Lease
  <2>3. GrantMove
    BY <1>0, <1>2, <2>1, <2>2 DEF GrantMove
  <2> QED BY <2>3 DEF LeaseMove
<1> QED BY <1>1, <1>2

(* The arena has exited, and its lease's release is finished.                *)
LEMMA OwnerExitedMoves ==
    ASSUME TypeOK, NEW l \in Lease, Held, SameLease(l), oPc = "exited", OwnerExited(l)
    PROVE  OwnerMove /\ LeaseMove
<1> DEFINE gone == [l EXCEPT !.ownerReaped = TRUE, !.ownerStop = TRUE,
                            !.release = TRUE, !.failed = TRUE]
<1>1. /\ gone \in Lease /\ SameLease(gone) /\ gone.release /\ gone.ownerReaped
      /\ gone.ownerStop
  BY DEF Lease, SameLease
<1>2. oPc' \in {"none", "exited"} /\ OwnerMove
  BY DEF OwnerExited, OwnerBacksOff, OwnerGivenUp, OwnerMove, ReapOwner, KeepOwner
<1>o. oPc' = "none" \/ (oPc' = "exited" /\ oKids')
  <2>1. ReapOwner \/ (oKids /\ KeepOwner)
    BY DEF OwnerExited, OwnerBacksOff, OwnerGivenUp
  <2> QED BY <2>1 DEF ReapOwner, KeepOwner
<1>3. LeftBy(gone) /\ ~AskingNext(gone.token)
  BY <1>1, <1>2, <1>o DEF LeftBy, AskingNext, OverNext
<1>4. Ack(gone, "failed") = Ack(lease, "failed")
  BY <1>1 DEF Ack, SameLease
<1>5. \/ FinishRelease(gone, tState, FALSE, ack, pauseFailed)
      \/ /\ FinishRelease(gone, tState, FALSE, Ack(gone, "failed"), TRUE)
         /\ oPc' = "none" \/ oKids
  BY DEF OwnerExited, OwnerGivenUp, ReapOwner
<1>6. lease \in Lease /\ pauseFailed \in BOOLEAN
  BY Parts
<1> HIDE DEF gone
<1>7. LeaseMove
  BY <1>1, <1>3, <1>4, <1>5, <1>6, FinishMoves
<1> QED BY <1>2, <1>7

LEMMA RecoverMoves ==
    ASSUME TypeOK, OwnInv, Held, owed = NoDebt, RecoverOwner(lease)
    PROVE  OwnerMove /\ LeaseMove
<1> DEFINE stopping == [lease EXCEPT !.release = TRUE, !.ownerStop = TRUE,
                                     !.failed = TRUE]
           gone == [stopping EXCEPT !.ownerReaped = TRUE]
<1>0. lease \in Lease /\ pauseFailed \in BOOLEAN
  BY Parts
<1>1. /\ stopping \in Lease /\ SameLease(stopping) /\ stopping.release
      /\ stopping.ownerStop /\ stopping.ownerReaped = lease.ownerReaped
      /\ stopping.pid = lease.pid
  BY <1>0 DEF Lease, SameLease
<1>2. /\ gone \in Lease /\ SameLease(gone) /\ gone.release /\ gone.ownerStop
      /\ gone.ownerReaped /\ gone.pid = lease.pid /\ gone.token = lease.token
  BY <1>0 DEF Lease, SameLease
<1>3. CASE lease' = lease /\ UNCHANGED <<ack, owed, tState, books>>
           /\ KeepOwner /\ KeepActor
  BY <1>3 DEF OwnerMove, LeaseMove, Quiet, Stays, books
<1>4. CASE lease' = stopping /\ SignalOwner /\ KeepActor
           /\ UNCHANGED <<ack, owed, tState, books>>
  <2>1. LeftBy(stopping)
    BY <1>1, <1>4, StillLeft DEF LeftBy
  <2> HIDE DEF stopping
  <2>2. Flagged
    BY <1>1, <1>4, <2>1 DEF Flagged, Stays, books
  <2> QED BY <1>4, <2>2 DEF OwnerMove, LeaseMove
<1>5. CASE oPc = "exited" /\ OwnerExited(stopping)
  BY <1>1, <1>5, OwnerExitedMoves
<1>6. CASE /\ oPc = "none" \/ oPid # lease.pid
           /\ FinishRelease(gone, tState, FALSE, ack, pauseFailed)
           /\ KeepOwner
  <2>1. ~Asking(lease.token)
    BY <1>6 DEF OwnInv, PidsSeen, TokensSeen, Asking
  <2>2. LeftBy(gone) /\ ~AskingNext(gone.token)
    BY <1>2, <1>6, <2>1 DEF LeftBy, AskingNext, Asking, KeepOwner, OverNext
  <2> HIDE DEF gone
  <2>3. LeaseMove
    BY <1>0, <1>2, <1>6, <2>2, FinishMoves
  <2> QED BY <1>6, <2>3 DEF OwnerMove
<1> QED BY <1>3, <1>4, <1>5, <1>6 DEF RecoverOwner

LEMMA ReconcileMoves ==
    ASSUME TypeOK, OwnInv, CoordReconcile
    PROVE  OwnerMove /\ LeaseMove
<1>p. /\ lease \in Lease /\ pauseFailed \in BOOLEAN /\ Parsed \in Lease
      /\ cPc = "reconcile" /\ owed = NoDebt
      /\ KeepOwner \/ SignalOwner => (Held => LeftBy(lease))
  <2>1. Reconcile
    BY DEF CoordReconcile, NothingAsked, RejectRequest, SettleUnadmitted, Admit,
           AdmitSuspend, AdmitTerminate, AdmitAbsent, ReconcileResuming,
           ReconcileLost, ReconcileRelease, ReconcileObserve, ReconcileWait,
           InProgress, Healthy
  <2> QED BY <2>1, Parts, ParsedType, StillLeft DEF Reconcile
<1> USE <1>p
<1>a. /\ Parsed.token = cReq.token /\ Parsed.pid = cReq.pid
      /\ Parsed.state = "requested" /\ Parsed.tpid = 0 /\ ~Parsed.release
      /\ ~Parsed.ownerReaped /\ ~Parsed.recorded
  BY DEF Parsed, NoLease
<1>1. CASE NothingAsked \/ ReconcileWait
  BY <1>1 DEF NothingAsked, ReconcileWait, KeepWorkers, OwnerMove, LeaseMove,
              Quiet, Stays, books
<1>2. CASE RejectRequest
  BY <1>2, JournalCounts DEF RejectRequest, KeepWorkers, OwnerMove, LeaseMove, Refuse
<1>3. CASE SettleUnadmitted
  <2>1. RecordRelease(Parsed) /\ ack' = ack /\ OweAck(Ack(Parsed, "released"))
    BY <1>3 DEF SettleUnadmitted, RecordThenAck
  <2>2. Counted(Parsed) /\ UNCHANGED readies
    BY <2>1, JournalCounts DEF RecordRelease, Counted, books
  <2> QED BY <1>3, <2>1, <2>2 DEF SettleUnadmitted, Admissible, Withdrawn,
          KeepWorkers, OwnerMove, LeaseMove, SettleEarly
<1>4. CASE AdmitSuspend
  <2>1. lease' = [Parsed EXCEPT !.state = "waiting", !.tpid = aPid]
    BY <1>4 DEF AdmitSuspend
  <2>2. /\ lease'.token = cReq.token /\ lease'.pid = cReq.pid
        /\ lease'.state = "waiting" /\ lease'.tpid = aPid /\ ~lease'.release
        /\ ~lease'.ownerReaped /\ ~lease'.recorded
    BY <1>a, <2>1 DEF Lease
  <2>3. AdmitMove
    BY <1>4, <2>2 DEF AdmitSuspend, Admit, AdmitMove, KeepWorkers, books
  <2> QED BY <1>4, <2>3 DEF AdmitSuspend, KeepWorkers, OwnerMove, LeaseMove
<1>5. CASE AdmitTerminate
  <2>1. lease' = [Parsed EXCEPT !.state = "stopping"]
    BY <1>5 DEF AdmitTerminate
  <2>2. /\ lease'.token = cReq.token /\ lease'.pid = cReq.pid
        /\ lease'.state = "stopping" /\ lease'.tpid = 0 /\ ~lease'.release
        /\ ~lease'.ownerReaped /\ ~lease'.recorded
    BY <1>a, <2>1 DEF Lease
  <2>3. AdmitMove
    BY <1>5, <2>2 DEF AdmitTerminate, Admit, AdmitMove, books
  <2> QED BY <1>5, <2>3 DEF AdmitTerminate, OwnerMove, LeaseMove
<1>6. CASE AdmitAbsent
  <2> DEFINE r == [Parsed EXCEPT !.reaped = TRUE]
  <2>1. CASE tState' = "paused" /\ ReapActor /\ MarkReady(r) /\ UNCHANGED books
    <3>1. /\ r.state = "requested" /\ ~r.release /\ r.token = cReq.token
          /\ r.pid = cReq.pid /\ r.tpid = 0 /\ ~r.ownerReaped /\ ~r.recorded
          /\ r \in Lease
      BY <1>a DEF Lease
    <3> HIDE DEF r
    <3>2. /\ lease' = [r EXCEPT !.state = "ready"] /\ ack' = Ack(r, "ready")
          /\ OweEvent("ready", cReq.token) /\ UNCHANGED <<releases, readies>>
      BY <2>1, <3>1 DEF MarkReady, books
    <3>3. /\ lease'.token = cReq.token /\ lease'.pid = cReq.pid
          /\ lease'.state = "ready" /\ lease'.tpid = 0 /\ ~lease'.release
          /\ ~lease'.ownerReaped /\ ~lease'.recorded
      BY <3>1, <3>2 DEF Lease
    <3>4. ack' = Ack(lease', "ready")
      BY <3>1, <3>2, <3>3 DEF Ack
    <3>5. AdmitMove
      BY <1>6, <2>1, <3>2, <3>3, <3>4 DEF AdmitAbsent, Admit, AdmitMove
    <3> QED BY <1>6, <3>5 DEF AdmitAbsent, OwnerMove, LeaseMove
  <2>2. CASE FailLease(Parsed) /\ KeepActor /\ UNCHANGED <<owed, tState, books>>
    <3>1. lease' = [Parsed EXCEPT !.failed = TRUE] /\ ack' = Ack(Parsed, "failed")
          /\ pauseFailed'
      BY <2>2 DEF FailLease
    <3>2. /\ lease'.token = cReq.token /\ lease'.pid = cReq.pid
          /\ lease'.state = "requested" /\ lease'.tpid = 0 /\ ~lease'.release
          /\ ~lease'.ownerReaped /\ ~lease'.recorded
      BY <1>a, <3>1 DEF Lease
    <3>3. ack' = Ack(lease', "failed")
      BY <1>a, <3>1, <3>2 DEF Ack
    <3>4. AdmitMove
      BY <1>6, <2>2, <3>1, <3>2, <3>3 DEF AdmitAbsent, Admit, AdmitMove, books
    <3> QED BY <1>6, <3>4 DEF AdmitAbsent, OwnerMove, LeaseMove
  <2> QED BY <1>6, <2>1, <2>2 DEF AdmitAbsent
<1>7. CASE ReconcileResuming
  <2>1. Held /\ lease.state = "resuming"
    BY <1>7 DEF ReconcileResuming, Held
  <2>2. SameLease(lease) /\ Collect(FALSE) /\ UNCHANGED <<owed, releases, readies>>
    BY <1>7 DEF ReconcileResuming, SameLease, Collect, books
  <2>3. LeaseMove
    BY <1>7, <2>1, <2>2, ConfirmMoves DEF ReconcileResuming
  <2> QED BY <1>7, <2>3 DEF ReconcileResuming, OwnerMove
<1>8. CASE ReconcileLost
  BY <1>8, RecoverMoves DEF ReconcileLost, InProgress
<1>9. CASE ReconcileRelease
  <2> DEFINE l == [lease EXCEPT !.release = TRUE,
                     !.failed = IF lease.release THEN @
                                ELSE cReq.state = "cancelled"]
  <2>1. /\ l \in Lease /\ SameLease(l) /\ l.release /\ l.token = lease.token
        /\ l.ownerReaped = lease.ownerReaped /\ l.pid = lease.pid
    BY DEF Lease, SameLease
  <2>2. Held /\ KeepOwner /\ cReq.token = lease.token
        /\ FinishRelease(l, tState, FALSE, ack, pauseFailed)
    BY <1>9 DEF ReconcileRelease, InProgress, Foreign
  <2> HIDE DEF l
  <2>3. ~Asking(lease.token)
    BY <1>9, <2>2 DEF ReconcileRelease, Withdrawn, OwnInv, RequestTrue, Withdraws
  <2>4. ~AskingNext(l.token)
    BY <2>1, <2>2, <2>3 DEF KeepOwner, Asking, AskingNext
  <2>7. NotAsked(l.token)
    BY <1>9, <2>1, <2>2 DEF ReconcileRelease, Withdrawn, OwnInv, RequestOver, Withdraws
  <2>5. LeftBy(l)
    BY <2>1, <2>2, <2>4, <2>7 DEF LeftBy
  <2>6. LeaseMove
    BY <2>1, <2>2, <2>4, <2>5, FinishMoves
  <2> QED BY <2>2, <2>6 DEF OwnerMove
<1>10. CASE ReconcileObserve
  <2>0. Held  BY <1>10 DEF ReconcileObserve, Healthy, InProgress
  <2>1. CASE /\ Quiescent(lease) /\ tState' = "pause_suspended"
             /\ MarkReady([lease EXCEPT !.suspended = TRUE])
             /\ KeepActor /\ KeepOwner /\ UNCHANGED <<oState, pauseFailed, books>>
    <3> DEFINE l == [lease EXCEPT !.suspended = TRUE]
    <3>1. /\ l \in Lease /\ SameLease(l) /\ l.release = lease.release
          /\ l.ownerStop = lease.ownerStop /\ l.ownerReaped = lease.ownerReaped
          /\ l.token = lease.token /\ l.pid = lease.pid
      BY DEF Lease, SameLease
    <3>2. MarkReady(l)  BY <2>1
    <3> HIDE DEF l
    <3>3. LeftBy(l)
      BY <2>0, <2>1, <3>1 DEF LeftBy
    <3>4. ActorLive /\ lease.tpid # 0 /\ lease.state \in {"waiting", "ready"}
      BY <1>10 DEF ReconcileObserve, Observed
    <3>5. LeaseMove
      BY <2>0, <2>1, <3>1, <3>2, <3>3, <3>4, MarkMoves
    <3> QED BY <2>1, <3>5 DEF OwnerMove
  <2>2. CASE RecoverOwner(lease)
    BY <2>0, <2>2, RecoverMoves
  <2>3. CASE UNCHANGED <<lease, ack, pauseFailed>> /\ KeepWorkers
             /\ UNCHANGED <<owed, books>>
    BY <2>3 DEF KeepWorkers, OwnerMove, LeaseMove, Quiet, Stays, books
  <2>4. CASE FailLease(lease) /\ KeepWorkers /\ UNCHANGED <<owed, books>>
    <3>1. SameLease(lease) /\ UNCHANGED <<releases, readies>> /\ KeepOwner
      BY <2>4 DEF SameLease, books, KeepWorkers
    <3>2. Stays
      BY <2>4 DEF KeepWorkers, Stays
    <3>3. LeaseMove
      BY <2>0, <2>4, <3>1, <3>2, FailMove DEF LeaseMove
    <3> QED BY <3>1, <3>3 DEF OwnerMove
  <2> QED BY <1>10, <2>1, <2>2, <2>3, <2>4 DEF ReconcileObserve
<1> QED BY <1>1, <1>2, <1>3, <1>4, <1>5, <1>6, <1>7, <1>8, <1>9, <1>10
        DEF CoordReconcile

(* The target's monitor step.                                                *)
TargetStep ==
    \/ TargetUnhealthy \/ TargetExited \/ TargetExitedOtherwise
    \/ TargetHardKill \/ TargetUnkillable \/ TargetRestart \/ TargetFine
OwnerMonitorStep ==
    \/ OwnerUnhealthy \/ OwnerExitedInLease \/ OwnerExitedOtherwise
    \/ OwnerHardKill \/ OwnerUnkillable \/ OwnerRestart \/ OwnerFine

LEMMA FailedMoves ==
    ASSUME lease \in Lease, OwnInv, Held, FailLease(lease), KeepOwner, UNCHANGED books,
           owed' = NoDebt, Stays \/ Collected
    PROVE  LeaseMove
BY StillLeft, FailMove DEF SameLease, books, LeaseMove

LEMMA TargetMoves ==
    ASSUME TypeOK, OwnInv, TargetStep
    PROVE  OwnerMove /\ LeaseMove
<1>p. lease \in Lease /\ pauseFailed \in BOOLEAN /\ owed = NoDebt
  BY Parts
  DEF TargetStep, TargetUnhealthy, TargetExited, TargetExitedOtherwise,
      TargetHardKill, TargetUnkillable, TargetRestart, TargetFine, MonitorTarget
<1>o. KeepOwner /\ (Held => LeftBy(lease)) /\ OwnerMove
  <2>1. KeepOwner
    BY DEF TargetStep, TargetUnhealthy, TargetExited, TargetExitedOtherwise,
           TargetHardKill, TargetUnkillable, TargetRestart, TargetFine, KeepWorkers
  <2> QED BY <2>1, StillLeft DEF OwnerMove
<1> USE <1>p, <1>o
<1> SUFFICES LeaseMove  OBVIOUS
<1>1. CASE TargetUnhealthy
  BY <1>1 DEF TargetUnhealthy, KeepLease, LeaseMove, Quiet, Stays, books
<1>2. CASE TargetExited
  <2> DEFINE l == [lease EXCEPT !.suspended = FALSE]
             gone == [l EXCEPT !.reaped = TRUE]
  <2>0. Held /\ aPc = "exited"
    BY <1>2 DEF TargetExited, ExitedInLease
  <2>1. /\ l \in Lease /\ SameLease(l) /\ l.release = lease.release
        /\ l.ownerStop = lease.ownerStop /\ l.ownerReaped = lease.ownerReaped
        /\ l.token = lease.token /\ l.pid = lease.pid
    BY DEF Lease, SameLease
  <2>2. /\ gone \in Lease /\ SameLease(gone) /\ gone.release = lease.release
        /\ gone.ownerStop = lease.ownerStop /\ gone.ownerReaped = lease.ownerReaped
        /\ gone.token = lease.token /\ gone.pid = lease.pid
    BY <2>1 DEF Lease, SameLease
  <2>3. LeftBy(l) /\ LeftBy(gone)
    BY <2>0, <2>1, <2>2 DEF LeftBy
  <2> HIDE DEF l, gone
  <2>4. CASE FailLease(l) /\ KeepActor /\ UNCHANGED <<tState, owed, books>>
    BY <2>0, <2>1, <2>3, <2>4, FailMove DEF LeaseMove, Stays, books
  <2>5. CASE FailLease(gone) /\ tState' = "paused" /\ ReapActor
             /\ UNCHANGED <<owed, books>>
    <3>1. Collected  BY <2>0, <2>5 DEF Collected, ActorLive
    <3> QED BY <2>0, <2>2, <2>3, <2>5, <3>1, FailMove DEF LeaseMove, books
  <2>6. CASE /\ lease.release
             /\ FinishRelease(gone, "paused", TRUE, ack, pauseFailed)
    <3>1. gone.ownerReaped \/ ~gone.ownerStop => ~AskingNext(gone.token)
      BY <2>0, <2>2, <2>3, <2>6, StillLeft DEF LeftBy
    <3> QED BY <2>0, <2>2, <2>3, <2>6, <3>1, FinishMoves DEF ActorLive
  <2>7. CASE /\ ~lease.release /\ MarkReady(gone) /\ tState' = "paused" /\ ReapActor
             /\ UNCHANGED books
    <3>1. lease.state = "resuming" => lease.release
      BY DEF OwnInv, LeaseLeft
    <3> QED BY <2>0, <2>2, <2>3, <2>7, <3>1, MarkMoves
  <2> QED BY <1>2, <2>1, <2>4, <2>5, <2>6, <2>7 DEF TargetExited, l, gone
<1>3. CASE TargetExitedOtherwise
  <2>1. UNCHANGED <<lease, ack, owed, releases, readies>>
    BY <1>3 DEF TargetExitedOtherwise, KeepLease, books
  <2>2. Stays \/ Collected
    BY <1>3 DEF TargetExitedOtherwise, Stays, Collected, ActorLive
  <2> QED BY <2>1, <2>2 DEF LeaseMove, Quiet
<1>4. CASE TargetHardKill
  BY <1>4 DEF TargetHardKill, KeepLease, LeaseMove, Quiet, Stays, books
<1>5. CASE TargetUnkillable
  <2>1. Stays /\ UNCHANGED <<owed, books>>
    BY <1>5 DEF TargetUnkillable, Stays
  <2>2. (Held /\ FailLease(lease)) \/ UNCHANGED <<lease, ack>>
    BY <1>5 DEF TargetUnkillable
  <2> QED BY <2>1, <2>2, FailedMoves DEF LeaseMove, Quiet, books
<1>6. CASE TargetRestart
  BY <1>6 DEF TargetRestart, KeepLease, LeaseMove, Quiet, Stays, books
<1>7. CASE TargetFine
  BY <1>7 DEF TargetFine, KeepWorkers, KeepLease, LeaseMove, Quiet, Stays, books
<1> QED BY <1>1, <1>2, <1>3, <1>4, <1>5, <1>6, <1>7 DEF TargetStep

LEMMA OwnerMonitorMoves ==
    ASSUME TypeOK, OwnInv, OwnerMonitorStep
    PROVE  OwnerMove /\ LeaseMove
<1>p. lease \in Lease /\ pauseFailed \in BOOLEAN /\ owed = NoDebt
  BY Parts
  DEF OwnerMonitorStep, OwnerUnhealthy, OwnerExitedInLease, OwnerExitedOtherwise,
      OwnerHardKill, OwnerUnkillable, OwnerRestart, OwnerFine, MonitorOwner
<1> USE <1>p
<1>1. CASE OwnerUnhealthy
  <2>1. CASE Held /\ RecoverOwner(lease)
    BY <2>1, RecoverMoves
  <2>2. CASE ~Held /\ SignalOwner /\ KeepActor /\ KeepLease /\ UNCHANGED tState
    BY <2>2 DEF KeepLease, OwnerMove, LeaseMove, Quiet, Stays, books
  <2> QED BY <1>1, <2>1, <2>2 DEF OwnerUnhealthy
<1>2. CASE OwnerExitedInLease
  <2>1. SameLease(lease)  BY DEF SameLease
  <2> QED BY <1>2, <2>1, OwnerExitedMoves DEF OwnerExitedInLease
<1>3. CASE OwnerExitedOtherwise
  BY <1>3 DEF OwnerExitedOtherwise, OwnerBacksOff, OwnerGivenUp, KeepLease,
              OwnerMove, LeaseMove, Quiet, Stays, books
<1>4. CASE OwnerHardKill
  BY <1>4 DEF OwnerHardKill, KeepLease, OwnerMove, LeaseMove, Quiet, Stays, books
<1>5. CASE OwnerUnkillable
  <2>1. KeepOwner /\ Stays /\ UNCHANGED <<owed, books>>
    BY <1>5 DEF OwnerUnkillable, Stays
  <2>2. (Held /\ FailLease(lease)) \/ UNCHANGED <<lease, ack>>
    BY <1>5 DEF OwnerUnkillable
  <2> QED BY <2>1, <2>2, FailedMoves DEF OwnerMove, LeaseMove, Quiet, books
<1>6. CASE OwnerRestart
  BY <1>6 DEF OwnerRestart, KeepLease, OwnerMove, LeaseMove, Quiet, Stays, books
<1>7. CASE OwnerFine
  BY <1>7 DEF OwnerFine, KeepWorkers, KeepLease, OwnerMove, LeaseMove, Quiet, Stays,
              books
<1> QED BY <1>1, <1>2, <1>3, <1>4, <1>5, <1>6, <1>7 DEF OwnerMonitorStep

(* Every reconciliation and every monitor step is one of these moves.        *)
LEMMA CoordMoves ==
    ASSUME TypeOK, OwnInv, CoordReconcile \/ TargetStep \/ OwnerMonitorStep
    PROVE  CoordMove
<1>1. OwnerMove /\ LeaseMove
  BY ReconcileMoves, TargetMoves, OwnerMonitorMoves
<1>2. Reconcile \/ MonitorTarget \/ (MonitorOwner /\ EndCycle)
  BY DEF CoordReconcile, NothingAsked, RejectRequest, SettleUnadmitted, Admit,
         AdmitSuspend, AdmitTerminate, AdmitAbsent, ReconcileResuming,
         ReconcileLost, ReconcileRelease, ReconcileObserve, ReconcileWait,
         InProgress, Healthy, TargetStep, TargetUnhealthy, TargetExited,
         TargetExitedOtherwise, TargetHardKill, TargetUnkillable, TargetRestart,
         TargetFine, OwnerMonitorStep, OwnerUnhealthy, OwnerExitedInLease,
         OwnerExitedOtherwise, OwnerHardKill, OwnerUnkillable, OwnerRestart, OwnerFine
<1> QED BY <1>1, <1>2 DEF CoordMove, Reconcile, MonitorTarget, MonitorOwner, EndCycle,
           CoordFrame, KeepLoop

-----------------------------------------------------------------------------
(* The arena and its lease: every step keeps OwnInv                          *)

(* Facts about types, for arithmetic.                                        *)
LEMMA OwnTypes ==
    ASSUME TypeOK
    PROVE  /\ oTok \in Nat /\ oPid \in Nat /\ lastTok \in Nat /\ oPc \in OwnerPcs
           /\ req.token \in Nat /\ cReq.token \in Nat /\ lease.token \in Nat
           /\ ack.token \in Nat /\ req.pid \in Nat /\ cReq.pid \in Nat
           /\ lease.pid \in Nat /\ cPc \in CoordPcs
           /\ owed.ack \in Acknowledgement /\ owed.ack.token \in Nat
BY DEF TypeOK, FilesOK, OwnerOK, CoordOK, Request, Acknowledgement, Lease, Pids, Debt

(* What a move of the coordinator does to the tokens in circulation.         *)
LEMMA MoveTokens ==
    ASSUME TypeOK, CoordMove
    PROVE  /\ ack'.token \in {ack.token, lease.token, cReq.token}
           /\ owed'.ack.token \in {0, lease.token, cReq.token}
           /\ \/ lease'.token = lease.token /\ lease'.pid = lease.pid /\ (Held' => Held)
              \/ lease' = NoLease
              \/ AdmitMove /\ lease'.token = cReq.token /\ lease'.pid = oPid
                 /\ KeepOwner
<1>1. \A l, s : Ack(l, s).token = l.token
  BY DEF Ack
<1>2. Parsed.token = cReq.token
  BY DEF Parsed, NoLease
<1>0. /\ NoDebt.ack.token = 0
      /\ \A event, t : OweEvent(event, t) => owed'.ack.token = 0
      /\ \A a : OweAck(a) => owed'.ack = a
  BY OwedFields DEF NoToken
<1>3. CASE Quiet \/ Flagged \/ Refuse \/ SettleEarly
  BY <1>0, <1>1, <1>2, <1>3 DEF Quiet, Flagged, Refuse, SettleEarly, SameLease, Held
<1>4. CASE AdmitMove
  BY <1>0, <1>1, <1>4 DEF AdmitMove, OwnerMatches
<1>5. CASE GrantMove \/ ResumeMove
  BY <1>0, <1>1, <1>5 DEF GrantMove, ResumeMove, AckStays
<1>6. CASE CloseMove \/ ConfirmMove \/ DrainedMove
  BY <1>0, <1>1, <1>6 DEF CloseMove, ConfirmMove, DrainedMove, AckStays
<1> QED BY <1>3, <1>4, <1>5, <1>6 DEF CoordMove, LeaseMove

(* What it does to the arena.                                                *)
LEMMA MoveOwner ==
    ASSUME CoordMove
    PROVE  \/ UNCHANGED <<oPid, oPc, oTok, oKids>>
           \/ oPc' = "none" /\ UNCHANGED <<oPid, oTok>>
           \/ ~Held /\ oPid' = oPid + 1 /\ oPc' = "idle" /\ oTok' = NoToken
BY DEF CoordMove, OwnerMove, KeepOwner, SignalOwner, ReapOwner, StartOwner

LEMMA OwnMoves == ASSUME TypeOK, OwnInv, CoordMove PROVE OwnInv'
<1>t. /\ UNCHANGED <<req, lastTok, cReq>> /\ Up /\ Up'
      /\ NoLease.token = 0 /\ NoLease.pid = 0 /\ NoLease.state = "none"
  BY DEF CoordMove, Up, NoLease
<1>n. NoToken = 0  BY DEF NoToken
<1> USE OwnTypes
<1>1. TokensSeen'
  BY <1>t, <1>n, MoveTokens, MoveOwner DEF OwnInv, TokensSeen
<1>2. PidsSeen'
  BY <1>t, <1>n, MoveTokens, MoveOwner DEF OwnInv, PidsSeen, KeepOwner, Held
<1>3. RequestTrue'
  BY <1>t, <1>n, MoveOwner DEF OwnInv, PidsSeen, RequestTrue, Asking, OwnerLive
<1>4. LeaseLeft'
  <2>1. CASE ~Held'
    BY <2>1 DEF LeaseLeft, Held
  <2>2. CASE lease' = lease /\ Held
    BY <2>2, MoveOwner DEF OwnInv, LeaseLeft, Asking, OwnerLive, Held
  <2>3. CASE Flagged
    BY <2>3, MoveOwner
    DEF OwnInv, LeaseLeft, Flagged, SameLease, LeftBy, Asking, AskingNext, OwnerLive, Held,
        OverNext
  <2>4. CASE AdmitMove
    BY <2>4 DEF AdmitMove, LeaseLeft
  <2>5. CASE GrantMove
    BY <2>5, MoveOwner DEF OwnInv, GrantMove, LeaseLeft, OwnerLive, Held
  <2>6. CASE ResumeMove
    BY <2>6 DEF ResumeMove, LeaseLeft, LeftBy, Asking, AskingNext, OwnerLive, OverNext
  <2> QED BY <1>t, <2>1, <2>2, <2>3, <2>4, <2>5, <2>6
      DEF CoordMove, LeaseMove, Quiet, Refuse, SettleEarly, CloseMove, ConfirmMove,
          DrainedMove, Held
<1>5. GrantHeld'
  <2>1. ASSUME lease.token = oTok, lease.state = "ready", UNCHANGED <<oPc, oTok>>,
               oPc \in {"waitReady", "granted", "body"}
        PROVE  lease'.token = oTok' /\ lease'.state = "ready"
    BY <2>1 DEF CoordMove, LeaseMove, Quiet, Flagged, Refuse, SettleEarly, AdmitMove,
       GrantMove, ResumeMove, CloseMove, ConfirmMove, DrainedMove, SameLease, Held,
       AskingNext
  <2>2. ASSUME ack' # ack, ack'.state = "ready"
        PROVE  lease'.token = ack'.token /\ lease'.state = "ready"
    <3>1. \A l, s : Ack(l, s).token = l.token /\ Ack(l, s).state = s
      BY DEF Ack
    <3>2. CASE GrantMove \/ AdmitMove
      BY <2>2, <3>1, <3>2 DEF GrantMove, AdmitMove
    <3> QED BY <2>2, <3>1, <3>2 DEF CoordMove, LeaseMove, Quiet, Flagged, Refuse, SettleEarly,
       ResumeMove, CloseMove, ConfirmMove, DrainedMove, ReleaseStates, AckStays
  <2>3. CASE UNCHANGED <<oPc, oTok>>
    BY <1>t, <2>1, <2>2, <2>3 DEF OwnInv, GrantHeld
  <2>4. CASE oPc' \in {"none", "idle"}
    BY <2>4 DEF GrantHeld
  <2> QED BY <2>3, <2>4, MoveOwner
<1>6. RequestOver'
  <2>0. /\ \A t \in Nat : NotAsked(t)' = NotAsked(t)
        /\ \A p \in Nat : Over(p)' = OverNext(p)
    BY <1>t DEF NotAsked, Withdraws, Over, OverNext
  <2>1. Held => (Over(lease.pid) => OverNext(lease.pid))
    BY MoveOwner DEF Over, OverNext
  <2>c. Withdraws(cReq)' => NotAsked(cReq.token)'
    BY <1>t DEF OwnInv, RequestOver, NotAsked, Withdraws
  <2>2. ASSUME Held'
        PROVE  /\ lease'.release /\ ~lease'.ownerStop => NotAsked(lease.token)'
               /\ lease'.ownerReaped => Over(lease.pid)'
               /\ lease'.state = "resuming" => (NotAsked(lease.token) \/ Over(lease.pid))'
    <3>s. lease'.token \in Nat /\ lease'.pid \in Nat
      BY <1>t, MoveTokens
    <3>n. NotAsked(lease.token)' = NotAsked(lease'.token)
      BY <1>t DEF NotAsked, Withdraws
    <3>o. Over(lease.pid)' = OverNext(lease'.pid)
      BY DEF Over, OverNext
    <3>1. CASE lease' = lease /\ Held
      BY <2>1, <3>1, <3>n, <3>o DEF OwnInv, RequestOver
    <3>2. CASE Flagged
      BY <2>1, <3>2, <3>n, <3>o DEF OwnInv, RequestOver, Flagged, SameLease, LeftBy
    <3>3. CASE AdmitMove
      BY <3>3 DEF AdmitMove
    <3>4. CASE GrantMove
      BY <2>1, <3>4, <3>n, <3>o DEF OwnInv, RequestOver, GrantMove
    <3>5. CASE ResumeMove
      BY <3>5, <3>n, <3>o DEF ResumeMove, LeftBy
    <3> QED BY <1>t, <2>2, <3>1, <3>2, <3>3, <3>4, <3>5
        DEF CoordMove, LeaseMove, Quiet, Refuse, SettleEarly, CloseMove, ConfirmMove,
            DrainedMove, Held
  <2> QED BY <2>c, <2>2 DEF RequestOver, Held
<1>7. OwedLeft'
  <2>a. \A l, s : Ack(l, s).token = l.token /\ Ack(l, s).state = s
    BY DEF Ack
  <2>1. CASE owed'.ack.state \in {"none", "failed"}
    BY <2>1 DEF OwedLeft, ReleaseStates
  <2>2. CASE SettleEarly
    <3>1. owed'.ack = Ack(Parsed, "released") /\ Parsed.token = cReq.token
          /\ Withdraws(cReq) /\ KeepOwner
      BY <2>2, OwedFields DEF SettleEarly, Parsed, NoLease, Withdrawn, Withdraws, KeepWorkers
    <3>2. ~Asking(cReq.token)  BY <3>1 DEF OwnInv, RequestTrue
    <3> QED BY <2>a, <3>1, <3>2 DEF OwedLeft, Asking, KeepOwner, ReleaseStates
  <2>3. CASE ResumeMove \/ CloseMove
    <3>1. /\ ~AskingNext(lease.token)
          /\ \E s \in ReleaseStates : OweAck(Ack(lease, s))
      BY <2>3 DEF ResumeMove, CloseMove, ReleaseStates
    <3>2. owed'.ack.state \in ReleaseStates /\ owed'.ack.token = lease.token
      BY <2>a, <3>1, OwedFields
    <3> QED BY <3>1, <3>2 DEF OwedLeft, Asking, AskingNext
  <2> QED BY <2>a, <2>1, <2>2, <2>3, OwedFields
      DEF CoordMove, LeaseMove, Quiet, Flagged, Refuse, AdmitMove, GrantMove,
          ConfirmMove, DrainedMove
<1> QED BY <1>1, <1>2, <1>3, <1>4, <1>5, <1>6, <1>7 DEF OwnInv

(* The arena's own steps.                                                    *)
LEMMA OwnerKept ==
    ASSUME OwnerNext
    PROVE  UNCHANGED <<ack, cReq, lease, cPc, oPid, owed>>
BY DEF OwnerFrame, files, ownerVars, coordVars, OwnerNext, OwnerStep, OwnerRegister,
       OwnerBlocked, OwnerRequest, OwnerHeartbeat, OwnerSeesReady, OwnerActivate,
       OwnerCancel, OwnerRelease, OwnerReleased, OwnerFails, OwnerStops, OwnerKilled,
       OwnerCrash

LEMMA OwnArena == ASSUME TypeOK, OwnInv, OwnerNext PROVE OwnInv'
<1> USE OwnTypes, OwnerKept DEF OwnInv
<1>u. Up' = Up  BY DEF Up
<1>n. NoToken = 0  BY DEF NoToken
<1>1. CASE OwnerRegister
  <2>1. /\ oTok' = lastTok + 1 /\ lastTok' = lastTok + 1 /\ oPc = "idle"
        /\ oPc' = "registered" /\ req' = req
    BY <1>1 DEF OwnerRegister
  <2>2. TokensSeen'  BY <1>n, <2>1 DEF TokensSeen
  <2>3. PidsSeen'  BY <1>n, <1>u, <2>1 DEF TokensSeen, PidsSeen, Held
  <2>4. RequestTrue'
    BY <2>1 DEF TokensSeen, RequestTrue, Withdraws, Asking, OwnerLive
  <2>5. LeaseLeft'  BY <2>1 DEF TokensSeen, LeaseLeft, Asking, OwnerLive, Held
  <2>6. GrantHeld' /\ OwedLeft'  BY <2>1 DEF GrantHeld, OwedLeft, Asking, TokensSeen
  <2>7. RequestOver'
    BY <2>1 DEF RequestOver, NotAsked, Over, Withdraws, Held
  <2> QED BY <2>2, <2>3, <2>4, <2>5, <2>6, <2>7
<1>2. CASE OwnerRequest \/ OwnerHeartbeat \/ OwnerActivate
  <2>1. /\ UNCHANGED <<oTok, lastTok>>
        /\ req'.token = oTok /\ req'.pid = oPid /\ req'.state \in {"requested", "active"}
        /\ oPc \in {"registered", "waitReady", "granted", "body"}
        /\ oPc' \in {"waitReady", "granted", "body"}
        /\ oPc = "registered" => oPc' = "waitReady"
        /\ oPc' = "waitReady" => oPc \in {"registered", "waitReady"}
    BY <1>2 DEF OwnerRequest, OwnerHeartbeat, OwnerActivate, Written, ownerVars
  <2>2. TokensSeen'  BY <2>1 DEF TokensSeen
  <2>3. PidsSeen'  BY <1>u, <2>1 DEF PidsSeen, Held
  <2>4. RequestTrue'  BY <2>1 DEF RequestTrue, Withdraws, Asking, OwnerLive
  <2>5. LeaseLeft'  BY <2>1 DEF LeaseLeft, Asking, OwnerLive, Held
  <2>6. GrantHeld' /\ OwedLeft'
    BY <1>2, <1>u, <2>1
    DEF GrantHeld, TokensSeen, OwnerRequest, OwnerHeartbeat, OwnerActivate, ownerVars,
        OwedLeft, Asking
  <2>7. RequestOver'
    BY <2>1 DEF RequestTrue, LeaseLeft, Asking, RequestOver, NotAsked, Over, Withdraws, Held
  <2> QED BY <2>2, <2>3, <2>4, <2>5, <2>6, <2>7
<1>3. CASE OwnerCancel \/ OwnerRelease
  <2>1. /\ UNCHANGED <<oTok, lastTok>> /\ req'.token = oTok /\ req'.pid = oPid
        /\ req'.state \in {"released", "cancelled"}
        /\ oPc \in {"waitReady", "body"} /\ oPc' \in {"waitRelease", "waitFailed"}
    BY <1>3 DEF OwnerCancel, OwnerRelease, Written
  <2>2. TokensSeen'  BY <2>1 DEF TokensSeen
  <2>3. PidsSeen'  BY <1>u, <2>1 DEF PidsSeen, Held
  <2>4. RequestTrue'  BY <2>1 DEF RequestTrue, Withdraws, Asking, OwnerLive
  <2>5. LeaseLeft'  BY <2>1 DEF LeaseLeft, Asking, OwnerLive, Held
  <2>6. GrantHeld' /\ OwedLeft'  BY <2>1 DEF GrantHeld, OwedLeft, Asking, TokensSeen
  <2>7. RequestOver'
    BY <2>1 DEF RequestOver, NotAsked, Over, Withdraws, Held
  <2> QED BY <2>2, <2>3, <2>4, <2>5, <2>6, <2>7
<1>4. CASE \/ OwnerBlocked \/ OwnerSeesReady \/ OwnerReleased \/ OwnerFails
           \/ OwnerStops \/ OwnerKilled \/ OwnerCrash
  <2>1. /\ UNCHANGED <<oTok, lastTok, req>> /\ OwnerLive
        /\ \/ oPc' = "exited"
           \/ oPc = "waitRelease" /\ oPc' = "idle"
           \/ oPc = "waitReady" /\ oPc' = "granted" /\ OwnAck({"ready"})
    BY <1>4 DEF OwnerBlocked, OwnerSeesReady, OwnerReleased, OwnerFails,
       OwnerStops, OwnerKilled, OwnerCrash, OwnerEnds, OwnerLive, files
  <2>2. TokensSeen'  BY <2>1 DEF TokensSeen
  <2>3. PidsSeen'  BY <1>u, <2>1 DEF PidsSeen, Held
  <2>4. RequestTrue'  BY <2>1 DEF RequestTrue, Withdraws, Asking, OwnerLive
  <2>5. LeaseLeft'  BY <2>1 DEF LeaseLeft, Asking, OwnerLive, Held
  <2>6. GrantHeld' /\ OwedLeft'
    BY <1>u, <2>1 DEF GrantHeld, OwnAck, OwedLeft, Asking
  <2>7. RequestOver'
    BY <2>1 DEF RequestOver, NotAsked, Over, Withdraws, Held, OwnerLive
  <2> QED BY <2>2, <2>3, <2>4, <2>5, <2>6, <2>7
<1> QED BY <1>1, <1>2, <1>3, <1>4 DEF OwnerNext, OwnerStep

(* Reading the request, draining, shutting down, crashing and starting over. *)
LEMMA OwnShutdown ==
    ASSUME TypeOK, OwnInv,
           \/ BeginDrain \/ EndLoop \/ StopAll \/ StopKill \/ StopReap
           \/ HostCrash \/ CoordStart \/ CoordRead
    PROVE  OwnInv'
<1> USE OwnTypes DEF OwnInv
<1>n. /\ NoToken = 0 /\ NoLease.token = 0 /\ NoLease.pid = 0 /\ NoLease.state = "none"
      /\ NoRequest.token = 0 /\ NoRequest.pid = 0 /\ NoRequest.state = "none"
      /\ \A l, s : Ack(l, s).token = l.token
      /\ NoAck.token = 0 /\ NoAck.state = "none"
  BY DEF NoToken, NoLease, NoRequest, Ack, NoAck
<1>o. owed'.ack \in {owed.ack, NoAck}
  BY OwedFields
  DEF BeginDrain, EndLoop, StopAll, StopKill, StopReap, HostCrash, CoordStart, CoordRead
<1>1. CASE CoordRead \/ EndLoop
  <2>1. /\ UNCHANGED <<req, ack, oPid, oPc, oTok, oKids, lastTok, lease>>
        /\ cReq' \in {cReq, req} /\ Up /\ Up'
    BY <1>1 DEF CoordRead, EndLoop, files, ownerVars, Up
  <2>2. TokensSeen'  BY <1>n, <1>o, <2>1 DEF TokensSeen
  <2>3. PidsSeen'  BY <2>1 DEF PidsSeen, Held
  <2>4. RequestTrue'  BY <2>1 DEF RequestTrue, Withdraws, Asking, OwnerLive
  <2>5. LeaseLeft'  BY <2>1 DEF LeaseLeft, Asking, OwnerLive, Held
  <2>6. GrantHeld' /\ OwedLeft'
    BY <1>n, <1>o, <2>1 DEF GrantHeld, OwedLeft, Asking, ReleaseStates
  <2>7. RequestOver'
    BY <2>1 DEF RequestOver, NotAsked, Over, Withdraws, Held
  <2> QED BY <2>2, <2>3, <2>4, <2>5, <2>6, <2>7
<1>2. CASE BeginDrain
  <2>1. lease' \in {lease, [lease EXCEPT !.suspended = FALSE]}
    BY <1>2 DEF BeginDrain
  <2>2. /\ lease'.token = lease.token /\ lease'.pid = lease.pid
        /\ lease'.state = lease.state /\ lease'.release = lease.release
        /\ lease'.ownerStop = lease.ownerStop
        /\ lease'.ownerReaped = lease.ownerReaped
    BY <2>1, Parts DEF Lease
  <2>3. UNCHANGED <<req, ack, cReq, cPc, oPid, oPc, oTok, oKids, lastTok>>
    BY <1>2 DEF BeginDrain, CoordFrame, KeepOwner
  <2>4. TokensSeen' /\ PidsSeen'
    BY <1>n, <1>o, <2>2, <2>3 DEF TokensSeen, PidsSeen, Held, Up
  <2>5. RequestTrue'  BY <2>3 DEF RequestTrue, Withdraws, Asking, OwnerLive
  <2>6. LeaseLeft'  BY <2>2, <2>3 DEF LeaseLeft, Asking, OwnerLive, Held
  <2>7. GrantHeld' /\ OwedLeft'
    BY <1>n, <1>o, <2>2, <2>3 DEF GrantHeld, Up, OwedLeft, Asking, ReleaseStates
  <2>8. RequestOver'
    BY <2>2, <2>3 DEF RequestOver, NotAsked, Over, Withdraws, Held
  <2> QED BY <2>4, <2>5, <2>6, <2>7, <2>8
<1>3. CASE StopAll \/ StopKill \/ StopReap \/ HostCrash
  <2>1. /\ UNCHANGED <<req, cReq, oPid, oTok, lastTok>>
        /\ lease' \in {lease, NoLease} /\ ack'.token \in {ack.token, lease.token}
    BY <1>n, <1>3 DEF StopAll, StopKill, StopReap, HostCrash, KeepFlags, CoordFrame,
       files, SignalOwner, KeepOwner, ReapOwner
  <2>2. oPc' \in {oPc, "none"} /\ ~Up'
    BY <1>3 DEF StopAll, StopKill, StopReap, HostCrash, SignalOwner, KeepOwner,
       ReapOwner, Up
  <2>4. TokensSeen'  BY <1>n, <1>o, <2>1, <2>2 DEF TokensSeen
  <2>5. PidsSeen'  BY <1>n, <2>1, <2>2 DEF PidsSeen
  <2>6. RequestTrue'
    BY <2>1, <2>2 DEF RequestTrue, Withdraws, Asking, OwnerLive
  <2>7. LeaseLeft'  BY <1>n, <2>1, <2>2 DEF LeaseLeft, Asking, OwnerLive, Held
  <2>8. GrantHeld' /\ OwedLeft'
    BY <1>n, <1>o, <2>1, <2>2 DEF GrantHeld, OwedLeft, Asking, ReleaseStates
  <2>9. oPc' = "none" \/ UNCHANGED <<oPc, oKids>>
    BY <1>3 DEF StopAll, StopKill, StopReap, HostCrash, SignalOwner, KeepOwner, ReapOwner
  <2>10. RequestOver'
    BY <1>n, <2>1, <2>9 DEF RequestOver, NotAsked, Over, Withdraws, Held
  <2> QED BY <2>4, <2>5, <2>6, <2>7, <2>8, <2>10
<1>4. CASE CoordStart
  <2>1. /\ UNCHANGED <<req, ack, lastTok>> /\ cReq' = NoRequest /\ lease' = NoLease
        /\ oPid' = oPid + 1 /\ oPc' = "idle" /\ oTok' = NoToken
    BY <1>4 DEF CoordStart, files, StartOwner
  <2>2. TokensSeen'  BY <1>n, <1>o, <2>1 DEF TokensSeen
  <2>3. PidsSeen'  BY <1>n, <2>1 DEF PidsSeen, Held
  <2>4. RequestTrue'
    BY <1>n, <2>1 DEF PidsSeen, RequestTrue, Withdraws, Asking, OwnerLive
  <2>5. LeaseLeft' /\ GrantHeld' /\ RequestOver' /\ OwedLeft'
    BY <1>n, <1>o, <2>1
    DEF LeaseLeft, GrantHeld, RequestOver, Withdraws, Held, OwedLeft, Asking, ReleaseStates
  <2> QED BY <2>2, <2>3, <2>4, <2>5
<1> QED BY <1>1, <1>2, <1>3, <1>4

(* The second write of a step.                                               *)
LEMMA OwnWrites ==
    ASSUME TypeOK, OwnInv, WriteEvent \/ WriteAck PROVE OwnInv'
<1> USE OwnTypes DEF OwnInv
<1>n. NoAck.token = 0 /\ NoAck.state = "none"  BY DEF NoAck
<1>1. UNCHANGED <<req, cReq, lease, cPc, oPid, oPc, oTok, oKids, lastTok>>
  BY DEF WriteEvent, WriteAck, KeepWorkers, KeepOwner, KeepThread, KeepLoop, CoordFrame
<1>2. ack' \in {ack, owed.ack} /\ owed'.ack = NoAck
  BY OwedFields DEF WriteEvent, WriteAck
<1>3. TokensSeen'  BY <1>n, <1>1, <1>2 DEF TokensSeen
<1>4. PidsSeen'  BY <1>1 DEF PidsSeen, Held, Up
<1>5. RequestTrue'  BY <1>1 DEF RequestTrue, Withdraws, Asking, OwnerLive
<1>6. LeaseLeft'  BY <1>1 DEF LeaseLeft, Asking, OwnerLive, Held
<1>7. GrantHeld'  BY <1>1, <1>2 DEF GrantHeld, OwedLeft, ReleaseStates, Up
<1>8. OwedLeft'  BY <1>n, <1>2 DEF OwedLeft, ReleaseStates
<1>9. RequestOver'
  BY <1>1 DEF RequestOver, NotAsked, Over, Withdraws, Held
<1> QED BY <1>3, <1>4, <1>5, <1>6, <1>7, <1>8, <1>9

(* The actor and the environment do nothing to the lease, and a request file *)
(* that goes stale or disappears asks for nothing new.                       *)
LEMMA OwnOther ==
    ASSUME TypeOK, OwnInv,
           ActorNext \/ GoStale \/ RequestVanishes \/ UNCHANGED vars
    PROVE  OwnInv'
<1> USE OwnTypes DEF OwnInv
<1>n. NoRequest.token = 0 /\ NoRequest.pid = 0 /\ NoRequest.state = "none"
  BY DEF NoRequest
<1>1. UNCHANGED <<oPid, oPc, oTok, oKids, lastTok, cPc, cReq, lease, owed>>
  BY DEF ActorNext, ActorFrame, CohortPark, CohortUnpark, CohortSubmit, CohortFinish,
         BrokerIdle, PollRead, Poll, Publish, ActorHeartbeat, ControlFails, ActorExit,
         ActorKilled, ActorCrash, GoStale, RequestVanishes, vars, ownerVars, coordVars
<1>2. /\ ack' \in {ack, [ack EXCEPT !.fresh = FALSE]}
      /\ req' \in {req, [req EXCEPT !.fresh = FALSE], NoRequest}
  BY DEF ActorNext, ActorFrame, CohortPark, CohortUnpark, CohortSubmit, CohortFinish,
         BrokerIdle, PollRead, Poll, Publish, ActorHeartbeat, ControlFails, ActorExit,
         ActorKilled, ActorCrash, GoStale, RequestVanishes, vars, files
<1>3. ack'.token = ack.token /\ ack'.state = ack.state
  BY <1>2, Parts DEF Acknowledgement
<1>4. \/ req'.token = req.token /\ req'.pid = req.pid /\ req'.state = req.state
      \/ req' = NoRequest
  BY <1>2 DEF TypeOK, FilesOK, Request
<1>5. TokensSeen'  BY <1>n, <1>1, <1>3, <1>4 DEF TokensSeen
<1>6. PidsSeen'  BY <1>n, <1>1, <1>4 DEF PidsSeen, Held, Up, NoToken
<1>7. RequestTrue'  BY <1>n, <1>1, <1>4 DEF RequestTrue, Withdraws, Asking, OwnerLive
<1>8. LeaseLeft' /\ GrantHeld' /\ OwedLeft'
  BY <1>1, <1>3 DEF LeaseLeft, GrantHeld, OwedLeft, Asking, OwnerLive, Held, Up
<1>9. RequestOver'
  BY <1>n, <1>1, <1>4 DEF RequestOver, NotAsked, Over, Withdraws, Held
<1> QED BY <1>5, <1>6, <1>7, <1>8, <1>9

LEMMA OwnInit == Init => OwnInv
BY DEF Init, OwnInv, TokensSeen, PidsSeen, RequestTrue, LeaseLeft, GrantHeld, Asking, RequestOver,
       Withdraws, OwnerLive, Held, NoRequest, NoAck, NoLease, NoToken, OwedLeft, NoDebt,
       ReleaseStates

LEMMA OwnStep == TypeOK /\ OwnInv /\ [Next]_vars => OwnInv'
<1> SUFFICES ASSUME TypeOK, OwnInv, [Next]_vars PROVE OwnInv'  OBVIOUS
<1>1. CASE CoordReconcile \/ TargetStep \/ OwnerMonitorStep
  BY <1>1, CoordMoves, OwnMoves
<1>2. CASE OwnerNext  BY <1>2, OwnArena
<1>3. CASE \/ BeginDrain \/ EndLoop \/ StopAll \/ StopKill \/ StopReap
           \/ HostCrash \/ CoordStart \/ CoordRead
  BY <1>3, OwnShutdown
<1>4. CASE ActorNext \/ GoStale \/ RequestVanishes \/ UNCHANGED vars
  BY <1>4, OwnOther
<1>5. CASE WriteEvent \/ WriteAck  BY <1>5, OwnWrites
<1> QED BY <1>1, <1>2, <1>3, <1>4, <1>5
        DEF Next, CoordNext, TargetStep, OwnerMonitorStep

LEMMA OwnInductive == Spec => [](TypeOK /\ OwnInv)
<1>1. TypeOK /\ OwnInv /\ [Next]_vars => (TypeOK /\ OwnInv)'
  BY NextTypes, OwnStep
<1> QED BY <1>1, InitTypes, OwnInit, PTL DEF Spec

(* An arena computes only inside a lease that the running coordinator holds  *)
(* for its token and its process, granted and not yet released: nothing the  *)
(* coordinator does to a stale, lost or withdrawn request, to an exited actor*)
(* or in a drain takes the lease away while the arena is in its body.        *)
THEOREM LeaseCoversBody == Spec => []BodyIsLeased
<1>1. TypeOK /\ OwnInv => BodyIsLeased
  BY DEF OwnInv, PidsSeen, GrantHeld, BodyIsLeased, Running, Up, Held
<1> QED BY <1>1, OwnInductive, PTL

(* A release is acknowledged only to a lease that its arena has left or that *)
(* died with it: neither a lost request file nor a missed heartbeat opens the*)
(* actor's gate while the arena may still be computing.                      *)
THEOREM OwnerGoneFirst == Spec => ResumeAfterOwner
<1> DEFINE Opens == Acknowledges({"released", "recovered"})
           Gone == ~(oTok' = ack'.token /\ oPc' \in {"waitReady", "granted", "body"})
<1>1. TypeOK /\ OwnInv /\ [Next]_vars => [Opens => Gone]_vars
  <2> SUFFICES ASSUME TypeOK, OwnInv, Next, Opens PROVE Gone
    OBVIOUS
  <2>0. /\ ack'.state \in {"released", "recovered"}
        /\ ack'.state # ack.state \/ ack'.token # ack.token
    BY DEF Acknowledges
  <2> HIDE DEF Opens
  <2>a. \A l, s : Ack(l, s).token = l.token /\ Ack(l, s).state = s
    BY DEF Ack
  <2>1. CASE CoordReconcile \/ TargetStep \/ OwnerMonitorStep
    <3>0. CoordMove  BY <2>1, CoordMoves
    <3> QED BY <2>0, <2>a, <3>0
        DEF CoordMove, LeaseMove, Quiet, Flagged, Refuse, SettleEarly, AdmitMove,
            GrantMove, ResumeMove, CloseMove, ConfirmMove, DrainedMove, AckStays
  <2>2. CASE OwnerNext
    BY <2>0, <2>2, OwnerKept
  <2>3. CASE \/ BeginDrain \/ EndLoop \/ StopAll \/ StopKill \/ StopReap
             \/ HostCrash \/ CoordStart \/ CoordRead
    BY <2>0, <2>a, <2>3 DEF BeginDrain, EndLoop, StopAll, StopKill, StopReap, HostCrash,
       CoordStart, CoordRead, files
  <2>4. CASE ActorNext \/ GoStale \/ RequestVanishes
    <3>1. ack' \in {ack, [ack EXCEPT !.fresh = FALSE]}
      BY <2>4 DEF ActorNext, ActorFrame, CohortPark, CohortUnpark, CohortSubmit,
         CohortFinish, BrokerIdle, PollRead, Poll, Publish, ActorHeartbeat,
         ControlFails, ActorExit, ActorKilled, ActorCrash, GoStale, RequestVanishes,
         files
    <3> QED BY <2>0, <3>1, Parts DEF Acknowledgement
  <2>5. CASE WriteEvent  BY <2>0, <2>5 DEF WriteEvent
  <2>6. CASE WriteAck
    <3>1. ack' = owed.ack /\ UNCHANGED <<oTok, oPc>>
      BY <2>6 DEF WriteAck, KeepOwner
    <3> QED BY <2>0, <3>1 DEF OwnInv, OwedLeft, ReleaseStates, Asking
  <2> QED BY <2>1, <2>2, <2>3, <2>4, <2>5, <2>6 DEF Next, CoordNext, TargetStep, OwnerMonitorStep
<1> QED BY <1>1, OwnInductive, PTL DEF Spec, ResumeAfterOwner

-----------------------------------------------------------------------------
(* What the actor has shown, and what it may still act on                    *)

(* The lease of token t is over: its arena has left it, it can no longer be  *)
(* admitted, the coordinator, if it still holds it, is only waiting for the  *)
(* actor to resume, and no acknowledgement of it is owed to this actor.      *)
Spent(t) ==
    /\ t <= lastTok /\ ~Asking(t)
    /\ cPc = "reconcile" /\ cReq.token = t /\ cReq.state = "requested" => ~OwnerMatches
    /\ Up /\ Held /\ lease.token = t => lease.state = "resuming"
    /\ ~(ack.token = t /\ ack.state = "waiting")
    /\ ~(owed.ack.token = t /\ owed.ack.tpid = aPid)

Free == ActorLive /\ ~aStop

(* The actor's own books: pids only grow, a gate holds one lease at a time,  *)
(* and a cohort is parked only for a lease that the gate still remembers.    *)
ActorBooks ==
    /\ hb.pid <= aPid /\ ack.tpid <= aPid /\ aPid > 0
    /\ aKids => aPc = "exited"
    /\ gate.lease = NoToken \/ gate.releasing = NoToken
    /\ ActorLive /\ gate.closed => aStop
    /\ ActorLive /\ ~Up => aStop
    /\ Free /\ Parked # {} => gate.lease # NoToken \/ gate.releasing # NoToken
    /\ hb.kind = "ready" => hb.token # NoToken
    /\ aStep = "publish" =>
        aDet.pid = aPid /\ (aDet.kind = "ready" => aDet.token # NoToken)

(* The coordinator's: the target of a lease is the actor of this moment, and *)
(* no actor is started behind its back.                                      *)
TargetBooks ==
    /\ Up /\ tState = "backoff" => aPc = "none"
    /\ Up /\ Held /\ lease.tpid # 0 => lease.tpid = aPid /\ tState # "backoff"
    /\ Up /\ lease.state = "ready" /\ lease.tpid = 0 =>
        aPc = "none" /\ tState # "backoff"

(* An acknowledgement is owed to no later actor than this one; if a lease is *)
(* held, it is the one acknowledged, and it is, if the actor of this moment  *)
(* is to resume.                                                             *)
OwedBooks ==
    /\ owed.ack.tpid <= aPid
    /\ owed.ack # NoAck /\ Held =>
        lease.state = "resuming" /\ lease.token = owed.ack.token
    /\ owed.ack.state \in {"released", "recovered"} /\ owed.ack.tpid = aPid => Held

(* A release addressed to the actor is one of a lease that is over; what it  *)
(* has shown of a lease still holds, unless the lease is over; and the actor *)
(* of a granted lease is parked for it.                                      *)
EvidenceFor(t) ==
    Free =>
        /\ ack.state \in ReleaseStates /\ ack.tpid = aPid /\ ack.token = t => Spent(t)
        /\ aAck.state \in ReleaseStates /\ aAck.tpid = aPid /\ aAck.token = t => Spent(t)
        /\ hb.kind = "ready" /\ hb.pid = aPid /\ hb.token = t => Proven(t) \/ Spent(t)
        /\ aStep = "publish" /\ aDet.kind = "ready" /\ aDet.token = t =>
            Proven(t) \/ Spent(t)
        /\ Up /\ lease.state = "ready" /\ lease.tpid # 0 /\ lease.token = t => Proven(t)
Evidence == \A t \in Nat \ {NoToken} : EvidenceFor(t)

ActInv == ActorBooks /\ TargetBooks /\ Evidence /\ OwedBooks

LEMMA ActTypes ==
    ASSUME TypeOK
    PROVE  /\ aPid \in Nat /\ hb.pid \in Nat /\ ack.tpid \in Nat /\ lease.tpid \in Nat
           /\ aDet.pid \in Nat /\ aAck.tpid \in Nat /\ hb.token \in Nat
           /\ aDet.token \in Nat /\ aAck.token \in Nat /\ gate.lease \in Nat
           /\ gate.releasing \in Nat /\ gate.last \in Nat
           /\ owed.ack.tpid \in Nat /\ owed.ack.token \in Nat
BY DEF TypeOK, FilesOK, ActorOK, CoordOK, Acknowledgement, Heartbeat, Lease, Gate, Pids,
       Debt

(* What a move of the coordinator does to the actor.                         *)
LEMMA MoveActor ==
    ASSUME CoordMove
    PROVE  \/ KeepActor \/ SignalActor
           \/ ReapActor /\ ~ActorLive
           \/ StartActor /\ tState' # "backoff" /\ ack' = ack /\ lease' = lease
              /\ tState = "backoff"
           \/ StartActor /\ tState' # "backoff" /\ lease' = NoLease
              /\ (ack' = ack \/ ack'.tpid = lease.tpid) /\ Held
<1>1. CASE Quiet
  BY <1>1 DEF Quiet, Stays, Collected
<1>2. CASE Flagged \/ ConfirmMove \/ DrainedMove \/ ResumeMove
  BY <1>2 DEF Flagged, ConfirmMove, DrainedMove, ResumeMove, Stays, Collected
<1>3. CASE Refuse \/ SettleEarly
  BY <1>3 DEF Refuse, SettleEarly, KeepWorkers
<1>4. CASE AdmitMove \/ GrantMove
  BY <1>4 DEF AdmitMove, GrantMove, ActorLive
<1>5. CASE CloseMove
  BY <1>5 DEF CloseMove, Stays, Collected, Ack, AckStays
<1> QED BY <1>1, <1>2, <1>3, <1>4, <1>5 DEF CoordMove, LeaseMove

-----------------------------------------------------------------------------
(* A lease that is over stays over                                           *)

LEMMA SpentMoves ==
    ASSUME TypeOK, OwnInv, ActorBooks, CoordMove, NEW t \in Nat, Spent(t)
    PROVE  Spent(t)'
<1>a. \A l, s : Ack(l, s).token = l.token /\ Ack(l, s).state = s
  BY DEF Ack
<1>1. (t <= lastTok /\ ~Asking(t))'
  BY MoveOwner DEF Spent, Asking, CoordMove
<1>2. cPc' # "reconcile"
  BY DEF CoordMove
<1>3. ~(AdmitMove /\ cReq.token = t)
  BY DEF AdmitMove, Spent
<1>4. Up' /\ Held' /\ lease'.token = t => lease'.state = "resuming"
  <2>1. Up  BY DEF CoordMove, Up
  <2> QED BY <1>3, <2>1
      DEF CoordMove, LeaseMove, Quiet, Flagged, SameLease, Refuse, SettleEarly,
          AdmitMove, GrantMove, ResumeMove, CloseMove, ConfirmMove, DrainedMove, Held,
          NoLease, Spent
<1>5. ~(ack'.token = t /\ ack'.state = "waiting")
  BY <1>a, <1>3
  DEF CoordMove, LeaseMove, Quiet, Flagged, Refuse, SettleEarly,
      AdmitMove, GrantMove, ResumeMove, CloseMove, ConfirmMove, DrainedMove,
      ReleaseStates, AckStays, Spent
<1>6. ~(owed'.ack.token = t /\ owed'.ack.tpid = aPid')
  <2>1. aPid' \in {aPid, aPid + 1} /\ aPid > 0 /\ aPid \in Nat
    BY MoveActor, ActTypes
    DEF KeepActor, SignalActor, ReapActor, StartActor, actorVars, ActorBooks
  <2>2. Parsed.tpid = 0 /\ \A l, s : Ack(l, s).tpid = l.tpid
    BY DEF Parsed, NoLease, Ack
  <2>3. owed'.ack.tpid = 0 \/ ResumeMove \/ CloseMove
    BY <2>2, OwedFields
    DEF CoordMove, LeaseMove, Quiet, Flagged, Refuse, SettleEarly, AdmitMove, GrantMove,
        ConfirmMove, DrainedMove
  <2>4. CASE ResumeMove \/ CloseMove
    <3>1. owed'.ack.token = lease.token /\ Held /\ lease.state # "resuming"
      BY <1>a, <2>4, OwedFields DEF ResumeMove, CloseMove
    <3> QED BY <3>1 DEF Spent, CoordMove, Up
  <2> QED BY <2>1, <2>3, <2>4
<1> QED BY <1>1, <1>2, <1>4, <1>5, <1>6 DEF Spent

LEMMA SpentArena ==
    ASSUME TypeOK, OwnInv, OwnerNext, NEW t \in Nat, Spent(t)
    PROVE  Spent(t)'
<1> USE OwnerKept, OwnTypes
<1>1. (t <= lastTok /\ ~Asking(t))' /\ (OwnerLive' => OwnerLive)
  <2>1. CASE OwnerRegister
    BY <2>1 DEF OwnerRegister, Spent, Asking, OwnerLive
  <2>2. CASE ~OwnerRegister
    <3>1. UNCHANGED <<oTok, lastTok>> /\ OwnerLive
          /\ (oPc' \in {"waitReady", "granted", "body"} =>
                oPc \in {"registered", "waitReady", "granted", "body"})
          /\ oPc' # "registered"
      BY <2>2 DEF OwnerNext, OwnerStep, OwnerBlocked, OwnerRequest, OwnerHeartbeat,
         OwnerSeesReady, OwnerActivate, OwnerCancel, OwnerRelease, OwnerReleased,
         OwnerFails, OwnerStops, OwnerKilled, OwnerCrash, OwnerEnds, ownerVars, OwnerLive
    <3> QED BY <3>1 DEF Spent, Asking
  <2> QED BY <2>1, <2>2
<1>2. UNCHANGED <<owed, aPid>>
  BY DEF OwnerFrame, OwnerNext, OwnerStep, OwnerRegister, OwnerBlocked, OwnerRequest,
     OwnerHeartbeat, OwnerSeesReady, OwnerActivate, OwnerCancel, OwnerRelease,
     OwnerReleased, OwnerFails, OwnerStops, OwnerKilled, OwnerCrash, coordVars, actorVars
<1> QED BY <1>1, <1>2 DEF Spent, OwnerMatches, OwnerLive, Up, Held

LEMMA SpentOther ==
    ASSUME TypeOK, OwnInv, ActorBooks, NEW t \in Nat, Spent(t),
           \/ BeginDrain \/ EndLoop \/ StopAll \/ StopKill \/ StopReap
           \/ HostCrash \/ CoordStart \/ CoordRead
           \/ ActorNext \/ GoStale \/ RequestVanishes \/ UNCHANGED vars
    PROVE  Spent(t)'
<1>a. \A l, s : Ack(l, s).token = l.token /\ Ack(l, s).state = s
  BY DEF Ack
<1>o. ~(owed'.ack.token = t /\ owed'.ack.tpid = aPid')
  <2>1. CASE UNCHANGED <<owed, aPid>>
    BY <2>1 DEF Spent
  <2>2. CASE owed'.ack = NoAck /\ aPid' \in {aPid, aPid + 1}
    BY <2>2, OwedFields, ActTypes DEF ActorBooks
  <2>3. CASE StopReap \/ HostCrash \/ CoordStart
    BY <2>2, <2>3, OwedFields
    DEF StopReap, HostCrash, CoordStart, StartActor, ReapActor, KeepActor, actorVars
  <2>4. CASE BeginDrain \/ EndLoop \/ StopAll \/ StopKill \/ CoordRead
    BY <2>1, <2>4
    DEF BeginDrain, EndLoop, StopAll, StopKill, CoordRead, KeepActor, SignalActor, actorVars
  <2>5. CASE ActorNext \/ GoStale \/ RequestVanishes \/ UNCHANGED vars
    BY <2>1, <2>5 DEF ActorNext, ActorFrame, CohortPark, CohortUnpark, CohortSubmit,
       CohortFinish, BrokerIdle, PollRead, Poll, Publish, ActorHeartbeat, ControlFails,
       ActorExit, ActorKilled, ActorCrash, GoStale, RequestVanishes, vars, actorVars,
       coordVars
  <2> QED BY <2>3, <2>4, <2>5
<1>1. CASE CoordRead
  <2>1. /\ UNCHANGED <<ack, oPid, oPc, oTok, lastTok, lease>> /\ cReq' = req
        /\ Up /\ Up'
    BY <1>1 DEF CoordRead, files, ownerVars, Up
  <2> QED BY <1>o, <2>1
      DEF Spent, OwnInv, RequestTrue, Asking, OwnerMatches, OwnerLive, Held
<1>2. CASE BeginDrain \/ EndLoop
  <2>1. lease' \in {lease, [lease EXCEPT !.suspended = FALSE]}
    BY <1>2 DEF BeginDrain, EndLoop
  <2>2. lease'.token = lease.token /\ lease'.state = lease.state
    BY <2>1, Parts DEF Lease
  <2>3. UNCHANGED <<ack, cReq, oPid, oPc, oTok, lastTok>> /\ (cPc' = cPc \/ cPc' = "stop")
        /\ Up' = Up
    BY <1>2 DEF BeginDrain, EndLoop, CoordFrame, KeepOwner, files, ownerVars, Up
  <2> QED BY <1>o, <2>2, <2>3 DEF Spent, Asking, OwnerMatches, OwnerLive, Held
<1>3. CASE StopAll \/ StopKill \/ StopReap \/ HostCrash
  <2>1. /\ UNCHANGED <<oTok, lastTok>> /\ oPc' \in {oPc, "none"}
        /\ ~Up' /\ cPc' # "reconcile"
    BY <1>3 DEF StopAll, StopKill, StopReap, HostCrash, KeepFlags, CoordFrame,
       SignalOwner, KeepOwner, ReapOwner, Up
  <2>2. ack' = ack \/ ack'.state # "waiting"
    BY <1>a, <1>3 DEF StopAll, StopKill, StopReap, HostCrash, files
  <2> QED BY <1>o, <2>1, <2>2 DEF Spent, Asking
<1>4. CASE CoordStart
  BY <1>o, <1>4 DEF CoordStart, files, StartOwner, Spent, Asking, Held, NoLease
<1>5. CASE ActorNext \/ GoStale \/ RequestVanishes \/ UNCHANGED vars
  <2>1. UNCHANGED <<oPid, oPc, oTok, lastTok, cPc, cReq, lease>>
    BY <1>5 DEF ActorNext, ActorFrame, CohortPark, CohortUnpark, CohortSubmit, CohortFinish,
         BrokerIdle, PollRead, Poll, Publish, ActorHeartbeat, ControlFails, ActorExit,
         ActorKilled, ActorCrash, GoStale, RequestVanishes, vars, ownerVars, coordVars
  <2>2. ack' \in {ack, [ack EXCEPT !.fresh = FALSE]}
    BY <1>5 DEF ActorNext, ActorFrame, CohortPark, CohortUnpark, CohortSubmit, CohortFinish,
         BrokerIdle, PollRead, Poll, Publish, ActorHeartbeat, ControlFails, ActorExit,
         ActorKilled, ActorCrash, GoStale, RequestVanishes, vars, files
  <2>3. ack'.token = ack.token /\ ack'.state = ack.state
    BY <2>2, Parts DEF Acknowledgement
  <2> QED BY <1>o, <2>1, <2>3 DEF Spent, Asking, OwnerMatches, OwnerLive, Held, Up
<1> QED BY <1>1, <1>2, <1>3, <1>4, <1>5

(* The second write of a step acknowledges nothing as waiting.               *)
LEMMA SpentWrites ==
    ASSUME TypeOK, OwnInv, ActorBooks, NEW t \in Nat, Spent(t), WriteEvent \/ WriteAck
    PROVE  Spent(t)'
<1>1. /\ UNCHANGED <<cPc, cReq, lease, oPid, oPc, oTok, lastTok, aPid>>
      /\ ack' \in {ack, owed.ack} /\ owed'.ack = NoAck
  BY OwedFields
  DEF WriteEvent, WriteAck, KeepWorkers, KeepOwner, KeepThread, KeepLoop, CoordFrame,
      KeepActor, SignalActor, actorVars
<1>2. owed.ack.state # "waiting"
  BY DEF OwnInv, OwedLeft, ReleaseStates
<1>3. NoAck.tpid # aPid
  BY OwedFields, ActTypes DEF ActorBooks
<1> QED BY <1>1, <1>2, <1>3 DEF Spent, Asking, OwnerMatches, OwnerLive, Up, Held

-----------------------------------------------------------------------------
(* The coordinator's steps keep ActInv                                       *)

(* In a step of the coordinator an actor that is told nothing stays as it is.*)
ActorAfter ==
    \/ KeepActor \/ SignalActor
    \/ ReapActor /\ ~ActorLive
    \/ StartActor
    \/ UNCHANGED <<aPid, coh, busy, gate, aStep, aAck, aDet>>
       /\ aPc' = "none" /\ aKids' = FALSE

LEMMA FreeAfter ==
    ASSUME ActorOK, ActorAfter, Free'
    PROVE  StartActor \/ (Free /\ UNCHANGED actorVars)
BY DEF ActorAfter, KeepActor, SignalActor, ReapActor, Free, ActorLive, actorVars, ActorOK

(* The actor's books, in any step of the coordinator.                        *)
LEMMA BooksAfter ==
    ASSUME TypeOK, ActorBooks, ActorAfter,
           hb'.pid = hb.pid, hb'.kind = hb.kind, hb'.token = hb.token,
           ack'.tpid \in {ack.tpid, owed.ack.tpid, 0, aPid}, OwedBooks,
           \/ Up' /\ Up
           \/ Up' /\ StartActor
           \/ ~Up' /\ ~Up /\ ~StartActor
           \/ ~Up' /\ (SignalActor \/ aPc' # "live")
    PROVE  ActorBooks'
<1> USE ActTypes
<1>1. CASE StartActor
  <2>1. /\ aPid' = aPid + 1 /\ aPc' = "live" /\ ~aStop' /\ ~aKids' /\ gate' = OpenGate
        /\ aStep' = "read" /\ Up'
    BY <1>1 DEF StartActor, ActorLive, SignalActor
  <2>2. Parked' = {}
    BY <1>1 DEF StartActor, Parked
  <2> QED BY <2>1, <2>2 DEF ActorBooks, OwedBooks, OpenGate, NoToken, ActorLive
<1>2. CASE ~StartActor
  <2>1. /\ UNCHANGED <<aPid, coh, busy, gate, aStep, aAck, aDet>>
        /\ \/ UNCHANGED <<aPc, aKids>> \/ (aPc' = "none" /\ aKids' = FALSE)
        /\ ActorLive' => ActorLive /\ (aStop => aStop')
        /\ Free' => Free
    BY <1>2, Parts
    DEF ActorAfter, KeepActor, SignalActor, ReapActor, actorVars, ActorLive, Free, ActorOK
  <2>2. Parked' = Parked
    BY <2>1 DEF Parked
  <2>3. ActorLive' /\ ~Up' => aStop'
    BY <1>2, <2>1 DEF ActorBooks, SignalActor, ActorLive
  <2> QED BY <2>1, <2>2, <2>3 DEF ActorBooks, OwedBooks, ActorLive, Free
<1> QED BY <1>1, <1>2

LEMMA TargetMovesKept ==
    ASSUME TypeOK, OwnInv, ActorBooks, TargetBooks, CoordMove
    PROVE  TargetBooks'
<1> USE ActTypes
<1>0. Up /\ Up' /\ NoLease.state = "none"
  BY DEF CoordMove, Up, NoLease
<1>1. Stays => UNCHANGED <<aPid, aPc>> /\ (tState' = tState \/ tState' # "backoff")
  BY DEF Stays, KeepActor, SignalActor, actorVars
<1>2. Collected => /\ aPid' = aPid /\ aPc' = "none" /\ aPc # "live"
                   /\ tState' # "backoff" \/ (aPc = "exited" /\ ~ExitedInLease)
  BY DEF Collected, ReapActor, ActorLive
<1>3. ~ExitedInLease /\ aPc = "exited" /\ Held => lease.tpid = 0
  BY DEF ExitedInLease
<1>4. CASE Quiet
  <2>1. lease' = lease  BY <1>4 DEF Quiet
  <2>2. CASE Stays
    BY <1>0, <1>1, <2>1, <2>2 DEF TargetBooks, Held
  <2>3. CASE Collected
    BY <1>0, <1>2, <1>3, <2>1, <2>3 DEF TargetBooks, Held
  <2>4. CASE tState = "backoff" /\ tState' = "running"
    BY <1>0, <2>1, <2>4 DEF TargetBooks, Held
  <2> QED BY <1>4, <2>2, <2>3, <2>4 DEF Quiet
<1>5. CASE Flagged
  <2>1. Held /\ lease'.state = lease.state /\ lease'.tpid = lease.tpid
    BY <1>5 DEF Flagged, SameLease
  <2>2. Stays \/ Collected  BY <1>5 DEF Flagged
  <2> QED BY <1>0, <1>1, <1>2, <1>3, <2>1, <2>2 DEF TargetBooks, Held
<1>6. CASE Refuse \/ SettleEarly
  BY <1>0, <1>6 DEF Refuse, SettleEarly, KeepWorkers, KeepActor, actorVars, TargetBooks, Held
<1>7. CASE AdmitMove
  BY <1>0, <1>7
  DEF AdmitMove, KeepActor, SignalActor, ReapActor, actorVars, TargetBooks, Held, ActorLive
<1>8. CASE GrantMove
  BY <1>0, <1>8
  DEF GrantMove, KeepActor, ReapActor, actorVars, TargetBooks, Held
<1>9. CASE ResumeMove
  BY <1>0, <1>1, <1>9 DEF ResumeMove, TargetBooks, Held
<1>10. CASE CloseMove \/ ConfirmMove \/ DrainedMove
  <2>1. ~Held' /\ lease'.state # "ready"
    BY <1>0, <1>10 DEF CloseMove, ConfirmMove, DrainedMove, Held
  <2>2. Stays \/ Collected \/ tState' = "running"
    BY <1>10 DEF CloseMove, ConfirmMove, DrainedMove
  <2> QED BY <1>0, <1>1, <1>2, <2>1, <2>2 DEF TargetBooks
<1> QED BY <1>4, <1>5, <1>6, <1>7, <1>8, <1>9, <1>10 DEF CoordMove, LeaseMove

LEMMA EvidenceMoves ==
    ASSUME TypeOK, OwnInv, ActInv, TargetBooks', CoordMove,
           NEW t \in Nat \ {NoToken}
    PROVE  EvidenceFor(t)'
<1> USE ActTypes
<1>0. /\ Up /\ Up' /\ hb' = hb /\ cPc' # "reconcile" /\ EvidenceFor(t)
      /\ ActorBooks /\ TargetBooks
      /\ \A l, s : Ack(l, s).token = l.token /\ Ack(l, s).state = s
                   /\ Ack(l, s).tpid = l.tpid
  BY DEF CoordMove, Up, ActInv, Evidence, Ack
<1>s. Spent(t) => Spent(t)'
  BY SpentMoves DEF ActInv
<1> SUFFICES ASSUME Free' PROVE EvidenceFor(t)'
  BY DEF EvidenceFor
<1>p. Parsed.tpid = 0
  BY DEF Parsed, NoLease
<1>1. ActorAfter
  BY MoveActor DEF ActorAfter
<1>2. CASE StartActor
  <2>1. /\ aPid' = aPid + 1 /\ aStep' = "read" /\ aAck' = NoAck
    BY <1>2 DEF StartActor
  <2>0. ~KeepActor /\ ~SignalActor /\ ~ReapActor
    BY <2>1 DEF KeepActor, SignalActor, ReapActor, actorVars
  <2>m. \/ ack' = ack /\ lease' = lease /\ tState = "backoff"
        \/ lease' = NoLease /\ (ack' = ack \/ ack'.tpid = lease.tpid) /\ Held
    BY <2>0, MoveActor
  <2>2. ack'.tpid <= aPid
    BY <1>0, <2>m DEF ActorBooks, TargetBooks
  <2>3. lease'.state = "ready" /\ lease'.tpid # 0 => FALSE
    BY <1>0, <2>m DEF TargetBooks, NoLease, Held
  <2> QED BY <1>0, <2>1, <2>2, <2>3 DEF EvidenceFor, ActorBooks, NoAck, ReleaseStates
<1>3. CASE ~StartActor
  <2>0. Free /\ UNCHANGED actorVars
    BY <1>1, <1>3, FreeAfter, Parts
  <2>1. Proven(t)' = Proven(t) /\ aPid' = aPid
    BY <2>0 DEF Proven, Live, Parked, actorVars
  <2>2. ack'.state \in ReleaseStates /\ ack'.tpid = aPid /\ ack'.token = t => Spent(t)'
    <3>1. CASE ack' = ack
      BY <1>0, <1>s, <2>0, <3>1 DEF EvidenceFor
    <3>2. CASE ack' # ack
      <4>1. CASE ~DrainedMove
        BY <1>0, <3>2, <4>1
        DEF CoordMove, LeaseMove, Quiet, Flagged, Refuse, SettleEarly, AdmitMove, GrantMove,
            ResumeMove, CloseMove, ConfirmMove, AckStays, ReleaseStates
      <4>2. CASE DrainedMove
        <5>1. /\ Held /\ ack'.token = lease.token /\ ack'.state # "waiting"
              /\ ~Held' /\ owed' = NoDebt /\ ~Asking(lease.token)
          BY <1>0, <4>2 DEF DrainedMove, Held, NoLease, OwnInv, LeaseLeft
        <5>2. ASSUME lease.token = t PROVE Spent(t)'
          <6>1. ~Asking(t)'
            BY <5>1, <5>2, MoveOwner DEF Asking
          <6>2. t <= lastTok'
            BY <5>2 DEF OwnInv, TokensSeen, CoordMove
          <6>3. owed'.ack.tpid # aPid'
            BY <1>0, <2>1, <5>1, OwedFields DEF ActorBooks
          <6> QED BY <1>0, <5>1, <6>1, <6>2, <6>3 DEF Spent
        <5> QED BY <5>1, <5>2
      <4> QED BY <4>1, <4>2
    <3> QED BY <3>1, <3>2
  <2>3. lease'.state = "ready" /\ lease'.tpid # 0 /\ lease'.token = t => Proven(t)
    <3>1. CASE GrantMove
      <4>1. CASE /\ Quiescent(lease) /\ lease.tpid # 0 /\ lease.state = "waiting"
                 /\ lease'.token = lease.token /\ Held
        BY <1>0, <2>0, <4>1 DEF EvidenceFor, Quiescent, Spent, TargetBooks
      <4> QED BY <2>0, <3>1, <4>1 DEF GrantMove, Free, ActorLive
    <3>2. CASE ~GrantMove
      <4>1. \/ lease'.state # "ready" \/ lease'.tpid = 0
            \/ lease'.state = lease.state /\ lease'.tpid = lease.tpid
               /\ lease'.token = lease.token
        BY <3>2 DEF CoordMove, LeaseMove, Quiet, Flagged, SameLease, Refuse, SettleEarly,
           AdmitMove, ResumeMove, CloseMove, ConfirmMove, DrainedMove, NoLease
      <4> QED BY <1>0, <2>0, <4>1 DEF EvidenceFor
    <3> QED BY <3>1, <3>2
  <2> QED BY <1>0, <1>s, <2>0, <2>1, <2>2, <2>3 DEF EvidenceFor, actorVars
<1> QED BY <1>2, <1>3

LEMMA ActMoves ==
    ASSUME TypeOK, OwnInv, ActInv, OwedBooks', CoordMove
    PROVE  ActInv'
<1> USE ActTypes
<1>1. TargetBooks'
  BY TargetMovesKept DEF ActInv
<1>2. Evidence'
  BY <1>1, EvidenceMoves DEF Evidence
<1>3. ActorAfter
  BY MoveActor DEF ActorAfter
<1>4. /\ hb' = hb /\ Up /\ Up'
      /\ \A l, s : Ack(l, s).tpid = l.tpid
  BY DEF CoordMove, Up, Ack
<1>5. ack'.tpid \in {ack.tpid, 0, aPid}
  <2>1. ack' = ack \/ ack'.tpid \in {0, aPid} \/ (Held /\ ack'.tpid = lease.tpid)
    <3>0. Parsed.tpid = 0
      BY DEF Parsed, NoLease
    <3>1. CASE Quiet \/ Flagged \/ ConfirmMove
      BY <1>4, <3>1 DEF Quiet, Flagged, ConfirmMove, Held
    <3>2. CASE Refuse \/ SettleEarly
      BY <3>2 DEF Refuse, SettleEarly
    <3>3. CASE AdmitMove
      BY <1>4, <3>3 DEF AdmitMove
    <3>4. CASE GrantMove \/ ResumeMove \/ CloseMove \/ DrainedMove
      BY <1>4, <3>4 DEF GrantMove, ResumeMove, CloseMove, DrainedMove, Held, AckStays
    <3> QED BY <3>1, <3>2, <3>3, <3>4 DEF CoordMove, LeaseMove
  <2> QED BY <1>4, <2>1 DEF ActInv, TargetBooks
<1>6. ActorBooks'
  BY <1>3, <1>4, <1>5, BooksAfter DEF ActInv
<1> QED BY <1>1, <1>2, <1>6 DEF ActInv

-----------------------------------------------------------------------------
(* A poll of the gate, one case at a time                                    *)

(* The gate stops with the process; it waits for the cohorts to leave, and   *)
(* completes the release; it sees a release of a lease it never adopted, or  *)
(* nothing; it begins the release of its lease; it holds a lease, old or new.*)
Reports(kind) == aDet'.kind = kind /\ aDet'.pid = aPid /\ aDet'.last = gate'.last
GateStops == aStop /\ gate' = Close(gate) /\ Reports("stopping")
GateWaits ==
    /\ gate.releasing # NoToken /\ gate.lease = NoToken /\ Parked # {}
    /\ gate' = gate /\ Reports("resuming")
GateDone ==
    /\ gate.releasing # NoToken /\ gate.lease = NoToken /\ Parked = {}
    /\ gate'.lease = NoToken /\ gate'.releasing = NoToken
    /\ gate'.last = gate.releasing /\ Reports("shared")
GateIdle ==
    /\ gate.releasing = NoToken /\ gate.lease = NoToken
    /\ gate'.lease = NoToken /\ gate'.releasing = NoToken /\ Reports("shared")
    /\ \/ UnadoptedRelease /\ gate'.last = aAck.token
       \/ ~UnadoptedRelease /\ gate'.last = gate.last
GateReleases ==
    /\ gate.releasing = NoToken /\ gate.lease # NoToken
    /\ Matches(gate.lease, ReleaseStates)
    /\ gate'.lease = NoToken /\ gate'.releasing = gate.lease
    /\ gate'.last = gate.last /\ Reports("resuming")
GateHolds ==
    /\ gate.releasing = NoToken /\ gate'.releasing = NoToken /\ gate'.lease # NoToken
    /\ gate'.last = gate.last
    /\ ~Matches(gate'.lease, ReleaseStates)
    /\ \/ gate'.lease = gate.lease
       \/ gate.lease = NoToken /\ ~UnadoptedRelease /\ aAck.state = "waiting"
          /\ gate'.lease = aAck.token /\ aAck.tpid = aPid
    /\ Reports(IF AllIdle THEN "ready" ELSE "quiescing")
    /\ aDet'.token = gate'.lease
PollCases ==
    \/ GateStops
    \/ /\ ~aStop /\ ~gate'.closed
       /\ GateWaits \/ GateDone \/ GateIdle \/ GateReleases \/ GateHolds

LEMMA PollSplit ==
    ASSUME TypeOK, OwnerTokens, ActorBooks, Poll
    PROVE  PollCases
<1> USE ActTypes
<1>d. \A g, k, x : /\ Details(g, k, x).kind = k /\ Details(g, k, x).pid = aPid
                   /\ Details(g, k, x).last = g.last /\ Details(g, k, x).token = x
  BY DEF Details
<1>g. gate \in Gate /\ gate.closed \in BOOLEAN
  BY DEF TypeOK, ActorOK, Gate
<1>l. ActorLive /\ (gate.closed => aStop)
  BY DEF Poll, ActorBooks
<1>x. gate.lease = NoToken \/ gate.releasing = NoToken
  BY DEF ActorBooks
<1>1. CASE PollClosed
  BY <1>d, <1>l, <1>1 DEF PollClosed, PollCases, GateStops, Reports
<1>2. CASE PollReleasing
  <2>0. ~gate.closed /\ ~aStop /\ gate.releasing # NoToken /\ gate.lease = NoToken
    BY <1>x, <1>2 DEF PollReleasing
  <2>1. CASE Parked # {}
    BY <1>d, <1>2, <2>0, <2>1 DEF PollReleasing, PollCases, GateWaits, Reports
  <2>2. CASE Parked = {}
    <3>1. /\ gate' = [gate EXCEPT !.last = gate.releasing, !.releasing = NoToken]
          /\ aDet' = Details(gate', "shared", NoToken)
      BY <1>2, <2>2 DEF PollReleasing
    <3>2. /\ gate'.last = gate.releasing /\ gate'.releasing = NoToken
          /\ gate'.lease = gate.lease /\ gate'.closed = gate.closed
      BY <1>g, <3>1 DEF Gate
    <3>3. Reports("shared")
      <4>1. aDet' = Details(gate', "shared", NoToken)  BY <3>1
      <4> QED BY <1>d, <4>1 DEF Reports
    <3> QED BY <2>0, <2>2, <3>2, <3>3 DEF PollCases, GateDone
  <2> QED BY <2>1, <2>2
<1>3. CASE PollIdle
  <2>0. /\ ~gate.closed /\ ~aStop /\ gate.releasing = NoToken /\ gate.lease = NoToken
        /\ aDet' = Details(gate', "shared", NoToken)
    BY <1>3 DEF PollIdle
  <2>1. CASE UnadoptedRelease
    <3>1. gate' = [gate EXCEPT !.last = aAck.token]
      BY <1>3, <2>1 DEF PollIdle
    <3>2. /\ gate'.last = aAck.token /\ gate'.releasing = gate.releasing
          /\ gate'.lease = gate.lease /\ gate'.closed = gate.closed
      BY <1>g, <3>1 DEF Gate
    <3> QED BY <1>d, <2>0, <2>1, <3>2 DEF PollCases, GateIdle, Reports
  <2>2. CASE ~UnadoptedRelease
    <3>1. gate' = [gate EXCEPT !.synced = FALSE]
      BY <1>3, <2>2 DEF PollIdle
    <3>2. /\ gate'.last = gate.last /\ gate'.releasing = gate.releasing
          /\ gate'.lease = gate.lease /\ gate'.closed = gate.closed
      BY <1>g, <3>1 DEF Gate
    <3> QED BY <1>d, <2>0, <2>2, <3>2 DEF PollCases, GateIdle, Reports
  <2> QED BY <2>1, <2>2
<1>4. CASE PollAdopted
  <2> DEFINE g == IF gate.lease # NoToken THEN gate
                  ELSE [gate EXCEPT !.lease = req.token, !.synced = FALSE]
  <2>0. /\ ~gate.closed /\ ~aStop /\ gate.releasing = NoToken
        /\ gate.lease # NoToken \/ (~UnadoptedRelease /\ Adoptable)
    BY <1>4 DEF PollAdopted
  <2>1. Adoptable => req.token # NoToken /\ req.token = aAck.token
                     /\ aAck.state = "waiting" /\ aAck.tpid = aPid
    BY DEF Adoptable, Matches, OwnerTokens, Tokens, NoToken
  <2>2. /\ g \in Gate /\ g.lease # NoToken /\ g.releasing = NoToken /\ ~g.closed
        /\ g.last = gate.last
        /\ gate.lease # NoToken => g.lease = gate.lease
        /\ gate.lease = NoToken => g.lease = req.token
    BY <1>g, <2>0, <2>1 DEF Gate
  <2>3. IF Matches(g.lease, ReleaseStates)
          THEN /\ gate' = [g EXCEPT !.lease = NoToken, !.synced = FALSE,
                                    !.releasing = g.lease]
               /\ aDet' = Details(gate', "resuming", g.lease)
          ELSE /\ gate' = [g EXCEPT !.synced = g.synced \/ AllIdle]
               /\ aDet' = Details(gate', IF AllIdle THEN "ready" ELSE "quiescing",
                                  g.lease)
    BY <1>4 DEF PollAdopted
  <2> HIDE DEF g
  <2>4. CASE Matches(g.lease, ReleaseStates)
    <3>1. gate.lease # NoToken
      BY <2>0, <2>1, <2>2, <2>4 DEF Matches, ReleaseStates
    <3>2. /\ gate'.lease = NoToken /\ gate'.releasing = g.lease
          /\ gate'.last = gate.last /\ gate'.closed = g.closed
      BY <2>2, <2>3, <2>4 DEF Gate
    <3>3. Reports("resuming")
      <4>1. aDet' = Details(gate', "resuming", g.lease)  BY <2>3, <2>4
      <4> QED BY <1>d, <4>1 DEF Reports
    <3>4. GateReleases
      BY <2>0, <2>2, <2>4, <3>1, <3>2, <3>3 DEF GateReleases
    <3> QED BY <2>0, <2>2, <3>2, <3>4 DEF PollCases
  <2>5. CASE ~Matches(g.lease, ReleaseStates)
    <3>1. gate' = [g EXCEPT !.synced = g.synced \/ AllIdle]
          /\ aDet' = Details(gate', IF AllIdle THEN "ready" ELSE "quiescing", g.lease)
      BY <2>3, <2>5
    <3>2. /\ gate'.lease = g.lease /\ gate'.releasing = g.releasing
          /\ gate'.last = g.last /\ gate'.closed = g.closed
      BY <2>2, <3>1 DEF Gate
    <3>3. Reports(IF AllIdle THEN "ready" ELSE "quiescing") /\ aDet'.token = g.lease
      <4>1. aDet' = Details(gate', IF AllIdle THEN "ready" ELSE "quiescing", g.lease)
        BY <3>1
      <4> QED BY <1>d, <4>1 DEF Reports
    <3>4. g.lease # NoToken /\ (gate.lease = NoToken => g.lease = aAck.token
                                 /\ aAck.state = "waiting" /\ aAck.tpid = aPid
                                 /\ ~UnadoptedRelease)
      BY <2>0, <2>1, <2>2
    <3>5. GateHolds
      BY <2>0, <2>2, <2>5, <3>2, <3>3, <3>4 DEF GateHolds
    <3> QED BY <2>0, <2>2, <3>2, <3>5 DEF PollCases
  <2> QED BY <2>4, <2>5
<1> QED BY <1>1, <1>2, <1>3, <1>4 DEF Poll

-----------------------------------------------------------------------------
(* The actor's steps keep ActInv                                             *)

LEMMA ActorKeeps ==
    ASSUME ActorNext
    PROVE  /\ UNCHANGED <<req, ack, oPid, oPc, oTok, lastTok, cPc, cReq, lease, tState, aPid>>
           /\ ActorLive /\ aPc' \in {"live", "exited"}
BY DEF ActorNext, ActorFrame, CohortPark, CohortUnpark, CohortSubmit, CohortFinish,
       BrokerIdle, PollRead, Poll, Publish, ActorHeartbeat, ControlFails, ActorExit,
       ActorKilled, ActorCrash, ActorEnds, ActorLive, actorVars, ownerVars, coordVars,
       files

(* A step of a cohort: the parked cohorts may only grow under a lease.       *)
CohortStep(c) == CohortPark(c) \/ CohortUnpark(c) \/ CohortSubmit(c) \/ CohortFinish(c)

LEMMA CohortBooks ==
    ASSUME TypeOK, ActorBooks, NEW c \in Cohorts, CohortStep(c)
    PROVE  ActorBooks'
<1>1. /\ UNCHANGED <<hb, ack, aPid, aPc, aKids, aStep, aDet, cPc>>
      /\ aStop => aStop'
      /\ gate' \in {gate, [gate EXCEPT !.synced = FALSE]}
  BY DEF CohortStep, CohortPark, CohortUnpark, CohortSubmit, CohortFinish, ActorFrame,
         Control, coordVars
<1>2. /\ gate'.lease = gate.lease /\ gate'.releasing = gate.releasing
      /\ gate'.closed = gate.closed
  BY <1>1 DEF TypeOK, ActorOK, Gate
<1>3. Parked' # {} => Parked # {} \/ gate.lease # NoToken
  <2>1. CASE CohortPark(c)
    BY <2>1 DEF CohortPark, MustPark
  <2>2. CASE CohortUnpark(c) \/ CohortFinish(c) \/ CohortSubmit(c)
    <3>1. \A d \in Cohorts : coh'[d] = "parked" => coh[d] = "parked"
      BY <2>2 DEF CohortUnpark, CohortFinish, CohortSubmit, TypeOK, ActorOK
    <3> QED BY <3>1 DEF Parked
  <2> QED BY <2>1, <2>2 DEF CohortStep
<1> QED BY <1>1, <1>2, <1>3, Parts DEF ActorBooks, ActorLive, Free, Up, ActorOK

LEMMA ActorBooksKept ==
    ASSUME TypeOK, OwnerTokens, ActorBooks, ActorNext
    PROVE  ActorBooks'
<1> USE ActTypes
<1>k. /\ UNCHANGED <<ack, cPc, aPid>> /\ ActorLive /\ Up' = Up
      /\ aPc' \in {"live", "exited"} /\ gate \in Gate /\ hb \in Heartbeat
  BY ActorKeeps DEF Up, TypeOK, ActorOK, FilesOK
<1>c. /\ Close(gate).lease = NoToken /\ Close(gate).releasing = NoToken
      /\ Close(gate).closed
  BY <1>k DEF Close, Gate
<1>1. CASE \E c \in Cohorts : CohortStep(c)
  BY <1>1, CohortBooks
<1>2. CASE BrokerIdle \/ PollRead
  <2>1. UNCHANGED <<hb, aPc, aStop, aKids, coh, gate>> /\ aStep' \in {aStep, "poll"}
        /\ (aStep' = "publish" => aDet' = aDet)
    BY <1>2 DEF BrokerIdle, PollRead, Control
  <2> QED BY <1>k, <2>1 DEF ActorBooks, ActorLive, Free, Parked
<1>3. CASE Poll
  <2>1. UNCHANGED <<hb, aPc, aStop, aKids, coh>>
    BY <1>3 DEF Poll
  <2>2. Parked' = Parked  BY <2>1 DEF Parked
  <2>3. CASE GateStops
    BY <1>k, <1>c, <2>1, <2>2, <2>3 DEF GateStops, Reports, ActorBooks, ActorLive, Free
  <2>4. CASE ~gate'.closed /\ (GateWaits \/ GateDone \/ GateIdle \/ GateReleases)
    BY <1>k, <2>1, <2>2, <2>4
    DEF GateWaits, GateDone, GateIdle, GateReleases, Reports, ActorBooks, ActorLive, Free
  <2>5. CASE ~gate'.closed /\ GateHolds
    BY <1>k, <2>1, <2>2, <2>5 DEF GateHolds, Reports, ActorBooks, ActorLive, Free
  <2> QED BY <1>3, <2>3, <2>4, <2>5, PollSplit DEF PollCases
<1>4. CASE Publish
  <2>1. UNCHANGED <<aPc, aStop, aKids, coh, gate>> /\ hb' = aDet /\ aStep' = "read"
        /\ aStep = "publish"
    BY <1>4 DEF Publish
  <2> QED BY <1>k, <2>1 DEF ActorBooks, ActorLive, Free, Parked
<1>5. CASE ActorHeartbeat
  <2>1. UNCHANGED actorVars /\ hb' = [hb EXCEPT !.fresh = TRUE]
    BY <1>5 DEF ActorHeartbeat
  <2>2. hb'.pid = hb.pid /\ hb'.kind = hb.kind /\ hb'.token = hb.token
    BY <1>k, <2>1 DEF Heartbeat
  <2> QED BY <1>k, <2>1, <2>2 DEF ActorBooks, ActorLive, Free, Parked, actorVars
<1>6. CASE ControlFails
  <2>1. /\ UNCHANGED <<hb, aPc, aKids>> /\ aStop' /\ gate' = Close(gate)
        /\ aStep' = "join"
    BY <1>6 DEF ControlFails
  <2> QED BY <1>k, <1>c, <2>1 DEF ActorBooks, ActorLive, Free
<1>7. CASE ActorExit
  <2>1. /\ aPc' = "exited" /\ gate' = Close(gate) /\ UNCHANGED Control
        /\ hb' = Details(gate', "stopping", NoToken)
    BY <1>7 DEF ActorExit, ActorEnds
  <2>2. hb'.pid = aPid /\ hb'.kind = "stopping"
    BY <2>1 DEF Details
  <2> QED BY <1>k, <1>c, <2>1, <2>2 DEF ActorBooks, ActorLive, Free, Control
<1>8. CASE ActorKilled \/ ActorCrash
  <2>1. aPc' = "exited" /\ UNCHANGED <<hb, gate, Control>>
    BY <1>8 DEF ActorKilled, ActorCrash, ActorEnds, files
  <2> QED BY <1>k, <2>1 DEF ActorBooks, ActorLive, Free, Control
<1> QED BY <1>1, <1>2, <1>3, <1>4, <1>5, <1>6, <1>7, <1>8 DEF ActorNext, CohortStep

(* What the actor has shown of a lease it takes back only when it sees the   *)
(* lease released, or when it stops.                                         *)
LEMMA ProvenKept ==
    ASSUME TypeOK, OwnerTokens, ActInv, ActorNext, Free', NEW t \in Nat \ {NoToken},
           Proven(t)
    PROVE  Proven(t)' \/ Spent(t)
<1> USE ActTypes
<1>0. /\ ActorLive /\ ActorBooks /\ EvidenceFor(t) /\ gate \in Gate
  BY ActorKeeps DEF ActInv, Evidence, TypeOK, ActorOK
<1>1. /\ gate.lease = t /\ ~busy /\ Live # {} /\ \A c \in Cohorts : coh[c] # "run"
      /\ Parked = Live
  BY DEF Proven, Parked, Live
<1>2. ASSUME NEW c \in Cohorts, CohortStep(c) PROVE Proven(t)'
  <2>1. CASE CohortUnpark(c)
    <3>1. aStop' = aStop  BY <2>1 DEF CohortUnpark
    <3>2. MustPark
      BY <1>0, <1>1, <3>1 DEF MustPark, ActorBooks, Free, NoToken
    <3> QED BY <2>1, <3>2 DEF CohortUnpark
  <2> QED BY <1>1, <1>2, <2>1 DEF CohortStep, CohortPark, CohortSubmit, CohortFinish
<1>3. CASE Poll
  <2>0. UNCHANGED <<aPc, aStop, coh, busy>>  BY <1>3 DEF Poll
  <2>1. ~aStop  BY <2>0 DEF Free
  <2>2. CASE GateReleases
    BY <1>0, <1>1, <2>1, <2>2 DEF GateReleases, Matches, EvidenceFor, Free
  <2>3. CASE GateHolds
    BY <1>1, <2>0, <2>3 DEF GateHolds, Proven, Parked, Live, NoToken
  <2> QED BY <1>1, <1>3, <2>1, <2>2, <2>3, <1>0, PollSplit
      DEF PollCases, GateStops, GateWaits, GateDone, GateIdle, NoToken
<1>4. CASE \/ BrokerIdle \/ PollRead \/ Publish \/ ActorHeartbeat
  BY <1>1, <1>4 DEF BrokerIdle, PollRead, Publish, ActorHeartbeat, actorVars, Proven,
     Parked, Live
<1>5. CASE ControlFails \/ ActorExit \/ ActorKilled \/ ActorCrash
  BY <1>5 DEF ControlFails, ActorExit, ActorKilled, ActorCrash, ActorEnds, Free, ActorLive
<1> QED BY <1>2, <1>3, <1>4, <1>5 DEF ActorNext, CohortStep

LEMMA EvidenceActor ==
    ASSUME TypeOK, OwnInv, OwnerTokens, ActInv, ActorNext, NEW t \in Nat \ {NoToken}
    PROVE  EvidenceFor(t)'
<1> USE ActTypes
<1> SUFFICES ASSUME Free' PROVE EvidenceFor(t)'
  BY DEF EvidenceFor
<1>0. /\ ActorBooks /\ EvidenceFor(t) /\ hb \in Heartbeat
      /\ UNCHANGED <<ack, cPc, lease, aPid>> /\ Up' = Up /\ ActorLive
  BY ActorKeeps DEF ActInv, Evidence, TypeOK, FilesOK, Up
<1>s. Spent(t) => Spent(t)'
  BY SpentOther DEF ActInv
<1>f. Free
  <2>1. aStop => aStop'
    BY <1>0 DEF ActorNext, CohortPark, CohortUnpark, CohortSubmit, CohortFinish,
       BrokerIdle, PollRead, Poll, Publish, ActorHeartbeat, ControlFails, ActorExit,
       ActorKilled, ActorCrash, actorVars
  <2> QED BY <1>0, <2>1 DEF Free
<1>p. Proven(t) \/ Spent(t) => Proven(t)' \/ Spent(t)'
  BY <1>s, ProvenKept
<1>g. Up /\ lease.state = "ready" /\ lease.tpid # 0 /\ lease.token = t => Proven(t)'
  <2>1. Up /\ lease.state = "ready" /\ lease.token = t => ~Spent(t)
    BY DEF Spent, Held
  <2> QED BY <1>0, <1>f, <2>1, ProvenKept DEF EvidenceFor
<1>a. aAck' = aAck \/ aAck' = ack
  BY DEF ActorNext, CohortPark, CohortUnpark, CohortSubmit, CohortFinish, BrokerIdle,
     PollRead, Poll, Publish, ActorHeartbeat, ControlFails, ActorExit, ActorKilled,
     ActorCrash, Control, actorVars
<1>h. hb'.kind = "ready" /\ hb'.pid = aPid' /\ hb'.token = t => Proven(t)' \/ Spent(t)'
  <2>1. CASE Publish
    BY <1>0, <1>f, <1>p, <2>1 DEF Publish, EvidenceFor
  <2>2. CASE ActorExit
    BY <2>2 DEF ActorExit, ActorEnds, Free, ActorLive
  <2>3. CASE hb' = hb \/ hb' = [hb EXCEPT !.fresh = TRUE]
    <3>1. hb'.kind = hb.kind /\ hb'.pid = hb.pid /\ hb'.token = hb.token
      BY <1>0, <2>3 DEF Heartbeat
    <3> QED BY <1>0, <1>f, <1>p, <3>1 DEF EvidenceFor
  <2> QED BY <2>1, <2>2, <2>3 DEF ActorNext, CohortPark, CohortUnpark, CohortSubmit,
     CohortFinish, BrokerIdle, PollRead, Poll, ActorHeartbeat, ControlFails,
     ActorKilled, ActorCrash, files
<1>d. aStep' = "publish" /\ aDet'.kind = "ready" /\ aDet'.token = t
        => Proven(t)' \/ Spent(t)'
  <2>1. CASE Poll
    <3>0. UNCHANGED <<coh, busy>>  BY <2>1 DEF Poll
    <3>1. CASE GateHolds
      <4>1. aDet'.kind = "ready" => AllIdle
        BY <3>1 DEF GateHolds, Reports
      <4> QED BY <3>0, <3>1, <4>1 DEF GateHolds, AllIdle, Proven, Parked, Live
    <3>2. CASE ~GateHolds
      BY <1>0, <2>1, <3>2, PollSplit
      DEF PollCases, GateStops, GateWaits, GateDone, GateIdle, GateReleases, Reports
    <3> QED BY <3>1, <3>2
  <2>2. CASE ~Poll
    <3>1. aStep' = "publish" => aStep = "publish" /\ aDet' = aDet
      BY <2>2 DEF ActorNext, CohortPark, CohortUnpark, CohortSubmit, CohortFinish,
         BrokerIdle, PollRead, Publish, ActorHeartbeat, ControlFails, ActorExit,
         ActorKilled, ActorCrash, Control, actorVars
    <3> QED BY <1>0, <1>f, <1>p, <3>1 DEF EvidenceFor
  <2> QED BY <2>1, <2>2
<1> QED BY <1>0, <1>s, <1>f, <1>g, <1>a, <1>h, <1>d DEF EvidenceFor

LEMMA ActActor ==
    ASSUME TypeOK, OwnInv, OwnerTokens, ActInv, OwedBooks', ActorNext
    PROVE  ActInv'
<1>1. TargetBooks'
  BY ActorKeeps DEF ActInv, TargetBooks, Up, Held, ActorLive
<1> QED BY <1>1, ActorBooksKept, EvidenceActor DEF ActInv, Evidence

-----------------------------------------------------------------------------
(* The other steps keep ActInv                                               *)

(* A step that leaves the actor alone and grants nothing.                    *)
LEMMA EvidenceKept ==
    ASSUME ActInv, NEW t \in Nat \ {NoToken}, Spent(t) => Spent(t)',
           Free' => Free /\ UNCHANGED actorVars,
           hb'.kind = hb.kind, hb'.pid = hb.pid, hb'.token = hb.token,
           Free' => ack'.state = ack.state /\ ack'.tpid = ack.tpid
                    /\ ack'.token = ack.token,
           Up' => Up /\ lease'.state = lease.state /\ lease'.tpid = lease.tpid
                  /\ lease'.token = lease.token
    PROVE  EvidenceFor(t)'
<1> SUFFICES ASSUME Free' PROVE EvidenceFor(t)'
  BY DEF EvidenceFor
<1>1. Proven(t)' = Proven(t)
  BY DEF Proven, Live, Parked, actorVars
<1>2. EvidenceFor(t)
  BY DEF ActInv, Evidence
<1> QED BY <1>1, <1>2 DEF EvidenceFor, actorVars

LEMMA ActShutdown ==
    ASSUME TypeOK, OwnInv, ActInv, OwedBooks',
           \/ BeginDrain \/ EndLoop \/ StopAll \/ StopKill \/ StopReap
           \/ HostCrash \/ CoordRead
    PROVE  ActInv'
<1> USE ActTypes
<1>0. /\ ActorBooks /\ TargetBooks /\ OwedBooks /\ ActorOK
      /\ \A l, s : Ack(l, s).tpid = l.tpid
  BY Parts DEF ActInv, Ack
<1>1. hb' = hb
  BY DEF BeginDrain, EndLoop, StopAll, StopKill, StopReap, HostCrash, CoordRead,
         KeepFlags, CoordFrame, files
<1>2. ActorAfter /\ ~StartActor
  <2>1. /\ ActorAfter
        /\ \/ KeepActor \/ SignalActor \/ ReapActor
           \/ aPid' = aPid
    BY DEF BeginDrain, EndLoop, StopAll, StopKill, StopReap, HostCrash, CoordRead,
           KeepActor, ActorAfter, ActorLive
  <2>2. aPid' = aPid
    BY <2>1 DEF KeepActor, SignalActor, ReapActor, actorVars
  <2> QED BY <2>1, <2>2 DEF StartActor
<1>3. CASE CoordRead \/ EndLoop
  <2>1. UNCHANGED <<ack, lease, tState, actorVars>> /\ Up /\ Up'
    BY <1>3 DEF CoordRead, EndLoop, files, Up
  <2>2. ActorBooks'
    BY <1>0, <1>1, <1>2, <2>1, BooksAfter
  <2>3. TargetBooks'
    BY <1>0, <2>1 DEF TargetBooks, Held, actorVars
  <2>4. Evidence'
    BY <1>0, <1>1, <1>3, <2>1, EvidenceKept, SpentOther DEF Evidence, Free, ActorLive, actorVars
  <2> QED BY <2>2, <2>3, <2>4 DEF ActInv
<1>4. CASE BeginDrain
  <2>1. lease' \in {lease, [lease EXCEPT !.suspended = FALSE]}
    BY <1>4 DEF BeginDrain
  <2>2. /\ lease'.token = lease.token /\ lease'.state = lease.state
        /\ lease'.tpid = lease.tpid
    BY <2>1, Parts DEF Lease
  <2>3. /\ UNCHANGED <<ack, cPc>> /\ Up' = Up
        /\ \/ KeepActor /\ (tState' = tState \/ tState' # "backoff")
           \/ SignalActor /\ tState' # "backoff"
    BY <1>4 DEF BeginDrain, Up
  <2>4. ActorBooks'
    BY <1>0, <1>1, <1>2, <1>4, <2>3, BooksAfter DEF BeginDrain, Up
  <2>5. UNCHANGED <<aPid, aPc>>
    BY <2>3 DEF KeepActor, SignalActor, actorVars
  <2>6. TargetBooks'
    BY <1>0, <2>2, <2>3, <2>5 DEF TargetBooks, Held
  <2>7. Free' => Free /\ UNCHANGED actorVars
    BY <1>0, <1>2, FreeAfter
  <2>8. Evidence'
    BY <1>0, <1>1, <1>4, <2>2, <2>3, <2>7, EvidenceKept, SpentOther DEF Evidence
  <2> QED BY <2>4, <2>6, <2>8 DEF ActInv
<1>5. CASE StopAll \/ StopKill \/ StopReap \/ HostCrash
  <2>1. /\ ~Up'
        /\ \/ ~Up /\ ack' = ack
           \/ SignalActor /\ Up /\ (ack' = ack \/ (Held /\ ack'.tpid = lease.tpid))
           \/ aPc' # "live" /\ ack' = ack
    BY <1>0, <1>5 DEF StopAll, StopKill, StopReap, HostCrash, files, Up
  <2>2. ack'.tpid \in {ack.tpid, 0, aPid}
    BY <1>0, <2>1 DEF TargetBooks
  <2>3. ActorBooks'
    BY <1>0, <1>1, <1>2, <2>1, <2>2, BooksAfter
  <2>4. TargetBooks'
    BY <2>1 DEF TargetBooks
  <2>5. Free' => FALSE
    BY <2>1, <2>3 DEF ActorBooks, Free, ActorLive
  <2>6. Evidence'
    BY <2>5 DEF Evidence, EvidenceFor
  <2> QED BY <2>3, <2>4, <2>6 DEF ActInv
<1> QED BY <1>3, <1>4, <1>5

LEMMA ActStart == ASSUME TypeOK, ActInv, OwedBooks', CoordStart PROVE ActInv'
<1> USE ActTypes
<1>1. /\ UNCHANGED <<hb, ack>> /\ StartActor /\ Up' /\ lease' = NoLease
      /\ tState' = "running"
  BY DEF CoordStart, files, Up
<1>2. ActorBooks'
  BY <1>1, BooksAfter DEF ActInv, ActorAfter
<1>3. TargetBooks'
  BY <1>1 DEF TargetBooks, NoLease, Held
<1>4. ASSUME NEW t \in Nat \ {NoToken} PROVE EvidenceFor(t)'
  <2>1. aPid' = aPid + 1 /\ aStep' = "read" /\ aAck' = NoAck
    BY <1>1 DEF StartActor
  <2> QED BY <1>1, <2>1 DEF EvidenceFor, ActInv, ActorBooks, NoAck, ReleaseStates, NoLease
<1> QED BY <1>2, <1>3, <1>4 DEF ActInv, Evidence

LEMMA ActOther ==
    ASSUME TypeOK, OwnInv, ActInv, OwedBooks',
           OwnerNext \/ GoStale \/ RequestVanishes \/ UNCHANGED vars
    PROVE  ActInv'
<1> USE ActTypes
<1>1. UNCHANGED <<cPc, lease, tState, actorVars>>
  BY DEF OwnerFrame, OwnerNext, OwnerStep, OwnerRegister, OwnerBlocked, OwnerRequest,
     OwnerHeartbeat, OwnerSeesReady, OwnerActivate, OwnerCancel, OwnerRelease,
     OwnerReleased, OwnerFails, OwnerStops, OwnerKilled, OwnerCrash, coordVars,
     GoStale, RequestVanishes, vars
<1>2. /\ ack' \in {ack, [ack EXCEPT !.fresh = FALSE]}
      /\ hb' \in {hb, [hb EXCEPT !.fresh = FALSE]}
  BY DEF OwnerFrame, OwnerNext, OwnerStep, OwnerRegister, OwnerBlocked, OwnerRequest,
     OwnerHeartbeat, OwnerSeesReady, OwnerActivate, OwnerCancel, OwnerRelease,
     OwnerReleased, OwnerFails, OwnerStops, OwnerKilled, OwnerCrash, files,
     GoStale, RequestVanishes, vars
<1>3. /\ ack'.state = ack.state /\ ack'.tpid = ack.tpid /\ ack'.token = ack.token
      /\ hb'.pid = hb.pid /\ hb'.kind = hb.kind /\ hb'.token = hb.token
  BY <1>2 DEF TypeOK, FilesOK, Acknowledgement, Heartbeat
<1>4. ActorBooks'
  BY <1>1, <1>3 DEF ActInv, ActorBooks, ActorLive, Free, Up, Parked, actorVars
<1>5. TargetBooks'
  BY <1>1 DEF ActInv, TargetBooks, Up, Held, actorVars
<1>6. ASSUME NEW t \in Nat \ {NoToken} PROVE EvidenceFor(t)'
  <2>1. Spent(t) => Spent(t)'
    BY SpentArena, SpentOther DEF ActInv
  <2> QED BY <1>1, <1>3, <2>1, EvidenceKept DEF Up, Free, ActorLive, actorVars
<1> QED BY <1>4, <1>5, <1>6 DEF ActInv, Evidence

(* The second write: an acknowledgement that was owed to the actor ends its   *)
(* lease.                                                                    *)
LEMMA ActWrites ==
    ASSUME EventInv, OwnInv, ActInv, OwedBooks', WriteEvent \/ WriteAck
    PROVE  ActInv'
<1> USE ActTypes
<1>0. TypeOK /\ ActorBooks /\ TargetBooks /\ OwedBooks /\ ActorOK
  BY Parts DEF EventInv, ActInv
<1>1. /\ UNCHANGED <<cPc, cReq, lease, hb, oPid, oPc, oTok, lastTok>> /\ Up' = Up
      /\ ack' = ack \/ (WriteAck /\ ack' = owed.ack /\ owed.ack # NoAck)
      /\ owed'.ack = NoAck
      /\ tState' # "backoff" \/ tState' = tState
  BY OwedFields
  DEF WriteEvent, WriteAck, KeepWorkers, KeepOwner, KeepThread, KeepLoop, CoordFrame, Up
<1>2. KeepActor \/ SignalActor
  BY DEF WriteEvent, WriteAck, KeepWorkers
<1>3. /\ UNCHANGED <<aPid, aPc, aKids, coh, busy, gate, aStep, aAck, aDet>> /\ ActorAfter
      /\ ~StartActor
  BY <1>0, <1>2 DEF KeepActor, SignalActor, actorVars, ActorAfter, StartActor
<1>4. ActorBooks'
  <2>1. ~Up => KeepActor \/ SignalActor  BY <1>2
  <2> QED BY <1>0, <1>1, <1>3, BooksAfter
<1>5. TargetBooks'
  BY <1>0, <1>1, <1>3 DEF TargetBooks, Held
<1>6. ASSUME NEW t \in Nat \ {NoToken}, Free' PROVE EvidenceFor(t)'
  <2>1. Free /\ UNCHANGED actorVars
    BY <1>0, <1>3, <1>6, FreeAfter
  <2>2. EvidenceFor(t) /\ (Spent(t) => Spent(t)')
    BY <1>0, SpentWrites DEF ActInv, Evidence
  <2>3. Proven(t)' = Proven(t)
    BY <2>1 DEF Proven, Live, Parked, actorVars
  <2>4. ASSUME ack' = owed.ack, owed.ack # NoAck, owed.ack.state \in ReleaseStates,
               owed.ack.tpid = aPid, owed.ack.token = t
        PROVE  Spent(t)'
    <3>1. cPc # "reconcile" /\ owed # NoDebt
      BY <2>4, OwedFields DEF EventInv, OwedWhen
    <3>2. t <= lastTok /\ ~Asking(t)
      BY <2>4 DEF OwnInv, TokensSeen, OwedLeft
    <3>3. Held /\ lease.token = t => lease.state = "resuming"
      BY <1>0, <2>4 DEF OwedBooks
    <3>4. ack'.state # "waiting" /\ owed'.ack.tpid # aPid
      BY <1>0, <1>1, <2>4, OwedFields DEF ReleaseStates, ActorBooks
    <3> QED BY <1>1, <1>3, <3>1, <3>2, <3>3, <3>4 DEF Spent, Asking, Held
  <2> QED BY <1>1, <2>1, <2>2, <2>3, <2>4 DEF EvidenceFor, actorVars
<1>7. \A t \in Nat \ {NoToken} : EvidenceFor(t)'
  BY <1>6 DEF EvidenceFor
<1> QED BY <1>4, <1>5, <1>7 DEF ActInv, Evidence

(* What is owed, in any step.                                                *)
LEMMA OwedStep ==
    ASSUME TypeOK, OwnInv, ActorBooks, TargetBooks, OwedBooks, [Next]_vars
    PROVE  OwedBooks'
<1> USE ActTypes
<1>1. CASE owed'.ack = NoAck /\ aPid' \in {aPid, aPid + 1}
  BY <1>1, OwedFields DEF OwedBooks, ActorBooks
<1>2. CASE UNCHANGED <<owed, lease, aPid>>
  BY <1>2 DEF OwedBooks, Held
<1>3. CASE CoordReconcile \/ TargetStep \/ OwnerMonitorStep
  <2>0. CoordMove  BY <1>3, CoordMoves
  <2>1. /\ Up /\ Parsed.tpid = 0 /\ ~(NoLease.state # "none")
        /\ \A l, s : /\ Ack(l, s).token = l.token /\ Ack(l, s).state = s
                     /\ Ack(l, s).tpid = l.tpid
    BY <2>0 DEF CoordMove, Up, Parsed, NoLease, Ack
  <2>2. aPid' \in {aPid, aPid + 1}
    BY <2>0, MoveActor DEF KeepActor, SignalActor, ReapActor, StartActor, actorVars
  <2>3. CASE Quiet \/ Flagged \/ AdmitMove \/ GrantMove \/ ConfirmMove \/ DrainedMove
    BY <1>1, <2>2, <2>3, OwedFields
    DEF Quiet, Flagged, AdmitMove, GrantMove, ConfirmMove, DrainedMove
  <2>4. CASE Refuse \/ SettleEarly
    <3>1. owed'.ack.tpid = 0 /\ ~Held'
      BY <2>1, <2>4, OwedFields DEF Refuse, SettleEarly, Held
    <3> QED BY <2>2, <3>1 DEF OwedBooks, ActorBooks
  <2>5. CASE ResumeMove
    <3>1. /\ owed'.ack.tpid = lease.tpid /\ owed'.ack.token = lease'.token
          /\ lease'.state = "resuming" /\ aPid' = aPid /\ Held
      BY <2>1, <2>5, OwedFields DEF ResumeMove, KeepActor, actorVars
    <3> QED BY <2>1, <3>1 DEF OwedBooks, TargetBooks, Held
  <2>6. CASE CloseMove
    <3>1. /\ ~Held' /\ Held /\ owed'.ack.tpid = lease.tpid
          /\ owed'.ack.state = "draining" \/ aPid' = aPid + 1
      BY <2>1, <2>6, OwedFields DEF CloseMove, StartActor, Held
    <3>2. lease.tpid <= aPid
      BY <2>1, <3>1 DEF TargetBooks
    <3> QED BY <2>2, <3>1, <3>2 DEF OwedBooks, ActorBooks
  <2> QED BY <2>0, <2>3, <2>4, <2>5, <2>6 DEF CoordMove, LeaseMove
<1>4. CASE WriteEvent \/ WriteAck
  BY <1>1, <1>4, OwedFields
  DEF WriteEvent, WriteAck, KeepWorkers, KeepActor, SignalActor, actorVars
<1>5. CASE StopReap \/ HostCrash \/ CoordStart
  BY <1>1, <1>5, OwedFields
  DEF StopReap, HostCrash, CoordStart, StartActor, ReapActor, KeepActor, actorVars
<1>6. CASE BeginDrain \/ EndLoop \/ StopAll \/ StopKill \/ CoordRead
  <2>1. aPid' = aPid /\ owed' = owed
    BY <1>6
    DEF BeginDrain, EndLoop, StopAll, StopKill, CoordRead, KeepActor, SignalActor, actorVars
  <2>2. lease' = lease \/ owed = NoDebt
    BY <1>6 DEF BeginDrain, EndLoop, StopAll, StopKill, CoordRead
  <2> QED BY <1>1, <1>2, <2>1, <2>2, OwedFields
<1>7. CASE ActorNext \/ OwnerNext \/ GoStale \/ RequestVanishes \/ UNCHANGED vars
  <2>1. CASE OwnerNext
    BY <1>2, <2>1 DEF OwnerFrame, OwnerNext, OwnerStep, OwnerRegister, OwnerBlocked,
       OwnerRequest, OwnerHeartbeat, OwnerSeesReady, OwnerActivate, OwnerCancel,
       OwnerRelease, OwnerReleased, OwnerFails, OwnerStops, OwnerKilled, OwnerCrash,
       coordVars, actorVars
  <2>2. CASE ~OwnerNext
    BY <1>2, <1>7, <2>2 DEF ActorNext, ActorFrame, CohortPark, CohortUnpark, CohortSubmit,
       CohortFinish, BrokerIdle, PollRead, Poll, Publish, ActorHeartbeat, ControlFails,
       ActorExit, ActorKilled, ActorCrash, GoStale, RequestVanishes, vars, actorVars,
       coordVars
  <2> QED BY <2>1, <2>2
<1> QED BY <1>3, <1>4, <1>5, <1>6, <1>7 DEF Next, CoordNext, TargetStep, OwnerMonitorStep

LEMMA ActInit == Init => ActInv
<1> SUFFICES ASSUME Init PROVE ActInv  OBVIOUS
<1>1. Parked = {}
  BY DEF Init, Parked
<1>2. ActorBooks
  BY <1>1 DEF Init, ActorBooks, NoHeartbeat, NoAck, OpenGate, NoToken, ActorLive, Up
<1>3. TargetBooks
  BY DEF Init, TargetBooks, NoLease, Held
<1>4. Evidence
  BY DEF Init, Evidence, EvidenceFor, NoAck, NoHeartbeat, NoLease, ReleaseStates
<1>5. OwedBooks
  BY OwedFields DEF Init, OwedBooks
<1> QED BY <1>2, <1>3, <1>4, <1>5 DEF ActInv

(* EventInv supplies the types and the tokens of the requests.               *)
PauseInv == EventInv /\ OwnInv /\ ActInv

LEMMA ActStep == EventInv /\ OwnInv /\ ActInv /\ [Next]_vars => ActInv'
<1> SUFFICES ASSUME EventInv, OwnInv, ActInv, [Next]_vars PROVE ActInv'  OBVIOUS
<1>0. TypeOK /\ OwnerTokens /\ OwedBooks'
  BY OwedStep DEF EventInv, ActInv
<1>1. CASE CoordReconcile \/ TargetStep \/ OwnerMonitorStep
  BY <1>0, <1>1, CoordMoves, ActMoves
<1>2. CASE ActorNext
  BY <1>0, <1>2, ActActor
<1>3. CASE \/ BeginDrain \/ EndLoop \/ StopAll \/ StopKill \/ StopReap
           \/ HostCrash \/ CoordRead
  BY <1>0, <1>3, ActShutdown
<1>4. CASE CoordStart
  BY <1>0, <1>4, ActStart
<1>5. CASE WriteEvent \/ WriteAck
  BY <1>0, <1>5, ActWrites
<1> QED BY <1>0, <1>1, <1>2, <1>3, <1>4, <1>5, ActOther
        DEF Next, CoordNext, TargetStep, OwnerMonitorStep

LEMMA PauseInductive == Spec => []PauseInv
<1>1. EventInv /\ OwnInv /\ ActInv /\ [Next]_vars => ActInv'
  BY ActStep
<1> QED BY <1>1, EventInductive, OwnInductive, ActInit, PTL DEF Spec, PauseInv

(* While the arena computes inside its lease, no cohort and no inference of  *)
(* a living actor uses the GPU, unless that actor has been told to stop: the *)
(* two processes never share the device, in any interleaving of the polls,   *)
(* the acknowledgements, the reconciliations and the restarts, with files    *)
(* that go stale or vanish, processes that die and coordinators that drain.  *)
THEOREM GpuNeverShared == Spec => []GpuExclusive
<1>1. ASSUME PauseInv PROVE GpuExclusive
  <2> SUFFICES ASSUME oPc = "body", Free
               PROVE  ~busy /\ \A c \in Cohorts : coh[c] # "run"
    BY DEF GpuExclusive, Free
  <2>1. Up
    BY <1>1 DEF PauseInv, ActInv, ActorBooks, Free
  <2>2. lease.token = oTok /\ lease.state = "ready"
    BY <1>1, <2>1 DEF PauseInv, OwnInv, GrantHeld
  <2>3. lease.tpid # 0
    BY <1>1, <2>1, <2>2 DEF PauseInv, ActInv, TargetBooks, Free, ActorLive
  <2>4. oTok \in Nat \ {NoToken}
    BY <1>1, Parts DEF PauseInv, OwnInv, TokensSeen, EventInv, OwnerOK
  <2>5. Proven(lease.token)
    BY <1>1, <2>1, <2>2, <2>3, <2>4 DEF PauseInv, ActInv, Evidence, EvidenceFor
  <2> QED BY <2>5 DEF Proven, Parked, Live
<1> QED BY <1>1, PauseInductive, PTL

(* Readiness is never acknowledged on hearsay: when the coordinator writes   *)
(* "ready" its target has been collected with all of its group, or at that   *)
(* very moment every live cohort is parked for that token with the broker    *)
(* idle, or the actor is on its way out; an old heartbeat of another lease,  *)
(* or one that outlived its proof, is never taken for this one.              *)
THEOREM ReadyProved == Spec => ReadyIsProven
<1> DEFINE Grants == Acknowledges({"ready"})
           Shown == \/ aPc' = "none" /\ ~aKids'
                    \/ ActorLive /\ (aStop \/ Proven(ack'.token))
<1>1. PauseInv /\ [Next]_vars => [Grants => Shown]_vars
  <2> SUFFICES ASSUME PauseInv, Next, Grants PROVE Shown
    OBVIOUS
  <2>0. /\ ack'.state = "ready" /\ (ack'.state # ack.state \/ ack'.token # ack.token)
        /\ TypeOK /\ OwnInv /\ ActInv
    BY DEF Acknowledges, PauseInv, EventInv
  <2> HIDE DEF Grants
  <2>a. \A l, s : Ack(l, s).token = l.token /\ Ack(l, s).state = s
    BY DEF Ack
  <2>1. CASE CoordReconcile \/ TargetStep \/ OwnerMonitorStep
    <3>0. CoordMove  BY <2>0, <2>1, CoordMoves
    <3>1. AdmitMove \/ GrantMove
      BY <2>0, <2>a, <3>0 DEF CoordMove, LeaseMove, Quiet, Flagged, Refuse, SettleEarly,
         ResumeMove, CloseMove, ConfirmMove, DrainedMove, ReleaseStates, AckStays
    <3>2. CASE ReapActor
      BY <3>2 DEF ReapActor
    <3>3. CASE AdmitMove /\ ~ReapActor
      BY <2>0, <2>a, <3>3 DEF AdmitMove
    <3>4. CASE GrantMove /\ ~ReapActor
      <4>1. /\ ActorLive /\ Quiescent(lease) /\ lease.tpid # 0 /\ Held /\ Up
            /\ lease.state = "waiting" /\ ack'.token = lease.token
        BY <2>a, <3>0, <3>4 DEF GrantMove, CoordMove, Up
      <4>2. lease.token \in Nat \ {NoToken}
        BY <4>1, Parts DEF PauseInv, EventInv, Evented, Tokens, NoToken
      <4>3. lease.tpid = aPid /\ ~Spent(lease.token)
        BY <2>0, <4>1 DEF ActInv, TargetBooks, Spent
      <4> QED BY <2>0, <4>1, <4>2, <4>3
          DEF ActInv, Evidence, EvidenceFor, Quiescent, Free
    <3> QED BY <3>1, <3>2, <3>3, <3>4
  <2>2. CASE OwnerNext
    BY <2>0, <2>2, OwnerKept
  <2>3. CASE \/ BeginDrain \/ EndLoop \/ StopAll \/ StopKill \/ StopReap
             \/ HostCrash \/ CoordStart \/ CoordRead
    BY <2>0, <2>a, <2>3 DEF BeginDrain, EndLoop, StopAll, StopKill, StopReap, HostCrash,
       CoordStart, CoordRead, files
  <2>4. CASE ActorNext \/ GoStale \/ RequestVanishes
    <3>1. ack' \in {ack, [ack EXCEPT !.fresh = FALSE]}
      BY <2>4, ActorKeeps DEF GoStale, RequestVanishes
    <3> QED BY <2>0, <3>1, Parts DEF Acknowledgement
  <2>5. CASE WriteEvent \/ WriteAck
    BY <2>0, <2>5 DEF WriteEvent, WriteAck, OwnInv, OwedLeft, ReleaseStates
  <2> QED BY <2>1, <2>2, <2>3, <2>4, <2>5 DEF Next, CoordNext, TargetStep, OwnerMonitorStep
<1> QED BY <1>1, PauseInductive, PTL DEF Spec, ReadyIsProven

-----------------------------------------------------------------------------
(* A release stays acknowledged until the actor has completed it             *)

OpenedFor(t) ==
    ack.state \in {"released", "recovered"} /\ ack.tpid = aPid /\ ack.token = t

(* What the gate remembers is over, and of the release that is acknowledged  *)
(* to it: once it has begun, the poll works with the release itself; once it *)
(* is completed, the gate is free; it is reported only then; and until then  *)
(* the coordinator keeps the lease.                                          *)
GateFor(t) ==
    Free =>
        /\ gate.last = t => Spent(t)
        /\ gate.releasing = t => Spent(t)
        /\ hb.pid = aPid /\ hb.last = t => Spent(t)
        /\ OpenedFor(t) =>
            /\ gate.last = t \/ gate.releasing = t =>
                aAck.token = t /\ aAck.state # "waiting"
            /\ gate.last = t => gate.lease = NoToken /\ gate.releasing = NoToken
            /\ hb.pid = aPid /\ hb.last = t => gate.last = t
            /\ Up /\ ~(lease.state = "resuming" /\ lease.token = t) => gate.last = t
GateInv ==
    /\ Up /\ lease.state = "resuming" => lease.tpid # 0
    /\ Up /\ Held /\ lease.tpid # 0 => ack.token = lease.token
    /\ Free /\ aStep = "publish" => aDet.last = gate.last
    /\ \A t \in Nat \ {NoToken} : GateFor(t)

LEMMA GateMoves ==
    ASSUME TypeOK, OwnInv, ActInv, GateInv, CoordMove
    PROVE  GateInv'
<1> USE ActTypes
<1>0. /\ Up /\ Up' /\ hb' = hb /\ ActorBooks /\ TargetBooks
      /\ \A l, s : Ack(l, s).token = l.token /\ Ack(l, s).state = s
                   /\ Ack(l, s).tpid = l.tpid
      /\ NoLease.state = "none" /\ Parsed.tpid = 0
  BY DEF CoordMove, Up, ActInv, Ack, NoLease, Parsed
<1>1. /\ lease'.state = "resuming" => lease'.tpid # 0
      /\ Held' /\ lease'.tpid # 0 => ack'.token = lease'.token
  <2>1. CASE Quiet \/ Flagged
    BY <1>0, <2>1 DEF Quiet, Flagged, SameLease, GateInv, Held
  <2>2. CASE Refuse \/ SettleEarly \/ AdmitMove
    BY <1>0, <2>2 DEF Refuse, SettleEarly, AdmitMove, Held
  <2>3. CASE GrantMove \/ ResumeMove
    BY <1>0, <2>3 DEF GrantMove, ResumeMove, AckStays, GateInv, Held
  <2>4. CASE CloseMove \/ ConfirmMove \/ DrainedMove
    BY <1>0, <2>4 DEF CloseMove, ConfirmMove, DrainedMove, Held
  <2> QED BY <2>1, <2>2, <2>3, <2>4 DEF CoordMove, LeaseMove
<1>2. ActorAfter /\ (Free' => StartActor \/ (Free /\ UNCHANGED actorVars))
  BY MoveActor, FreeAfter, Parts DEF ActorAfter
<1>3. Free' /\ aStep' = "publish" => aDet'.last = gate'.last
  BY <1>2 DEF GateInv, StartActor, actorVars
<1>4. ASSUME NEW t \in Nat \ {NoToken}, Free' PROVE GateFor(t)'
  <2>s. Spent(t) => Spent(t)'
    BY SpentMoves DEF ActInv
  <2>1. CASE StartActor
    <3>1. aPid' = aPid + 1 /\ gate' = OpenGate
      BY <2>1 DEF StartActor
    <3>2. ~KeepActor /\ ~SignalActor /\ ~ReapActor
      BY <3>1 DEF KeepActor, SignalActor, ReapActor, actorVars
    <3>3. ack' = ack \/ (ack'.tpid = lease.tpid /\ Held)
      BY <3>2, MoveActor
    <3>4. ack'.tpid <= aPid
      BY <1>0, <3>3 DEF ActorBooks, TargetBooks
    <3> QED BY <1>0, <3>1, <3>4 DEF GateFor, OpenedFor, OpenGate, ActorBooks, NoToken
  <2>2. CASE ~StartActor
    <3>0. Free /\ UNCHANGED actorVars /\ GateFor(t)
      BY <1>2, <1>4, <2>2 DEF GateInv
    <3>1. CASE ~OpenedFor(t)'
      BY <1>0, <2>s, <3>0, <3>1 DEF GateFor, actorVars
    <3>2. CASE OpenedFor(t)' /\ ack' # ack
      BY <1>0, <3>2
      DEF CoordMove, LeaseMove, OpenedFor, Quiet, Flagged, Refuse, SettleEarly, GrantMove,
          AdmitMove, ResumeMove, CloseMove, ConfirmMove, DrainedMove, AckStays
    <3>3. CASE OpenedFor(t)' /\ ack' = ack
      <4>0. OpenedFor(t)
        BY <3>0, <3>3 DEF OpenedFor, actorVars
      <4>1. ~(lease'.state = "resuming" /\ lease'.token = t) => gate.last = t
        <5>1. CASE ~(lease.state = "resuming" /\ lease.token = t)
          BY <1>0, <3>0, <4>0, <5>1 DEF GateFor
        <5>2. CASE lease.state = "resuming" /\ lease.token = t
          <6>1. Held  BY <5>2 DEF Held
          <6>2. CASE ConfirmMove
            <7>1. lease.tpid = aPid
              BY <1>0, <5>2, <6>1 DEF TargetBooks, GateInv
            <7>2. hb.pid = aPid /\ hb.last = t
              BY <5>2, <6>2, <7>1 DEF ConfirmMove, Resumed
            <7> QED BY <3>0, <4>0, <7>2 DEF GateFor
          <6>3. CASE Quiet \/ Flagged
            BY <5>2, <6>3 DEF Quiet, Flagged, SameLease
          <6>4. CASE DrainedMove
            BY <1>0, <3>3, <6>4 DEF DrainedMove, OpenedFor
          <6> QED BY <5>2, <6>1, <6>2, <6>3, <6>4
              DEF CoordMove, LeaseMove, Refuse, SettleEarly, AdmitMove, GrantMove,
                  ResumeMove, CloseMove
        <5> QED BY <5>1, <5>2
      <4> QED BY <1>0, <2>s, <3>0, <4>0, <4>1 DEF GateFor, actorVars
    <3> QED BY <3>1, <3>2, <3>3
  <2> QED BY <2>1, <2>2
<1>5. ASSUME NEW t \in Nat \ {NoToken} PROVE GateFor(t)'
  BY <1>4 DEF GateFor
<1> QED BY <1>0, <1>1, <1>3, <1>5 DEF GateInv

(* The polls.                                                                *)
LEMMA GatePoll ==
    ASSUME TypeOK, OwnInv, OwnerTokens, ActInv, GateInv, Poll, Free',
           NEW t \in Nat \ {NoToken}
    PROVE  GateFor(t)'
<1> USE ActTypes
<1>0. /\ ActorBooks /\ UNCHANGED <<hb, aPid, aAck, ack, cPc, lease>> /\ Free /\ ~aStop
      /\ Up' = Up
  BY DEF ActInv, Poll, ActorFrame, coordVars, Up, Free, ActorLive
<1>1. GateFor(t) /\ EvidenceFor(t)
  BY DEF GateInv, ActInv, Evidence
<1>2. Spent(t) => Spent(t)'
  BY SpentOther DEF ActorNext, ActInv
<1>3. PollCases
  BY <1>0, PollSplit
<1>4. OpenedFor(t)' = OpenedFor(t)
  BY <1>0 DEF OpenedFor
<1>5. CASE GateStops
  BY <1>0, <1>5 DEF GateStops
<1>6. CASE GateWaits
  BY <1>0, <1>1, <1>2, <1>4, <1>6 DEF GateWaits, GateFor
<1>7. CASE GateDone
  BY <1>0, <1>1, <1>2, <1>4, <1>7 DEF GateDone, GateFor
<1>8. CASE GateIdle
  <2>1. UnadoptedRelease => aAck.tpid = aPid /\ aAck.state \in ReleaseStates
                            /\ aAck.state # "waiting"
    BY DEF UnadoptedRelease, Matches, ReleaseStates
  <2>2. UnadoptedRelease /\ aAck.token = t => Spent(t)
    BY <1>0, <1>1, <2>1 DEF EvidenceFor
  <2> QED BY <1>0, <1>1, <1>2, <1>4, <1>8, <2>1, <2>2 DEF GateIdle, GateFor
<1>9. CASE GateReleases
  <2>1. /\ aAck.token = gate.lease /\ aAck.state # "waiting"
        /\ gate.lease = t => Spent(t)
    BY <1>0, <1>1, <1>9 DEF GateReleases, Matches, ReleaseStates, EvidenceFor
  <2> QED BY <1>0, <1>1, <1>2, <1>4, <1>9, <2>1 DEF GateReleases, GateFor
<1>10. CASE GateHolds
  BY <1>0, <1>1, <1>2, <1>4, <1>10 DEF GateHolds, GateFor
<1> QED BY <1>0, <1>3, <1>5, <1>6, <1>7, <1>8, <1>9, <1>10 DEF PollCases

LEMMA GateActor ==
    ASSUME TypeOK, OwnInv, OwnerTokens, ActInv, GateInv, ActorNext
    PROVE  GateInv'
<1> USE ActTypes
<1>0. /\ UNCHANGED <<ack, cPc, lease, aPid>> /\ Up' = Up /\ ActorLive /\ ActorBooks
      /\ hb \in Heartbeat /\ gate \in Gate
  BY ActorKeeps DEF ActInv, TypeOK, FilesOK, ActorOK, Up
<1>f. Free' => Free
  <2>1. aStop => aStop'
    BY <1>0 DEF ActorNext, CohortPark, CohortUnpark, CohortSubmit, CohortFinish,
       BrokerIdle, PollRead, Poll, Publish, ActorHeartbeat, ControlFails, ActorExit,
       ActorKilled, ActorCrash, actorVars
  <2> QED BY <1>0, <2>1 DEF Free
<1>g. ASSUME Free', ~Poll
      PROVE  gate'.last = gate.last /\ gate'.releasing = gate.releasing
             /\ gate'.lease = gate.lease
  <2>1. gate' \in {gate, [gate EXCEPT !.synced = FALSE]}
    BY <1>g DEF ActorNext, CohortPark, CohortUnpark, CohortSubmit, CohortFinish,
       BrokerIdle, PollRead, Publish, ActorHeartbeat, ControlFails, ActorExit, ActorEnds,
       ActorKilled, ActorCrash, actorVars, Free, ActorLive
  <2> QED BY <1>0, <2>1 DEF Gate
<1>h. ASSUME Free', ~Poll
      PROVE  \/ hb'.pid = hb.pid /\ hb'.last = hb.last
             \/ hb'.last = gate.last
  <2>1. \/ hb' \in {hb, [hb EXCEPT !.fresh = TRUE]}
        \/ hb' = aDet /\ aStep = "publish"
    BY <1>h DEF ActorNext, CohortPark, CohortUnpark, CohortSubmit, CohortFinish,
       BrokerIdle, PollRead, Publish, ActorHeartbeat, ControlFails, ActorExit, ActorEnds,
       ActorKilled, ActorCrash, files, Free, ActorLive
  <2> QED BY <1>0, <1>f, <1>h, <2>1 DEF Heartbeat, GateInv
<1>a. ~Poll => aAck' = aAck \/ aAck' = ack
  BY DEF ActorNext, CohortPark, CohortUnpark, CohortSubmit, CohortFinish, BrokerIdle,
     PollRead, Publish, ActorHeartbeat, ControlFails, ActorExit, ActorKilled,
     ActorCrash, Control, actorVars
<1>1. ASSUME NEW t \in Nat \ {NoToken}, Free', ~Poll PROVE GateFor(t)'
  <2>1. Spent(t) => Spent(t)'
    BY SpentOther DEF ActInv
  <2>2. OpenedFor(t)' = OpenedFor(t)
    BY <1>0 DEF OpenedFor
  <2>3. GateFor(t) /\ Free
    BY <1>1, <1>f DEF GateInv
  <2>4. OpenedFor(t) => ack.token = t /\ ack.state # "waiting"
    BY DEF OpenedFor
  <2> QED BY <1>0, <1>1, <1>g, <1>h, <1>a, <2>1, <2>2, <2>3, <2>4 DEF GateFor
<1>2. ASSUME Free', aStep' = "publish" PROVE aDet'.last = gate'.last
  <2>1. CASE Poll
    <3>1. PollCases  BY <1>0, <2>1, PollSplit
    <3> QED BY <3>1 DEF PollCases, GateStops, GateWaits, GateDone, GateIdle,
        GateReleases, GateHolds, Reports
  <2>2. CASE ~Poll
    <3>1. aStep = "publish" /\ aDet' = aDet
      BY <1>2, <2>2 DEF ActorNext, CohortPark, CohortUnpark, CohortSubmit, CohortFinish,
         BrokerIdle, PollRead, Publish, ActorHeartbeat, ControlFails, ActorExit,
         ActorKilled, ActorCrash, Control, actorVars
    <3> QED BY <1>2, <1>f, <1>g, <2>2, <3>1 DEF GateInv
  <2> QED BY <2>1, <2>2
<1>3. ASSUME NEW t \in Nat \ {NoToken} PROVE GateFor(t)'
  BY <1>1, GatePoll DEF GateFor
<1> QED BY <1>0, <1>2, <1>3 DEF GateInv, Held

(* The other steps touch neither the gate nor the release.                   *)
LEMMA GateKept ==
    ASSUME GateInv, Free' => Free /\ UNCHANGED actorVars,
           hb'.pid = hb.pid, hb'.last = hb.last,
           Free' \/ Up' => ack'.state = ack.state /\ ack'.tpid = ack.tpid
                    /\ ack'.token = ack.token,
           Up' => Up /\ lease'.state = lease.state /\ lease'.token = lease.token
                  /\ lease'.tpid = lease.tpid,
           \A t \in Nat \ {NoToken} : Spent(t) => Spent(t)'
    PROVE  GateInv'
<1>1. ASSUME NEW t \in Nat \ {NoToken}, Free' PROVE GateFor(t)'
  <2>1. GateFor(t) /\ (Spent(t) => Spent(t)') /\ Free /\ UNCHANGED actorVars
    BY <1>1 DEF GateInv
  <2>2. OpenedFor(t)' = OpenedFor(t)
    BY <1>1, <2>1 DEF OpenedFor, actorVars
  <2> QED BY <1>1, <2>1, <2>2 DEF GateFor, actorVars
<1>2. \A t \in Nat \ {NoToken} : GateFor(t)'
  BY <1>1 DEF GateFor
<1> QED BY <1>2 DEF GateInv, Held, actorVars

LEMMA GateOther ==
    ASSUME TypeOK, OwnInv, ActInv, ActInv', GateInv,
           \/ BeginDrain \/ EndLoop \/ StopAll \/ StopKill \/ StopReap
           \/ HostCrash \/ CoordRead
           \/ OwnerNext \/ GoStale \/ RequestVanishes \/ UNCHANGED vars
    PROVE  GateInv'
<1>s. \A t \in Nat \ {NoToken} : Spent(t) => Spent(t)'
  BY SpentOther, SpentArena DEF ActInv
<1>b. ActorBooks'
  BY DEF ActInv
<1>1. CASE StopAll \/ StopKill \/ StopReap \/ HostCrash
  <2>1. ~Up' /\ hb' = hb
    BY <1>1 DEF StopAll, StopKill, StopReap, HostCrash, KeepFlags, CoordFrame, files, Up
  <2>2. ~Free'
    BY <1>b, <2>1 DEF ActorBooks, Free
  <2> QED BY <1>s, <2>1, <2>2, GateKept
<1>2. CASE CoordRead \/ EndLoop
  <2>1. UNCHANGED <<hb, ack, lease, actorVars>> /\ Up
    BY <1>2 DEF CoordRead, EndLoop, files, Up
  <2> QED BY <1>s, <2>1, GateKept DEF Free, ActorLive, actorVars
<1>3. CASE BeginDrain
  <2>1. lease' \in {lease, [lease EXCEPT !.suspended = FALSE]}
    BY <1>3 DEF BeginDrain
  <2>2. lease'.token = lease.token /\ lease'.state = lease.state /\ lease'.tpid = lease.tpid
    BY <2>1, Parts DEF Lease
  <2>3. UNCHANGED <<hb, ack, cPc>> /\ ActorAfter /\ aPid' = aPid
    BY <1>3 DEF BeginDrain, CoordFrame, ActorAfter, KeepActor, SignalActor, actorVars
  <2>4. ~StartActor
    BY <2>3, ActTypes DEF StartActor
  <2>5. Free' => Free /\ UNCHANGED actorVars
    BY <2>3, <2>4, FreeAfter, Parts
  <2> QED BY <1>s, <2>2, <2>3, <2>5, GateKept DEF Up
<1>4. CASE OwnerNext \/ GoStale \/ RequestVanishes \/ UNCHANGED vars
  <2>1. UNCHANGED <<cPc, lease, actorVars>>
    BY <1>4 DEF OwnerFrame, OwnerNext, OwnerStep, OwnerRegister, OwnerBlocked, OwnerRequest,
       OwnerHeartbeat, OwnerSeesReady, OwnerActivate, OwnerCancel, OwnerRelease,
       OwnerReleased, OwnerFails, OwnerStops, OwnerKilled, OwnerCrash, coordVars,
       GoStale, RequestVanishes, vars
  <2>2. /\ ack' \in {ack, [ack EXCEPT !.fresh = FALSE]}
        /\ hb' \in {hb, [hb EXCEPT !.fresh = FALSE]}
    BY <1>4 DEF OwnerFrame, OwnerNext, OwnerStep, OwnerRegister, OwnerBlocked, OwnerRequest,
       OwnerHeartbeat, OwnerSeesReady, OwnerActivate, OwnerCancel, OwnerRelease,
       OwnerReleased, OwnerFails, OwnerStops, OwnerKilled, OwnerCrash, files,
       GoStale, RequestVanishes, vars
  <2>3. /\ ack'.state = ack.state /\ ack'.tpid = ack.tpid /\ ack'.token = ack.token
        /\ hb'.pid = hb.pid /\ hb'.last = hb.last
    BY <2>2 DEF TypeOK, FilesOK, Acknowledgement, Heartbeat
  <2> QED BY <1>s, <2>1, <2>3, GateKept DEF Up, Free, ActorLive, actorVars
<1> QED BY <1>1, <1>2, <1>3, <1>4

LEMMA GateStart == ASSUME TypeOK, ActInv, CoordStart PROVE GateInv'
<1>1. /\ UNCHANGED <<hb, ack>> /\ lease' = NoLease /\ aPid' = aPid + 1
      /\ aStep' = "read" /\ gate' = OpenGate
  BY DEF CoordStart, files, StartActor
<1>2. ack.tpid <= aPid /\ hb.pid <= aPid
  BY DEF ActInv, ActorBooks
<1> QED BY <1>1, <1>2, ActTypes DEF GateInv, GateFor, OpenedFor, OpenGate, NoLease, NoToken

(* A release is owed to the actor before anything that was over was shown of *)
(* it, and the lease is kept until it has been.                              *)
LEMMA GateWrites ==
    ASSUME EventInv, OwnInv, ActInv, GateInv, WriteEvent \/ WriteAck
    PROVE  GateInv'
<1> USE ActTypes
<1>0. TypeOK /\ ActorBooks /\ OwedBooks /\ ActorOK
  BY Parts DEF EventInv, ActInv
<1>1. /\ UNCHANGED <<cPc, lease, hb>> /\ Up' = Up
      /\ ack' = ack \/ (ack' = owed.ack /\ owed.ack # NoAck)
  BY DEF WriteEvent, WriteAck, KeepWorkers, KeepThread, KeepLoop, CoordFrame, Up
<1>2. /\ UNCHANGED <<aPid, aPc, aKids, coh, busy, gate, aStep, aAck, aDet>> /\ ActorAfter
      /\ ~StartActor
  BY <1>0 DEF WriteEvent, WriteAck, KeepWorkers, KeepActor, SignalActor, actorVars,
     ActorAfter, StartActor
<1>3. /\ Up /\ lease.state = "resuming" => lease.tpid # 0
      /\ Up /\ Held /\ lease.tpid # 0 => ack'.token = lease.token
  BY <1>0, <1>1 DEF GateInv, OwedBooks
<1>4. ASSUME NEW t \in Nat \ {NoToken}, Free' PROVE GateFor(t)'
  <2>1. Free /\ UNCHANGED actorVars
    BY <1>0, <1>2, <1>4, FreeAfter
  <2>2. GateFor(t) /\ (Spent(t) => Spent(t)')
    BY <1>0, SpentWrites DEF GateInv
  <2>3. CASE ack' = ack
    <3>1. OpenedFor(t)' = OpenedFor(t)
      BY <2>1, <2>3 DEF OpenedFor, actorVars
    <3> QED BY <1>1, <2>1, <2>2, <3>1 DEF GateFor, actorVars
  <2>4. CASE ack' = owed.ack /\ owed.ack # NoAck /\ OpenedFor(t)'
    <3>1. /\ owed.ack.state \in {"released", "recovered"} /\ owed.ack.tpid = aPid
          /\ owed.ack.token = t
      BY <1>2, <2>4 DEF OpenedFor
    <3>2. ~Spent(t)  BY <3>1 DEF Spent
    <3>3. lease.state = "resuming" /\ lease.token = t
      BY <1>0, <2>4, <3>1 DEF OwedBooks
    <3> QED BY <1>1, <1>2, <2>1, <2>2, <3>2, <3>3 DEF GateFor
  <2>5. CASE ~OpenedFor(t)'
    BY <1>1, <1>2, <2>1, <2>2, <2>5 DEF GateFor
  <2> QED BY <1>1, <2>3, <2>4, <2>5
<1>5. \A t \in Nat \ {NoToken} : GateFor(t)'
  BY <1>4 DEF GateFor
<1>6. Free' /\ aStep' = "publish" => aDet'.last = gate'.last
  BY <1>0, <1>2, FreeAfter DEF GateInv
<1> QED BY <1>1, <1>3, <1>5, <1>6 DEF GateInv, Held

LEMMA GateInductive == Spec => [](PauseInv /\ GateInv)
<1>1. Init => GateInv
  BY DEF Init, GateInv, GateFor, OpenedFor, NoLease, OpenGate, NoAck, NoHeartbeat, NoToken
<1>2. PauseInv /\ PauseInv' /\ GateInv /\ [Next]_vars => GateInv'
  <2> SUFFICES ASSUME PauseInv, PauseInv', GateInv, [Next]_vars PROVE GateInv'
    OBVIOUS
  <2>0. TypeOK /\ OwnerTokens /\ OwnInv /\ ActInv /\ ActInv'
    BY DEF PauseInv, EventInv
  <2>1. CASE CoordReconcile \/ TargetStep \/ OwnerMonitorStep
    BY <2>0, <2>1, CoordMoves, GateMoves
  <2>2. CASE ActorNext
    BY <2>0, <2>2, GateActor
  <2>3. CASE CoordStart
    BY <2>0, <2>3, GateStart
  <2>4. CASE WriteEvent \/ WriteAck
    BY <2>0, <2>4, GateWrites DEF PauseInv
  <2> QED BY <2>0, <2>1, <2>2, <2>3, <2>4, GateOther
      DEF Next, CoordNext, TargetStep, OwnerMonitorStep
<1> QED BY <1>1, <1>2, PauseInductive, PTL DEF Spec

(* The acknowledgement of a release is the only thing that can wake a parked *)
(* actor, and a new request would overwrite it: the coordinator writes an    *)
(* acknowledgement for another token only when the actor it is addressed to  *)
(* has completed the release and no cohort is parked, however late the actor *)
(* polled and whichever old acknowledgement its poll was still working on.   *)
THEOREM ReleaseSeen == Spec => ReleaseAckHeld
<1> DEFINE Pending == /\ ack.state \in {"released", "recovered"} /\ ack.tpid = aPid
                      /\ ack.tpid # 0 /\ ActorLive /\ ~aStop /\ ack'.token # ack.token
           Done == gate.last = ack.token /\ Parked = {}
<1>1. PauseInv /\ GateInv /\ [Next]_vars => [Pending => Done]_vars
  <2> SUFFICES ASSUME PauseInv, GateInv, Next, Pending PROVE Done
    OBVIOUS
  <2>0. /\ TypeOK /\ OwnInv /\ ActInv /\ ActorBooks /\ Free
        /\ ack.state \in {"released", "recovered"} /\ ack.tpid = aPid
        /\ ack'.token # ack.token
    BY DEF PauseInv, EventInv, ActInv, Free
  <2>1. ack.token \in Nat \ {NoToken}
    BY <2>0 DEF PauseInv, EventInv, AckEvented, Tokens, NoToken
  <2>2. GateFor(ack.token) /\ OpenedFor(ack.token)
    BY <2>0, <2>1 DEF GateInv, OpenedFor
  <2>a. \A l, s : Ack(l, s).token = l.token
    BY DEF Ack
  <2>3. Up /\ ~(lease.state = "resuming" /\ lease.token = ack.token)
    <3>1. CASE CoordReconcile \/ TargetStep \/ OwnerMonitorStep
      <4>0. CoordMove  BY <2>0, <3>1, CoordMoves
      <4>1. ASSUME lease.state = "resuming", lease.token = ack.token PROVE FALSE
        BY <2>0, <2>a, <4>0, <4>1
        DEF CoordMove, LeaseMove, Quiet, Flagged, Refuse, SettleEarly, AdmitMove,
            GrantMove, ResumeMove, CloseMove, ConfirmMove, DrainedMove, Held, AckStays
      <4> QED BY <4>0, <4>1 DEF CoordMove, Up
    <3>2. CASE StopAll
      BY <2>0, <2>a, <3>2 DEF StopAll, Up, Held
    <3>3. CASE \/ BeginDrain \/ EndLoop \/ StopKill \/ StopReap
               \/ HostCrash \/ CoordStart \/ CoordRead \/ OwnerNext
      BY <2>0, <3>3, OwnerKept DEF BeginDrain, EndLoop, StopKill, StopReap, HostCrash,
         CoordStart, CoordRead, files
    <3>4. CASE ActorNext \/ GoStale \/ RequestVanishes
      <4>1. ack' \in {ack, [ack EXCEPT !.fresh = FALSE]}
        BY <3>4, ActorKeeps DEF GoStale, RequestVanishes
      <4> QED BY <2>0, <4>1, Parts DEF Acknowledgement
    <3>5. CASE WriteEvent
      BY <2>0, <3>5 DEF WriteEvent
    <3>6. CASE WriteAck
      <4>1. ack' = owed.ack /\ owed.ack # NoAck
        BY <3>6 DEF WriteAck
      <4>2. Up
        BY <4>1, OwedFields DEF PauseInv, EventInv, OwedWhen, OwedTrue, Up
      <4>3. ~(lease.state = "resuming" /\ lease.token = ack.token)
        BY <2>0, <4>1 DEF ActInv, OwedBooks, Held
      <4> QED BY <4>2, <4>3
    <3> QED BY <3>1, <3>2, <3>3, <3>4, <3>5, <3>6
        DEF Next, CoordNext, TargetStep, OwnerMonitorStep
  <2>4. gate.last = ack.token
    BY <2>0, <2>2, <2>3 DEF GateFor
  <2>5. gate.lease = NoToken /\ gate.releasing = NoToken
    BY <2>0, <2>2, <2>4 DEF GateFor
  <2>6. Parked = {}
    BY <2>0, <2>5 DEF ActorBooks
  <2> QED BY <2>4, <2>6
<1> QED BY <1>1, GateInductive, PTL DEF Spec, ReleaseAckHeld

-----------------------------------------------------------------------------
(* An actor parks, and stays parked, only for the coordinator's lease        *)

(* The request to park for t is still on its way to the gate, or there.      *)
Asks(a, t) == a.token = t /\ a.tpid = aPid /\ a.state = "waiting"
Wanted(t) == gate.lease = t \/ Asks(aAck, t) \/ Asks(ack, t)

(* As long as it is, the coordinator holds the lease for this actor, and the *)
(* actor has not shown that it resumed from it: it did not begin to.         *)
ParkFor(t) ==
    Free /\ Wanted(t) =>
        /\ Held /\ lease.token = t /\ lease.tpid = aPid
        /\ gate.last # t /\ gate.releasing # t /\ ~(hb.pid = aPid /\ hb.last = t)

(* A target that was collected is not alive, so only its confirmation ends   *)
(* the lease of a living one.                                                *)
TargetGone == Up /\ Held /\ lease.reaped /\ lease.tpid # 0 => ~ActorLive
ParkInv == TargetGone /\ \A t \in Nat \ {NoToken} : ParkFor(t)

(* While its target lives, a lease is not marked as one whose target was     *)
(* collected, and ends if it was, or if the target has resumed.              *)
EndsResumed ==
    ActorLive => /\ Held' /\ lease'.reaped => Held /\ lease.reaped
                 /\ Held /\ ~Held' => lease.reaped \/ Resumed(lease)
SameTarget(l) ==
    /\ l.token = lease.token /\ l.tpid = lease.tpid
    /\ l.state = lease.state /\ l.reaped = lease.reaped

LEMMA FinishEnds ==
    ASSUME NEW l \in Lease, SameTarget(l), Held, NEW ts, NEW reap, NEW ackNow, NEW failed,
           FinishRelease(l, ts, reap, ackNow, failed)
    PROVE  EndsResumed
<1>0. NoLease.state = "none"
  BY DEF NoLease
<1>1. CASE lease' = NoLease
  <2>0. l.state # "none" /\ lease' # l /\ ~FailLease(l)
    BY <1>0, <1>1 DEF SameTarget, Held, FailLease, Lease
  <2>1. l.reaped \/ Resumed(l)
    <3>1. CASE l.state = "resuming"
      BY <2>0, <3>1 DEF FinishRelease, ConfirmResume
    <3>2. CASE MustHold(l, ts, reap) /\ HoldRelease(l, ts, reap, ackNow, failed)
      BY <2>0, <3>2 DEF HoldRelease
    <3>3. CASE ResumeTarget(l, ackNow, failed)
      BY <1>0, <1>1, <3>3 DEF ResumeTarget, Lease
    <3>4. CASE ~MustHold(l, ts, reap) /\ ~Resumable(l, ts, reap)
      BY <3>4 DEF MustHold
    <3> QED BY <3>1, <3>2, <3>3, <3>4 DEF FinishRelease
  <2>2. Resumed(l) => Resumed(lease)
    BY DEF Resumed, SameTarget
  <2> QED BY <1>0, <1>1, <2>1, <2>2 DEF EndsResumed, SameTarget, Held
<1>2. CASE lease' # NoLease
  <2>1. \/ lease' = l \/ lease' = [l EXCEPT !.failed = TRUE]
        \/ lease' = [l EXCEPT !.suspended = FALSE, !.state = "resuming", !.recorded = TRUE]
    BY <1>2 DEF FinishRelease, ConfirmResume, FailLease, HoldRelease, ResumeTarget,
       DrainTarget, RestartTarget
  <2>2. lease'.reaped = l.reaped /\ lease'.state # "none"
    BY <2>1 DEF Lease, SameTarget, Held
  <2> QED BY <2>2 DEF EndsResumed, SameTarget, Held
<1> QED BY <1>1, <1>2

LEMMA OwnerExitedEnds ==
    ASSUME NEW l \in Lease, SameTarget(l), Held, OwnerExited(l) PROVE EndsResumed
<1> DEFINE gone == [l EXCEPT !.ownerReaped = TRUE, !.ownerStop = TRUE,
                            !.release = TRUE, !.failed = TRUE]
<1>1. gone \in Lease /\ SameTarget(gone)
  BY DEF Lease, SameTarget
<1>2. \/ FinishRelease(gone, tState, FALSE, ack, pauseFailed)
      \/ FinishRelease(gone, tState, FALSE, Ack(gone, "failed"), TRUE)
  BY DEF OwnerExited
<1> HIDE DEF gone
<1> QED BY <1>1, <1>2, FinishEnds

LEMMA RecoverEnds ==
    ASSUME lease \in Lease, Held, RecoverOwner(lease) PROVE EndsResumed
<1> DEFINE stopping == [lease EXCEPT !.release = TRUE, !.ownerStop = TRUE, !.failed = TRUE]
           gone == [stopping EXCEPT !.ownerReaped = TRUE]
<1>1. stopping \in Lease /\ gone \in Lease /\ SameTarget(stopping) /\ SameTarget(gone)
  BY DEF Lease, SameTarget
<1>2. CASE lease' \in {lease, stopping}
  BY <1>1, <1>2 DEF EndsResumed, SameTarget, Held
<1>3. CASE OwnerExited(stopping)
  BY <1>1, <1>3, OwnerExitedEnds
<1>4. CASE FinishRelease(gone, tState, FALSE, ack, pauseFailed)
  BY <1>1, <1>4, FinishEnds
<1> QED BY <1>2, <1>3, <1>4 DEF RecoverOwner

LEMMA MarkEnds ==
    ASSUME NEW l \in Lease, SameTarget(l), Held, MarkReady(l) \/ FailLease(l)
    PROVE  EndsResumed
<1>1. lease'.reaped = l.reaped /\ lease'.state # "none"
  BY DEF MarkReady, FailLease, Lease, SameTarget, Held
<1> QED BY <1>1 DEF EndsResumed, SameTarget, Held

LEMMA ReconcileEnds ==
    ASSUME TypeOK, CoordReconcile PROVE EndsResumed
<1>0. lease \in Lease /\ Parsed \in Lease /\ ~Parsed.reaped /\ SameTarget(lease)
  BY Parts, ParsedType DEF Parsed, NoLease, SameTarget
<1> USE <1>0
<1>1. CASE NothingAsked \/ RejectRequest \/ SettleUnadmitted \/ ReconcileWait
  BY <1>1 DEF NothingAsked, RejectRequest, SettleUnadmitted, ReconcileWait,
     EndsResumed, Held
<1>2. CASE AdmitSuspend \/ AdmitTerminate
  <2>1. ~lease'.reaped /\ ~Held
    BY <1>2 DEF AdmitSuspend, AdmitTerminate, Admit, Lease
  <2> QED BY <2>1 DEF EndsResumed
<1>3. CASE AdmitAbsent
  BY <1>3 DEF AdmitAbsent, EndsResumed
<1>4. CASE ReconcileResuming
  <2>1. Held /\ ConfirmResume(lease, tState, ack, pauseFailed)
    BY <1>4 DEF ReconcileResuming, Held
  <2>2. CASE lease' = NoLease
    BY <2>1, <2>2 DEF ConfirmResume, FailLease, EndsResumed, Held, NoLease, Lease
  <2>3. CASE lease' = lease
    BY <2>3 DEF EndsResumed, Held
  <2>4. CASE FailLease(lease)
    BY <2>1, <2>4, MarkEnds
  <2> QED BY <2>1, <2>2, <2>3, <2>4 DEF ConfirmResume
<1>5. CASE ReconcileLost
  BY <1>5, RecoverEnds DEF ReconcileLost, InProgress
<1>6. CASE ReconcileRelease
  <2> DEFINE l == [lease EXCEPT !.release = TRUE,
                     !.failed = IF lease.release THEN @
                                ELSE cReq.state = "cancelled"]
  <2>1. l \in Lease /\ SameTarget(l) /\ Held
    BY <1>6 DEF Lease, ReconcileRelease, InProgress, SameTarget
  <2>2. FinishRelease(l, tState, FALSE, ack, pauseFailed)
    BY <1>6 DEF ReconcileRelease
  <2> HIDE DEF l
  <2> QED BY <2>1, <2>2, FinishEnds
<1>7. CASE ReconcileObserve
  <2>0. Held
    BY <1>7 DEF ReconcileObserve, Healthy, InProgress
  <2>1. CASE RecoverOwner(lease)
    BY <2>0, <2>1, RecoverEnds
  <2>2. CASE MarkReady([lease EXCEPT !.suspended = TRUE])
    <3>1. /\ [lease EXCEPT !.suspended = TRUE] \in Lease
          /\ SameTarget([lease EXCEPT !.suspended = TRUE])
      BY DEF Lease, SameTarget
    <3> QED BY <2>0, <2>2, <3>1, MarkEnds
  <2>3. CASE lease' = lease
    BY <2>3 DEF EndsResumed, Held
  <2>4. CASE FailLease(lease)
    BY <2>0, <2>4, MarkEnds
  <2> QED BY <1>7, <2>1, <2>2, <2>3, <2>4 DEF ReconcileObserve
<1> QED BY <1>1, <1>2, <1>3, <1>4, <1>5, <1>6, <1>7 DEF CoordReconcile

LEMMA MonitorEnds ==
    ASSUME TypeOK, TargetStep \/ OwnerMonitorStep PROVE EndsResumed
<1>0. lease \in Lease /\ SameTarget(lease)
  BY Parts DEF SameTarget
<1> USE <1>0
<1>1. CASE TargetExited
  BY <1>1 DEF TargetExited, ExitedInLease, EndsResumed, ActorLive
<1>2. CASE OwnerUnhealthy \/ OwnerExitedInLease
  <2>1. CASE Held
    BY <1>2, <2>1, RecoverEnds, OwnerExitedEnds DEF OwnerUnhealthy, OwnerExitedInLease
  <2>2. CASE ~Held
    BY <1>2, <2>2 DEF OwnerUnhealthy, OwnerExitedInLease, KeepLease, EndsResumed, Held
  <2> QED BY <2>1, <2>2
<1>3. CASE TargetUnkillable \/ OwnerUnkillable
  <2>1. lease' = lease \/ (Held /\ FailLease(lease))
    BY <1>3 DEF TargetUnkillable, OwnerUnkillable
  <2> QED BY <2>1, MarkEnds DEF EndsResumed, Held
<1>4. CASE \/ TargetUnhealthy \/ TargetExitedOtherwise \/ TargetHardKill \/ TargetRestart
           \/ TargetFine \/ OwnerHardKill \/ OwnerFine \/ OwnerExitedOtherwise \/ OwnerRestart
  <2>1. UNCHANGED lease
    BY <1>4 DEF TargetUnhealthy, TargetExitedOtherwise, TargetHardKill, TargetRestart,
       TargetFine, OwnerHardKill, OwnerFine, OwnerExitedOtherwise, OwnerRestart, KeepLease
  <2> QED BY <2>1 DEF EndsResumed, Held
<1> QED BY <1>1, <1>2, <1>3, <1>4 DEF TargetStep, OwnerMonitorStep

(* A move of the coordinator asks nobody else to park.                       *)
LEMMA MoveAsks ==
    ASSUME TypeOK, CoordMove, NEW t \in Nat, ack'.token = t, ack'.state = "waiting"
    PROVE  \/ ack' = ack
           \/ AdmitMove /\ cReq.token = t /\ lease'.state = "waiting" /\ lease'.tpid = aPid
<1>a. \A l, s : Ack(l, s).token = l.token /\ Ack(l, s).state = s
  BY DEF Ack
<1>1. CASE AdmitMove
  BY <1>a, <1>1 DEF AdmitMove
<1>2. CASE ~AdmitMove
  BY <1>a, <1>2 DEF CoordMove, LeaseMove, Quiet, Flagged, Refuse, SettleEarly, GrantMove,
     ResumeMove, CloseMove, ConfirmMove, DrainedMove, ReleaseStates, AckStays
<1> QED BY <1>1, <1>2

(* It keeps the lease, ends it or admits one.                                *)
LEMMA MoveKeeps ==
    ASSUME CoordMove
    PROVE  \/ Held /\ Held' /\ lease'.token = lease.token /\ lease'.tpid = lease.tpid
           \/ ~Held' /\ lease' = NoLease
           \/ ~Held /\ lease' = lease
           \/ AdmitMove
BY DEF CoordMove, LeaseMove, Quiet, Flagged, SameLease, Refuse, SettleEarly, GrantMove,
   ResumeMove, CloseMove, ConfirmMove, DrainedMove, Held, NoLease

LEMMA ParkMoves ==
    ASSUME TypeOK, OwnInv, ActInv, GateInv, ParkInv, CoordMove, EndsResumed
    PROVE  ParkInv'
<1> USE ActTypes
<1>0. /\ Up /\ Up' /\ hb' = hb /\ ActorBooks /\ TargetBooks
      /\ NoLease.state = "none" /\ NoLease.tpid = 0
  BY DEF CoordMove, Up, ActInv, NoLease
<1>1. ActorAfter /\ (Free' => StartActor \/ (Free /\ UNCHANGED actorVars))
  BY MoveActor, FreeAfter, Parts DEF ActorAfter
<1>2. TargetGone'
  <2> SUFFICES ASSUME Held', lease'.reaped, lease'.tpid # 0, ActorLive' PROVE FALSE
    BY DEF TargetGone
  <2>1. CASE StartActor
    <3>1. ~KeepActor /\ ~SignalActor /\ ~ReapActor
      BY <2>1 DEF StartActor, KeepActor, SignalActor, ReapActor, actorVars
    <3>2. tState = "backoff" /\ lease' = lease
      BY <1>0, <3>1, MoveActor DEF Held
    <3> QED BY <1>0, <3>2 DEF TargetBooks, Held
  <2>2. CASE ~StartActor
    <3>1. ActorLive
      BY <1>1, <2>2 DEF ActorAfter, KeepActor, SignalActor, ReapActor, ActorLive, actorVars
    <3>2. Held /\ lease.reaped
      BY <3>1 DEF EndsResumed
    <3>3. lease.tpid # 0
      BY <1>0, <3>2, MoveKeeps DEF AdmitMove, Held
    <3> QED BY <1>0, <3>1, <3>2, <3>3 DEF ParkInv, TargetGone
  <2> QED BY <2>1, <2>2
<1>3. ASSUME NEW t \in Nat \ {NoToken}, Free', Wanted(t)' PROVE ParkFor(t)'
  <2>1. CASE StartActor
    <3>1. aPid' = aPid + 1 /\ gate' = OpenGate /\ aAck' = NoAck
      BY <2>1 DEF StartActor
    <3>2. ~KeepActor /\ ~SignalActor /\ ~ReapActor
      BY <3>1 DEF KeepActor, SignalActor, ReapActor, actorVars
    <3>3. ack' = ack \/ (ack'.tpid = lease.tpid /\ Held)
      BY <3>2, MoveActor
    <3>4. ack'.tpid <= aPid
      BY <1>0, <3>3 DEF ActorBooks, TargetBooks
    <3> QED BY <1>3, <3>1, <3>4 DEF Wanted, Asks, OpenGate, NoAck, NoToken
  <2>2. CASE ~StartActor
    <3>0. Free /\ UNCHANGED actorVars /\ ParkFor(t) /\ GateFor(t)
      BY <1>1, <1>3, <2>2 DEF ParkInv, GateInv
    <3>1. CASE Wanted(t)
      <4>1. /\ Held /\ lease.token = t /\ lease.tpid = aPid
            /\ gate.last # t /\ gate.releasing # t /\ ~(hb.pid = aPid /\ hb.last = t)
        BY <3>0, <3>1 DEF ParkFor
      <4>2. ~lease.reaped
        BY <1>0, <3>0, <4>1 DEF ParkInv, TargetGone, Free, ActorBooks
      <4>3. ~Resumed(lease)
        BY <4>1 DEF Resumed
      <4>4. Held' /\ lease'.token = t /\ lease'.tpid = aPid
        BY <3>0, <4>1, <4>2, <4>3, MoveKeeps DEF EndsResumed, Free, AdmitMove
      <4> QED BY <1>0, <3>0, <4>1, <4>4 DEF ParkFor, actorVars
    <3>2. CASE ~Wanted(t)
      <4>1. ack' # ack /\ ack'.token = t /\ ack'.state = "waiting"
        BY <1>3, <3>0, <3>2 DEF Wanted, Asks, actorVars
      <4>2. AdmitMove /\ cReq.token = t /\ lease'.state = "waiting" /\ lease'.tpid = aPid
        BY <4>1, MoveAsks
      <4>3. ~Spent(t)
        BY <4>2 DEF AdmitMove, Spent
      <4>4. Held' /\ lease'.token = t
        BY <4>2 DEF AdmitMove, Held
      <4> QED BY <1>0, <3>0, <4>2, <4>3, <4>4 DEF ParkFor, GateFor, actorVars
    <3> QED BY <3>1, <3>2
  <2> QED BY <2>1, <2>2
<1>4. ASSUME NEW t \in Nat \ {NoToken} PROVE ParkFor(t)'
  BY <1>3 DEF ParkFor
<1> QED BY <1>2, <1>4 DEF ParkInv

LEMMA ParkPoll ==
    ASSUME TypeOK, OwnerTokens, ActInv, ParkInv, Poll, Free', NEW t \in Nat \ {NoToken}
    PROVE  ParkFor(t)'
<1> USE ActTypes
<1>0. /\ ActorBooks /\ UNCHANGED <<hb, aPid, aAck, ack, lease>> /\ Free /\ ~aStop
      /\ ParkFor(t) /\ EvidenceFor(t) /\ Up
  BY DEF ActInv, Evidence, ParkInv, Poll, ActorFrame, coordVars, Up, Free, ActorLive, ActorBooks
<1>1. PollCases
  BY <1>0, PollSplit
<1>s. Spent(t) => ~Asks(ack, t)
  BY DEF Spent, Asks
<1>2. CASE GateStops
  BY <1>0, <1>2 DEF GateStops
<1>3. CASE GateWaits \/ GateDone
  BY <1>0, <1>3 DEF GateWaits, GateDone, ParkFor, Wanted, Asks, Held
<1>4. CASE GateIdle
  <2>1. UnadoptedRelease /\ aAck.token = t => Spent(t) /\ ~Asks(aAck, t)
    BY <1>0 DEF UnadoptedRelease, Matches, ReleaseStates, EvidenceFor, Asks
  <2> QED BY <1>0, <1>s, <1>4, <2>1 DEF GateIdle, ParkFor, Wanted, Asks, Held
<1>5. CASE GateReleases
  <2>1. gate.lease = t => Spent(t) /\ ~Asks(aAck, t)
    BY <1>0, <1>5 DEF GateReleases, Matches, ReleaseStates, EvidenceFor, Asks
  <2> QED BY <1>0, <1>s, <1>5, <2>1 DEF GateReleases, ParkFor, Wanted, Asks, Held
<1>6. CASE GateHolds
  <2>1. gate'.lease = t => Wanted(t)
    BY <1>6 DEF GateHolds, Wanted, Asks
  <2> QED BY <1>0, <1>6, <2>1 DEF GateHolds, ParkFor, Wanted, Asks, Held
<1> QED BY <1>0, <1>1, <1>2, <1>3, <1>4, <1>5, <1>6 DEF PollCases

LEMMA ParkActor ==
    ASSUME TypeOK, OwnerTokens, ActInv, GateInv, ParkInv, ActorNext
    PROVE  ParkInv'
<1> USE ActTypes
<1>0. /\ UNCHANGED <<ack, cPc, lease, aPid>> /\ Up' = Up /\ ActorLive
      /\ hb \in Heartbeat /\ gate \in Gate
  BY ActorKeeps DEF TypeOK, FilesOK, ActorOK, Up
<1>1. TargetGone'
  BY <1>0 DEF ParkInv, TargetGone, Held
<1>2. ASSUME NEW t \in Nat \ {NoToken}, Free', ~Poll PROVE ParkFor(t)'
  <2>1. Free
    <3>1. aStop => aStop'
      BY <1>0 DEF ActorNext, CohortPark, CohortUnpark, CohortSubmit, CohortFinish,
         BrokerIdle, PollRead, Poll, Publish, ActorHeartbeat, ControlFails, ActorExit,
         ActorKilled, ActorCrash, actorVars
    <3> QED BY <1>0, <1>2, <3>1 DEF Free
  <2>2. gate'.last = gate.last /\ gate'.releasing = gate.releasing /\ gate'.lease = gate.lease
    <3>1. gate' \in {gate, [gate EXCEPT !.synced = FALSE]}
      BY <1>2 DEF ActorNext, CohortPark, CohortUnpark, CohortSubmit, CohortFinish,
         BrokerIdle, PollRead, Publish, ActorHeartbeat, ControlFails, ActorExit, ActorEnds,
         ActorKilled, ActorCrash, actorVars, Free, ActorLive
    <3> QED BY <1>0, <3>1 DEF Gate
  <2>3. (hb'.pid = hb.pid /\ hb'.last = hb.last) \/ hb'.last = gate.last
    <3>1. \/ hb' \in {hb, [hb EXCEPT !.fresh = TRUE]}
          \/ hb' = aDet /\ aStep = "publish"
      BY <1>2 DEF ActorNext, CohortPark, CohortUnpark, CohortSubmit, CohortFinish,
         BrokerIdle, PollRead, Publish, ActorHeartbeat, ControlFails, ActorExit, ActorEnds,
         ActorKilled, ActorCrash, files, Free, ActorLive
    <3> QED BY <1>0, <2>1, <3>1 DEF Heartbeat, GateInv
  <2>4. aAck' = aAck \/ aAck' = ack
    BY <1>2 DEF ActorNext, CohortPark, CohortUnpark, CohortSubmit, CohortFinish, BrokerIdle,
       PollRead, Publish, ActorHeartbeat, ControlFails, ActorExit, ActorKilled,
       ActorCrash, Control, actorVars
  <2>5. Wanted(t)' => Wanted(t)
    BY <1>0, <2>2, <2>4 DEF Wanted, Asks
  <2> QED BY <1>0, <2>1, <2>2, <2>3, <2>5 DEF ParkInv, ParkFor, Held
<1>3. ASSUME NEW t \in Nat \ {NoToken} PROVE ParkFor(t)'
  BY <1>2, ParkPoll DEF ParkFor
<1> QED BY <1>1, <1>3 DEF ParkInv

(* The other steps change neither the lease nor what the actor is asked.     *)
LEMMA ParkKept ==
    ASSUME ParkInv, Free' => Free /\ UNCHANGED actorVars, ActorLive' => ActorLive,
           hb'.pid = hb.pid, hb'.last = hb.last,
           Free' /\ ack'.state = "waiting" =>
             ack.state = "waiting" /\ ack'.tpid = ack.tpid /\ ack'.token = ack.token,
           Free' \/ Up' => lease'.state = lease.state /\ lease'.token = lease.token
                    /\ lease'.tpid = lease.tpid /\ lease'.reaped = lease.reaped,
           Up' => Up
    PROVE  ParkInv'
<1>1. TargetGone'
  BY DEF ParkInv, TargetGone, Held
<1>2. ASSUME NEW t \in Nat \ {NoToken}, Free' PROVE ParkFor(t)'
  <2>1. Free /\ UNCHANGED actorVars
    BY <1>2
  <2>2. Wanted(t)' => Wanted(t)
    BY <1>2, <2>1 DEF Wanted, Asks, actorVars
  <2> QED BY <1>2, <2>1, <2>2 DEF ParkInv, ParkFor, Held, actorVars
<1>3. ASSUME NEW t \in Nat \ {NoToken} PROVE ParkFor(t)'
  BY <1>2 DEF ParkFor
<1> QED BY <1>1, <1>3 DEF ParkInv

(* The second write of a step asks nobody to park.                           *)
LEMMA ParkWrites ==
    ASSUME TypeOK, OwnInv, ParkInv, WriteEvent \/ WriteAck PROVE ParkInv'
<1>1. /\ UNCHANGED <<cPc, lease, hb>> /\ Up' = Up
      /\ ack' = ack \/ ack' = owed.ack
  BY DEF WriteEvent, WriteAck, KeepWorkers, KeepThread, KeepLoop, CoordFrame, Up
<1>2. owed.ack.state # "waiting"
  BY DEF OwnInv, OwedLeft, ReleaseStates
<1>3. UNCHANGED <<aPid, aPc>> /\ ActorAfter /\ ~StartActor
  BY ActTypes DEF WriteEvent, WriteAck, KeepWorkers, KeepActor, SignalActor, actorVars,
     ActorAfter, StartActor
<1>4. (Free' => Free /\ UNCHANGED actorVars) /\ (ActorLive' => ActorLive)
  BY <1>3, FreeAfter, Parts DEF ActorLive
<1> QED BY <1>1, <1>2, <1>4, ParkKept

LEMMA ParkOther ==
    ASSUME TypeOK, ActInv', ParkInv,
           \/ BeginDrain \/ EndLoop \/ StopAll \/ StopKill \/ StopReap
           \/ HostCrash \/ CoordRead
           \/ OwnerNext \/ GoStale \/ RequestVanishes \/ UNCHANGED vars
    PROVE  ParkInv'
<1>1. CASE StopAll \/ StopKill \/ StopReap \/ HostCrash
  <2>1. ~Up'
    BY <1>1 DEF StopAll, StopKill, StopReap, HostCrash, Up
  <2>2. ~Free'
    BY <2>1 DEF ActInv, ActorBooks, Free
  <2> QED BY <2>1, <2>2 DEF ParkInv, TargetGone, ParkFor
<1>2. CASE CoordRead \/ EndLoop
  <2>1. UNCHANGED <<hb, ack, lease, actorVars>> /\ Up
    BY <1>2 DEF CoordRead, EndLoop, files, Up
  <2> QED BY <2>1, ParkKept DEF Free, ActorLive, actorVars
<1>3. CASE BeginDrain
  <2>1. lease' \in {lease, [lease EXCEPT !.suspended = FALSE]}
    BY <1>3 DEF BeginDrain
  <2>2. /\ lease'.token = lease.token /\ lease'.state = lease.state
        /\ lease'.tpid = lease.tpid /\ lease'.reaped = lease.reaped
    BY <2>1, Parts DEF Lease
  <2>3. UNCHANGED <<hb, ack, cPc>> /\ ActorAfter /\ aPid' = aPid
    BY <1>3 DEF BeginDrain, CoordFrame, ActorAfter, KeepActor, SignalActor, actorVars
  <2>4. ~StartActor
    BY <2>3, ActTypes DEF StartActor
  <2>5. (Free' => Free /\ UNCHANGED actorVars) /\ (ActorLive' => ActorLive)
    BY <2>3, <2>4, FreeAfter, Parts
    DEF ActorAfter, KeepActor, SignalActor, ReapActor, ActorLive, actorVars
  <2> QED BY <2>2, <2>3, <2>5, ParkKept DEF Up
<1>4. CASE OwnerNext \/ GoStale \/ RequestVanishes \/ UNCHANGED vars
  <2>1. UNCHANGED <<cPc, lease, actorVars>>
    BY <1>4 DEF OwnerFrame, OwnerNext, OwnerStep, OwnerRegister, OwnerBlocked, OwnerRequest,
       OwnerHeartbeat, OwnerSeesReady, OwnerActivate, OwnerCancel, OwnerRelease,
       OwnerReleased, OwnerFails, OwnerStops, OwnerKilled, OwnerCrash, coordVars,
       GoStale, RequestVanishes, vars
  <2>2. /\ ack' \in {ack, [ack EXCEPT !.fresh = FALSE]}
        /\ hb' \in {hb, [hb EXCEPT !.fresh = FALSE]}
    BY <1>4 DEF OwnerFrame, OwnerNext, OwnerStep, OwnerRegister, OwnerBlocked, OwnerRequest,
       OwnerHeartbeat, OwnerSeesReady, OwnerActivate, OwnerCancel, OwnerRelease,
       OwnerReleased, OwnerFails, OwnerStops, OwnerKilled, OwnerCrash, files,
       GoStale, RequestVanishes, vars
  <2>3. /\ ack'.state = ack.state /\ ack'.tpid = ack.tpid /\ ack'.token = ack.token
        /\ hb'.pid = hb.pid /\ hb'.last = hb.last
    BY <2>2 DEF TypeOK, FilesOK, Acknowledgement, Heartbeat
  <2> QED BY <2>1, <2>3, ParkKept DEF Up, Free, ActorLive, actorVars
<1> QED BY <1>1, <1>2, <1>3, <1>4

LEMMA ParkStart == ASSUME TypeOK, ActInv, CoordStart PROVE ParkInv'
<1>1. /\ UNCHANGED ack /\ lease' = NoLease /\ aPid' = aPid + 1
      /\ gate' = OpenGate /\ aAck' = NoAck
  BY DEF CoordStart, files, StartActor
<1>2. ack.tpid <= aPid
  BY DEF ActInv, ActorBooks
<1>3. \A t \in Nat \ {NoToken} : ~Wanted(t)'
  BY <1>1, <1>2, ActTypes DEF Wanted, Asks, OpenGate, NoAck, NoToken
<1>4. TargetGone'
  BY <1>1 DEF TargetGone, NoLease
<1> QED BY <1>3, <1>4 DEF ParkInv, ParkFor

LEMMA ParkInductive == Spec => []ParkInv
<1>1. ASSUME Init PROVE ParkInv
  <2>1. \A t \in Nat \ {NoToken} : ~Wanted(t)
    BY <1>1 DEF Init, Wanted, Asks, OpenGate, NoAck, NoToken
  <2>2. TargetGone
    BY <1>1 DEF Init, TargetGone, NoLease
  <2> QED BY <2>1, <2>2 DEF ParkInv, ParkFor
<1>2. PauseInv /\ PauseInv' /\ GateInv /\ ParkInv /\ [Next]_vars => ParkInv'
  <2> SUFFICES ASSUME PauseInv, PauseInv', GateInv, ParkInv, [Next]_vars PROVE ParkInv'
    OBVIOUS
  <2>0. TypeOK /\ OwnerTokens /\ OwnInv /\ ActInv /\ ActInv'
    BY DEF PauseInv, EventInv
  <2>1. CASE CoordReconcile \/ TargetStep \/ OwnerMonitorStep
    BY <2>0, <2>1, CoordMoves, ReconcileEnds, MonitorEnds, ParkMoves
  <2>2. CASE ActorNext
    BY <2>0, <2>2, ParkActor
  <2>3. CASE CoordStart
    BY <2>0, <2>3, ParkStart
  <2>4. CASE WriteEvent \/ WriteAck
    BY <2>0, <2>4, ParkWrites
  <2> QED BY <2>0, <2>1, <2>2, <2>3, <2>4, ParkOther
      DEF Next, CoordNext, TargetStep, OwnerMonitorStep
<1> QED BY <1>1, <1>2, PauseInductive, GateInductive, PTL DEF Spec

(* Both who depend on a lease have the coordinator's: the arena inside one,  *)
(* and an actor whose gate is closed for one.  No request file that vanished,*)
(* no heartbeat that was late, no restart and no drain leaves an actor       *)
(* parked for a lease that nobody is going to release.                       *)
THEOREM LeaseIsHeld == Spec => []LeaseHeld
<1>1. ASSUME PauseInv, ParkInv PROVE ParkedIsLeased
  <2> SUFFICES ASSUME Running, Free, gate.lease # NoToken
               PROVE  Held /\ lease.token = gate.lease /\ lease.tpid = aPid
    BY DEF ParkedIsLeased, Free
  <2>1. gate.lease \in Nat \ {NoToken}
    BY <1>1, ActTypes DEF PauseInv, EventInv
  <2>2. Wanted(gate.lease)
    BY DEF Wanted
  <2> QED BY <1>1, <2>1, <2>2 DEF ParkInv, ParkFor
<1> QED BY <1>1, PauseInductive, ParkInductive, LeaseCoversBody, PTL DEF LeaseHeld

-----------------------------------------------------------------------------
(* One ready and one release event for each token, as long as the processes  *)
(* of the arena leave no children behind                                     *)

(* The token can be asked for and admitted no more.                          *)
Passed(t) ==
    /\ t <= lastTok /\ ~Asking(t)
    /\ cPc = "reconcile" /\ cReq.token = t /\ cReq.state = "requested" => ~OwnerMatches

(* What the arena is told last: the acknowledgement that is owed, if one is.  *)
Told == IF owed.ack = NoAck THEN ack ELSE owed.ack

(* A request of the present owner whose release is in the journal has been   *)
(* withdrawn and acknowledged, unless the coordinator still holds its lease. *)
Closed(r) ==
    r.state # "none" /\ r.pid = oPid /\ oPc # "none" /\ releases[r.token] > 0 =>
        \/ Held /\ lease.token = r.token
        \/ ~Held /\ Told.token = r.token /\ Told.state \in ReleaseStates /\ Withdraws(r)

Once(t) ==
    /\ releases[t] <= 1 /\ readies[t] <= 1
    /\ releases[t] > 0 => Passed(t)
    /\ readies[t] > 0 => Passed(t) \/ (Held /\ lease.token = t)
LeaseBooks ==
    Held => /\ releases[lease.token] > 0 => lease.recorded
            /\ lease.state \in {"requested", "waiting", "stopping"} =>
                readies[lease.token] = 0
(* A request that is over has not changed since the coordinator read it.     *)
ReadBooks ==
    cPc = "reconcile" =>
        /\ Closed(cReq)
        /\ req.state # "none" /\ releases[req.token] > 0 =>
            cReq.token = req.token /\ cReq.pid = req.pid /\ cReq.state = req.state
(* A release that awaits the actor's confirmation is acknowledged, unless the*)
(* confirmation is overdue, which ends the coordinator's loop.               *)
Overdue ==
    /\ Up /\ pauseFailed => cPc \in {"target", "owner", "stop"}
    /\ Up /\ lease.state = "resuming" =>
        pauseFailed \/ (Told.token = lease.token /\ Told.state \in ReleaseStates)
(* An event that is owed is not in the journal; a release is owed only by a  *)
(* shutdown, of a request that came too late.                                *)
OwedOnce ==
    /\ owed.event = "ready" => readies[owed.token] = 0
    /\ owed.event = "released" =>
         releases[owed.token] = 0 /\ ~Held /\ oPc = "none" /\ Passed(owed.token)
JournalInv ==
    /\ ~oKids /\ Overdue /\ LeaseBooks /\ ReadBooks /\ Closed(req) /\ OwedOnce
    /\ \A t \in Tokens : Once(t)

LEMMA BookTypes ==
    ASSUME TypeOK
    PROVE  \A t \in Tokens : releases[t] \in Nat /\ readies[t] \in Nat /\ t \in Nat
                             /\ t # NoToken
BY DEF TypeOK, BooksOK, Tokens, NoToken

LEMMA ToldFields ==
    /\ owed.ack = NoAck => Told = ack
    /\ owed = NoDebt => Told = ack
    /\ owed' = NoDebt => Told' = ack'
    /\ owed'.ack = NoAck => Told' = ack'
    /\ \A event, t : OweEvent(event, t) => Told' = ack'
    /\ \A l, s : OweAck(Ack(l, s)) /\ s # "none" =>
         Told'.token = l.token /\ Told'.state = s
<1>1. \A l, s : s # "none" => Ack(l, s) # NoAck
  BY DEF Ack, NoAck
<1>2. \A l, s : Ack(l, s).token = l.token /\ Ack(l, s).state = s
  BY DEF Ack
<1>3. ASSUME NEW l, NEW s, OweAck(Ack(l, s)), s # "none"
      PROVE  Told'.token = l.token /\ Told'.state = s
  <2>1. owed'.ack = Ack(l, s) /\ owed'.ack # NoAck
    BY <1>1, <1>3, OwedFields
  <2>2. Told' = owed'.ack
    BY <2>1 DEF Told
  <2> QED BY <1>2, <2>1, <2>2
<1> QED BY <1>3, OwedFields DEF Told

(* No step of the coordinator's loop takes a failure back.                   *)
FailureKept == pauseFailed' \in {pauseFailed, TRUE}

LEMMA FinishFailed ==
    ASSUME NEW l, NEW ts, NEW reap, NEW ackNow, NEW failed,
           FinishRelease(l, ts, reap, ackNow, failed)
    PROVE  pauseFailed' \in {failed, TRUE}
BY DEF FinishRelease, ConfirmResume, HoldRelease, ResumeTarget, DrainTarget,
       RestartTarget, FailLease

LEMMA RecoverFailed ==
    ASSUME NEW l, RecoverOwner(l) \/ OwnerExited(l)
    PROVE  FailureKept
<1>1. ASSUME NEW k, OwnerExited(k) PROVE FailureKept
  BY <1>1, FinishFailed DEF OwnerExited, FailureKept
<1> QED BY <1>1, FinishFailed DEF RecoverOwner, FailureKept

LEMMA FailureStays ==
    ASSUME TypeOK, OwnInv, CoordReconcile \/ TargetStep \/ OwnerMonitorStep
    PROVE  /\ FailureKept
           /\ pauseFailed' => cPc' \in {"target", "owner", "stop"}
<1>1. CASE CoordReconcile
  <2>1. cPc' = "target"
    BY <1>1 DEF CoordReconcile, NothingAsked, RejectRequest, SettleUnadmitted, Admit,
         AdmitSuspend, AdmitTerminate, AdmitAbsent, ReconcileResuming, ReconcileLost,
         ReconcileRelease, ReconcileObserve, ReconcileWait, InProgress, Healthy, Reconcile
  <2>2. ASSUME NothingAsked \/ RejectRequest \/ SettleUnadmitted \/ AdmitSuspend
             \/ AdmitTerminate \/ AdmitAbsent \/ ReconcileWait
      PROVE  FailureKept
    BY <2>2 DEF FailureKept, NothingAsked, RejectRequest, SettleUnadmitted, AdmitSuspend,
       AdmitTerminate, AdmitAbsent, ReconcileWait, FailLease
  <2>3. ASSUME ReconcileResuming
      PROVE  FailureKept
    BY <2>3 DEF FailureKept, ReconcileResuming, ConfirmResume, FailLease
  <2>4. ASSUME ReconcileLost
      PROVE  FailureKept
    BY <2>4, RecoverFailed DEF ReconcileLost
  <2>5. ASSUME ReconcileRelease
      PROVE  FailureKept
    BY <2>5, FinishFailed DEF FailureKept, ReconcileRelease
  <2>6. ASSUME ReconcileObserve
      PROVE  FailureKept
    BY <2>6, RecoverFailed DEF FailureKept, ReconcileObserve, FailLease
  <2> QED BY <1>1, <2>1, <2>2, <2>3, <2>4, <2>5, <2>6 DEF CoordReconcile
<1>2. CASE TargetStep
  <2>1. cPc' = "owner"
    BY <1>2 DEF TargetStep, TargetUnhealthy, TargetExited, TargetExitedOtherwise,
       TargetHardKill, TargetUnkillable, TargetRestart, TargetFine, MonitorTarget
  <2>2. ASSUME TargetExited
      PROVE  FailureKept
    BY <2>2, FinishFailed DEF FailureKept, TargetExited, FailLease
  <2>3. ASSUME TargetStep /\ ~TargetExited
      PROVE  FailureKept
    BY <2>3 DEF FailureKept, TargetStep, TargetUnhealthy, TargetExitedOtherwise, TargetHardKill,
       TargetUnkillable, TargetRestart, TargetFine, KeepLease, FailLease
  <2> QED BY <1>2, <2>1, <2>2, <2>3
<1>3. CASE OwnerMonitorStep
  <2>1. EndCycle
    BY <1>3 DEF OwnerMonitorStep, OwnerUnhealthy, OwnerExitedInLease,
       OwnerExitedOtherwise, OwnerHardKill, OwnerUnkillable, OwnerRestart, OwnerFine
  <2>2. ASSUME OwnerUnhealthy \/ OwnerExitedInLease
      PROVE  FailureKept
    BY <2>2, RecoverFailed DEF FailureKept, OwnerUnhealthy, OwnerExitedInLease, KeepLease
  <2>3. ASSUME OwnerMonitorStep /\ ~OwnerUnhealthy /\ ~OwnerExitedInLease
      PROVE  FailureKept
    BY <2>3 DEF FailureKept, OwnerMonitorStep, OwnerExitedOtherwise, OwnerHardKill, OwnerUnkillable,
       OwnerRestart, OwnerFine, KeepLease, FailLease
  <2> QED BY <1>3, <2>1, <2>2, <2>3 DEF EndCycle
<1> QED BY <1>1, <1>2, <1>3

(* The coordinator writes each event at most once, and only for a token that *)
(* is over, or that its lease is for.                                        *)
LEMMA JournalReleases ==
    ASSUME EventInv, OwnInv, JournalInv, CoordMove, NEW t \in Tokens
    PROVE  \/ releases'[t] = releases[t]
           \/ /\ releases[t] = 0 /\ releases'[t] = 1
              /\ \/ SettleEarly /\ t = cReq.token
                 \/ (ResumeMove \/ CloseMove) /\ t = lease.token
<1> USE OwnTypes, BookTypes
<1>0. TypeOK /\ releases \in [Tokens -> Nat] /\ Parsed.token = cReq.token
      /\ ~Parsed.recorded
  BY DEF EventInv, TypeOK, BooksOK, Parsed, NoLease
<1>o. owed = NoDebt
  BY DEF CoordMove
<1>1. CASE SettleEarly
  <2>1. releases' = [releases EXCEPT ![cReq.token] = @ + 1]
    BY <1>0, <1>1 DEF SettleEarly, Counted
  <2>2. releases[cReq.token] = 0
    BY <1>0, <1>o, <1>1, ToldFields DEF SettleEarly, Withdrawn, Settled, OwnerMatches,
       OwnerLive, JournalInv, ReadBooks, Closed, EventInv
  <2> QED BY <1>0, <1>1, <2>1, <2>2
<1>2. CASE ResumeMove \/ CloseMove
  <2>1. Held /\ Counted(lease)
    BY <1>2 DEF ResumeMove, CloseMove
  <2>2. ~lease.recorded => releases[lease.token] = 0
    BY <1>0, <2>1 DEF JournalInv, LeaseBooks, EventInv, Evented
  <2> QED BY <1>0, <1>2, <2>1, <2>2 DEF Counted
<1> QED BY <1>1, <1>2 DEF CoordMove, LeaseMove, Quiet, Flagged, Refuse, AdmitMove,
        GrantMove, ConfirmMove, DrainedMove

(* Its moves only come to owe the ready event.                               *)
LEMMA JournalReadies ==
    ASSUME EventInv, OwnInv, JournalInv, CoordMove
    PROVE  readies' = readies /\ OwedOnce'
<1> USE OwnTypes, BookTypes
<1>0. TypeOK /\ readies' = readies
  BY DEF EventInv, CoordMove, LeaseMove, Quiet, Flagged, Refuse, SettleEarly, AdmitMove,
     GrantMove, ResumeMove, CloseMove, ConfirmMove, DrainedMove
<1>1. CASE AdmitMove /\ OweEvent("ready", cReq.token)
  <2>2. cReq.token \in Tokens /\ ~Passed(cReq.token) /\ ~Held
    BY <1>1 DEF AdmitMove, EventInv, Passed
  <2>3. readies[cReq.token] = 0
    BY <1>0, <2>2 DEF JournalInv, Once
  <2> QED BY <1>0, <1>1, <2>3, OwedFields DEF OwedOnce
<1>2. CASE GrantMove
  <2>1. Held /\ lease.state \in {"requested", "waiting", "stopping"}
    BY <1>0, <1>2 DEF GrantMove, Held, TypeOK, CoordOK, Lease, LeaseStates
  <2>2. readies[lease.token] = 0
    BY <2>1 DEF JournalInv, LeaseBooks
  <2>3. OweEvent("ready", lease.token)
    BY <1>2 DEF GrantMove
  <2> QED BY <1>0, <2>2, <2>3, OwedFields DEF OwedOnce
<1>3. CASE owed' = NoDebt \/ \E a : OweAck(a)
  <2>1. owed'.event = "none"  BY <1>3, OwedFields
  <2> QED BY <1>0, <2>1 DEF OwedOnce
<1> QED BY <1>1, <1>2, <1>3 DEF CoordMove, LeaseMove, Quiet, Flagged, Refuse, SettleEarly,
    AdmitMove, ResumeMove, CloseMove, ConfirmMove, DrainedMove

LEMMA PassedMoves ==
    ASSUME TypeOK, OwnInv, CoordMove, NEW t \in Nat \ {NoToken},
           \/ Passed(t)
           \/ SettleEarly /\ t = cReq.token
           \/ (ResumeMove \/ CloseMove \/ ConfirmMove \/ DrainedMove) /\ t = lease.token
    PROVE  Passed(t)'
<1> USE OwnTypes
<1>0. cPc' # "reconcile" /\ UNCHANGED lastTok
  BY DEF CoordMove
<1>1. CASE Passed(t)
  BY <1>0, <1>1, MoveOwner DEF Passed, Asking
<1>2. CASE SettleEarly /\ t = cReq.token
  BY <1>0, <1>2 DEF SettleEarly, Withdrawn, KeepWorkers, KeepOwner, OwnInv, RequestTrue,
     TokensSeen, Withdraws, Passed, Asking
<1>3. CASE (ResumeMove \/ CloseMove) /\ t = lease.token
  BY <1>0, <1>3 DEF ResumeMove, CloseMove, OwnInv, TokensSeen, Passed, Asking, AskingNext
<1>4. CASE (ConfirmMove \/ DrainedMove) /\ t = lease.token
  <2>1. ~Asking(lease.token)
    BY <1>4 DEF ConfirmMove, DrainedMove, OwnInv, LeaseLeft
  <2> QED BY <1>0, <1>4, <2>1, MoveOwner DEF OwnInv, TokensSeen, Passed, Asking
<1> QED BY <1>1, <1>2, <1>3, <1>4

LEMMA OnceMoves ==
    ASSUME EventInv, OwnInv, JournalInv, CoordMove, NEW t \in Tokens
    PROVE  Once(t)'
<1> USE OwnTypes, BookTypes
<1>0. TypeOK /\ Once(t)
  BY DEF EventInv, JournalInv
<1>1. releases'[t] <= 1 /\ (releases'[t] > 0 => Passed(t)')
  BY <1>0, JournalReleases, PassedMoves DEF Once
<1>2. readies'[t] <= 1
  BY <1>0, JournalReadies DEF Once
<1>3. ASSUME Held, lease.token = t PROVE Passed(t)' \/ (Held' /\ lease'.token = t)
  <2>1. \/ ResumeMove \/ CloseMove \/ ConfirmMove \/ DrainedMove
        \/ Held' /\ lease'.token = t
    BY <1>3 DEF CoordMove, LeaseMove, Quiet, Flagged, SameLease, Refuse, SettleEarly,
       AdmitMove, GrantMove, Held
  <2> QED BY <1>0, <1>3, <2>1, PassedMoves
<1>4. readies'[t] > 0 => Passed(t)' \/ (Held' /\ lease'.token = t)
  BY <1>0, <1>3, JournalReadies, PassedMoves DEF Once
<1> QED BY <1>1, <1>2, <1>4 DEF Once, Held

LEMMA LeaseBooksMoves ==
    ASSUME EventInv, OwnInv, JournalInv, CoordMove
    PROVE  LeaseBooks'
<1> USE OwnTypes, BookTypes
<1>0. TypeOK /\ NoLease.state = "none"
  BY DEF EventInv, NoLease
<1>1. CASE AdmitMove
  <2>1. cReq.token \in Tokens /\ ~Passed(cReq.token) /\ ~Held
    BY <1>1 DEF AdmitMove, EventInv, Passed
  <2>2. releases[cReq.token] = 0 /\ readies[cReq.token] = 0
    BY <1>0, <2>1 DEF JournalInv, Once
  <2>3. lease'.token = cReq.token /\ UNCHANGED releases
        /\ (lease'.state = "ready" \/ readies' = readies)
    BY <1>1 DEF AdmitMove
  <2> QED BY <1>0, <2>2, <2>3 DEF LeaseBooks
<1>2. CASE Quiet \/ Flagged
  BY <1>2 DEF Quiet, Flagged, SameLease, JournalInv, LeaseBooks, Held
<1>3. CASE Refuse \/ SettleEarly
  BY <1>3 DEF Refuse, SettleEarly, LeaseBooks, Held
<1>4. CASE GrantMove
  BY <1>4 DEF GrantMove, JournalInv, LeaseBooks, Held
<1>5. CASE ResumeMove
  BY <1>5 DEF ResumeMove, LeaseBooks
<1>6. CASE CloseMove \/ ConfirmMove \/ DrainedMove
  BY <1>0, <1>6 DEF CloseMove, ConfirmMove, DrainedMove, LeaseBooks, Held
<1> QED BY <1>1, <1>2, <1>3, <1>4, <1>5, <1>6 DEF CoordMove, LeaseMove

LEMMA OverdueMoves ==
    ASSUME EventInv, OwnInv, JournalInv, CoordMove, FailureKept,
           pauseFailed' => cPc' \in {"target", "owner", "stop"}
    PROVE  Overdue'
<1>0. \A l, s : Ack(l, s).token = l.token /\ Ack(l, s).state = s
  BY DEF Ack
<1>1. Up /\ Told = ack
  BY ToldFields DEF CoordMove, Up
<1>2. lease'.state = "resuming" =>
        pauseFailed' \/ (Told'.token = lease'.token /\ Told'.state \in ReleaseStates)
  <2>1. CASE Quiet \/ Flagged
    BY <1>1, <2>1, ToldFields
    DEF Quiet, Flagged, SameLease, JournalInv, Overdue, FailureKept
  <2>2. CASE ResumeMove
    BY <1>0, <2>2, ToldFields DEF ResumeMove, ReleaseStates
  <2>3. CASE lease'.state # "resuming"
    BY <2>3
  <2> QED BY <2>1, <2>2, <2>3 DEF CoordMove, LeaseMove, Refuse, SettleEarly, AdmitMove,
      GrantMove, CloseMove, ConfirmMove, DrainedMove, NoLease, Held
<1> QED BY <1>2 DEF Overdue

(* The present request stays closed.                                         *)
LEMMA ClosedMoves ==
    ASSUME EventInv, OwnInv, JournalInv, CoordMove
    PROVE  Closed(req)'
<1> USE OwnTypes, BookTypes
<1>0. /\ TypeOK /\ Up /\ req' = req /\ ~oKids /\ NoLease.state = "none"
      /\ \A l, s : Ack(l, s).token = l.token /\ Ack(l, s).state = s
      /\ Parsed.token = cReq.token /\ Told = ack
  BY ToldFields DEF EventInv, CoordMove, Up, JournalInv, Ack, NoLease, Parsed
<1>1. SUFFICES ASSUME req.state # "none", req.pid = oPid', oPc' # "none",
                      releases'[req.token] > 0
               PROVE  \/ Held' /\ lease'.token = req.token
                      \/ /\ ~Held' /\ Told'.token = req.token
                         /\ Told'.state \in ReleaseStates /\ Withdraws(req)
  BY <1>0 DEF Closed, Withdraws, Held
<1>2. /\ UNCHANGED <<oPid, oPc, oTok, oKids>> /\ oPc # "none" /\ req.token \in Tokens
  BY <1>0, <1>1, MoveOwner DEF OwnInv, PidsSeen, EventInv, OwnerTokens
<1>3. releases[req.token] > 0 =>
        \/ Held /\ lease.token = req.token
        \/ ~Held /\ ack.token = req.token /\ ack.state \in ReleaseStates /\ Withdraws(req)
  BY <1>0, <1>1, <1>2 DEF JournalInv, Closed
<1>w. /\ Held /\ lease.token = req.token
      /\ NotAsked(lease.token) \/ OverNext(lease.pid)
      => Withdraws(req)
  BY <1>0, <1>1, <1>2 DEF OwnInv, PidsSeen, NotAsked, OverNext
<1>r. \/ releases'[req.token] = releases[req.token]
      \/ SettleEarly /\ req.token = cReq.token
      \/ (ResumeMove \/ CloseMove) /\ req.token = lease.token
  <2>1. PICK t \in Tokens : t = req.token
    BY <1>2
  <2>2. \/ releases'[t] = releases[t]
        \/ SettleEarly /\ t = cReq.token
        \/ (ResumeMove \/ CloseMove) /\ t = lease.token
    BY JournalReleases
  <2> QED BY <2>1, <2>2
<1>4. CASE Quiet \/ Flagged \/ GrantMove
  BY <1>1, <1>3, <1>4, ToldFields DEF Quiet, Flagged, SameLease, GrantMove, Held
<1>5. CASE Refuse
  <2>1. /\ cPc = "reconcile" /\ ~Held /\ Admissible /\ releases[req.token] > 0
    BY <1>1, <1>5 DEF Refuse
  <2>2. cReq.token = req.token /\ cReq.state = req.state /\ cReq.pid = req.pid
    BY <1>1, <2>1 DEF JournalInv, ReadBooks
  <2> QED BY <1>3, <2>1, <2>2 DEF Admissible, Settled, Withdrawn, Withdraws
<1>6. CASE SettleEarly
  <2>1. /\ cPc = "reconcile" /\ ~Held /\ ~Held' /\ OwnerMatches
        /\ Told'.token = cReq.token /\ Told'.state \in ReleaseStates
    BY <1>0, <1>6, ToldFields DEF SettleEarly, Held, ReleaseStates
  <2>2. CASE releases[req.token] > 0
    <3>1. cReq.token = req.token /\ cReq.state = req.state
      BY <1>1, <2>1, <2>2 DEF JournalInv, ReadBooks
    <3> QED BY <1>6, <2>1, <3>1 DEF SettleEarly, Withdrawn, Withdraws
  <2>3. CASE req.token = cReq.token
    <3>1. Withdraws(cReq) /\ ~Asking(req.token)
      BY <1>6, <2>3 DEF SettleEarly, Withdrawn, Withdraws, OwnInv, RequestTrue
    <3>2. Withdraws(req)
      BY <1>1, <2>3, <3>1 DEF OwnInv, RequestOver, NotAsked
    <3> QED BY <2>1, <2>3, <3>2
  <2> QED BY <1>1, <1>6, <1>r, <2>2, <2>3 DEF SettleEarly, ResumeMove, CloseMove
<1>7. CASE AdmitMove
  <2>1. cPc = "reconcile" /\ releases[req.token] > 0
    BY <1>1, <1>7 DEF AdmitMove
  <2>2. cReq.token = req.token
    BY <1>1, <2>1 DEF JournalInv, ReadBooks
  <2>3. Passed(req.token)
    BY <1>2, <2>1 DEF JournalInv, Once
  <2> QED BY <1>7, <2>2, <2>3 DEF AdmitMove, Passed
<1>8. CASE ResumeMove
  <2>1. Held /\ Held' /\ lease'.token = lease.token
    BY <1>8 DEF ResumeMove, Held
  <2> QED BY <1>1, <1>3, <1>8, <1>r, <2>1 DEF SettleEarly
<1>9. CASE CloseMove
  <2>1. /\ Held /\ ~Held' /\ Told'.token = lease.token /\ Told'.state \in ReleaseStates
        /\ NotAsked(lease.token) \/ OverNext(lease.pid)
    BY <1>0, <1>9, ToldFields DEF CloseMove, Held, ReleaseStates
  <2>2. req.token = lease.token
    BY <1>1, <1>3, <1>9, <1>r, <2>1 DEF SettleEarly
  <2> QED BY <1>w, <2>1, <2>2
<1>10. CASE ConfirmMove \/ DrainedMove
  <2>1. Held /\ ~Held' /\ lease.state = "resuming" /\ releases' = releases
    BY <1>0, <1>10 DEF ConfirmMove, DrainedMove, Held
  <2>2. req.token = lease.token
    BY <1>1, <1>3, <2>1
  <2>3. Withdraws(req)
    <3>1. NotAsked(lease.token) \/ OverNext(lease.pid)
      BY <1>2, <2>1 DEF OwnInv, RequestOver, Over, OverNext
    <3> QED BY <1>w, <2>1, <2>2, <3>1
  <2>4. CASE DrainedMove
    BY <1>0, <2>1, <2>2, <2>3, <2>4, ToldFields DEF DrainedMove, ReleaseStates
  <2>5. CASE ConfirmMove
    <3>1. ~OverNext(lease.pid)
      BY <1>0, <1>1, <1>2, <2>1 DEF OverNext, OwnInv, PidsSeen
    <3>2. cPc = "reconcile" /\ Told' = ack
      BY <1>0, <1>1, <2>5, <3>1, ToldFields DEF ConfirmMove
    <3>3. ack.token = lease.token /\ ack.state \in ReleaseStates
      BY <1>0, <2>1, <3>2 DEF JournalInv, Overdue
    <3> QED BY <2>1, <2>2, <2>3, <3>2, <3>3
  <2> QED BY <1>10, <2>4, <2>5
<1> QED BY <1>4, <1>5, <1>6, <1>7, <1>8, <1>9, <1>10 DEF CoordMove, LeaseMove

LEMMA JournalMoves ==
    ASSUME EventInv, OwnInv, JournalInv, CoordReconcile \/ TargetStep \/ OwnerMonitorStep
    PROVE  JournalInv'
<1>0. TypeOK /\ CoordMove /\ FailureKept
      /\ (pauseFailed' => cPc' \in {"target", "owner", "stop"})
  BY CoordMoves, FailureStays DEF EventInv
<1>1. ~oKids'
  BY <1>0 DEF CoordMove, OwnerMove, KeepOwner, SignalOwner, ReapOwner, StartOwner, JournalInv
<1>2. ReadBooks'
  BY <1>0 DEF CoordMove, ReadBooks
<1>3. \A t \in Tokens : Once(t)'
  BY <1>0, OnceMoves
<1> QED BY <1>0, <1>1, <1>2, <1>3, LeaseBooksMoves, OverdueMoves, ClosedMoves,
        JournalReadies DEF JournalInv

(* The arena's steps: it asks only for a token without a release.            *)
LEMMA JournalArena ==
    ASSUME "arenaKids" \notin Faults, EventInv, OwnInv, JournalInv, OwnerNext
    PROVE  JournalInv'
<1> USE OwnTypes, BookTypes
<1>0. /\ TypeOK
      /\ UNCHANGED <<ack, cReq, lease, cPc, oPid, releases, readies, pauseFailed, owed>>
      /\ oPc # "none" /\ Held' = Held /\ (OwnerLive' => OwnerLive)
  BY OwnerKept DEF OwnerFrame, coordVars, books, OwnerLive, Held, EventInv,
     OwnerNext, OwnerStep, OwnerRegister, OwnerBlocked, OwnerRequest, OwnerHeartbeat,
     OwnerSeesReady, OwnerActivate, OwnerCancel, OwnerRelease, OwnerReleased, OwnerFails,
     OwnerStops, OwnerKilled, OwnerCrash
<1>1. ~oKids'
  BY DEF JournalInv, OwnerEnds, ownerVars,
     OwnerNext, OwnerStep, OwnerRegister, OwnerBlocked, OwnerRequest, OwnerHeartbeat,
     OwnerSeesReady, OwnerActivate, OwnerCancel, OwnerRelease, OwnerReleased, OwnerFails,
     OwnerStops, OwnerKilled, OwnerCrash
<1>2. \/ req' = req
      \/ req'.token = oTok /\ oPc \in {"registered", "waitReady", "granted", "body"}
  BY DEF Written, files,
     OwnerNext, OwnerStep, OwnerRegister, OwnerBlocked, OwnerRequest, OwnerHeartbeat,
     OwnerSeesReady, OwnerActivate, OwnerCancel, OwnerRelease, OwnerReleased, OwnerFails,
     OwnerStops, OwnerKilled, OwnerCrash
<1>3. oPc \in {"registered", "waitReady", "granted", "body"} => releases[oTok] = 0
  BY <1>0 DEF EventInv, OwnerTokens, JournalInv, Once, Passed, Asking
<1>4. Closed(req)'
  BY <1>0, <1>2, <1>3 DEF JournalInv, Closed, Withdraws, Told
<1>5. ReadBooks'
  BY <1>0, <1>2, <1>3 DEF JournalInv, ReadBooks, Closed, Withdraws, Told
<1>6. LeaseBooks' /\ Overdue' /\ OwedOnce'
  BY <1>0 DEF JournalInv, LeaseBooks, Overdue, Up, Told, OwedOnce
<1>7. ASSUME NEW t \in Tokens, Passed(t) PROVE Passed(t)'
  <2>1. (t <= lastTok /\ ~Asking(t))'
    <3>1. CASE OwnerRegister
      <4>1. oTok' = lastTok + 1 /\ lastTok' = lastTok + 1 /\ t <= lastTok
        BY <1>7, <3>1 DEF OwnerRegister, Passed
      <4> QED BY <1>0, <4>1 DEF Asking
    <3>2. CASE ~OwnerRegister
      <4>1. UNCHANGED <<oTok, lastTok>>
            /\ (oPc' \in {"registered", "waitReady", "granted", "body"} =>
                  oPc \in {"registered", "waitReady", "granted", "body"})
        BY <3>2 DEF OwnerNext, OwnerStep, OwnerBlocked, OwnerRequest, OwnerHeartbeat,
           OwnerSeesReady, OwnerActivate, OwnerCancel, OwnerRelease, OwnerReleased,
           OwnerFails, OwnerStops, OwnerKilled, OwnerCrash, OwnerEnds, ownerVars
      <4> QED BY <1>7, <4>1 DEF Passed, Asking
    <3> QED BY <3>1, <3>2
  <2> QED BY <1>0, <1>7, <2>1 DEF Passed, OwnerMatches
<1>8. \A t \in Tokens : Once(t)'
  BY <1>0, <1>7 DEF JournalInv, Once
<1> QED BY <1>1, <1>4, <1>5, <1>6, <1>8 DEF JournalInv

(* Reading the request, draining, and what leaves the journal alone.         *)
LEMMA JournalReads ==
    ASSUME EventInv, OwnInv, JournalInv,
           \/ CoordRead \/ BeginDrain \/ EndLoop
           \/ ActorNext \/ GoStale \/ RequestVanishes \/ UNCHANGED vars
    PROVE  JournalInv'
<1> USE OwnTypes, BookTypes
<1>0. /\ TypeOK
      /\ UNCHANGED <<oPid, oPc, oTok, oKids, lastTok, releases, readies, pauseFailed, owed>>
      /\ NoRequest.state = "none"
  BY DEF ActorNext, ActorFrame, CohortPark, CohortUnpark, CohortSubmit, CohortFinish,
         BrokerIdle, PollRead, Poll, Publish, ActorHeartbeat, ControlFails, ActorExit,
         ActorKilled, ActorCrash, GoStale, RequestVanishes, vars, ownerVars, coordVars,
         books, CoordRead, BeginDrain, EndLoop, CoordFrame, KeepOwner, EventInv, NoRequest
<1>1. /\ lease'.token = lease.token /\ lease'.state = lease.state
      /\ lease'.recorded = lease.recorded
  <2>1. lease' \in {lease, [lease EXCEPT !.suspended = FALSE]}
    BY DEF ActorNext, ActorFrame, CohortPark, CohortUnpark, CohortSubmit, CohortFinish,
         BrokerIdle, PollRead, Poll, Publish, ActorHeartbeat, ControlFails, ActorExit,
         ActorKilled, ActorCrash, GoStale, RequestVanishes, vars, coordVars,
         CoordRead, BeginDrain, EndLoop
  <2> QED BY <1>0, <2>1, Parts DEF Lease
<1>2. ack'.token = ack.token /\ ack'.state = ack.state
  <2>1. ack' \in {ack, [ack EXCEPT !.fresh = FALSE]}
    BY DEF ActorNext, ActorFrame, CohortPark, CohortUnpark, CohortSubmit, CohortFinish,
         BrokerIdle, PollRead, Poll, Publish, ActorHeartbeat, ControlFails, ActorExit,
         ActorKilled, ActorCrash, GoStale, RequestVanishes, vars, files,
         CoordRead, BeginDrain, EndLoop
  <2> QED BY <1>0, <2>1, Parts DEF Acknowledgement
<1>t. Told'.token = Told.token /\ Told'.state = Told.state
  BY <1>0, <1>2 DEF Told
<1>3. \/ req'.token = req.token /\ req'.pid = req.pid /\ req'.state = req.state
      \/ req'.state = "none"
  <2>1. req' \in {req, [req EXCEPT !.fresh = FALSE], NoRequest}
    BY DEF ActorNext, ActorFrame, CohortPark, CohortUnpark, CohortSubmit, CohortFinish,
         BrokerIdle, PollRead, Poll, Publish, ActorHeartbeat, ControlFails, ActorExit,
         ActorKilled, ActorCrash, GoStale, RequestVanishes, vars, files,
         CoordRead, BeginDrain, EndLoop, CoordFrame
  <2> QED BY <1>0, <2>1 DEF TypeOK, FilesOK, Request
<1>4. \/ CoordRead /\ cPc = "read" /\ cPc' = "reconcile" /\ cReq' = req /\ req' = req
      \/ cReq' = cReq /\ (cPc' = cPc \/ (cPc = "read" /\ cPc' = "stop"))
  BY DEF ActorNext, ActorFrame, CohortPark, CohortUnpark, CohortSubmit, CohortFinish,
         BrokerIdle, PollRead, Poll, Publish, ActorHeartbeat, ControlFails, ActorExit,
         ActorKilled, ActorCrash, GoStale, RequestVanishes, vars, coordVars, files,
         CoordRead, BeginDrain, EndLoop
<1>5. Closed(req)'
  BY <1>0, <1>1, <1>t, <1>3 DEF JournalInv, Closed, Withdraws, Held
<1>6. ReadBooks'
  BY <1>0, <1>1, <1>t, <1>3, <1>4 DEF JournalInv, ReadBooks, Closed, Withdraws, Held
<1>7. LeaseBooks' /\ Overdue'
  BY <1>0, <1>1, <1>t, <1>4 DEF JournalInv, LeaseBooks, Overdue, Up, Held
<1>8. ASSUME NEW t \in Tokens, Passed(t) PROVE Passed(t)'
  BY <1>0, <1>4, <1>8
  DEF Passed, Asking, OwnerMatches, OwnerLive, OwnInv, RequestTrue
<1>9. \A t \in Tokens : Once(t)'
  BY <1>0, <1>1, <1>8 DEF JournalInv, Once, Held
<1>10. OwedOnce'
  <2>1. ASSUME owed.event = "released" PROVE Passed(owed.token)'
    BY <1>0, <1>8, <2>1 DEF JournalInv, OwedOnce, EventInv, OwedTrue
  <2> QED BY <1>0, <1>1, <2>1 DEF JournalInv, OwedOnce, Held
<1> QED BY <1>0, <1>5, <1>6, <1>7, <1>9, <1>10 DEF JournalInv

(* The second write of a step.                                               *)
LEMMA JournalWrites ==
    ASSUME EventInv, OwnInv, JournalInv, WriteEvent \/ WriteAck PROVE JournalInv'
<1> USE OwnTypes, BookTypes
<1>0. /\ TypeOK /\ releases \in [Tokens -> Nat] /\ readies \in [Tokens -> Nat]
      /\ UNCHANGED <<req, cReq, lease, cPc, oPid, oPc, oTok, oKids, lastTok, pauseFailed>>
      /\ Held' = Held /\ Up' = Up /\ owed' = NoDebt
  BY OwedFields
  DEF EventInv, TypeOK, BooksOK, WriteEvent, WriteAck, KeepWorkers, KeepOwner, KeepThread,
      KeepLoop, CoordFrame, Held, Up
<1>1. Told' = Told
  BY <1>0, OwedFields, ToldFields DEF WriteEvent, WriteAck, Told, EventInv, OwedTrue
<1>2. OwedOnce'
  BY <1>0, OwedFields DEF OwedOnce
<1>3. Overdue'
  BY <1>0, <1>1 DEF JournalInv, Overdue
<1>p. \A t \in Tokens : Passed(t)' = Passed(t)
  BY <1>0 DEF Passed, Asking, OwnerMatches, OwnerLive
<1>4. CASE WriteAck \/ (WriteEvent /\ owed.event \notin {"ready", "released"})
  <2>1. UNCHANGED <<releases, readies>>
    BY <1>4, OwedFields DEF WriteAck, books, WriteEvent, EventInv, OwedTrue
  <2> QED BY <1>0, <1>1, <1>2, <1>3, <1>p, <2>1
      DEF JournalInv, LeaseBooks, ReadBooks, Closed, Once
<1>5. CASE WriteEvent /\ owed.event = "ready"
  <2>1. /\ owed.token \in Tokens /\ lease.token = owed.token /\ lease.state = "ready" /\ Held
        /\ readies[owed.token] = 0
    BY <1>5 DEF EventInv, OwedTrue, JournalInv, OwedOnce, Held
  <2>2. releases' = releases /\ readies' = [readies EXCEPT ![owed.token] = @ + 1]
    BY <1>5, JournalCounts DEF WriteEvent
  <2>3. ASSUME NEW t \in Tokens PROVE Once(t)'
    <3>1. readies'[t] = IF t = owed.token THEN 1 ELSE readies[t]
      BY <1>0, <2>1, <2>2
    <3> QED BY <1>0, <1>p, <2>1, <2>2, <3>1 DEF JournalInv, Once
  <2>4. LeaseBooks'
    BY <1>0, <2>1, <2>2 DEF JournalInv, LeaseBooks
  <2> QED BY <1>0, <1>1, <1>2, <1>3, <2>2, <2>3, <2>4 DEF JournalInv, ReadBooks, Closed
<1>6. CASE WriteEvent /\ owed.event = "released"
  <2>1. /\ owed.token \in Tokens /\ releases[owed.token] = 0 /\ ~Held /\ oPc = "none"
        /\ Passed(owed.token) /\ cPc = "down"
    BY <1>6 DEF EventInv, OwedTrue, JournalInv, OwedOnce
  <2>2. readies' = readies /\ releases' = [releases EXCEPT ![owed.token] = @ + 1]
    BY <1>6, JournalCounts DEF WriteEvent
  <2>3. ASSUME NEW t \in Tokens PROVE Once(t)'
    <3>1. releases'[t] = IF t = owed.token THEN 1 ELSE releases[t]
      BY <1>0, <2>1, <2>2
    <3> QED BY <1>0, <1>p, <2>1, <2>2, <3>1 DEF JournalInv, Once
  <2> QED BY <1>0, <1>2, <1>3, <2>1, <2>3 DEF JournalInv, LeaseBooks, ReadBooks, Closed
<1> QED BY <1>4, <1>5, <1>6 DEF WriteEvent, EventInv, OwedTrue

(* The shutdown settles what is not in the journal yet.                      *)
LEMMA JournalReap ==
    ASSUME EventInv, OwnInv, JournalInv, StopReap PROVE JournalInv'
<1> USE OwnTypes, BookTypes
<1> DEFINE reapedNow == oPc = "exited" /\ oPc' = "none"
           settles == Held /\ \/ lease.ownerReaped /\ oPc' = "none"
                              \/ reapedNow /\ lease.pid = oPid
           late == reapedNow /\ LateRequest
           first == settles /\ ~lease.recorded
           counted == IF first THEN {lease.token} ELSE IF late THEN {req.token} ELSE {}
<1>0. /\ TypeOK /\ cPc' = "down" /\ ~Up'
      /\ UNCHANGED <<req, ack, cReq, readies, oPid, oTok, lastTok, pauseFailed>>
      /\ oPc' = oPc \/ oPc' = "none"
      /\ oKids' = oKids \/ oKids' = FALSE
      /\ NoLease.state = "none"
  <2>1. CASE first
    BY <2>1, JournalCounts DEF StopReap, KeepFlags, CoordFrame, KeepOwner, ReapOwner, Up,
       EventInv, NoLease
  <2>2. CASE ~first /\ late
    BY <2>2, JournalCounts DEF StopReap, KeepFlags, CoordFrame, KeepOwner, ReapOwner, Up,
       EventInv, NoLease
  <2>3. CASE ~first /\ ~late
    BY <2>3 DEF StopReap, KeepFlags, CoordFrame, KeepOwner, ReapOwner, Up,
       EventInv, NoLease, books
  <2> QED BY <2>1, <2>2, <2>3
<1>k. owed = NoDebt /\ Told = ack
  BY ToldFields DEF StopReap, EventInv, OwedWhen
<1>1. /\ releases' = [t \in Tokens |-> releases[t] + IF t \in counted THEN 1 ELSE 0]
      /\ lease' = IF settles THEN NoLease ELSE lease
  <2>0. lease' = IF settles THEN NoLease ELSE lease
    BY DEF StopReap
  <2>b. releases \in [Tokens -> Nat]
    BY <1>0 DEF TypeOK, BooksOK
  <2>1. CASE first
    BY <2>0, <2>1, <2>b, JournalCounts DEF StopReap, EventInv, Evented
  <2>2. CASE ~first /\ late
    BY <2>0, <2>2, <2>b, JournalCounts DEF StopReap, EventInv, OwnerTokens, LateRequest
  <2>3. CASE ~first /\ ~late
    BY <2>0, <2>3, <2>b DEF StopReap, books
  <2> QED BY <2>1, <2>2, <2>3
<1>o. IF first /\ late THEN OweEvent("released", req.token) ELSE OweNothing
  BY DEF StopReap
<1>2. settles \/ late => oPc' = "none"
  OBVIOUS
<1>3. settles /\ ~lease.recorded => releases[lease.token] = 0
  BY <1>0 DEF JournalInv, LeaseBooks, EventInv, Evented
<1>4. late => releases[req.token] = 0 /\ (Held => req.token # lease.token)
  BY <1>0, <1>k DEF JournalInv, Closed, LateRequest, EventInv, OwnerTokens
<1>5. ASSUME NEW t \in Tokens
      PROVE  /\ t \in counted => releases[t] = 0 /\ oPc' = "none"
             /\ releases'[t] = releases[t] + IF t \in counted THEN 1 ELSE 0
  BY <1>1, <1>2, <1>3, <1>4
<1>6. Held /\ ~settles => lease.token \notin counted
  BY <1>4
<1>6a. \A t \in counted : t \in {lease.token, req.token}
  OBVIOUS
<1>7. settles => ~Held'
  BY <1>0, <1>1 DEF Held
<1>8. ~settles => Held' = Held /\ lease' = lease
  BY <1>1 DEF Held
<1>l. late => req.token \in Tokens /\ req.token <= lastTok
  BY <1>0 DEF LateRequest, EventInv, OwnerTokens, OwnInv, TokensSeen
<1>m. first /\ late => req.token \notin counted /\ settles
  BY <1>4
<1> HIDE DEF counted, late, reapedNow, settles, first
<1>9. ASSUME NEW t \in Tokens, t <= lastTok, Passed(t) \/ oPc' = "none" PROVE Passed(t)'
  BY <1>0, <1>9 DEF Passed, Asking
<1>10. ASSUME NEW t \in Tokens PROVE Once(t)'
  <2>1. Once(t) /\ t \in Nat /\ releases[t] \in Nat
    BY <1>0 DEF JournalInv
  <2>2. releases'[t] <= 1 /\ readies'[t] <= 1
    BY <1>0, <1>5, <2>1 DEF Once
  <2>3. releases'[t] > 0 => Passed(t)'
    <3>1. CASE t \in counted
      <4>1. t <= lastTok
        BY <1>0, <1>6a, <3>1 DEF OwnInv, TokensSeen
      <4> QED BY <1>5, <1>9, <3>1, <4>1
    <3>2. CASE t \notin counted
      BY <1>5, <1>9, <2>1, <3>2 DEF Once, Passed
    <3> QED BY <3>1, <3>2
  <2>4. readies'[t] > 0 => Passed(t)' \/ (Held' /\ lease'.token = t)
    <3>1. CASE Passed(t)
      BY <1>9, <3>1 DEF Passed
    <3>2. CASE Held /\ lease.token = t
      <4>1. t <= lastTok
        BY <1>0, <3>2 DEF OwnInv, TokensSeen
      <4> QED BY <1>2, <1>8, <1>9, <3>2, <4>1
    <3> QED BY <1>0, <2>1, <3>1, <3>2 DEF Once
  <2> QED BY <2>2, <2>3, <2>4 DEF Once, Held
<1>11. LeaseBooks'
  <2>1. CASE Held' /\ ~settles
    <3>1. lease.token \in Tokens /\ Held /\ lease' = lease
      BY <1>8, <2>1 DEF EventInv, Evented
    <3>2. releases'[lease.token] = releases[lease.token]
      <4>1. PICK t \in Tokens : t = lease.token
        BY <3>1
      <4> QED BY <1>0, <1>5, <1>6, <2>1, <3>1, <4>1
    <3> QED BY <1>0, <3>1, <3>2 DEF JournalInv, LeaseBooks
  <2> QED BY <1>7, <2>1 DEF LeaseBooks, Held
<1>12. Closed(req)'
  <2>1. CASE oPc' # "none"
    <3>1. ~settles /\ oPc' = oPc /\ counted = {}
      BY <1>0, <1>2, <2>1 DEF counted, first
    <3>t. Told' = Told
      BY <1>0, <1>2, <1>k, <1>o, <2>1, OwedFields, ToldFields
    <3>2. ASSUME req.state # "none", releases'[req.token] > 0
          PROVE  releases[req.token] > 0
      <4>1. PICK t \in Tokens : t = req.token
        BY <3>2 DEF EventInv, OwnerTokens
      <4> QED BY <1>0, <1>5, <3>1, <3>2, <4>1
    <3> QED BY <1>0, <1>8, <2>1, <3>1, <3>2, <3>t DEF JournalInv, Closed, Withdraws
  <2> QED BY <2>1 DEF Closed
<1>13. ReadBooks' /\ Overdue' /\ ~oKids'
  BY <1>0 DEF ReadBooks, Overdue, JournalInv
<1>14. OwedOnce'
  <2>1. CASE first /\ late
    <3>1. owed'.event = "released" /\ owed'.token = req.token
      BY <1>o, <2>1, OwedFields
    <3>2. oPc' = "none" /\ req.token \in Tokens /\ req.token <= lastTok
      BY <1>2, <1>l, <2>1
    <3>3. PICK t \in Tokens : t = req.token
      BY <3>2
    <3>4. owed'.token = t /\ t <= lastTok'
      BY <1>0, <3>1, <3>2, <3>3
    <3>5. releases'[t] = 0
      BY <1>0, <1>4, <1>5, <1>m, <2>1, <3>3
    <3>6. ~Held'
      BY <1>7, <1>m, <2>1
    <3>7. Passed(owed.token)'
      BY <1>0, <3>2, <3>4 DEF Passed, Asking
    <3> QED BY <3>1, <3>2, <3>4, <3>5, <3>6, <3>7 DEF OwedOnce
  <2>2. CASE ~(first /\ late)
    BY <1>o, <2>2, OwedFields DEF OwedOnce
  <2> QED BY <2>1, <2>2
<1> QED BY <1>10, <1>11, <1>12, <1>13, <1>14 DEF JournalInv

(* The other steps that end a run of the coordinator, and the next one.      *)
LEMMA JournalShutdown ==
    ASSUME EventInv, OwnInv, JournalInv, StopAll \/ StopKill \/ HostCrash \/ CoordStart
    PROVE  JournalInv'
<1> USE OwnTypes, BookTypes
<1>0. /\ TypeOK /\ UNCHANGED <<req, releases, readies, lastTok>>
      /\ NoToken = 0 /\ NoLease.state = "none"
  BY DEF StopAll, StopKill, HostCrash, CoordStart, KeepFlags, CoordFrame, files, books,
     EventInv, NoToken, NoLease
<1>k. owed' = NoDebt /\ Told' = ack' /\ (~HostCrash => Told = ack)
  BY ToldFields DEF StopAll, StopKill, HostCrash, CoordStart, EventInv, OwedWhen, OweNothing
<1>o. OwedOnce'
  BY <1>k, OwedFields DEF OwedOnce
<1>1. CASE StopAll \/ StopKill \/ HostCrash
  <2>1. /\ ~Up' /\ cPc' # "reconcile" /\ UNCHANGED <<lease, oPid, oTok>>
        /\ oPc' \in {oPc, "none"} /\ ~oKids' /\ (~Held /\ oPc' # "none" => Told' = Told)
    BY <1>1, <1>k DEF StopAll, StopKill, HostCrash, KeepFlags, SignalOwner, KeepOwner, Up,
       JournalInv, files
  <2>2. ReadBooks' /\ Overdue' /\ LeaseBooks'
    BY <1>0, <2>1 DEF JournalInv, ReadBooks, Overdue, LeaseBooks, Held
  <2>3. Closed(req)'
    BY <1>0, <2>1 DEF JournalInv, Closed, Withdraws, Held
  <2>4. \A t \in Tokens : Once(t)'
    BY <1>0, <2>1 DEF JournalInv, Once, Passed, Asking, Held
  <2> QED BY <1>o, <2>1, <2>2, <2>3, <2>4 DEF JournalInv
<1>2. CASE CoordStart
  <2>1. /\ cPc' = "read" /\ ~pauseFailed' /\ lease' = NoLease /\ ~oKids'
        /\ oPid' = oPid + 1 /\ oPc' = "idle" /\ oTok' = NoToken
    BY <1>2 DEF CoordStart, StartOwner
  <2>2. ReadBooks' /\ Overdue' /\ LeaseBooks'
    BY <1>0, <2>1 DEF ReadBooks, Overdue, LeaseBooks, Held
  <2>3. Closed(req)'
    BY <1>0, <2>1 DEF Closed, OwnInv, PidsSeen
  <2>4. ASSUME NEW t \in Tokens, t <= lastTok PROVE Passed(t)'
    BY <1>0, <2>1, <2>4 DEF Passed, Asking
  <2>5. ASSUME NEW t \in Tokens PROVE Once(t)'
    <3>1. releases[t] > 0 \/ readies[t] > 0 => t <= lastTok
      BY <1>0 DEF JournalInv, Once, Passed, OwnInv, TokensSeen
    <3> QED BY <1>0, <2>4, <3>1 DEF JournalInv, Once
  <2> QED BY <1>o, <2>1, <2>2, <2>3, <2>5 DEF JournalInv
<1> QED BY <1>1, <1>2

LEMMA JournalInductive ==
    ASSUME "arenaKids" \notin Faults
    PROVE  Spec => [](EventInv /\ OwnInv /\ JournalInv)
<1>1. Init => JournalInv
  BY DEF Init, JournalInv, Overdue, LeaseBooks, ReadBooks, Closed, Once, Passed,
     Asking, NoLease, NoRequest, Held, Up, OwedOnce, NoDebt
<1>2. EventInv /\ OwnInv /\ JournalInv /\ [Next]_vars => JournalInv'
  <2> SUFFICES ASSUME EventInv, OwnInv, JournalInv, [Next]_vars PROVE JournalInv'
    OBVIOUS
  <2>1. CASE CoordReconcile \/ TargetStep \/ OwnerMonitorStep
    BY <2>1, JournalMoves
  <2>2. CASE OwnerNext
    BY <2>2, JournalArena
  <2>3. CASE \/ CoordRead \/ BeginDrain \/ EndLoop
             \/ ActorNext \/ GoStale \/ RequestVanishes \/ UNCHANGED vars
    BY <2>3, JournalReads
  <2>4. CASE StopReap
    BY <2>4, JournalReap
  <2>5. CASE StopAll \/ StopKill \/ HostCrash \/ CoordStart
    BY <2>5, JournalShutdown
  <2>6. CASE WriteEvent \/ WriteAck
    BY <2>6, JournalWrites
  <2> QED BY <2>1, <2>2, <2>3, <2>4, <2>5, <2>6
      DEF Next, CoordNext, TargetStep, OwnerMonitorStep
<1> QED BY <1>1, <1>2, PauseInductive, PTL DEF Spec, PauseInv

(* As long as no child outlives a process of the arena, a token is counted at*)
(* most once as ready and at most once as released, whatever is lost, retried*)
(* or settled again: by the reconciliation of a late cancellation, by the    *)
(* monitor after a crash, by a drain or by the shutdown, which looks only at *)
(* the last acknowledgement.                                                 *)
THEOREM CountedOnce ==
    ASSUME "arenaKids" \notin Faults PROVE Spec => []JournalOnce
<1>1. JournalInv => JournalOnce
  BY DEF JournalInv, Once, JournalOnce
<1> QED BY <1>1, JournalInductive, PTL

-----------------------------------------------------------------------------
(* What the journal makes of a token                                         *)

(* The machine does not go down in the middle of a lease and come back: there*)
(* is one run of the coordinator, or its runs end with a shutdown that       *)
(* collects the arena.                                                       *)
Orderly == MaxRuns = 1 \/ {"host", "timeout", "arenaKids"} \cap Faults = {}

(* What each event makes of a token.                                         *)
LEMMA NextEntries ==
    \A e \in Entries :
        /\ NextEntry(e, "released") = IF e = "refused" THEN e ELSE "settled"
        /\ NextEntry(e, "ready") = IF e = "none" THEN "ready"
                                  ELSE IF e = "ready" THEN "refused" ELSE e
        /\ NextEntry(e, "rejected") = IF e = "ready" THEN "refused"
                                     ELSE IF e = "none" THEN "settled" ELSE e
BY DEF NextEntry, Entries

(* In a step of the coordinator's loop the entry of a token follows the      *)
(* release that is counted for it, and the rejection.                        *)
EntryFollows ==
    \A t \in Tokens :
        \/ releases'[t] = releases[t] /\ entry'[t] = entry[t]
        \/ /\ releases'[t] > releases[t]
           /\ entry'[t] = IF entry[t] = "refused" THEN "refused" ELSE "settled"
        \/ /\ RejectRequest
           /\ entry'[t] = IF t # cReq.token THEN entry[t]
                          ELSE IF entry[t] = "ready" THEN "refused"
                          ELSE IF entry[t] = "none" THEN "settled" ELSE entry[t]

LEMMA KeptEntry == UNCHANGED books => EntryFollows
BY DEF books, EntryFollows

LEMMA RecordEntry ==
    ASSUME BooksOK, NEW l, l.token \in Tokens, RecordRelease(l)
    PROVE  EntryFollows
<1>1. CASE l.recorded
  BY <1>1, KeptEntry DEF RecordRelease
<1>2. CASE ~l.recorded
  <2>1. /\ releases' = [releases EXCEPT ![l.token] = @ + 1]
        /\ entry' = [entry EXCEPT ![l.token] = NextEntry(@, "released")]
    BY <1>2, JournalCounts DEF RecordRelease
  <2> QED BY <2>1, NextEntries DEF BooksOK, EntryFollows
<1> QED BY <1>1, <1>2

LEMMA FinishEntry ==
    ASSUME BooksOK, NEW l, l.token \in Tokens, NEW ts, NEW reap, NEW ackNow, NEW failed,
           FinishRelease(l, ts, reap, ackNow, failed)
    PROVE  EntryFollows
<1>1. RecordRelease(l) \/ UNCHANGED books
  BY DEF FinishRelease, HoldRelease, ResumeTarget, DrainTarget, RestartTarget, RecordThenAck
<1> QED BY <1>1, RecordEntry, KeptEntry

LEMMA OwnerExitedEntry ==
    ASSUME BooksOK, NEW l \in Lease, l.token \in Tokens, OwnerExited(l)
    PROVE  EntryFollows
<1> DEFINE gone == [l EXCEPT !.ownerReaped = TRUE, !.ownerStop = TRUE,
                            !.release = TRUE, !.failed = TRUE]
<1>1. gone.token = l.token
  BY DEF Lease
<1>2. \/ FinishRelease(gone, tState, FALSE, ack, pauseFailed)
      \/ FinishRelease(gone, tState, FALSE, Ack(gone, "failed"), TRUE)
  BY DEF OwnerExited
<1> QED BY <1>1, <1>2, FinishEntry

LEMMA RecoverEntry ==
    ASSUME BooksOK, NEW l \in Lease, l.token \in Tokens, RecoverOwner(l)
    PROVE  EntryFollows
<1> DEFINE stopping == [l EXCEPT !.release = TRUE, !.ownerStop = TRUE, !.failed = TRUE]
           gone == [stopping EXCEPT !.ownerReaped = TRUE]
<1>1. stopping \in Lease /\ stopping.token = l.token
  BY DEF Lease
<1>2. gone.token = l.token
  BY <1>1 DEF Lease
<1>3. CASE UNCHANGED books
  BY <1>3, KeptEntry
<1>4. CASE OwnerExited(stopping)
  BY <1>1, <1>4, OwnerExitedEntry
<1>5. CASE FinishRelease(gone, tState, FALSE, ack, pauseFailed)
  BY <1>2, <1>5, FinishEntry
<1> QED BY <1>3, <1>4, <1>5 DEF RecoverOwner

LEMMA ReconcileEntry == ASSUME EventInv, CoordReconcile PROVE EntryFollows
<1>0. /\ BooksOK /\ lease \in Lease /\ (Held => lease.token \in Tokens)
      /\ (cReq.state # "none" => cReq.token \in Tokens)
  BY Parts DEF EventInv, Evented
<1> USE <1>0
<1>1. CASE UNCHANGED books
  BY <1>1, KeptEntry
<1>2. CASE RejectRequest
  <2>1. entry' = [entry EXCEPT ![cReq.token] = NextEntry(@, "rejected")]
    BY <1>2, JournalCounts DEF RejectRequest
  <2> QED BY <1>2, <2>1, NextEntries DEF BooksOK, EntryFollows
<1>3. CASE SettleUnadmitted
  <2>1. Parsed.token = cReq.token /\ cReq.token \in Tokens
    BY <1>3 DEF Parsed, NoLease, SettleUnadmitted, Withdrawn
  <2> QED BY <1>3, <2>1, RecordEntry DEF SettleUnadmitted, RecordThenAck
<1>5. CASE ReconcileLost
  BY <1>5, RecoverEntry DEF ReconcileLost, InProgress
<1>6. CASE ReconcileRelease
  <2> DEFINE l == [lease EXCEPT !.release = TRUE,
                     !.failed = IF lease.release THEN @
                                ELSE cReq.state = "cancelled"]
  <2>1. l.token = lease.token /\ lease.token \in Tokens
    BY <1>6 DEF Lease, ReconcileRelease, InProgress
  <2>2. FinishRelease(l, tState, FALSE, ack, pauseFailed)
    BY <1>6 DEF ReconcileRelease
  <2> QED BY <2>1, <2>2, FinishEntry
<1>7. CASE ReconcileObserve
  <2>1. lease.token \in Tokens
    BY <1>7 DEF ReconcileObserve, Healthy, InProgress
  <2> QED BY <1>1, <1>7, <2>1, RecoverEntry DEF ReconcileObserve
<1> QED BY <1>1, <1>2, <1>3, <1>5, <1>6, <1>7
        DEF CoordReconcile, NothingAsked, AdmitSuspend, AdmitTerminate, AdmitAbsent,
            ReconcileResuming, ReconcileWait

LEMMA MonitorEntry ==
    ASSUME EventInv, TargetStep \/ OwnerMonitorStep PROVE EntryFollows
<1>0. BooksOK /\ lease \in Lease /\ (Held => lease.token \in Tokens)
  BY Parts DEF EventInv, Evented
<1> USE <1>0
<1>1. CASE UNCHANGED books
  BY <1>1, KeptEntry
<1>2. CASE TargetExited
  <2> DEFINE gone == [[lease EXCEPT !.suspended = FALSE] EXCEPT !.reaped = TRUE]
  <2>1. gone.token = lease.token /\ lease.token \in Tokens
    BY <1>2 DEF Lease, TargetExited, ExitedInLease
  <2>2. \/ UNCHANGED books
        \/ FinishRelease(gone, "paused", TRUE, ack, pauseFailed)
    BY <1>2 DEF TargetExited
  <2> QED BY <1>1, <2>1, <2>2, FinishEntry
<1>3. CASE OwnerUnhealthy
  BY <1>1, <1>3, RecoverEntry DEF OwnerUnhealthy, KeepLease
<1>4. CASE OwnerExitedInLease
  BY <1>4, OwnerExitedEntry DEF OwnerExitedInLease
<1> QED BY <1>1, <1>2, <1>3, <1>4
        DEF TargetStep, OwnerMonitorStep, TargetUnhealthy, TargetExitedOtherwise,
            TargetHardKill, TargetUnkillable, TargetRestart, TargetFine,
            OwnerExitedOtherwise, OwnerHardKill, OwnerUnkillable, OwnerRestart,
            OwnerFine, KeepLease

(* The lease of an owner that has been collected is marked so.               *)
LEMMA FinishReaped ==
    ASSUME NEW l \in Lease, NEW ts, NEW reap, NEW ackNow, NEW failed,
           FinishRelease(l, ts, reap, ackNow, failed), Held'
    PROVE  lease'.ownerReaped = l.ownerReaped
<1>0. NoLease.state = "none"
  BY DEF NoLease
<1>1. \/ lease' = NoLease \/ lease' = l \/ lease' = [l EXCEPT !.failed = TRUE]
      \/ lease' = [l EXCEPT !.suspended = FALSE, !.state = "resuming", !.recorded = TRUE]
  BY DEF FinishRelease, ConfirmResume, FailLease, HoldRelease, ResumeTarget, DrainTarget,
     RestartTarget
<1> QED BY <1>0, <1>1 DEF Lease, Held

LEMMA OwnerExitedReaped ==
    ASSUME NEW l \in Lease, OwnerExited(l), Held' PROVE lease'.ownerReaped
<1> DEFINE gone == [l EXCEPT !.ownerReaped = TRUE, !.ownerStop = TRUE,
                            !.release = TRUE, !.failed = TRUE]
<1>1. gone \in Lease /\ gone.ownerReaped
  BY DEF Lease
<1>2. \/ FinishRelease(gone, tState, FALSE, ack, pauseFailed)
      \/ FinishRelease(gone, tState, FALSE, Ack(gone, "failed"), TRUE)
  BY DEF OwnerExited
<1> QED BY <1>1, <1>2, FinishReaped

(* A lease of which the owner is gone is marked, and stays marked.           *)
Reaped == Held /\ oPc = "none" => lease.ownerReaped

LEMMA RecoverReaped ==
    ASSUME NEW l \in Lease, RecoverOwner(l), Held, oPc = "none" => l.ownerReaped
    PROVE  Reaped'
<1> DEFINE stopping == [l EXCEPT !.release = TRUE, !.ownerStop = TRUE, !.failed = TRUE]
           gone == [stopping EXCEPT !.ownerReaped = TRUE]
<1>1. stopping \in Lease /\ gone \in Lease /\ gone.ownerReaped
  BY DEF Lease
<1>2. CASE l.ownerStop \/ (OwnerLive /\ oPid = l.pid)
  <2>1. CASE lease' = l /\ KeepOwner
    BY <2>1 DEF Reaped, KeepOwner
  <2>2. CASE SignalOwner /\ OwnerLive
    BY <2>2 DEF Reaped, SignalOwner, OwnerLive
  <2> QED BY <1>2, <2>1, <2>2 DEF RecoverOwner, OwnerLive
<1>3. CASE OwnerExited(stopping)
  BY <1>1, <1>3, OwnerExitedReaped DEF Reaped
<1>4. CASE FinishRelease(gone, tState, FALSE, ack, pauseFailed)
  BY <1>1, <1>4, FinishReaped DEF Reaped
<1> QED BY <1>2, <1>3, <1>4 DEF RecoverOwner

LEMMA ReapedReconciled ==
    ASSUME TypeOK, Reaped, CoordReconcile PROVE Reaped'
<1>0. lease \in Lease /\ NoLease.state = "none" /\ Parsed \in Lease
  BY Parts, ParsedType DEF NoLease
<1> USE <1>0
<1>1. CASE NothingAsked \/ RejectRequest \/ SettleUnadmitted \/ ReconcileWait
  BY <1>1 DEF NothingAsked, RejectRequest, SettleUnadmitted, ReconcileWait, KeepWorkers,
     KeepOwner, Reaped, Held
<1>2. CASE AdmitSuspend \/ AdmitTerminate \/ AdmitAbsent
  BY <1>2 DEF AdmitSuspend, AdmitTerminate, AdmitAbsent, Admit, OwnerMatches, OwnerLive,
     KeepWorkers, KeepOwner, Reaped
<1>3. CASE ReconcileResuming
  <2>1. lease' \in {lease, NoLease, [lease EXCEPT !.failed = TRUE]} /\ KeepOwner /\ Held
    BY <1>3 DEF ReconcileResuming, ConfirmResume, FailLease, Held
  <2> QED BY <2>1 DEF Lease, Reaped, Held, KeepOwner
<1>4. CASE ReconcileLost
  BY <1>4, RecoverReaped DEF ReconcileLost, InProgress, Reaped
<1>5. CASE ReconcileRelease
  <2> DEFINE l == [lease EXCEPT !.release = TRUE,
                     !.failed = IF lease.release THEN @
                                ELSE cReq.state = "cancelled"]
  <2>1. l \in Lease /\ l.ownerReaped = lease.ownerReaped /\ Held
    BY <1>5 DEF Lease, ReconcileRelease, InProgress
  <2>2. FinishRelease(l, tState, FALSE, ack, pauseFailed) /\ KeepOwner
    BY <1>5 DEF ReconcileRelease
  <2> HIDE DEF l
  <2> QED BY <2>1, <2>2, FinishReaped DEF Reaped, KeepOwner
<1>6. CASE ReconcileObserve
  <2>1. CASE RecoverOwner(lease)
    BY <1>6, <2>1, RecoverReaped DEF ReconcileObserve, Healthy, InProgress, Reaped
  <2>2. CASE KeepOwner
    BY <1>6, <2>2 DEF ReconcileObserve, Healthy, OwnerLive, KeepOwner, Reaped
  <2> QED BY <1>6, <2>1, <2>2 DEF ReconcileObserve, KeepWorkers
<1> QED BY <1>1, <1>2, <1>3, <1>4, <1>5, <1>6 DEF CoordReconcile

LEMMA ReapedMonitored ==
    ASSUME TypeOK, OwnInv, Reaped, TargetStep \/ OwnerMonitorStep PROVE Reaped'
<1>0. lease \in Lease /\ NoLease.state = "none"
  BY Parts DEF NoLease
<1> USE <1>0
<1>1. CASE TargetExited
  <2> DEFINE l == [lease EXCEPT !.suspended = FALSE]
             gone == [l EXCEPT !.reaped = TRUE]
  <2>1. /\ l \in Lease /\ l.ownerReaped = lease.ownerReaped
        /\ gone \in Lease /\ gone.ownerReaped = lease.ownerReaped
    BY DEF Lease
  <2>2. Held /\ KeepOwner
    BY <1>1 DEF TargetExited, ExitedInLease
  <2>3. \/ FailLease(l) \/ FailLease(gone) \/ MarkReady(gone)
        \/ FinishRelease(gone, "paused", TRUE, ack, pauseFailed)
    BY <1>1 DEF TargetExited
  <2> HIDE DEF l, gone
  <2>4. Held' => lease'.ownerReaped = lease.ownerReaped
    <3>1. CASE FailLease(l) \/ FailLease(gone) \/ MarkReady(gone)
      BY <2>1, <3>1 DEF FailLease, MarkReady, Lease
    <3> QED BY <2>1, <2>3, <3>1, FinishReaped
  <2> QED BY <2>2, <2>4 DEF Reaped, KeepOwner
<1>2. CASE OwnerUnhealthy \/ OwnerExitedInLease
  BY <1>2, RecoverReaped, OwnerExitedReaped
  DEF OwnerUnhealthy, OwnerExitedInLease, OwnerLive, SignalOwner, KeepLease, Reaped, Held
<1>3. CASE TargetUnkillable \/ OwnerUnkillable
  <2>1. lease' \in {lease, [lease EXCEPT !.failed = TRUE]} /\ KeepOwner
    BY <1>3 DEF TargetUnkillable, OwnerUnkillable, FailLease
  <2> QED BY <2>1 DEF Lease, Reaped, Held, KeepOwner
<1>4. CASE OwnerExitedOtherwise \/ OwnerRestart
  <2>1. ~Held /\ UNCHANGED lease
    BY <1>4 DEF OwnerExitedOtherwise, OwnerRestart, KeepLease, MonitorOwner, OwnInv,
       PidsSeen, Up
  <2> QED BY <2>1 DEF Reaped, Held
<1>5. CASE \/ TargetUnhealthy \/ TargetExitedOtherwise \/ TargetHardKill \/ TargetRestart
           \/ TargetFine \/ OwnerHardKill \/ OwnerFine
  <2>1. KeepOwner /\ UNCHANGED lease
    BY <1>5 DEF TargetUnhealthy, TargetExitedOtherwise, TargetHardKill, TargetRestart,
       TargetFine, OwnerHardKill, OwnerFine, KeepLease, KeepWorkers
  <2> QED BY <2>1 DEF Reaped, Held, KeepOwner
<1> QED BY <1>1, <1>2, <1>3, <1>4, <1>5 DEF TargetStep, OwnerMonitorStep

(* The ledger accepts the journal: a token that is outstanding there is that *)
(* of the lease in progress, whose release is not in the journal yet.        *)
BooksSound ==
    /\ \A t \in Tokens : entry[t] # "refused"
    /\ cPc # "down" => \A t \in Tokens :
         entry[t] = "ready" => Held /\ lease.token = t /\ ~lease.recorded
    /\ Held => /\ lease.recorded <=> lease.state = "resuming"
               /\ lease.state # "ready" => entry[lease.token] # "ready"
    /\ owed.event = "ready" => entry[owed.token] # "ready"
(* A lease has the arena that is, or was last; when the coordinator is down  *)
(* and another one may start, nothing is outstanding.                        *)
RunOver ==
    /\ run > 0 /\ ("arenaKids" \notin Faults => ~oKids)
    /\ cPc # "down" => Reaped /\ (Held => lease.pid = oPid)
    /\ cPc = "down" /\ MaxRuns # 1 => \A t \in Tokens : entry[t] # "ready"
LedgerInv == BooksSound /\ RunOver

(* The coordinator's moves keep the ledger sound.                            *)
LEMMA SoundMoves ==
    ASSUME EventInv, OwnInv, BooksSound, CoordMove, EntryFollows, TypeOK'
    PROVE  BooksSound'
<1>0. /\ TypeOK /\ BooksOK /\ NoLease.state = "none" /\ cPc # "down" /\ cPc' # "down"
      /\ Parsed.token = cReq.token /\ ~Parsed.recorded /\ (Held => lease.token \in Tokens)
      /\ lease.recorded \in BOOLEAN /\ (lease'.recorded \in BOOLEAN)
      /\ OweNothing => owed'.event = "none"
  <2>1. lease \in Lease /\ TypeOK /\ (OweNothing => owed'.event = "none")
    BY Parts, OwedFields DEF EventInv
  <2>2. lease'.recorded \in BOOLEAN
    BY DEF TypeOK, CoordOK, Lease
  <2> QED BY <2>1, <2>2, Parts
      DEF EventInv, NoLease, Parsed, CoordMove, TypeOK, Evented, Lease
<1> USE <1>0
<1>1. CASE RejectRequest
  <2>1. ~Held /\ lease' = lease /\ UNCHANGED releases /\ owed'.event = "none"
    BY <1>1, JournalCounts, OwedFields DEF RejectRequest
  <2>2. \A t \in Tokens : entry[t] # "ready" /\ entry[t] # "refused"
    BY <2>1 DEF BooksSound
  <2>3. \A t \in Tokens : entry'[t] \in {entry[t], "settled"}
    BY <2>1, <2>2 DEF EntryFollows, BooksOK
  <2> QED BY <2>1, <2>2, <2>3 DEF BooksSound, Held
<1>2. CASE ~RejectRequest /\ (Quiet \/ Flagged \/ Refuse \/ ConfirmMove \/ DrainedMove)
  <2>1. UNCHANGED releases /\ owed'.event = "none"
    BY <1>2, OwedFields DEF Quiet, Flagged, Refuse, ConfirmMove, DrainedMove
  <2>2. \A t \in Tokens : entry'[t] = entry[t]
    BY <1>2, <2>1 DEF EntryFollows, BooksOK
  <2>3. CASE Quiet \/ Flagged \/ Refuse
    BY <2>1, <2>2, <2>3 DEF Quiet, Flagged, SameLease, Refuse, BooksSound, Held
  <2>4. CASE ConfirmMove \/ DrainedMove
    BY <2>1, <2>2, <2>4 DEF ConfirmMove, DrainedMove, BooksSound, Held
  <2> QED BY <1>2, <2>3, <2>4
<1>3. CASE ~RejectRequest /\ SettleEarly
  <2>1. ~Held /\ lease' = lease /\ owed'.event = "none"
        /\ releases' = [releases EXCEPT ![cReq.token] = @ + 1]
    BY <1>3, OwedFields DEF SettleEarly, Counted
  <2>2. \A t \in Tokens : entry[t] # "ready" /\ entry[t] # "refused"
    BY <2>1 DEF BooksSound
  <2>3. \A t \in Tokens : entry'[t] \in {entry[t], "settled"}
    BY <1>3, <2>1, <2>2 DEF EntryFollows, BooksOK
  <2> QED BY <2>1, <2>2, <2>3 DEF BooksSound, Held
<1>4. CASE ~RejectRequest /\ AdmitMove
  <2>1. /\ ~Held /\ Held' /\ lease'.token = cReq.token /\ ~lease'.recorded
        /\ lease'.state # "resuming" /\ UNCHANGED releases
        /\ owed'.event = "ready" => owed'.token = cReq.token
        /\ cReq.token \in Tokens
    BY <1>4, OwedFields DEF AdmitMove, Held, EventInv
  <2>2. \A t \in Tokens : entry[t] # "ready" /\ entry[t] # "refused"
    BY <2>1 DEF BooksSound
  <2>3. \A t \in Tokens : entry'[t] = entry[t]
    BY <1>4, <2>1 DEF EntryFollows, BooksOK
  <2> QED BY <2>1, <2>2, <2>3 DEF BooksSound
<1>5. CASE ~RejectRequest /\ GrantMove
  <2>1. /\ Held /\ Held' /\ lease.state # "resuming" /\ lease.state # "ready"
        /\ lease'.state = "ready" /\ lease'.token = lease.token
        /\ lease'.recorded = lease.recorded /\ UNCHANGED releases
        /\ owed'.token = lease.token
    BY <1>5, OwedFields DEF GrantMove, Held
  <2>2. \A t \in Tokens : entry'[t] = entry[t]
    BY <1>5, <2>1 DEF EntryFollows, BooksOK
  <2> QED BY <2>1, <2>2 DEF BooksSound
<1>6. CASE ~RejectRequest /\ (ResumeMove \/ CloseMove)
  <2>1. Held /\ lease.state # "resuming" /\ Counted(lease) /\ owed'.event = "none"
    BY <1>6, OwedFields DEF ResumeMove, CloseMove
  <2>2. ~lease.recorded
    BY <2>1 DEF BooksSound
  <2>3. releases' = [releases EXCEPT ![lease.token] = @ + 1]
    BY <2>1, <2>2 DEF Counted
  <2>4. \A t \in Tokens : entry'[t] = IF t = lease.token THEN "settled" ELSE entry[t]
    <3> TAKE t \in Tokens
    <3>1. releases[t] \in Nat
          /\ releases'[t] = (IF t = lease.token THEN releases[t] + 1 ELSE releases[t])
      BY <2>1, <2>3 DEF BooksOK
    <3>2. entry[t] # "refused"
      BY DEF BooksOK, BooksSound
    <3> QED BY <1>6, <3>1, <3>2 DEF EntryFollows
  <2>5. \A t \in Tokens : entry'[t] # "ready" /\ entry'[t] # "refused"
    BY <2>1, <2>4 DEF BooksSound
  <2>6. CASE ResumeMove
    BY <2>5, <2>6, <2>1 DEF ResumeMove, BooksSound
  <2>7. CASE CloseMove
    BY <2>1, <2>5, <2>7 DEF CloseMove, BooksSound, Held
  <2> QED BY <1>6, <2>6, <2>7
<1> QED BY <1>1, <1>2, <1>3, <1>4, <1>5, <1>6 DEF CoordMove, LeaseMove

LEMMA LoopKeeps ==
    ASSUME CoordReconcile \/ TargetStep \/ OwnerMonitorStep
    PROVE  UNCHANGED <<run, open>>
BY DEF CoordReconcile, NothingAsked, RejectRequest, SettleUnadmitted, Admit, AdmitSuspend,
   AdmitTerminate, AdmitAbsent, ReconcileResuming, ReconcileLost, ReconcileRelease,
   ReconcileObserve, ReconcileWait, InProgress, Healthy, Reconcile, KeepLoop, CoordFrame,
   TargetStep, OwnerMonitorStep, TargetUnhealthy, TargetExited, TargetExitedOtherwise,
   TargetHardKill, TargetUnkillable, TargetRestart, TargetFine, MonitorTarget,
   OwnerUnhealthy, OwnerExitedInLease, OwnerExitedOtherwise, OwnerHardKill,
   OwnerUnkillable, OwnerRestart, OwnerFine, MonitorOwner, budgets

LEMMA LedgerMoves ==
    ASSUME EventInv, OwnInv, LedgerInv, CoordReconcile \/ TargetStep \/ OwnerMonitorStep
    PROVE  LedgerInv'
<1>0. TypeOK /\ CoordMove /\ EntryFollows /\ TypeOK'
  BY CoordMoves, ReconcileEntry, MonitorEntry, NextTypes
  DEF EventInv, Next, CoordNext, TargetStep, OwnerMonitorStep
<1>1. Reaped'
  <2>1. Reaped
    BY <1>0 DEF LedgerInv, RunOver, CoordMove
  <2> QED BY <1>0, <2>1, ReapedReconciled, ReapedMonitored
<1>2. UNCHANGED run
  BY LoopKeeps
<1>3. cPc # "down" /\ cPc' # "down"
  BY <1>0 DEF CoordMove
<1>4. oKids' => oKids
  BY <1>0 DEF CoordMove, OwnerMove, KeepOwner, SignalOwner, ReapOwner, StartOwner
<1>5. PidsSeen'
  BY <1>0, OwnMoves DEF OwnInv
<1>6. Up'
  BY <1>0 DEF CoordMove, Up
<1> QED BY <1>0, <1>1, <1>2, <1>3, <1>4, <1>5, <1>6, SoundMoves
        DEF LedgerInv, RunOver, PidsSeen

(* What leaves the journal alone and the arena where it is, or lets it end.  *)
LEMMA LedgerReads ==
    ASSUME EventInv, LedgerInv,
           \/ CoordRead \/ BeginDrain \/ EndLoop \/ StopAll \/ StopKill
           \/ ActorNext \/ GoStale \/ RequestVanishes \/ OwnerNext \/ UNCHANGED vars
    PROVE  LedgerInv'
<1>0. TypeOK /\ lease \in Lease
  BY Parts DEF EventInv
<1>1. UNCHANGED <<books, run, oPid>>
  BY DEF ActorNext, ActorFrame, CohortPark, CohortUnpark, CohortSubmit, CohortFinish,
     BrokerIdle, PollRead, Poll, Publish, ActorHeartbeat, ControlFails, ActorExit,
     ActorKilled, ActorCrash, GoStale, RequestVanishes, vars, ownerVars, budgets,
     CoordRead, BeginDrain, EndLoop, StopAll, StopKill, KeepFlags, CoordFrame, KeepOwner,
     SignalOwner, OwnerNext, OwnerStep, OwnerRegister, OwnerBlocked, OwnerRequest,
     OwnerHeartbeat, OwnerSeesReady, OwnerActivate, OwnerCancel, OwnerRelease,
     OwnerReleased, OwnerFails, OwnerStops, OwnerKilled, OwnerCrash, OwnerFrame
<1>2. cPc' = "down" <=> cPc = "down"
  BY DEF ActorNext, ActorFrame, CohortPark, CohortUnpark, CohortSubmit, CohortFinish,
     BrokerIdle, PollRead, Poll, Publish, ActorHeartbeat, ControlFails, ActorExit,
     ActorKilled, ActorCrash, GoStale, RequestVanishes, vars, coordVars,
     CoordRead, BeginDrain, EndLoop, StopAll, StopKill, OwnerNext, OwnerStep, OwnerRegister,
     OwnerBlocked, OwnerRequest, OwnerHeartbeat, OwnerSeesReady, OwnerActivate, OwnerCancel,
     OwnerRelease, OwnerReleased, OwnerFails, OwnerStops, OwnerKilled, OwnerCrash, OwnerFrame
<1>3. lease' \in {lease, [lease EXCEPT !.suspended = FALSE]}
  BY DEF ActorNext, ActorFrame, CohortPark, CohortUnpark, CohortSubmit, CohortFinish,
     BrokerIdle, PollRead, Poll, Publish, ActorHeartbeat, ControlFails, ActorExit,
     ActorKilled, ActorCrash, GoStale, RequestVanishes, vars, coordVars,
     CoordRead, BeginDrain, EndLoop, StopAll, StopKill, OwnerNext, OwnerStep, OwnerRegister,
     OwnerBlocked, OwnerRequest, OwnerHeartbeat, OwnerSeesReady, OwnerActivate, OwnerCancel,
     OwnerRelease, OwnerReleased, OwnerFails, OwnerStops, OwnerKilled, OwnerCrash, OwnerFrame
<1>4. /\ oPc' = "none" => oPc = "none"
      /\ "arenaKids" \notin Faults => ~oKids'
  <2>0. "arenaKids" \notin Faults => ~oKids
    BY DEF LedgerInv, RunOver
  <2>1. CASE OwnerNext
    <3>1. \/ OwnerEnds
          \/ oPc' \in OwnerPcs \ {"none"} /\ oKids' = oKids
          \/ UNCHANGED <<oPc, oKids>>
      BY <1>0, <2>1 DEF TypeOK, OwnerOK, OwnerPcs, ownerVars, OwnerNext, OwnerStep,
         OwnerRegister, OwnerBlocked, OwnerRequest, OwnerHeartbeat, OwnerSeesReady,
         OwnerActivate, OwnerCancel, OwnerRelease, OwnerReleased, OwnerFails, OwnerStops,
         OwnerKilled, OwnerCrash
    <3>2. OwnerEnds => oPc' = "exited" /\ ("arenaKids" \notin Faults => ~oKids')
      BY DEF OwnerEnds
    <3> QED BY <2>0, <3>1, <3>2
  <2>2. CASE ~OwnerNext
    <3>1. UNCHANGED <<oPc, oKids>>
      BY <2>2 DEF ActorNext, ActorFrame, CohortPark, CohortUnpark, CohortSubmit,
         CohortFinish, BrokerIdle, PollRead, Poll, Publish, ActorHeartbeat, ControlFails,
         ActorExit, ActorKilled, ActorCrash, GoStale, RequestVanishes, vars, ownerVars,
         CoordRead, BeginDrain, EndLoop, StopAll, StopKill, KeepOwner, SignalOwner
    <3> QED BY <2>0, <3>1
  <2> QED BY <2>1, <2>2
<1>o. UNCHANGED owed
  BY DEF ActorNext, ActorFrame, CohortPark, CohortUnpark, CohortSubmit, CohortFinish,
     BrokerIdle, PollRead, Poll, Publish, ActorHeartbeat, ControlFails, ActorExit,
     ActorKilled, ActorCrash, GoStale, RequestVanishes, vars, coordVars,
     CoordRead, BeginDrain, EndLoop, StopAll, StopKill, OwnerNext, OwnerStep, OwnerRegister,
     OwnerBlocked, OwnerRequest, OwnerHeartbeat, OwnerSeesReady, OwnerActivate, OwnerCancel,
     OwnerRelease, OwnerReleased, OwnerFails, OwnerStops, OwnerKilled, OwnerCrash, OwnerFrame
<1>5. /\ lease'.token = lease.token /\ lease'.pid = lease.pid /\ lease'.state = lease.state
      /\ lease'.recorded = lease.recorded /\ lease'.ownerReaped = lease.ownerReaped
  BY <1>0, <1>3 DEF Lease
<1> QED BY <1>1, <1>2, <1>4, <1>5, <1>o DEF LedgerInv, BooksSound, RunOver, Reaped, Held, books

(* The shutdown settles the lease in progress once it has collected the      *)
(* arena, which it always does when nothing outlives its grace.              *)
LEMMA LedgerReap ==
    ASSUME Orderly, EventInv, LedgerInv, StopReap PROVE LedgerInv'
<1> DEFINE reapedNow == oPc = "exited" /\ oPc' = "none"
           settles == Held /\ \/ lease.ownerReaped /\ oPc' = "none"
                              \/ reapedNow /\ lease.pid = oPid
           late == reapedNow /\ LateRequest
           first == settles /\ ~lease.recorded
           counted == IF first THEN {lease.token} ELSE IF late THEN {req.token} ELSE {}
<1>0. /\ TypeOK /\ cPc = "stopKill" /\ cPc' = "down" /\ UNCHANGED run
      /\ NoLease.state = "none" /\ owed'.event # "ready"
      /\ oKids' = oKids \/ oKids' = FALSE
  BY OwedFields DEF StopReap, KeepFlags, budgets, KeepOwner, ReapOwner, EventInv, NoLease
<1>1. lease' = IF settles THEN NoLease ELSE lease
  BY DEF StopReap
<1>2. \A t \in Tokens : entry'[t] = IF t \in counted THEN "settled" ELSE entry[t]
  <2>0. \A t \in Tokens : entry[t] # "refused" /\ entry[t] \in Entries
    BY <1>0 DEF LedgerInv, BooksSound, TypeOK, BooksOK
  <2>b. entry \in [Tokens -> Entries]
    BY <1>0 DEF TypeOK, BooksOK
  <2>1. CASE first
    <3>1. entry' = [entry EXCEPT ![lease.token] = NextEntry(@, "released")]
      BY <2>1, JournalCounts DEF StopReap
    <3> QED BY <2>0, <2>1, <2>b, <3>1, NextEntries
  <2>2. CASE ~first /\ late
    <3>1. entry' = [entry EXCEPT ![req.token] = NextEntry(@, "released")]
      BY <2>2, JournalCounts DEF StopReap
    <3> QED BY <2>0, <2>2, <2>b, <3>1, NextEntries
  <2>3. CASE ~first /\ ~late
    BY <2>3 DEF StopReap, books
  <2> QED BY <2>1, <2>2, <2>3
<1> HIDE DEF counted
<1>3. BooksSound'
  BY <1>0, <1>1, <1>2 DEF LedgerInv, BooksSound, EventInv, Evented, Held
<1>4. ASSUME MaxRuns # 1, NEW t \in Tokens PROVE entry'[t] # "ready"
  <2>1. "timeout" \notin Faults /\ ~oKids
    BY <1>4 DEF Orderly, LedgerInv, RunOver
  <2>2. oPc' = "none" /\ oPc \in {"none", "exited"}
    BY <2>1 DEF StopReap, OwnerLive, ReapOwner, KeepOwner
  <2>3. ASSUME entry[t] = "ready" PROVE t \in counted
    <3>1. Held /\ lease.token = t /\ ~lease.recorded
      BY <1>0, <2>3 DEF LedgerInv, BooksSound
    <3>2. lease.pid = oPid /\ (oPc = "none" => lease.ownerReaped)
      BY <1>0, <3>1 DEF LedgerInv, RunOver, Reaped
    <3> QED BY <2>2, <3>1, <3>2 DEF counted
  <2> QED BY <1>2, <2>3
<1>5. RunOver'
  BY <1>0, <1>4 DEF LedgerInv, RunOver
<1> QED BY <1>3, <1>5 DEF LedgerInv

(* The second write of a step: the ready event of the lease in progress, or  *)
(* a release, which never makes a token outstanding.                         *)
LEMMA LedgerWrites ==
    ASSUME EventInv, LedgerInv, WriteEvent \/ WriteAck PROVE LedgerInv'
<1>0. /\ entry \in [Tokens -> Entries] /\ owed'.event = "none"
      /\ UNCHANGED <<lease, cPc, run, oPid, oPc, oKids>>
  BY OwedFields
  DEF EventInv, TypeOK, BooksOK, WriteEvent, WriteAck, KeepWorkers, KeepOwner, KeepThread,
      KeepLoop, CoordFrame
<1>1. CASE UNCHANGED entry
  BY <1>0, <1>1 DEF LedgerInv, BooksSound, RunOver, Reaped, Held
<1>2. CASE WriteEvent /\ owed.event = "ready"
  <2>1. /\ owed.token \in Tokens /\ lease.token = owed.token /\ lease.state = "ready" /\ Held
        /\ entry[owed.token] \notin {"ready", "refused"} /\ cPc # "down" /\ ~lease.recorded
    BY <1>2, OwedFields
    DEF EventInv, TypeOK, CoordOK, Lease, OwedTrue, OwedWhen, LedgerInv, BooksSound, Held
  <2>2. entry' = [entry EXCEPT ![owed.token] = NextEntry(@, "ready")]
    BY <1>2, JournalCounts DEF WriteEvent
  <2>3. \A t \in Tokens : entry'[t] = entry[t] \/ (t = owed.token /\ entry'[t] = "ready")
    BY <1>0, <2>1, <2>2, NextEntries
  <2> QED BY <1>0, <2>1, <2>3 DEF LedgerInv, BooksSound, RunOver, Reaped, Held
<1>3. CASE WriteEvent /\ owed.event = "released"
  <2>1. owed.token \in Tokens /\ cPc = "down"
    BY <1>3 DEF EventInv, OwedTrue
  <2>2. entry' = [entry EXCEPT ![owed.token] = NextEntry(@, "released")]
    BY <1>3, JournalCounts DEF WriteEvent
  <2>3. \A t \in Tokens : entry'[t] = entry[t] \/ entry'[t] = "settled"
    BY <1>0, <2>1, <2>2, NextEntries DEF LedgerInv, BooksSound
  <2> QED BY <1>0, <2>1, <2>3, OwnTypes, Parts
      DEF LedgerInv, BooksSound, RunOver, Reaped, Held, EventInv, Evented
<1> QED BY <1>1, <1>2, <1>3 DEF WriteEvent, WriteAck, books, EventInv, OwedTrue

LEMMA LedgerRestarts ==
    ASSUME Orderly, EventInv, LedgerInv, HostCrash \/ CoordStart PROVE LedgerInv'
<1>0. TypeOK /\ run \in Nat /\ NoLease.state = "none" /\ MaxRuns \in Nat
  BY PauseConstants DEF EventInv, TypeOK, BudgetsOK, NoLease
<1>1. CASE HostCrash
  <2>1. /\ MaxRuns = 1 /\ cPc' = "down" /\ ~oKids' /\ owed'.event = "none"
        /\ UNCHANGED <<lease, entry, run>>
    BY <1>1, OwedFields DEF HostCrash, Orderly, books
  <2> QED BY <1>0, <2>1 DEF LedgerInv, BooksSound, RunOver, Held
<1>2. CASE CoordStart
  <2>1. /\ MaxRuns # 1 /\ cPc = "down" /\ run' = run + 1 /\ ~oKids' /\ cPc' = "read"
        /\ lease' = NoLease /\ owed'.event = "none" /\ UNCHANGED entry
    BY <1>0, <1>2, OwedFields DEF CoordStart, StartOwner, books, LedgerInv, RunOver
  <2> QED BY <1>0, <2>1 DEF LedgerInv, BooksSound, RunOver, Reaped, Held
<1> QED BY <1>1, <1>2

LEMMA LedgerInductive ==
    ASSUME Orderly PROVE Spec => [](EventInv /\ OwnInv /\ LedgerInv)
<1>1. Init => LedgerInv
  BY PauseConstants, OwedFields DEF Init, LedgerInv, BooksSound, RunOver, Reaped, Held, NoLease
<1>2. EventInv /\ OwnInv /\ LedgerInv /\ [Next]_vars => LedgerInv'
  <2> SUFFICES ASSUME EventInv, OwnInv, LedgerInv, [Next]_vars PROVE LedgerInv'
    OBVIOUS
  <2>1. CASE CoordReconcile \/ TargetStep \/ OwnerMonitorStep
    BY <2>1, LedgerMoves
  <2>2. CASE \/ CoordRead \/ BeginDrain \/ EndLoop \/ StopAll \/ StopKill
             \/ ActorNext \/ GoStale \/ RequestVanishes \/ OwnerNext \/ UNCHANGED vars
    BY <2>2, LedgerReads
  <2>3. CASE StopReap
    BY <2>3, LedgerReap
  <2>4. CASE HostCrash \/ CoordStart
    BY <2>4, LedgerRestarts
  <2>5. CASE WriteEvent \/ WriteAck
    BY <2>5, LedgerWrites
  <2> QED BY <2>1, <2>2, <2>3, <2>4, <2>5 DEF Next, CoordNext, TargetStep, OwnerMonitorStep
<1> QED BY <1>1, <1>2, PauseInductive, PTL DEF Spec, PauseInv

(* The ledger accepts everything the coordinator writes to its journal, and  *)
(* no token is left outstanding without the coordinator's lease, which still *)
(* has to settle it: in each run of a coordinator, and across its runs when  *)
(* each ends with a shutdown that collects the arena.                        *)
THEOREM LedgerAccepts == ASSUME Orderly PROVE Spec => []LedgerSound
<1>1. LedgerInv => LedgerSound
  BY DEF LedgerInv, BooksSound, LedgerSound, Running
<1> QED BY <1>1, LedgerInductive, PTL

-----------------------------------------------------------------------------
(* The protocol implements the accounting view, when no heartbeat is late: a *)
(* stale one lets the coordinator reject a request that it then grants.      *)

(* A lease that is asked for can be granted: the journal says nothing of it, *)
(* and the arena's ledger has it registered.                                 *)
Grantable(t) == entry[t] = "none" /\ open = [tok |-> t, pid |-> oPid]

(* A lease that is granted: its ready event is in the journal, or owed.       *)
Granted(t) == entry[t] = "ready" \/ (owed.event = "ready" /\ owed.token = t)

(* The arena and its ledger: what it asks for is registered and not settled, *)
(* what it measures under is granted.                                        *)
ArenaBooks ==
    /\ OwnerLive /\ ~Up => oStop
    /\ \A t \in Tokens : /\ t > lastTok => entry[t] = "none"
                         /\ Granted(t) => open.tok = t
    /\ oPc \in {"registered", "waitReady", "granted", "body"} =>
        open = [tok |-> oTok, pid |-> oPid]
    /\ oPc \in {"registered", "waitReady"} => entry[oTok] # "settled"
    /\ oPc \in {"granted", "body"} => Granted(oTok)
(* The coordinator and its journal.                                          *)
RequestFresh ==
    /\ req.state # "none" => req.fresh
    /\ cReq.state # "none" => cReq.fresh
HeldBooks ==
    cPc # "down" /\ Held =>
        /\ lease.state = "ready" => Granted(lease.token)
        /\ lease.state \notin {"ready", "resuming"} => Grantable(lease.token)
AdmitBooks ==
    cPc = "reconcile" /\ ~Held /\ cReq.state = "requested" /\ OwnerMatches =>
        Grantable(cReq.token)
(* An event that is owed has its token as it was when the debt was incurred.  *)
DebtBooks ==
    /\ owed.event = "ready" => Grantable(owed.token)
    /\ owed.event = "released" => oPc = "none" /\ owed.token <= lastTok
ViewInv == ArenaBooks /\ RequestFresh /\ HeldBooks /\ AdmitBooks /\ DebtBooks

(* What a move does to the journal: nothing, or it settles one token; or it  *)
(* comes to owe the ready event of a token.                                  *)
Pledges(t) == UNCHANGED entry /\ owed'.event = "ready" /\ owed'.token = t
Settles(t) == owed'.event = "none" /\ entry' = [entry EXCEPT ![t] = "settled"]

LEMMA EntryCases ==
    ASSUME EventInv, OwnInv, LedgerInv, ViewInv, CoordMove, EntryFollows, TypeOK'
    PROVE  \/ /\ UNCHANGED entry /\ owed'.event = "none"
              /\ \/ Quiet \/ Flagged \/ Refuse \/ ConfirmMove \/ DrainedMove
                 \/ AdmitMove /\ lease'.state # "ready"
           \/ AdmitMove /\ lease'.state = "ready" /\ Pledges(cReq.token)
           \/ GrantMove /\ Pledges(lease.token)
           \/ (RejectRequest \/ SettleEarly) /\ Settles(cReq.token)
           \/ (ResumeMove \/ CloseMove) /\ Settles(lease.token)
<1>0. /\ BooksOK /\ BooksOK' /\ cPc # "down" /\ (Held => lease.token \in Tokens)
      /\ (cReq.state # "none" => cReq.token \in Tokens)
      /\ Parsed.token = cReq.token /\ ~Parsed.recorded
      /\ \A t \in Tokens : /\ entry[t] # "refused" /\ releases[t] \in Nat
                           /\ (~Held => entry[t] # "ready")
  BY Parts DEF EventInv, Evented, CoordMove, Parsed, NoLease, LedgerInv, BooksSound, TypeOK,
     BooksOK
<1>f. \A e \in [Tokens -> Entries] :
        (\A t \in Tokens : entry'[t] = e[t]) => entry' = e
  BY <1>0 DEF BooksOK
<1>s. ASSUME NEW t, owed'.event = "none",
             \A u \in Tokens : entry'[u] = IF u = t THEN "settled" ELSE entry[u]
      PROVE  Settles(t)
  BY <1>0, <1>s DEF Settles, BooksOK
<1>1. CASE RejectRequest
  <2>1. /\ ~Held /\ UNCHANGED releases /\ owed'.event = "none"
        /\ entry' = [entry EXCEPT ![cReq.token] = NextEntry(@, "rejected")]
    BY <1>1, JournalCounts, OwedFields DEF RejectRequest
  <2>2. cReq.token \in Tokens
    BY <1>0, <1>1 DEF RejectRequest, Admissible, Withdrawn
  <2>3. \A t \in Tokens : entry'[t] = IF t = cReq.token THEN "settled" ELSE entry[t]
    BY <1>0, <2>1, <2>2, NextEntries DEF BooksOK, Entries
  <2> QED BY <1>1, <1>s, <2>1, <2>3
<1>2. CASE ~RejectRequest /\ (Quiet \/ Flagged \/ Refuse \/ ConfirmMove \/ DrainedMove)
  <2>1. UNCHANGED releases /\ owed'.event = "none"
    BY <1>2, OwedFields DEF Quiet, Flagged, Refuse, ConfirmMove, DrainedMove
  <2>2. \A t \in Tokens : entry'[t] = entry[t]
    BY <1>0, <1>2, <2>1 DEF EntryFollows
  <2> QED BY <1>0, <1>2, <1>f, <2>1, <2>2 DEF BooksOK
<1>3. CASE ~RejectRequest /\ SettleEarly
  <2>1. /\ ~Held /\ cReq.token \in Tokens /\ owed'.event = "none"
        /\ releases' = [releases EXCEPT ![cReq.token] = @ + 1]
    BY <1>0, <1>3, OwedFields DEF SettleEarly, Counted, Withdrawn
  <2>2. \A t \in Tokens : entry'[t] = IF t = cReq.token THEN "settled" ELSE entry[t]
    <3> TAKE t \in Tokens
    <3>1. /\ entry[t] # "refused"
          /\ releases'[t] = IF t = cReq.token THEN releases[t] + 1 ELSE releases[t]
          /\ releases[t] \in Nat
      BY <1>0, <2>1 DEF BooksOK
    <3> QED BY <1>3, <3>1 DEF EntryFollows
  <2> QED BY <1>3, <1>s, <2>1, <2>2
<1>4. CASE ~RejectRequest /\ (AdmitMove \/ GrantMove)
  <2>1. UNCHANGED releases
    BY <1>4 DEF AdmitMove, GrantMove
  <2>2. \A t \in Tokens : entry'[t] = entry[t]
    BY <1>0, <1>4, <2>1 DEF EntryFollows
  <2>3. UNCHANGED entry
    BY <1>0, <1>f, <2>2 DEF BooksOK
  <2>4. GrantMove => Pledges(lease.token)
    BY <2>3, OwedFields DEF GrantMove, Pledges
  <2>5. AdmitMove => IF lease'.state = "ready" THEN Pledges(cReq.token) ELSE owed'.event = "none"
    BY <2>3, OwedFields DEF AdmitMove, Pledges
  <2> QED BY <1>4, <2>3, <2>4, <2>5
<1>6. CASE ~RejectRequest /\ (ResumeMove \/ CloseMove)
  <2>1. Held /\ lease.state # "resuming" /\ Counted(lease) /\ owed'.event = "none"
    BY <1>6, OwedFields DEF ResumeMove, CloseMove
  <2>2. ~lease.recorded /\ lease.token \in Tokens
    BY <1>0, <2>1 DEF LedgerInv, BooksSound
  <2>3. releases' = [releases EXCEPT ![lease.token] = @ + 1]
    BY <2>1, <2>2 DEF Counted
  <2>4. \A t \in Tokens : entry'[t] = IF t = lease.token THEN "settled" ELSE entry[t]
    <3> TAKE t \in Tokens
    <3>1. /\ entry[t] # "refused"
          /\ releases'[t] = IF t = lease.token THEN releases[t] + 1 ELSE releases[t]
          /\ releases[t] \in Nat
      BY <1>0, <2>1, <2>3 DEF BooksOK
    <3> QED BY <1>6, <3>1 DEF EntryFollows
  <2> QED BY <1>6, <1>s, <2>1, <2>4
<1> QED BY <1>1, <1>2, <1>3, <1>4, <1>6 DEF CoordMove, LeaseMove

(* While the coordinator is up, the token the arena measures under, or is    *)
(* about to, is that of a lease that is granted and that no move settles.    *)
LEMMA UserKept ==
    ASSUME EventInv, OwnInv, LedgerInv, ViewInv, CoordMove
    PROVE  /\ UNCHANGED <<oPid, oPc, oTok>> \/ oPc' \in {"none", "idle"}
           /\ (oPc = "body") <=> (oPc' = "body")
           /\ oPc \in {"granted", "body"} =>
                Held /\ lease.state = "ready" /\ lease.token = oTok
           /\ /\ ResumeMove \/ CloseMove
              /\ oPc' \in {"registered", "waitReady", "granted", "body"}
              => lease.token # oTok
           /\ RejectRequest \/ SettleEarly =>
                ~Held /\ cReq.token \in Tokens
                /\ (oPc \in {"registered", "waitReady"} => cReq.token # oTok)
<1> USE OwnTypes
<1>0. TypeOK /\ Up /\ NoToken = 0 /\ oTok \in Nat
  BY DEF EventInv, CoordMove, Up, NoToken
<1>1. UNCHANGED <<oPid, oPc, oTok>> \/ (oPc' \in {"none", "idle"} /\ oPc # "body")
  BY DEF CoordMove, OwnerMove, KeepOwner, SignalOwner, ReapOwner, StartOwner
<1>2. oPc \in {"granted", "body"} =>
        Held /\ lease.state = "ready" /\ lease.token = oTok
  BY <1>0 DEF OwnInv, GrantHeld, Held
<1>3. /\ ResumeMove \/ CloseMove
      /\ oPc' \in {"registered", "waitReady", "granted", "body"}
      => lease.token # oTok
  BY <1>1 DEF ResumeMove, CloseMove, AskingNext
<1>4. RejectRequest \/ SettleEarly => ~Held /\ cReq.token \in Tokens
  BY DEF RejectRequest, SettleEarly, Admissible, Withdrawn, EventInv
<1>5. ASSUME RejectRequest \/ SettleEarly, oPc \in {"registered", "waitReady"},
             cReq.token = oTok
      PROVE  FALSE
  <2>1. OwnerLive /\ oTok # NoToken /\ cReq.pid = oPid
    BY <1>0, <1>5 DEF OwnInv, TokensSeen, PidsSeen, OwnerLive
  <2>2. CASE RejectRequest
    BY <2>1, <2>2 DEF RejectRequest, Admissible, Withdrawn, ViewInv, RequestFresh,
       OwnerMatches
  <2>3. CASE SettleEarly
    BY <1>5, <2>3 DEF SettleEarly, Withdrawn, OwnInv, RequestTrue, Withdraws, Asking
  <2> QED BY <1>5, <2>2, <2>3
<1> QED BY <1>1, <1>2, <1>3, <1>4, <1>5

LEMMA ArenaBooksMoves ==
    ASSUME EventInv, OwnInv, LedgerInv, ViewInv, CoordMove, EntryFollows, TypeOK',
           UNCHANGED open
    PROVE  ArenaBooks'
<1> USE OwnTypes
<1>0. /\ TypeOK /\ BooksOK /\ Up /\ Up' /\ UNCHANGED lastTok /\ ArenaBooks
      /\ lastTok \in Nat /\ oTok \in Nat
      /\ Held => lease.token \in Tokens /\ lease.token <= lastTok
      /\ cReq.token <= lastTok
      /\ \A t \in Tokens : t \in Nat /\ t # NoToken
      /\ oPc \in {"registered", "waitReady", "granted", "body"} => oTok \in Tokens
      /\ owed.event = "none"
  BY Parts, BookTypes, OwedFields
  DEF EventInv, Evented, CoordMove, Up, ViewInv, OwnInv, TokensSeen, OwnerTokens
<1>1. /\ UNCHANGED <<oPid, oPc, oTok>> \/ oPc' \in {"none", "idle"}
      /\ oPc \in {"granted", "body"} =>
           Held /\ lease.state = "ready" /\ lease.token = oTok
      /\ /\ ResumeMove \/ CloseMove
         /\ oPc' \in {"registered", "waitReady", "granted", "body"}
         => lease.token # oTok
      /\ RejectRequest \/ SettleEarly =>
           ~Held /\ cReq.token \in Tokens
           /\ (oPc \in {"registered", "waitReady"} => cReq.token # oTok)
  BY UserKept
<1>2. CASE UNCHANGED entry /\ owed'.event = "none"
  BY <1>0, <1>1, <1>2 DEF ArenaBooks, Granted
<1>3. ASSUME NEW t \in Tokens, Pledges(t), t <= lastTok, Grantable(t),
             oPc \in {"granted", "body"} => oTok # t
      PROVE  ArenaBooks'
  BY <1>0, <1>1, <1>3 DEF ArenaBooks, Grantable, Granted, Pledges
<1>4. ASSUME NEW t \in Tokens, Settles(t), t <= lastTok,
             oPc' \in {"registered", "waitReady", "granted", "body"} => oTok # t
      PROVE  ArenaBooks'
  <2>1. \A u \in Tokens : entry'[u] = IF u = t THEN "settled" ELSE entry[u]
    BY <1>0, <1>4 DEF Settles, BooksOK
  <2> QED BY <1>0, <1>1, <1>4, <2>1 DEF ArenaBooks, Granted, Settles
<1>5. CASE AdmitMove /\ Pledges(cReq.token)
  BY <1>0, <1>1, <1>3, <1>5 DEF AdmitMove, ViewInv, AdmitBooks, EventInv
<1>6. CASE GrantMove /\ Pledges(lease.token)
  BY <1>0, <1>1, <1>3, <1>6 DEF GrantMove, ViewInv, HeldBooks, CoordMove
<1>7. CASE (RejectRequest \/ SettleEarly) /\ Settles(cReq.token)
  <2>1. oPc \in {"registered", "waitReady", "granted", "body"} => oTok # cReq.token
    BY <1>1, <1>7
  <2> QED BY <1>0, <1>1, <1>4, <1>7, <2>1
<1>8. CASE (ResumeMove \/ CloseMove) /\ Settles(lease.token)
  <2>1. Held
    BY <1>8 DEF ResumeMove, CloseMove
  <2> QED BY <1>0, <1>1, <1>4, <1>8, <2>1
<1> QED BY <1>2, <1>5, <1>6, <1>7, <1>8, EntryCases

LEMMA HeldBooksMoves ==
    ASSUME EventInv, OwnInv, LedgerInv, ViewInv, CoordMove, EntryFollows, TypeOK',
           UNCHANGED open
    PROVE  HeldBooks'
<1> USE OwnTypes
<1>0. /\ TypeOK /\ BooksOK /\ cPc # "down" /\ HeldBooks /\ NoLease.state = "none"
      /\ Held => lease.token \in Tokens
  BY Parts DEF EventInv, Evented, CoordMove, ViewInv, NoLease
<1>1. /\ UNCHANGED oPid \/ ~Held
  BY MoveOwner DEF CoordMove
<1>2. CASE UNCHANGED entry /\ (Quiet \/ Flagged \/ Refuse)
  BY <1>0, <1>1, <1>2, OwedFields
  DEF Quiet, Flagged, SameLease, Refuse, HeldBooks, Grantable, Granted, Held, CoordMove
<1>3. CASE ConfirmMove \/ DrainedMove \/ CloseMove \/ ResumeMove
  BY <1>0, <1>3 DEF ConfirmMove, DrainedMove, CloseMove, ResumeMove, HeldBooks, Held
<1>4. CASE AdmitMove
  <2>1. Grantable(cReq.token) /\ KeepOwner /\ lease'.token = cReq.token
        /\ cReq.token \in Tokens
    BY <1>4 DEF AdmitMove, ViewInv, AdmitBooks, EventInv
  <2>2. CASE UNCHANGED entry /\ lease'.state # "ready"
    BY <2>1, <2>2 DEF HeldBooks, Grantable, KeepOwner
  <2>3. CASE lease'.state = "ready" /\ Pledges(cReq.token)
    BY <1>0, <2>1, <2>3 DEF HeldBooks, Pledges, Granted
  <2>4. ~RejectRequest /\ ~SettleEarly /\ ~GrantMove /\ ~ResumeMove /\ ~CloseMove
        /\ ~Quiet /\ ~Flagged /\ ~Refuse /\ ~ConfirmMove /\ ~DrainedMove
    BY <1>0, <1>4 DEF AdmitMove, RejectRequest, SettleEarly, GrantMove, ResumeMove, CloseMove,
       Quiet, Flagged, Refuse, ConfirmMove, DrainedMove, Held
  <2> QED BY <2>2, <2>3, <2>4, EntryCases
<1>5. CASE GrantMove /\ Pledges(lease.token)
  BY <1>0, <1>5 DEF GrantMove, Pledges, HeldBooks, Granted
<1>6. CASE RejectRequest \/ SettleEarly
  BY <1>6 DEF RejectRequest, SettleEarly, HeldBooks, Held
<1> QED BY <1>2, <1>3, <1>4, <1>5, <1>6, EntryCases

LEMMA ViewMoves ==
    ASSUME EventInv, OwnInv, LedgerInv, ViewInv,
           CoordReconcile \/ TargetStep \/ OwnerMonitorStep
    PROVE  ViewInv'
<1>1. /\ TypeOK /\ CoordMove /\ EntryFollows /\ TypeOK' /\ UNCHANGED open
  BY CoordMoves, ReconcileEntry, MonitorEntry, NextTypes, LoopKeeps
  DEF EventInv, Next, CoordNext, TargetStep, OwnerMonitorStep
<1>2. RequestFresh' /\ AdmitBooks'
  BY <1>1 DEF CoordMove, ViewInv, RequestFresh, AdmitBooks
<1>3. DebtBooks'
  <2>1. owed'.event \in {"none", "ready"}
    BY <1>1, OwedFields DEF CoordMove, LeaseMove, Quiet, Flagged, Refuse, SettleEarly, AdmitMove,
       GrantMove, ResumeMove, CloseMove, ConfirmMove, DrainedMove
  <2>2. CASE AdmitMove /\ Pledges(cReq.token)
    <3>1. Grantable(cReq.token) /\ KeepOwner
      BY <2>2 DEF AdmitMove, ViewInv, AdmitBooks
    <3> QED BY <1>1, <2>2, <3>1 DEF DebtBooks, Grantable, Pledges, KeepOwner
  <2>3. CASE GrantMove /\ Pledges(lease.token)
    <3>1. Grantable(lease.token) /\ KeepOwner
      BY <1>1, <2>3 DEF GrantMove, ViewInv, HeldBooks, CoordMove
    <3> QED BY <1>1, <2>3, <3>1 DEF DebtBooks, Grantable, Pledges, KeepOwner
  <2>4. CASE owed'.event = "none"
    BY <2>4 DEF DebtBooks
  <2> QED BY <1>1, <2>1, <2>2, <2>3, <2>4, EntryCases DEF Settles
<1> QED BY <1>1, <1>2, <1>3, ArenaBooksMoves, HeldBooksMoves DEF ViewInv

(* The arena's ledger keeps every registration that the journal has not      *)
(* settled and whose process lives.                                          *)
LEMMA RegistrationKept ==
    ASSUME TypeOK, OwnerNext, NEW t \in Tokens, open.tok = t,
           entry[t] = "ready" \/ (entry[t] = "none" /\ open.pid = oPid)
    PROVE  open' = open
<1>0. OwnerLive
  BY DEF OwnerLive, OwnerNext, OwnerStep, OwnerRegister, OwnerBlocked, OwnerRequest,
     OwnerHeartbeat, OwnerSeesReady, OwnerActivate, OwnerCancel, OwnerRelease,
     OwnerReleased, OwnerFails, OwnerStops, OwnerKilled, OwnerCrash
<1>1. Refreshed(open) = open /\ Reconciled(open) = open /\ open # NoOpen
  <2>1. open.tok # NoToken /\ NoOpen.tok = NoToken
    BY BookTypes DEF NoOpen, NoToken
  <2> QED BY <1>0, <2>1 DEF Refreshed, Reconciled
<1> QED BY <1>1 DEF OwnerNext, OwnerStep, OwnerRegister, OwnerBlocked, OwnerRequest,
        OwnerHeartbeat, OwnerSeesReady, OwnerActivate, OwnerCancel, OwnerRelease,
        OwnerReleased, OwnerFails, OwnerStops, OwnerKilled, OwnerCrash, ownerVars

LEMMA ViewArena ==
    ASSUME EventInv, OwnInv, LedgerInv, ViewInv, OwnerNext PROVE ViewInv'
<1> USE OwnTypes
<1>0. /\ TypeOK /\ lastTok \in Nat /\ UNCHANGED <<ack, cReq, lease, cPc, oPid, entry, owed>>
      /\ Up' = Up /\ Held' = Held
      /\ \A t \in Tokens : t \in Nat /\ entry[t] # "refused"
      /\ Held => lease.token \in Tokens
      /\ cReq.state = "requested" => cReq.token \in Tokens
      /\ oPc \in {"registered", "waitReady", "granted", "body"} => oTok \in Tokens
  BY BookTypes, OwnerKept DEF EventInv, Evented, OwnerTokens, Up, Held, LedgerInv, BooksSound,
     OwnerFrame, books, OwnerNext, OwnerStep,
     OwnerRegister, OwnerBlocked, OwnerRequest, OwnerHeartbeat, OwnerSeesReady,
     OwnerActivate, OwnerCancel, OwnerRelease, OwnerReleased, OwnerFails,
     OwnerStops, OwnerKilled, OwnerCrash
<1>1. OwnerLive /\ (oStop' <=> oStop) /\ oStop \in BOOLEAN
  BY <1>0 DEF TypeOK, OwnerOK, OwnerLive, ownerVars, OwnerNext, OwnerStep,
     OwnerRegister, OwnerBlocked, OwnerRequest, OwnerHeartbeat, OwnerSeesReady,
     OwnerActivate, OwnerCancel, OwnerRelease, OwnerReleased, OwnerFails,
     OwnerStops, OwnerKilled, OwnerCrash
<1>2. RequestFresh'
  <2>1. req' = req \/ req'.fresh
    BY DEF Written, files, OwnerNext, OwnerStep,
       OwnerRegister, OwnerBlocked, OwnerRequest, OwnerHeartbeat, OwnerSeesReady,
       OwnerActivate, OwnerCancel, OwnerRelease, OwnerReleased, OwnerFails,
       OwnerStops, OwnerKilled, OwnerCrash
  <2> QED BY <1>0, <2>1 DEF ViewInv, RequestFresh
<1>3. ASSUME NEW t \in Tokens, Grantable(t) PROVE Grantable(t)'
  BY <1>0, <1>3, RegistrationKept DEF Grantable
<1>4. HeldBooks'
  <2>1. CASE Held
    <3>1. PICK t \in Tokens : t = lease.token
      BY <1>0, <2>1
    <3>2. Grantable(t) => Grantable(t)'
      BY <1>3
    <3> QED BY <1>0, <2>1, <3>1, <3>2 DEF ViewInv, HeldBooks, Grantable, Granted
  <2> QED BY <1>0, <2>1 DEF HeldBooks
<1>5. AdmitBooks'
  <2>1. CASE cReq.state = "requested" /\ OwnerMatches
    <3>1. PICK t \in Tokens : t = cReq.token
      BY <1>0, <2>1
    <3>2. Grantable(t) => Grantable(t)'
      BY <1>3
    <3> QED BY <1>0, <2>1, <3>1, <3>2 DEF ViewInv, AdmitBooks, Grantable
  <2> QED BY <1>0, <1>1, <2>1 DEF AdmitBooks, OwnerMatches
<1>6. ASSUME NEW t \in Tokens, Granted(t) PROVE open'.tok = t
  <2>1. open.tok = t
    BY <1>6 DEF ViewInv, ArenaBooks
  <2>2. entry[t] = "ready" \/ (entry[t] = "none" /\ open.pid = oPid)
    BY <1>6 DEF Granted, ViewInv, DebtBooks, Grantable
  <2> QED BY <1>0, <2>1, <2>2, RegistrationKept
<1>d. DebtBooks'
  <2>1. CASE owed.event = "ready"
    <3>1. PICK t \in Tokens : t = owed.token
      BY <2>1 DEF EventInv, OwedTrue
    <3>2. Grantable(t)'
      BY <1>3, <2>1, <3>1 DEF ViewInv, DebtBooks
    <3> QED BY <1>0, <2>1, <3>1, <3>2 DEF DebtBooks, Grantable
  <2>2. CASE owed.event # "ready"
    BY <1>0, <1>1, <2>2 DEF ViewInv, DebtBooks, OwnerLive
  <2> QED BY <2>1, <2>2
<1>7. ArenaBooks'
  <2> USE DEF ArenaBooks, Granted
  <2>0. ArenaBooks /\ (OwnerLive /\ ~Up => oStop)
    BY DEF ViewInv
  <2>1. CASE OwnerRegister
    <3>1. /\ lastTok' = lastTok + 1 /\ oTok' = lastTok + 1 /\ oPc' = "registered"
          /\ open' = [tok |-> lastTok + 1, pid |-> oPid]
          /\ lastTok + 1 \in Tokens
      BY <1>0, <2>1, PauseConstants DEF OwnerRegister, Tokens
    <3>2. entry[lastTok + 1] = "none"
      BY <1>0, <2>0, <3>1
    <3> QED BY <1>0, <1>1, <1>6, <2>0, <3>1, <3>2
  <2>2. CASE OwnerSeesReady
    <3>1. /\ oPc = "waitReady" /\ ~oStop /\ oPc' = "granted" /\ ack.token = oTok
          /\ ack.state = "ready" /\ UNCHANGED <<oTok, lastTok, open>>
      BY <2>2 DEF OwnerSeesReady, OwnAck
    <3>2. Up
      BY <1>1, <2>0, <3>1
    <3>3. lease.token = oTok /\ lease.state = "ready" /\ Held /\ cPc # "down"
      BY <3>1, <3>2 DEF OwnInv, GrantHeld, Held, Up
    <3>4. Granted(oTok)
      BY <3>3 DEF ViewInv, HeldBooks
    <3> QED BY <1>0, <1>1, <1>6, <2>0, <3>1, <3>4
  <2>3. CASE ~OwnerRegister /\ ~OwnerSeesReady
    <3>1. /\ UNCHANGED <<oTok, lastTok>>
          /\ oPc' \in {"registered", "waitReady"} => oPc \in {"registered", "waitReady"}
          /\ oPc' \in {"granted", "body"} => oPc \in {"granted", "body"}
      BY <2>3 DEF OwnerNext, OwnerStep, OwnerBlocked, OwnerRequest, OwnerHeartbeat,
         OwnerActivate, OwnerCancel, OwnerRelease, OwnerReleased, OwnerFails,
         OwnerStops, OwnerKilled, OwnerCrash, OwnerEnds, ownerVars
    <3>2. oPc' \in {"registered", "waitReady", "granted", "body"} => UNCHANGED open
      BY <2>3 DEF OwnerNext, OwnerStep, OwnerBlocked, OwnerRequest, OwnerHeartbeat,
         OwnerActivate, OwnerCancel, OwnerRelease, OwnerReleased, OwnerFails,
         OwnerStops, OwnerKilled, OwnerCrash, OwnerEnds, ownerVars
    <3> QED BY <1>0, <1>1, <1>6, <2>0, <3>1, <3>2
  <2> QED BY <2>1, <2>2, <2>3
<1> QED BY <1>2, <1>4, <1>5, <1>7, <1>d DEF ViewInv

LEMMA ViewReads ==
    ASSUME "stale" \notin Faults, EventInv, OwnInv, LedgerInv, ViewInv,
           \/ CoordRead \/ BeginDrain \/ EndLoop \/ StopAll \/ StopKill
           \/ ActorNext \/ GoStale \/ RequestVanishes \/ UNCHANGED vars
    PROVE  ViewInv'
<1> USE OwnTypes
<1>0. TypeOK /\ lease \in Lease /\ NoRequest.state = "none"
  BY Parts DEF EventInv, NoRequest
<1>1. UNCHANGED <<entry, open, oPid, oPc, oTok, lastTok>>
  BY DEF ActorNext, ActorFrame, CohortPark, CohortUnpark, CohortSubmit, CohortFinish,
     BrokerIdle, PollRead, Poll, Publish, ActorHeartbeat, ControlFails, ActorExit,
     ActorKilled, ActorCrash, GoStale, RequestVanishes, vars, ownerVars, books,
     CoordRead, BeginDrain, EndLoop, StopAll, StopKill, KeepFlags, CoordFrame, KeepOwner,
     SignalOwner
<1>o. UNCHANGED owed
  BY DEF ActorNext, ActorFrame, CohortPark, CohortUnpark, CohortSubmit, CohortFinish,
     BrokerIdle, PollRead, Poll, Publish, ActorHeartbeat, ControlFails, ActorExit,
     ActorKilled, ActorCrash, GoStale, RequestVanishes, vars, coordVars,
     CoordRead, BeginDrain, EndLoop, StopAll, StopKill
<1>2. lease' \in {lease, [lease EXCEPT !.suspended = FALSE]}
  BY DEF ActorNext, ActorFrame, CohortPark, CohortUnpark, CohortSubmit, CohortFinish,
     BrokerIdle, PollRead, Poll, Publish, ActorHeartbeat, ControlFails, ActorExit,
     ActorKilled, ActorCrash, GoStale, RequestVanishes, vars, coordVars,
     CoordRead, BeginDrain, EndLoop, StopAll, StopKill
<1>3. lease'.token = lease.token /\ lease'.state = lease.state
  BY <1>0, <1>2 DEF Lease
<1>4. \/ CoordRead
      \/ UNCHANGED <<cPc, cReq>>
      \/ cPc = "read" /\ cPc' = "stop" /\ cReq' = cReq
      \/ cPc = "stop" /\ cPc' = "stopTerm" /\ cReq' = cReq /\ SignalOwner
      \/ cPc = "stopTerm" /\ cPc' = "stopKill" /\ cReq' = cReq /\ KeepOwner
  BY DEF ActorNext, ActorFrame, CohortPark, CohortUnpark, CohortSubmit, CohortFinish,
     BrokerIdle, PollRead, Poll, Publish, ActorHeartbeat, ControlFails, ActorExit,
     ActorKilled, ActorCrash, GoStale, RequestVanishes, vars, coordVars,
     CoordRead, BeginDrain, EndLoop, StopAll, StopKill, KeepFlags
<1>5. req' = req \/ (req' = NoRequest)
  BY DEF ActorNext, ActorFrame, CohortPark, CohortUnpark, CohortSubmit, CohortFinish,
     BrokerIdle, PollRead, Poll, Publish, ActorHeartbeat, ControlFails, ActorExit,
     ActorKilled, ActorCrash, GoStale, RequestVanishes, vars, files, CoordFrame, KeepFlags,
     CoordRead, BeginDrain, EndLoop, StopAll, StopKill
<1>6. oStop' = oStop \/ SignalOwner
  BY DEF ActorNext, ActorFrame, CohortPark, CohortUnpark, CohortSubmit, CohortFinish,
     BrokerIdle, PollRead, Poll, Publish, ActorHeartbeat, ControlFails, ActorExit,
     ActorKilled, ActorCrash, GoStale, RequestVanishes, vars, ownerVars, KeepOwner,
     CoordRead, BeginDrain, EndLoop, StopAll, StopKill
<1>7. (OwnerLive /\ ~Up => oStop)'
  <2>1. CASE SignalOwner
    BY <1>1, <2>1 DEF SignalOwner, OwnerLive
  <2>2. CASE oStop' = oStop /\ ~SignalOwner
    <3>1. Up' \/ ~Up
      BY <1>4, <2>2 DEF Up, CoordRead
    <3> QED BY <1>1, <2>2, <3>1 DEF ViewInv, ArenaBooks, OwnerLive
  <2> QED BY <1>6, <2>1, <2>2
<1>8. ArenaBooks'
  BY <1>1, <1>7, <1>o DEF ViewInv, ArenaBooks, Granted
<1>9. HeldBooks'
  BY <1>1, <1>3, <1>4, <1>o DEF ViewInv, HeldBooks, Grantable, Granted, Held, CoordRead
<1>d. DebtBooks'
  BY <1>1, <1>o DEF ViewInv, DebtBooks, Grantable
<1>10. CASE CoordRead
  <2>1. /\ cReq' = req /\ req' = req /\ cPc = "read" /\ lease' = lease
    BY <1>10 DEF CoordRead, files
  <2>2. ASSUME ~Held, req.state = "requested", OwnerLive, oPid = req.pid
        PROVE  Grantable(req.token)
    <3>1. Asking(req.token) /\ req.token \in Tokens
      BY <1>0, <2>2 DEF OwnInv, RequestTrue, EventInv, OwnerTokens
    <3>2. oPc \in {"registered", "waitReady"} /\ oTok = req.token
      BY <2>1, <2>2, <3>1 DEF Asking, OwnInv, GrantHeld, Up, Held
    <3>3. entry[oTok] \in Entries /\ entry[oTok] # "refused" /\ entry[oTok] # "ready"
      BY <1>0, <2>1, <2>2, <3>1, <3>2 DEF LedgerInv, BooksSound, TypeOK, BooksOK
    <3> QED BY <3>2, <3>3 DEF ViewInv, ArenaBooks, Grantable, Entries
  <2>3. AdmitBooks'
    BY <1>1, <2>1, <2>2 DEF AdmitBooks, Held, OwnerMatches, OwnerLive, Grantable
  <2> QED BY <1>8, <1>9, <1>d, <2>1, <2>3 DEF ViewInv, RequestFresh
<1>11. CASE ~CoordRead
  <2>1. AdmitBooks'
    BY <1>1, <1>3, <1>4, <1>11
    DEF ViewInv, AdmitBooks, Held, OwnerMatches, OwnerLive, Grantable
  <2>2. RequestFresh'
    BY <1>0, <1>4, <1>5, <1>11 DEF ViewInv, RequestFresh
  <2> QED BY <1>8, <1>9, <1>d, <2>1, <2>2 DEF ViewInv
<1> QED BY <1>10, <1>11

(* The shutdown settles at most one token with its first write, when the     *)
(* arena is collected.                                                       *)
LEMMA ReapBooks ==
    ASSUME EventInv, OwnInv, LedgerInv, StopReap
    PROVE  \/ UNCHANGED entry
           \/ /\ oPc' = "none"
              /\ \E t \in Tokens : t <= lastTok /\ entry' = [entry EXCEPT ![t] = "settled"]
<1> USE OwnTypes
<1> DEFINE reapedNow == oPc = "exited" /\ oPc' = "none"
           settles == Held /\ \/ lease.ownerReaped /\ oPc' = "none"
                              \/ reapedNow /\ lease.pid = oPid
           late == reapedNow /\ LateRequest
           first == settles /\ ~lease.recorded
<1>0. \A t \in Tokens : entry[t] \in Entries /\ entry[t] # "refused"
  BY DEF EventInv, TypeOK, BooksOK, LedgerInv, BooksSound
<1>1. CASE first
  <2>1. entry' = [entry EXCEPT ![lease.token] = NextEntry(@, "released")]
    BY <1>1, JournalCounts DEF StopReap
  <2>2. lease.token \in Tokens /\ lease.token <= lastTok
    BY <1>1 DEF EventInv, Evented, OwnInv, TokensSeen
  <2>3. NextEntry(entry[lease.token], "released") = "settled"
    BY <1>0, <2>2, NextEntries
  <2>4. entry' = [entry EXCEPT ![lease.token] = "settled"]
    BY <2>1, <2>3
  <2> QED BY <1>1, <2>2, <2>4
<1>2. CASE ~first /\ late
  <2>1. entry' = [entry EXCEPT ![req.token] = NextEntry(@, "released")]
    BY <1>2, JournalCounts DEF StopReap
  <2>2. req.token \in Tokens /\ req.token <= lastTok
    BY <1>2 DEF LateRequest, EventInv, OwnerTokens, OwnInv, TokensSeen
  <2>3. NextEntry(entry[req.token], "released") = "settled"
    BY <1>0, <2>2, NextEntries
  <2>4. entry' = [entry EXCEPT ![req.token] = "settled"]
    BY <2>1, <2>3
  <2> QED BY <1>2, <2>2, <2>4
<1>3. CASE ~first /\ ~late
  BY <1>3 DEF StopReap, books
<1> QED BY <1>1, <1>2, <1>3

LEMMA ViewEnds ==
    ASSUME Orderly, EventInv, OwnInv, LedgerInv, ViewInv,
           StopReap \/ HostCrash \/ CoordStart
    PROVE  ViewInv'
<1> USE OwnTypes
<1>0. /\ TypeOK /\ UNCHANGED <<req, lastTok, open>> /\ NoRequest.state = "none"
      /\ NoLease.state = "none"
      /\ \A t \in Tokens : t \in Nat
  BY BookTypes DEF EventInv, StopReap, HostCrash, CoordStart, KeepFlags, CoordFrame, files,
     NoRequest, NoLease
<1>1. CASE StopReap
  <2>1. /\ cPc' = "down" /\ ~Up /\ ~Up' /\ UNCHANGED <<cReq, oTok, oStop, oPid>>
        /\ oPc' = oPc \/ oPc' = "none"
    BY <1>1 DEF StopReap, KeepFlags, KeepOwner, ReapOwner, Up
  <2>2. /\ owed.event = "none" /\ owed'.event # "ready"
        /\ owed'.event = "released" => oPc' = "none" /\ owed'.token <= lastTok
    BY <1>1, OwedFields DEF StopReap, EventInv, OwedWhen, OwnInv, TokensSeen
  <2>3. /\ \A t \in Tokens : entry'[t] \in {entry[t], "settled"}
                             /\ (entry'[t] # entry[t] => t <= lastTok /\ oPc' = "none")
    BY <1>0, <1>1, ReapBooks DEF TypeOK, BooksOK
  <2>4. oPc \in {"registered", "waitReady", "granted", "body"} => oTok \in Tokens
    BY DEF EventInv, OwnerTokens
  <2>5. ArenaBooks'
    BY <1>0, <2>1, <2>2, <2>3, <2>4 DEF ViewInv, ArenaBooks, OwnerLive, Granted
  <2> QED BY <1>0, <2>1, <2>2, <2>5
      DEF ViewInv, RequestFresh, HeldBooks, AdmitBooks, DebtBooks
<1>2. CASE HostCrash
  <2>1. /\ cPc' = "down" /\ ~Up' /\ oPc' = "none" /\ UNCHANGED <<cReq, entry>>
        /\ owed'.event = "none"
    BY <1>2, OwedFields DEF HostCrash, books, Up
  <2>2. ArenaBooks'
    BY <1>0, <2>1 DEF ViewInv, ArenaBooks, OwnerLive, Granted
  <2> QED BY <1>0, <2>1, <2>2
      DEF ViewInv, RequestFresh, HeldBooks, AdmitBooks, DebtBooks
<1>3. CASE CoordStart
  <2>1. /\ cPc' = "read" /\ Up' /\ oPc' = "idle" /\ cReq' = NoRequest /\ lease' = NoLease
        /\ UNCHANGED <<entry, owed>> /\ owed.event = "none"
    BY <1>3, OwedFields DEF CoordStart, StartOwner, books, Up
  <2>2. ArenaBooks'
    BY <1>0, <2>1 DEF ViewInv, ArenaBooks, Granted
  <2> QED BY <1>0, <2>1, <2>2
      DEF ViewInv, RequestFresh, HeldBooks, AdmitBooks, DebtBooks, Held
<1> QED BY <1>1, <1>2, <1>3

(* The second write of a step: the ready event that was owed, or the release *)
(* of a request that came too late for a coordinator that has shut down.     *)
LEMMA WriteBooks ==
    ASSUME EventInv, LedgerInv, ViewInv, WriteEvent
    PROVE  /\ owed.token \in Tokens /\ owed'.event = "none"
           /\ \/ /\ owed.event = "ready" /\ entry[owed.token] = "none"
                 /\ entry' = [entry EXCEPT ![owed.token] = "ready"]
              \/ /\ owed.event = "released" /\ cPc = "down" /\ oPc = "none"
                 /\ entry' = [entry EXCEPT ![owed.token] = "settled"]
<1>0. /\ entry \in [Tokens -> Entries] /\ owed'.event = "none" /\ owed.token \in Tokens
      /\ entry[owed.token] \in Entries /\ entry[owed.token] # "refused"
  BY OwedFields DEF EventInv, TypeOK, BooksOK, WriteEvent, OwedTrue, LedgerInv, BooksSound
<1>1. CASE owed.event = "ready"
  <2>1. entry' = [entry EXCEPT ![owed.token] = NextEntry(@, "ready")]
    BY <1>1, JournalCounts DEF WriteEvent
  <2>2. entry[owed.token] = "none"
    BY <1>1 DEF ViewInv, DebtBooks, Grantable
  <2>3. NextEntry(entry[owed.token], "ready") = "ready"
    BY <1>0, <2>2, NextEntries
  <2> QED BY <1>0, <1>1, <2>1, <2>2, <2>3
<1>2. CASE owed.event = "released"
  <2>1. entry' = [entry EXCEPT ![owed.token] = NextEntry(@, "released")]
    BY <1>2, JournalCounts DEF WriteEvent
  <2>2. NextEntry(entry[owed.token], "released") = "settled"
    BY <1>0, NextEntries
  <2> QED BY <1>0, <1>2, <2>1, <2>2 DEF ViewInv, DebtBooks, EventInv, OwedTrue
<1> QED BY <1>1, <1>2 DEF WriteEvent, EventInv, OwedTrue

LEMMA ViewWrites ==
    ASSUME EventInv, OwnInv, LedgerInv, ViewInv, WriteEvent \/ WriteAck PROVE ViewInv'
<1> USE OwnTypes
<1>0. /\ TypeOK /\ entry \in [Tokens -> Entries] /\ owed'.event = "none"
      /\ UNCHANGED <<req, cReq, lease, cPc, oPid, oPc, oTok, oStop, lastTok, open>>
      /\ Up' = Up /\ Held' = Held /\ OwnerMatches' = OwnerMatches /\ OwnerLive' = OwnerLive
  BY OwedFields
  DEF EventInv, TypeOK, BooksOK, WriteEvent, WriteAck, KeepWorkers, KeepOwner, KeepThread,
      KeepLoop, CoordFrame, Up, Held, OwnerMatches, OwnerLive
<1>1. RequestFresh' /\ DebtBooks'
  BY <1>0 DEF ViewInv, RequestFresh, DebtBooks
<1>2. CASE WriteAck
  <2>1. UNCHANGED entry /\ owed.event = "none"
    BY <1>2 DEF WriteAck, books, EventInv, OwedTrue
  <2> QED BY <1>0, <1>1, <2>1 DEF ViewInv, ArenaBooks, HeldBooks, AdmitBooks, Granted, Grantable
<1>3. CASE WriteEvent /\ owed.event = "ready"
  <2>1. /\ owed.token \in Tokens /\ \A t \in Tokens :
             entry'[t] = IF t = owed.token THEN "ready" ELSE entry[t]
    BY <1>0, <1>3, WriteBooks
  <2>2. /\ Held /\ lease.state = "ready" /\ lease.token = owed.token
        /\ open = [tok |-> owed.token, pid |-> oPid] /\ entry[owed.token] = "none"
    BY <1>3 DEF EventInv, OwedTrue, Held, ViewInv, DebtBooks, Grantable
  <2>3. \A t \in Tokens : Granted(t)' = Granted(t)
    BY <1>0, <1>3, <2>1 DEF Granted
  <2>4. /\ oPc \in {"registered", "waitReady", "granted", "body"} => oTok \in Tokens
        /\ owed.token <= lastTok
    BY <2>2 DEF EventInv, OwnerTokens, OwnInv, TokensSeen
  <2>5. ArenaBooks'
    <3>1. \A t \in Tokens : t > lastTok => entry'[t] = "none"
      BY <1>0, <2>1, <2>4, BookTypes DEF ViewInv, ArenaBooks
    <3>2. oPc \in {"granted", "body"} => Granted(oTok)'
      <4>1. ASSUME oPc \in {"granted", "body"} PROVE Granted(oTok)'
        <5>1. PICK t \in Tokens : t = oTok
          BY <2>4, <4>1
        <5>2. Granted(t)'
          BY <2>3, <4>1, <5>1 DEF ViewInv, ArenaBooks
        <5> QED BY <1>0, <5>1, <5>2 DEF Granted
      <4> QED BY <4>1
    <3>3. oPc \in {"registered", "waitReady"} => entry'[oTok] # "settled"
      BY <2>1, <2>4 DEF ViewInv, ArenaBooks
    <3> QED BY <1>0, <2>3, <3>1, <3>2, <3>3 DEF ViewInv, ArenaBooks
  <2>6. HeldBooks' /\ AdmitBooks'
    BY <1>0, <2>1, <2>2 DEF HeldBooks, AdmitBooks, Granted
  <2> QED BY <1>1, <2>5, <2>6 DEF ViewInv
<1>4. CASE WriteEvent /\ owed.event = "released"
  <2>1. /\ owed.token \in Tokens /\ cPc = "down" /\ oPc = "none" /\ owed.token <= lastTok
        /\ \A t \in Tokens : entry'[t] = IF t = owed.token THEN "settled" ELSE entry[t]
    BY <1>0, <1>4, WriteBooks DEF ViewInv, DebtBooks
  <2>2. ArenaBooks'
    BY <1>0, <2>1, BookTypes DEF ViewInv, ArenaBooks, Granted, OwnerLive
  <2> QED BY <1>0, <1>1, <2>1, <2>2 DEF ViewInv, HeldBooks, AdmitBooks
<1> QED BY <1>2, <1>3, <1>4 DEF WriteEvent, EventInv, OwedTrue

LEMMA ViewInductive ==
    ASSUME Orderly, "stale" \notin Faults
    PROVE  Spec => [](EventInv /\ OwnInv /\ LedgerInv /\ ViewInv)
<1>1. Init => ViewInv
  BY BookTypes, OwedFields DEF Init, ViewInv, ArenaBooks, RequestFresh, HeldBooks, AdmitBooks, DebtBooks,
     Granted, Held, Up, OwnerLive, NoLease, NoRequest
<1>2. EventInv /\ OwnInv /\ LedgerInv /\ ViewInv /\ [Next]_vars => ViewInv'
  <2> SUFFICES ASSUME EventInv, OwnInv, LedgerInv, ViewInv, [Next]_vars PROVE ViewInv'
    OBVIOUS
  <2>1. CASE CoordReconcile \/ TargetStep \/ OwnerMonitorStep
    BY <2>1, ViewMoves
  <2>2. CASE OwnerNext
    BY <2>2, ViewArena
  <2>3. CASE \/ CoordRead \/ BeginDrain \/ EndLoop \/ StopAll \/ StopKill
             \/ ActorNext \/ GoStale \/ RequestVanishes \/ UNCHANGED vars
    BY <2>3, ViewReads
  <2>4. CASE StopReap \/ HostCrash \/ CoordStart
    BY <2>4, ViewEnds
  <2>5. CASE WriteEvent \/ WriteAck
    BY <2>5, ViewWrites
  <2> QED BY <2>1, <2>2, <2>3, <2>4, <2>5 DEF Next, CoordNext, TargetStep, OwnerMonitorStep
<1> QED BY <1>1, <1>2, LedgerInductive, PTL DEF Spec

(* The step simulation.  A registration, a grant and its record, entering and*)
(* leaving the body, settling and the loss of the machine are the abstract   *)
(* steps; everything else is a stutter.                                      *)
MeasuresUnder == IF oPc = "body" THEN oTok ELSE NoToken
Pledged == IF owed.event = "ready" THEN owed.token ELSE NoToken

LEMMA GrantedTokens ==
    /\ Ledger!Outstanding = {t \in Tokens : Granted(t)}
    /\ owed.event = "none" => Pledged = NoToken /\ (\A t : Granted(t) <=> entry[t] = "ready")
<1>1. \A t \in Tokens : t # NoToken
  BY PauseConstants DEF Tokens, NoToken
<1> QED BY <1>1 DEF Ledger!Outstanding, Granted, Pledged

LEMMA ViewCoordinator ==
    ASSUME EventInv, OwnInv, LedgerInv, ViewInv,
           CoordReconcile \/ TargetStep \/ OwnerMonitorStep
    PROVE  [Ledger!Next]_(Ledger!vars)
<1> USE OwnTypes
<1>0. /\ TypeOK /\ CoordMove /\ EntryFollows /\ TypeOK' /\ BooksOK
      /\ Held => lease.token \in Tokens
      /\ NoToken = 0 /\ \A t \in Tokens : t \in Nat /\ t # 0
  BY CoordMoves, ReconcileEntry, MonitorEntry, NextTypes, Parts, BookTypes
  DEF EventInv, Evented, Next, CoordNext, TargetStep, OwnerMonitorStep, NoToken
<1>1. /\ UNCHANGED <<lastTok, MeasuresUnder>> /\ cPc # "down"
      /\ lease.token <= lastTok /\ cReq.token <= lastTok /\ lastTok \in Nat
      /\ oPc = "body" => Held /\ lease.state = "ready" /\ lease.token = oTok
      /\ Pledged = 0 /\ owed.event = "none"
  BY <1>0, UserKept, OwedFields DEF CoordMove, MeasuresUnder, Pledged, OwnInv, TokensSeen
<1>2. CASE UNCHANGED entry /\ owed'.event = "none"
  <2>1. UNCHANGED Pledged
    BY <1>1, <1>2 DEF Pledged
  <2> QED BY <1>1, <1>2, <2>1 DEF Ledger!vars, MeasuresUnder, Pledged
<1>3. ASSUME NEW t \in Tokens, Pledges(t), t <= lastTok, entry[t] = "none",
             ~(Held /\ lease.state = "ready")
      PROVE  Ledger!Next
  <2>1. \A u \in Tokens : entry[u] # "ready"
    BY <1>1, <1>3 DEF LedgerInv, BooksSound
  <2>2. Ledger!Outstanding = {}
    BY <1>1, <2>1, GrantedTokens
  <2>3. t \in 1..lastTok
    BY <1>0, <1>1, <1>3
  <2>4. MeasuresUnder = 0
    BY <1>0, <1>1, <1>3 DEF MeasuresUnder
  <2>5. Pledged' = t
    BY <1>3 DEF Pledges, Pledged
  <2>6. Ledger!Grant(t)
    BY <1>1, <1>3, <2>2, <2>3, <2>4, <2>5
    DEF Ledger!Grant, Pledges, MeasuresUnder, Pledged
  <2> QED BY <2>6 DEF Ledger!Next
<1>4. ASSUME NEW t \in Tokens, Settles(t), t <= lastTok, MeasuresUnder # t
      PROVE  Ledger!Next
  <2>1. t \in 1..lastTok
    BY <1>0, <1>1, <1>4
  <2>2. UNCHANGED Pledged /\ Pledged # t
    BY <1>0, <1>1, <1>4 DEF Settles, Pledged
  <2>3. Ledger!Settle(t)
    BY <1>1, <1>4, <2>1, <2>2 DEF Ledger!Settle, Settles, MeasuresUnder, Pledged
  <2> QED BY <2>3 DEF Ledger!Next
<1>5. CASE AdmitMove /\ Pledges(cReq.token)
  BY <1>1, <1>3, <1>5 DEF AdmitMove, EventInv, ViewInv, AdmitBooks, Grantable
<1>6. CASE GrantMove /\ Pledges(lease.token)
  BY <1>0, <1>1, <1>3, <1>6 DEF GrantMove, ViewInv, HeldBooks, Grantable
<1>7. CASE (RejectRequest \/ SettleEarly) /\ Settles(cReq.token)
  <2>1. ~Held /\ cReq.token \in Tokens
    BY <1>0, <1>7, UserKept
  <2>2. MeasuresUnder # cReq.token
    BY <1>0, <1>1, <2>1 DEF MeasuresUnder
  <2> QED BY <1>1, <1>4, <1>7, <2>1, <2>2
<1>8. CASE (ResumeMove \/ CloseMove) /\ Settles(lease.token)
  <2>1. Held
    BY <1>8 DEF ResumeMove, CloseMove
  <2>2. MeasuresUnder # lease.token
    BY <1>0, <1>8, <2>1, UserKept DEF MeasuresUnder
  <2> QED BY <1>0, <1>1, <1>4, <1>8, <2>1, <2>2
<1> QED BY <1>0, <1>2, <1>5, <1>6, <1>7, <1>8, EntryCases

LEMMA ViewOwner ==
    ASSUME EventInv, OwnInv, LedgerInv, ViewInv, OwnerNext
    PROVE  [Ledger!Next]_(Ledger!vars)
<1> USE OwnTypes
<1>0. /\ TypeOK /\ UNCHANGED <<entry, owed>> /\ NoToken = 0 /\ lastTok \in Nat
      /\ oPc \in {"granted", "body"} => oTok \in Tokens
  BY DEF EventInv, OwnerTokens, NoToken, OwnerFrame, books, coordVars, OwnerNext, OwnerStep,
     OwnerRegister, OwnerBlocked, OwnerRequest, OwnerHeartbeat, OwnerSeesReady,
     OwnerActivate, OwnerCancel, OwnerRelease, OwnerReleased, OwnerFails,
     OwnerStops, OwnerKilled, OwnerCrash
<1>p. UNCHANGED Pledged
  BY <1>0 DEF Pledged
<1>1. CASE OwnerRegister
  <2>1. /\ lastTok' = lastTok + 1 /\ MeasuresUnder = 0 /\ MeasuresUnder' = 0
        /\ lastTok + 1 \in Tokens
    BY <1>0, <1>1, PauseConstants DEF OwnerRegister, MeasuresUnder, Tokens
  <2>2. ASSUME NEW t \in Tokens, Granted(t) PROVE FALSE
    <3>1. open.tok = t
      BY <2>2 DEF ViewInv, ArenaBooks
    <3>2. t # NoToken
      BY <1>0, BookTypes
    <3>3. entry[t] = "ready" \/ (entry[t] = "none" /\ open.pid = oPid)
      BY <2>2 DEF Granted, ViewInv, DebtBooks, Grantable
    <3>4. Refreshed(open) = open /\ Reconciled(open) = open
      BY <1>1, <3>1, <3>3 DEF Refreshed, Reconciled, OwnerRegister, OwnerLive
    <3> QED BY <1>1, <3>1, <3>2, <3>4 DEF OwnerRegister, NoOpen, NoToken
  <2>3. Ledger!Outstanding = {}
    BY <2>2, GrantedTokens
  <2>4. 1..lastTok' = (1..lastTok) \cup {lastTok + 1} /\ lastTok + 1 \notin 1..lastTok
    BY <1>0, <2>1
  <2>5. Ledger!Register(lastTok + 1)
    BY <1>0, <1>p, <2>1, <2>3, <2>4 DEF Ledger!Register, MeasuresUnder, Pledged
  <2> QED BY <2>1, <2>5 DEF Ledger!Next
<1>2. CASE OwnerActivate
  <2>1. /\ oPc = "granted" /\ oPc' = "body" /\ UNCHANGED <<oTok, lastTok>>
    BY <1>2 DEF OwnerActivate
  <2>2. Granted(oTok)
    BY <2>1 DEF ViewInv, ArenaBooks
  <2>3. PICK t \in Tokens : t = oTok
    BY <1>0, <2>1
  <2>o. t \in Ledger!Outstanding
    BY <2>2, <2>3, GrantedTokens
  <2>4. Ledger!Enter(t)
    BY <1>0, <1>p, <2>1, <2>3, <2>o DEF Ledger!Enter, MeasuresUnder, Pledged
  <2> QED BY <2>4 DEF Ledger!Next
<1>3. CASE ~OwnerRegister /\ ~OwnerActivate
  <2>1. UNCHANGED <<lastTok, oTok>> /\ (oPc' = oPc \/ oPc' # "body")
    BY <1>3 DEF OwnerNext, OwnerStep, OwnerBlocked, OwnerRequest, OwnerHeartbeat,
       OwnerSeesReady, OwnerCancel, OwnerRelease, OwnerReleased, OwnerFails,
       OwnerStops, OwnerKilled, OwnerCrash, OwnerEnds, ownerVars
  <2>2. CASE oPc' = oPc
    BY <1>0, <1>p, <2>1, <2>2 DEF Ledger!vars, Pledged
  <2>3. CASE oPc' # "body"
    <3>1. Ledger!Leave
      BY <1>0, <1>p, <2>1, <2>3 DEF Ledger!Leave, Pledged
    <3> QED BY <3>1 DEF Ledger!Next
  <2> QED BY <2>1, <2>2, <2>3
<1> QED BY <1>1, <1>2, <1>3

LEMMA ViewOther ==
    ASSUME EventInv, OwnInv, LedgerInv, ViewInv,
           \/ CoordRead \/ BeginDrain \/ EndLoop \/ StopAll \/ StopKill
           \/ ActorNext \/ GoStale \/ RequestVanishes \/ UNCHANGED vars
           \/ HostCrash \/ CoordStart
    PROVE  [Ledger!Next]_(Ledger!vars)
<1>1. UNCHANGED <<entry, lastTok>> /\ NoToken = 0
  BY DEF ActorNext, ActorFrame, CohortPark, CohortUnpark, CohortSubmit, CohortFinish,
     BrokerIdle, PollRead, Poll, Publish, ActorHeartbeat, ControlFails, ActorExit,
     ActorKilled, ActorCrash, GoStale, RequestVanishes, vars, ownerVars, books,
     CoordRead, BeginDrain, EndLoop, StopAll, StopKill, KeepFlags, CoordFrame, HostCrash,
     CoordStart, NoToken
<1>2. CASE HostCrash
  <2>1. oPc' = "none" /\ owed'.event = "none"
    BY <1>2, OwedFields DEF HostCrash
  <2>2. Ledger!PowerLoss
    BY <1>1, <2>1 DEF Ledger!PowerLoss
  <2> QED BY <2>2 DEF Ledger!Next
<1>3. CASE ~HostCrash
  <2>1. UNCHANGED owed
    BY <1>3
    DEF ActorNext, ActorFrame, CohortPark, CohortUnpark, CohortSubmit, CohortFinish,
        BrokerIdle, PollRead, Poll, Publish, ActorHeartbeat, ControlFails, ActorExit,
        ActorKilled, ActorCrash, GoStale, RequestVanishes, vars, coordVars,
        CoordRead, BeginDrain, EndLoop, StopAll, StopKill, CoordStart
  <2>2. UNCHANGED <<oPc, oTok>> \/ oPc' # "body"
    BY <1>3
    DEF ActorNext, ActorFrame, CohortPark, CohortUnpark, CohortSubmit, CohortFinish,
        BrokerIdle, PollRead, Poll, Publish, ActorHeartbeat, ControlFails, ActorExit,
        ActorKilled, ActorCrash, GoStale, RequestVanishes, vars, ownerVars,
        CoordRead, BeginDrain, EndLoop, StopAll, StopKill, KeepOwner, SignalOwner,
        CoordStart, StartOwner
  <2>3. CASE UNCHANGED <<oPc, oTok>>
    BY <1>1, <2>1, <2>3 DEF Ledger!vars
  <2>4. CASE oPc' # "body"
    <3>1. Ledger!Leave
      BY <1>1, <2>1, <2>4 DEF Ledger!Leave
    <3> QED BY <3>1 DEF Ledger!Next
  <2> QED BY <2>2, <2>3, <2>4
<1> QED BY <1>2, <1>3

LEMMA ViewReap ==
    ASSUME EventInv, OwnInv, LedgerInv, ViewInv, StopReap
    PROVE  [Ledger!Next]_(Ledger!vars)
<1> USE OwnTypes
<1>0. /\ TypeOK /\ UNCHANGED <<lastTok, oTok>> /\ lastTok \in Nat /\ NoToken = 0
      /\ oPc' = oPc \/ (oPc' = "none" /\ oPc # "body")
      /\ \A t \in Tokens : t \in Nat /\ t # 0
  BY BookTypes DEF EventInv, StopReap, KeepFlags, CoordFrame, KeepOwner, ReapOwner, NoToken
<1>1. UNCHANGED MeasuresUnder
  BY <1>0 DEF MeasuresUnder
<1>2. Pledged = 0 /\ Pledged' = 0
  BY <1>0, OwedFields DEF StopReap, Pledged, EventInv, OwedWhen
<1>3. CASE UNCHANGED entry
  BY <1>0, <1>1, <1>2, <1>3 DEF Ledger!vars, MeasuresUnder, Pledged
<1>4. ASSUME NEW t \in Tokens, t <= lastTok, oPc' = "none",
             entry' = [entry EXCEPT ![t] = "settled"]
      PROVE  Ledger!Next
  <2>1. MeasuresUnder = 0 /\ t \in 1..lastTok
    BY <1>0, <1>4 DEF MeasuresUnder
  <2>2. Ledger!Settle(t)
    BY <1>0, <1>1, <1>2, <1>4, <2>1 DEF Ledger!Settle, MeasuresUnder, Pledged
  <2> QED BY <2>2 DEF Ledger!Next
<1> QED BY <1>3, <1>4, ReapBooks

(* The second write of a step: the record of a grant, or a late settlement.  *)
LEMMA ViewWrite ==
    ASSUME EventInv, OwnInv, LedgerInv, ViewInv, WriteEvent \/ WriteAck
    PROVE  [Ledger!Next]_(Ledger!vars)
<1> USE OwnTypes
<1>0. /\ UNCHANGED <<lastTok, oTok, oPc>> /\ lastTok \in Nat /\ NoToken = 0
      /\ owed'.event = "none" /\ \A t \in Tokens : t \in Nat /\ t # 0
  BY BookTypes, OwedFields
  DEF EventInv, TypeOK, OwnerOK, WriteEvent, WriteAck, KeepWorkers, KeepOwner, KeepThread,
      CoordFrame, NoToken
<1>1. UNCHANGED MeasuresUnder /\ Pledged' = 0
  BY <1>0 DEF MeasuresUnder, Pledged
<1>2. CASE WriteAck
  <2>1. UNCHANGED entry /\ Pledged = 0
    BY <1>0, <1>2 DEF WriteAck, books, EventInv, OwedTrue, Pledged
  <2> QED BY <1>0, <1>1, <2>1 DEF Ledger!vars, MeasuresUnder, Pledged
<1>3. CASE WriteEvent /\ owed.event = "ready"
  <2>1. /\ owed.token \in Tokens /\ Pledged = owed.token
        /\ entry' = [entry EXCEPT ![owed.token] = "ready"]
    BY <1>3, WriteBooks DEF Pledged
  <2>2. Ledger!Record
    BY <1>0, <1>1, <2>1 DEF Ledger!Record, MeasuresUnder, Pledged
  <2> QED BY <2>2 DEF Ledger!Next
<1>4. CASE WriteEvent /\ owed.event = "released"
  <2>1. PICK t \in Tokens : t = owed.token
    BY <1>4, WriteBooks
  <2>2. /\ t <= lastTok /\ oPc = "none" /\ entry' = [entry EXCEPT ![t] = "settled"]
    BY <1>4, <2>1, WriteBooks DEF ViewInv, DebtBooks
  <2>3. MeasuresUnder = 0 /\ Pledged = 0 /\ t \in 1..lastTok
    BY <1>0, <1>4, <2>2 DEF MeasuresUnder, Pledged
  <2>4. Ledger!Settle(t)
    BY <1>0, <1>1, <2>2, <2>3 DEF Ledger!Settle, MeasuresUnder, Pledged
  <2> QED BY <2>4 DEF Ledger!Next
<1> QED BY <1>2, <1>3, <1>4 DEF WriteEvent, EventInv, OwedTrue

(* As long as no heartbeat is late and no coordinator takes over from a      *)
(* machine that went down, the three processes together implement the        *)
(* accounting view: a lease is granted when no other is outstanding, the     *)
(* grant is in the journal before the coordinator does anything else, unless *)
(* the machine goes down; the arena registers none while another is          *)
(* outstanding, measures only under the outstanding one, and no lease is     *)
(* settled under it.                                                         *)
THEOREM ImplementsLedger ==
    ASSUME Orderly, "stale" \notin Faults PROVE Spec => LedgerView
<1>1. Init => Ledger!Init
  BY OwedFields DEF Init, Ledger!Init, NoToken
<1>2. EventInv /\ OwnInv /\ LedgerInv /\ ViewInv /\ [Next]_vars => [Ledger!Next]_(Ledger!vars)
  <2> SUFFICES ASSUME EventInv, OwnInv, LedgerInv, ViewInv, [Next]_vars
               PROVE  [Ledger!Next]_(Ledger!vars)
    OBVIOUS
  <2>1. CASE CoordReconcile \/ TargetStep \/ OwnerMonitorStep
    BY <2>1, ViewCoordinator
  <2>2. CASE OwnerNext
    BY <2>2, ViewOwner
  <2>3. CASE StopReap
    BY <2>3, ViewReap
  <2>4. CASE \/ CoordRead \/ BeginDrain \/ EndLoop \/ StopAll \/ StopKill
             \/ ActorNext \/ GoStale \/ RequestVanishes \/ UNCHANGED vars
             \/ HostCrash \/ CoordStart
    BY <2>4, ViewOther
  <2>5. CASE WriteEvent \/ WriteAck
    BY <2>5, ViewWrite
  <2> QED BY <2>1, <2>2, <2>3, <2>4, <2>5 DEF Next, CoordNext, TargetStep, OwnerMonitorStep
<1> QED BY <1>1, <1>2, ViewInductive, PTL DEF Spec, LedgerView, Ledger!Spec

(* So at every moment at most one lease is outstanding, in the journal or    *)
(* still to be written there by the coordinator that has just granted it, and*)
(* the arena, while it measures, measures under that one.                    *)
THEOREM OneLeaseOutstanding ==
    ASSUME Orderly, "stale" \notin Faults PROVE Spec => []Ledger!OneLease
<1>1. EventInv /\ ViewInv => Ledger!OneLease
  <2> SUFFICES ASSUME EventInv, ViewInv PROVE Ledger!OneLease
    OBVIOUS
  <2>1. \A t \in Tokens : Granted(t) => open.tok = t
    BY DEF ViewInv, ArenaBooks
  <2>2. oPc = "body" => oTok \in Tokens /\ Granted(oTok)
    BY DEF ViewInv, ArenaBooks, EventInv, OwnerTokens
  <2> QED BY <2>1, <2>2, GrantedTokens DEF Ledger!OneLease, NoToken
<1> QED BY <1>1, ViewInductive, PTL

(* And then the coordinator never grants a token that the journal has closed:*)
(* it takes a late heartbeat to have a request rejected that is still asked  *)
(* for.                                                                      *)
THEOREM RejectedStaysClosed ==
    ASSUME Orderly, "stale" \notin Faults PROVE Spec => RejectionIsFinal
<1>1. ASSUME EventInv, OwnInv, LedgerInv, ViewInv, [Next]_vars
      PROVE  [\A t \in Tokens : entry[t] = "settled" => readies'[t] = readies[t]]_vars
  <2>0. BooksOK
    BY <1>1, Parts DEF EventInv
  <2>1. CASE CoordReconcile \/ TargetStep \/ OwnerMonitorStep
    <3>1. CoordMove
      BY <1>1, <2>1, CoordMoves DEF EventInv
    <3> QED BY <3>1
        DEF CoordMove, LeaseMove, Quiet, Flagged, Refuse, SettleEarly, AdmitMove, GrantMove,
            ResumeMove, CloseMove, ConfirmMove, DrainedMove
  <2>2. CASE \/ CoordRead \/ BeginDrain \/ EndLoop \/ StopAll \/ StopKill \/ StopReap
             \/ HostCrash \/ CoordStart \/ WriteAck
    BY <2>2, JournalCounts
    DEF CoordRead, BeginDrain, EndLoop, StopAll, StopKill, StopReap, HostCrash, CoordStart,
        WriteAck, books
  <2>5. CASE WriteEvent
    <3>1. CASE owed.event = "ready"
      <4>1. entry[owed.token] = "none" /\ readies' = [readies EXCEPT ![owed.token] = @ + 1]
        BY <1>1, <2>5, <3>1, WriteBooks, JournalCounts DEF WriteEvent
      <4> QED BY <2>0, <4>1 DEF BooksOK
    <3>2. CASE owed.event = "released"
      BY <2>5, <3>2, JournalCounts DEF WriteEvent
    <3> QED BY <1>1, <2>5, <3>1, <3>2, WriteBooks
  <2>3. CASE OwnerNext
    BY <2>3 DEF OwnerFrame, books, OwnerNext, OwnerStep, OwnerRegister, OwnerBlocked,
       OwnerRequest, OwnerHeartbeat, OwnerSeesReady, OwnerActivate, OwnerCancel,
       OwnerRelease, OwnerReleased, OwnerFails, OwnerStops, OwnerKilled, OwnerCrash
  <2>4. CASE ActorNext \/ GoStale \/ RequestVanishes \/ UNCHANGED vars
    BY <2>4 DEF ActorNext, ActorFrame, CohortPark, CohortUnpark, CohortSubmit,
       CohortFinish, BrokerIdle, PollRead, Poll, Publish, ActorHeartbeat, ControlFails,
       ActorExit, ActorKilled, ActorCrash, GoStale, RequestVanishes, books, vars
  <2> QED BY <1>1, <2>1, <2>2, <2>3, <2>4, <2>5
      DEF Next, CoordNext, TargetStep, OwnerMonitorStep
<1> QED BY <1>1, ViewInductive, PTL DEF Spec, RejectionIsFinal
=============================================================================
