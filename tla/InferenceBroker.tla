---------------------------- MODULE InferenceBroker ----------------------------
(***************************************************************************)
(* BoundedInferenceBroker (deltreltrain/inference_batching.py): game       *)
(* cohorts, arena groups and server searches submit requests from their    *)
(* own threads; one owner thread merges compatible ones into a batch, runs *)
(* it under the device lock and answers each through its future.           *)
(*                                                                         *)
(* What a thread does under the condition is one action; so is the removal *)
(* of a job and the release of its slot, which nobody can tell apart.  The *)
(* deadline of a batch and of an admission may pass at any time.           *)
(***************************************************************************)
EXTENDS Naturals, FiniteSets, FiniteSetsExt

CONSTANTS
    Requests,       \* one call of submit() each
    Rows,           \* rows of each request
    Model,          \* adapter, namespace and ring of each request
    MaxRows,        \* max_batch_rows
    MaxPending,     \* max_pending_requests
    MaxLoads        \* bound: other uses of the device lock

ASSUME BrokerConstants ==
    /\ IsFiniteSet(Requests)
    /\ Rows \in [Requests -> Nat]
    /\ MaxRows \in Nat \ {0} /\ MaxPending \in Nat \ {0} /\ MaxLoads \in Nat

VARIABLES
    producer,       \* each call: outside, slot, preparing, accepted, refused
    future,         \* each future: none, pending, running, or its verdict
    free,           \* free slots of the semaphore
    queue, place,   \* queued requests, and each request's place in the arrivals
    owned,          \* jobs the owner took off the queue and has not released
    active,         \* the claimed jobs of the batch
    todo,           \* jobs the owner's current loop has still to visit
    abandoned,      \* jobs left by a failed owner and not yet failed
    owner,          \* where the owner thread is
    closed, dropPending,
    device,         \* holder of the device lock: free, owner, other
    loads,          \* other uses of the device lock so far
    joiner,         \* the caller of shutdown(): none, joining, returned
    tally           \* submitted, completed, failed and cancelled requests

callVars == <<producer, future, free>>
jobVars == <<queue, place, owned, active, todo, abandoned>>
lifeVars == <<closed, dropPending, joiner>>
deviceVars == <<device, loads>>
brokerVars == <<callVars, jobVars, lifeVars, deviceVars, owner, tally>>

Count(what, n) == tally' = [tally EXCEPT ![what] = @ + n]
Goto(r, to) == producer' = [producer EXCEPT ![r] = to]
Resolve(r, to) == future' = [future EXCEPT ![r] = to]
RowsOf(S) == MapThenSumSet(LAMBDA r : Rows[r], S)
Unresolved == {"pending", "running"}

-----------------------------------------------------------------------------
(* submit(), in the producer's thread                                        *)

RefuseEarly(r) ==
    /\ producer[r] = "outside" /\ (closed \/ Rows[r] > MaxRows)
    /\ Goto(r, "refused")
    /\ UNCHANGED <<future, free, jobVars, lifeVars, deviceVars, owner, tally>>

Enter(r) ==
    /\ producer[r] = "outside" /\ ~closed /\ Rows[r] =< MaxRows
    /\ Goto(r, "slot")
    /\ UNCHANGED <<future, free, jobVars, lifeVars, deviceVars, owner, tally>>

(* With the slot the broker is checked again, and the request is prepared.   *)
AcquireSlot(r) ==
    /\ producer[r] = "slot" /\ free > 0 /\ ~closed
    /\ free' = free - 1 /\ Goto(r, "preparing")
    /\ UNCHANGED <<future, jobVars, lifeVars, deviceVars, owner, tally>>

(* The broker closed while the call waited: the slot it got goes back.       *)
SlotTooLate(r) ==
    /\ producer[r] = "slot" /\ free > 0 /\ closed
    /\ Goto(r, "refused")
    /\ UNCHANGED <<future, free, jobVars, lifeVars, deviceVars, owner, tally>>

BackpressureTimeout(r) ==
    /\ producer[r] = "slot" /\ Goto(r, "refused")
    /\ UNCHANGED <<future, free, jobVars, lifeVars, deviceVars, owner, tally>>

(* The preparation fails, or the broker closed meanwhile; mutant: the error  *)
(* path keeps the slot.                                                      *)
Mutant_GiveBack(r) ==
    /\ producer[r] = "preparing" /\ Goto(r, "refused")
    /\ UNCHANGED <<future, free, jobVars, lifeVars, deviceVars, owner, tally>>
GiveBack(r) ==
    /\ producer[r] = "preparing"
    /\ free' = free + 1 /\ Goto(r, "refused")
    /\ UNCHANGED <<future, jobVars, lifeVars, deviceVars, owner, tally>>

AnswerEmpty(r) ==
    /\ producer[r] = "preparing" /\ Rows[r] = 0
    /\ Resolve(r, "result") /\ free' = free + 1 /\ Goto(r, "accepted")
    /\ UNCHANGED <<jobVars, lifeVars, deviceVars, owner, tally>>

Enqueue(r) ==
    /\ producer[r] = "preparing" /\ Rows[r] > 0 /\ ~closed
    /\ queue' = queue \cup {r} /\ place' = [place EXCEPT ![r] = tally.submitted]
    /\ Resolve(r, "pending") /\ Goto(r, "accepted") /\ Count("submitted", 1)
    /\ UNCHANGED <<free, owned, active, todo, abandoned, lifeVars, deviceVars, owner>>

(* The producer cancels a future that does not run yet.                      *)
Cancel(r) ==
    /\ future[r] = "pending" /\ Resolve(r, "cancelled")
    /\ UNCHANGED <<producer, free, jobVars, lifeVars, deviceVars, owner, tally>>

-----------------------------------------------------------------------------
(* _next_batch(), in the owner thread                                        *)

TakeFirst(r) ==
    /\ owner = "waiting" /\ r \in queue
    /\ \A q \in queue : place[r] =< place[q]
    /\ queue' = queue \ {r} /\ owned' = {r} /\ owner' = "batching"
    /\ UNCHANGED <<callVars, place, active, todo, abandoned, lifeVars, deviceVars, tally>>

(* One scan of the queue, in order: whatever has the key of the batch and    *)
(* still fits joins it.                                                      *)
Joins(S) ==
    \A r \in queue :
        r \in S <=> /\ \E o \in owned : Model[r] = Model[o]
                    /\ RowsOf(owned) + RowsOf({q \in S : place[q] < place[r]})
                         + Rows[r] =< MaxRows

Scan ==
    \E S \in SUBSET queue :
        Joins(S) /\ owned' = owned \cup S /\ queue' = queue \ S

Gather ==
    /\ owner = "batching" /\ ~closed
    /\ Scan /\ RowsOf(owned') < MaxRows
    /\ UNCHANGED <<callVars, place, active, todo, abandoned, lifeVars, deviceVars, owner, tally>>

(* The batch is full, the broker closed or the first job's deadline passed.  *)
Seal ==
    /\ owner = "batching" /\ Scan
    /\ todo' = owned' /\ owner' = "claiming"
    /\ UNCHANGED <<callVars, place, active, abandoned, lifeVars, deviceVars, tally>>

-----------------------------------------------------------------------------
(* _run_batches(), in the owner thread                                       *)

Claim(r) ==
    /\ owner = "claiming" /\ r \in todo
    /\ ~dropPending /\ future[r] = "pending"
    /\ Resolve(r, "running") /\ active' = active \cup {r} /\ todo' = todo \ {r}
    /\ UNCHANGED <<producer, free, queue, place, owned, abandoned, lifeVars, deviceVars, owner, tally>>

DropCancelled(r) ==
    /\ owner = "claiming" /\ r \in todo
    /\ dropPending \/ future[r] = "cancelled"
    /\ Resolve(r, "cancelled") /\ Count("cancelled", 1)
    /\ todo' = todo \ {r} /\ owned' = owned \ {r} /\ free' = free + 1
    /\ UNCHANGED <<producer, queue, place, active, abandoned, lifeVars, deviceVars, owner>>

Claimed ==
    /\ owner = "claiming" /\ todo = {}
    /\ owner' = IF active = {} THEN "waiting" ELSE "device"
    /\ UNCHANGED <<callVars, jobVars, lifeVars, deviceVars, tally>>

TakeDevice ==
    /\ owner = "device" /\ device = "free"
    /\ device' = "owner" /\ owner' = "inferring"
    /\ UNCHANGED <<callVars, jobVars, lifeVars, loads, tally>>

(* The evaluation returns or raises, and the device lock is released.        *)
Infer ==
    /\ owner = "inferring"
    /\ device' = "free" /\ todo' = active
    /\ owner' \in {"answering", "failing"}
    /\ UNCHANGED <<callVars, queue, place, owned, active, abandoned, lifeVars, loads, tally>>

Answer(r) ==
    /\ owner = "answering" /\ r \in todo
    /\ Resolve(r, "result") /\ todo' = todo \ {r}
    /\ UNCHANGED <<producer, free, queue, place, owned, active, abandoned, lifeVars, deviceVars, owner, tally>>

(* The results are too few, or one lacks its details: the rest fails.        *)
ResultMissing ==
    /\ owner = "answering" /\ todo # {}
    /\ owner' = "failing"
    /\ UNCHANGED <<callVars, jobVars, lifeVars, deviceVars, tally>>

FailOne(r) ==
    /\ owner = "failing" /\ r \in todo
    /\ Resolve(r, "error") /\ todo' = todo \ {r}
    /\ UNCHANGED <<producer, free, queue, place, owned, active, abandoned, lifeVars, deviceVars, owner, tally>>

(* Every job of a batch counts as completed, or every one as failed; mutant: *)
(* those answered before the failure are left out.                           *)
Mutant_Counted == IF owner = "failing" THEN {r \in active : future[r] = "error"} ELSE active
Counted == active

CountBatch ==
    /\ owner \in {"answering", "failing"} /\ todo = {}
    /\ Count(IF owner = "answering" THEN "completed" ELSE "failed", Cardinality(Counted))
    /\ owner' = "releasing"
    /\ UNCHANGED <<callVars, jobVars, lifeVars, deviceVars>>

ReleaseOwnedJob(r) ==
    /\ owner = "releasing" /\ r \in active
    /\ active' = active \ {r} /\ owned' = owned \ {r} /\ free' = free + 1
    /\ owner' = IF active = {r} THEN "waiting" ELSE "releasing"
    /\ UNCHANGED <<producer, future, queue, place, todo, abandoned, lifeVars, deviceVars, tally>>

-----------------------------------------------------------------------------
(* _run(): an error in the scheduling fails what was accepted                *)

(* Mutant: what the owner had taken off the queue is forgotten.              *)
Mutant_LeftBehind == queue
LeftBehind == owned \cup queue

OwnerFails ==
    /\ owner \in {"waiting", "batching"}
    /\ closed' = TRUE /\ owner' = "abandoning"
    /\ abandoned' = LeftBehind /\ owned' = {} /\ queue' = {}
    /\ UNCHANGED <<callVars, place, active, todo, dropPending, joiner, deviceVars, tally>>

(* Mutant: the slot is not released.                                         *)
Mutant_Abandon(r) ==
    /\ owner = "abandoning" /\ r \in abandoned
    /\ Resolve(r, IF future[r] = "pending" THEN "error" ELSE future[r])
    /\ Count(IF future[r] = "pending" THEN "failed" ELSE "cancelled", 1)
    /\ abandoned' = abandoned \ {r}
    /\ UNCHANGED <<producer, free, queue, place, owned, active, todo, lifeVars, deviceVars, owner>>
Abandon(r) ==
    /\ owner = "abandoning" /\ r \in abandoned
    /\ Resolve(r, IF future[r] = "pending" THEN "error" ELSE future[r])
    /\ Count(IF future[r] = "pending" THEN "failed" ELSE "cancelled", 1)
    /\ abandoned' = abandoned \ {r} /\ free' = free + 1
    /\ UNCHANGED <<producer, queue, place, owned, active, todo, lifeVars, deviceVars, owner>>

OwnerEnds ==
    /\ \/ owner = "abandoning" /\ abandoned = {}
       \/ owner = "waiting" /\ closed /\ queue = {}
    /\ owner' = "gone"
    /\ UNCHANGED <<callVars, jobVars, lifeVars, deviceVars, tally>>

-----------------------------------------------------------------------------
(* shutdown(), by the run that owns the broker                               *)

Shutdown(drop) ==
    /\ joiner = "none" \/ (drop /\ ~dropPending)
    /\ closed' = TRUE /\ joiner' = "joining"
    /\ dropPending' = (dropPending \/ drop)
    /\ IF drop
       THEN /\ future' = [r \in Requests |-> IF r \in queue THEN "cancelled" ELSE future[r]]
            /\ Count("cancelled", Cardinality(queue))
            /\ free' = free + Cardinality(queue) /\ queue' = {}
       ELSE UNCHANGED <<future, tally, free, queue>>
    /\ UNCHANGED <<producer, place, owned, active, todo, abandoned, deviceVars, owner>>

Joined ==
    /\ joiner = "joining" /\ owner = "gone"
    /\ joiner' = "returned"
    /\ UNCHANGED <<callVars, jobVars, closed, dropPending, deviceVars, owner, tally>>

(* A model registry loads or closes a model, or a root is inspected, under   *)
(* the same lock.                                                            *)
BorrowDevice ==
    /\ device = "free" /\ loads < MaxLoads
    /\ device' = "other" /\ loads' = loads + 1
    /\ UNCHANGED <<callVars, jobVars, lifeVars, owner, tally>>

ReturnDevice ==
    /\ device = "other" /\ device' = "free"
    /\ UNCHANGED <<callVars, jobVars, lifeVars, loads, owner, tally>>

(* is_idle(); mutant: the queue alone is looked at.                          *)
Mutant_Idle == queue = {}
Idle == queue = {} /\ owned = {}

-----------------------------------------------------------------------------
BrokerInit ==
    /\ producer = [r \in Requests |-> "outside"] /\ future = [r \in Requests |-> "none"]
    /\ free = MaxPending
    /\ queue = {} /\ place = [r \in Requests |-> 0]
    /\ owned = {} /\ active = {} /\ todo = {} /\ abandoned = {}
    /\ owner = "waiting" /\ closed = FALSE /\ dropPending = FALSE
    /\ device = "free" /\ loads = 0 /\ joiner = "none"
    /\ tally = [submitted |-> 0, completed |-> 0, failed |-> 0, cancelled |-> 0]

Submits(r) ==
    \/ AcquireSlot(r) \/ SlotTooLate(r) \/ GiveBack(r)
    \/ AnswerEmpty(r) \/ Enqueue(r)

OwnerVisits(r) ==
    \/ TakeFirst(r) \/ Claim(r) \/ DropCancelled(r) \/ Answer(r) \/ FailOne(r)
    \/ ReleaseOwnedJob(r) \/ Abandon(r)

OwnerSteps == Seal \/ Claimed \/ TakeDevice \/ Infer \/ CountBatch \/ OwnerEnds

BrokerNext ==
    \/ \E r \in Requests :
         RefuseEarly(r) \/ Enter(r) \/ Submits(r) \/ OwnerVisits(r)
           \/ BackpressureTimeout(r) \/ Cancel(r)
    \/ OwnerSteps \/ Gather \/ ResultMissing \/ OwnerFails
    \/ \E drop \in BOOLEAN : Shutdown(drop)
    \/ Joined \/ BorrowDevice \/ ReturnDevice

(* Threads that can go on do go on, in any order.  Nobody has to submit,     *)
(* cancel or shut down; the deadline of a batch passes (Seal).  The calls    *)
(* and the other uses of the device (MaxLoads) are finitely many, so this    *)
(* lets each thread go on in the end.                                        *)
BrokerProgress ==
    \/ \E r \in Requests : Submits(r) \/ OwnerVisits(r)
    \/ OwnerSteps \/ Joined \/ ReturnDevice

BrokerFairness == WF_brokerVars(BrokerProgress)

BrokerSpec == BrokerInit /\ [][BrokerNext]_brokerVars /\ BrokerFairness

-----------------------------------------------------------------------------
(* Properties                                                                *)

Slots == {r \in Requests : producer[r] = "preparing"}
Shown(v) == CASE v = "none" -> "new"
              [] v \in Unresolved -> "open"
              [] OTHER -> v
PoolState == [r \in Requests |-> Shown(future[r])]

(* Every slot of the semaphore is free or held by exactly one call: a call   *)
(* that prepares, a queued job, a job of the batch, or a job a failed owner  *)
(* left.  A slot returned twice would admit too many requests, a slot never  *)
(* returned would block every later producer.                                *)
SlotsBalance ==
    free + Cardinality(Slots) + Cardinality(queue) + Cardinality(owned)
         + Cardinality(abandoned) = MaxPending

(* The metrics account for every accepted request once, also while a batch   *)
(* fails half-way, requests are cancelled, or the owner dies.                *)
Accounted ==
    tally.submitted = tally.completed + tally.failed + tally.cancelled
        + Cardinality(queue) + Cardinality(abandoned)
        + (IF owner = "releasing" THEN 0 ELSE Cardinality(owned))

(* is_idle() "prove[s] no queued or active inference remains": then the      *)
(* owner does not use the device, and no accepted request is unanswered      *)
(* except those a failed owner is still failing.                             *)
IdleProof ==
    Idle => /\ device # "owner"
            /\ \A r \in Requests : future[r] \in Unresolved => r \in abandoned

(* Each accepted request is settled, and once; at most MaxPending are open.  *)
Pool == INSTANCE RequestPool WITH Capacity <- MaxPending, state <- PoolState
Answered == Pool!PoolSpec

(* Whatever the owner goes through, a producer is not left waiting for a     *)
(* slot, nor the caller of shutdown() for the owner.                         *)
Waiting == joiner = "joining" \/ \E r \in Requests : producer[r] \in {"slot", "preparing"}
NobodyWaits == Waiting ~> ~Waiting
=============================================================================
