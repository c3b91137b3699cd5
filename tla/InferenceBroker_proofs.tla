------------------------- MODULE InferenceBroker_proofs -------------------------
(***************************************************************************)
(* Theorems about the inference broker, for any number of requests, rows   *)
(* and models, any limits, and any moment at which the owner fails or the  *)
(* broker is shut down.                                                    *)
(***************************************************************************)
EXTENDS InferenceBroker, FiniteSetTheorems, TLAPS

-----------------------------------------------------------------------------
(* The inductive invariant                                                   *)

Futures == {"none", "pending", "running", "result", "error", "cancelled"}

CallsTypeOK ==
    /\ producer \in [Requests -> {"outside", "slot", "preparing", "accepted", "refused"}]
    /\ future \in [Requests -> Futures]
    /\ free \in Nat

JobsTypeOK ==
    /\ queue \subseteq Requests /\ owned \subseteq Requests /\ abandoned \subseteq Requests
    /\ active \subseteq owned /\ todo \subseteq owned

TallyTypeOK ==
    tally \in [submitted : Nat, completed : Nat, failed : Nat, cancelled : Nat]

BrokerTypeOK == CallsTypeOK /\ JobsTypeOK /\ TallyTypeOK

(* Where an accepted request is, and what its future says meanwhile.         *)
Unclaimed == {"pending", "cancelled"}
Ended == {"result", "error"}

Places ==
    /\ queue \cap owned = {} /\ queue \cap abandoned = {} /\ owned \cap abandoned = {}
    /\ \A r \in Requests : future[r] = "none" <=> producer[r] # "accepted"
    /\ \A r \in queue \cup abandoned : future[r] \in Unclaimed
    /\ \A r \in owned : future[r] # "none"
    /\ \A r \in Requests : future[r] \in Unresolved => r \in queue \cup owned \cup abandoned

(* What the owner holds at each of its stages.                               *)
EmptyHanded ==
    /\ owner \in {"waiting", "abandoning", "gone"} => owned = {}
    /\ owner # "abandoning" => abandoned = {}
    /\ owner \in {"abandoning", "gone"} => closed /\ queue = {}

Batching ==
    /\ owner = "batching" => active = {} /\ todo = {} /\ \A r \in owned : future[r] \in Unclaimed
    /\ owner = "claiming" =>
         /\ owned = active \cup todo /\ active \cap todo = {}
         /\ \A r \in active : future[r] = "running"
         /\ \A r \in todo : future[r] \in Unclaimed

Inferring ==
    /\ owner \in {"device", "inferring", "answering", "failing", "releasing"} => owned = active
    /\ owner \in {"device", "inferring"} =>
         active # {} /\ todo = {} /\ \A r \in active : future[r] = "running"
    /\ owner \in {"answering", "failing"} =>
         \A r \in active : IF r \in todo THEN future[r] = "running" ELSE future[r] \in Ended
    /\ owner = "releasing" => todo = {} /\ \A r \in active : future[r] \in Ended
    /\ device = "owner" <=> owner = "inferring"

Stages == EmptyHanded /\ Batching /\ Inferring
BrokerInv == BrokerTypeOK /\ Places /\ Stages /\ SlotsBalance /\ Accounted

-----------------------------------------------------------------------------
(* Sizes of sets of requests                                                 *)

LEMMA Finite ==
  ASSUME NEW S, S \subseteq Requests
  PROVE  IsFiniteSet(S) /\ Cardinality(S) \in Nat
BY BrokerConstants, FS_Subset, FS_CardinalityType

LEMMA Grows ==
  ASSUME NEW S, S \subseteq Requests, NEW r \in Requests, r \notin S
  PROVE  Cardinality(S \cup {r}) = Cardinality(S) + 1
BY Finite, FS_AddElement

LEMMA Shrinks ==
  ASSUME NEW S, S \subseteq Requests, NEW r \in S
  PROVE  Cardinality(S \ {r}) = Cardinality(S) - 1
BY Finite, FS_RemoveElement

LEMMA Merged ==
  ASSUME NEW S, S \subseteq Requests, NEW T, T \subseteq Requests, S \cap T = {}
  PROVE  Cardinality(S \cup T) = Cardinality(S) + Cardinality(T)
<1>1. Cardinality(S \cup T) = Cardinality(S) + Cardinality(T) - Cardinality(S \cap T)
  BY Finite, FS_Union
<1> QED BY <1>1, Finite, FS_EmptySet

LEMMA Moved ==
  ASSUME NEW S, S \subseteq Requests, NEW T, T \subseteq Requests, S \cap T = {},
         NEW M, M \subseteq S
  PROVE  Cardinality(S \ M) + Cardinality(T \cup M) = Cardinality(S) + Cardinality(T)
<1>1. Cardinality(T \cup M) = Cardinality(T) + Cardinality(M)
  BY Merged
<1>2. Cardinality(S) = Cardinality(S \ M) + Cardinality(M)
  <2>1. S = (S \ M) \cup M /\ (S \ M) \cap M = {}
    OBVIOUS
  <2> QED BY <2>1, Merged
<1> QED BY <1>1, <1>2, Finite

-----------------------------------------------------------------------------
(* Types                                                                     *)

LEMMA Counts ==
  ASSUME TallyTypeOK, NEW n \in Nat,
         NEW what \in {"submitted", "completed", "failed", "cancelled"}, Count(what, n)
  PROVE  TallyTypeOK'
<1>1. tally[what] + n \in Nat
  BY DEF TallyTypeOK
<1> QED BY <1>1 DEF TallyTypeOK, Count

LEMMA CallStep ==
  ASSUME BrokerTypeOK, NEW r \in Requests,
         RefuseEarly(r) \/ Enter(r) \/ Submits(r) \/ BackpressureTimeout(r) \/ Cancel(r)
  PROVE  BrokerTypeOK'
<1> USE DEF BrokerTypeOK
<1>1. CASE Enqueue(r)
  <2>1. TallyTypeOK'
    BY <1>1, Counts DEF Enqueue
  <2> QED BY <1>1, <2>1 DEF Enqueue, CallsTypeOK, JobsTypeOK, Resolve, Goto, Futures
<1>2. CASE ~Enqueue(r)
  <2>1. JobsTypeOK' /\ TallyTypeOK'
    BY <1>2 DEF Submits, RefuseEarly, Enter, AcquireSlot, SlotTooLate, GiveBack, AnswerEmpty,
                BackpressureTimeout, Cancel, JobsTypeOK, TallyTypeOK, jobVars
  <2>2. CallsTypeOK'
    BY <1>2 DEF Submits, RefuseEarly, Enter, AcquireSlot, SlotTooLate, GiveBack, AnswerEmpty,
                BackpressureTimeout, Cancel, CallsTypeOK, Resolve, Goto, Futures
  <2> QED BY <2>1, <2>2
<1> QED BY <1>1, <1>2
LEMMA OwnerStep ==
  ASSUME BrokerTypeOK, Stages, NEW r \in Requests, OwnerVisits(r)
  PROVE  BrokerTypeOK'
<1> USE DEF BrokerTypeOK
<1>1. CallsTypeOK'
  BY DEF OwnerVisits, TakeFirst, Claim, DropCancelled, Answer, FailOne, ReleaseOwnedJob, Abandon,
         CallsTypeOK, Resolve, Futures, callVars
<1>2. JobsTypeOK'
  BY DEF OwnerVisits, TakeFirst, Claim, DropCancelled, Answer, FailOne, ReleaseOwnedJob, Abandon,
         JobsTypeOK, Stages, EmptyHanded, Batching, Inferring, callVars, jobVars
<1>3. TallyTypeOK'
  <2>1. CASE DropCancelled(r) \/ Abandon(r)
    BY <2>1, Counts DEF DropCancelled, Abandon
  <2> QED
    BY <2>1 DEF OwnerVisits, TakeFirst, Claim, Answer, FailOne, ReleaseOwnedJob, TallyTypeOK
<1> QED BY <1>1, <1>2, <1>3

LEMMA SchedulingStep ==
  ASSUME BrokerTypeOK, Stages,
         OwnerSteps \/ Gather \/ ResultMissing \/ OwnerFails
  PROVE  BrokerTypeOK'
<1> USE DEF BrokerTypeOK
<1>1. CallsTypeOK'
  BY DEF OwnerSteps, Seal, Claimed, TakeDevice, Infer, CountBatch, OwnerEnds, Gather, ResultMissing,
         OwnerFails, CallsTypeOK, callVars
<1>2. JobsTypeOK'
  BY DEF OwnerSteps, Seal, Claimed, TakeDevice, Infer, CountBatch, OwnerEnds, Gather, ResultMissing,
         OwnerFails, LeftBehind, Scan, JobsTypeOK, jobVars, Stages, EmptyHanded, Batching
<1>3. TallyTypeOK'
  <2>1. CASE CountBatch
    BY <2>1, Counts, Finite DEF CountBatch, Counted, JobsTypeOK
  <2> QED
    BY <2>1 DEF OwnerSteps, Seal, Claimed, TakeDevice, Infer, OwnerEnds, Gather, ResultMissing,
                OwnerFails, TallyTypeOK
<1> QED BY <1>1, <1>2, <1>3

LEMMA LifeStep ==
  ASSUME BrokerTypeOK,
         (\E drop \in BOOLEAN : Shutdown(drop)) \/ Joined \/ BorrowDevice \/ ReturnDevice
  PROVE  BrokerTypeOK'
<1> USE DEF BrokerTypeOK
<1>1. ASSUME NEW drop \in BOOLEAN, Shutdown(drop) PROVE BrokerTypeOK'
  <2>1. CASE drop
    <3>1. TallyTypeOK'
      BY <1>1, <2>1, Counts, Finite DEF Shutdown, JobsTypeOK
    <3> QED BY <1>1, <2>1, <3>1, Finite DEF Shutdown, CallsTypeOK, JobsTypeOK, Futures
  <2> QED BY <1>1, <2>1 DEF Shutdown, CallsTypeOK, JobsTypeOK, TallyTypeOK
<1> QED
  BY <1>1 DEF Joined, BorrowDevice, ReturnDevice, callVars, jobVars, CallsTypeOK, JobsTypeOK,
              TallyTypeOK

-----------------------------------------------------------------------------
(* Where the requests are                                                    *)

LEMMA CallPlaces ==
  ASSUME BrokerInv, NEW r \in Requests,
         RefuseEarly(r) \/ Enter(r) \/ Submits(r) \/ BackpressureTimeout(r) \/ Cancel(r)
  PROVE  Places' /\ Stages'
<1> USE DEF BrokerInv, BrokerTypeOK, CallsTypeOK, JobsTypeOK, callVars, jobVars, lifeVars, deviceVars
<1>1. CASE Enqueue(r)
  BY <1>1 DEF Enqueue, Resolve, Goto, Places, Stages, EmptyHanded, Batching, Inferring, Unclaimed,
              Unresolved, Ended
<1>2. CASE Cancel(r)
  BY <1>2 DEF Cancel, Resolve, Places, Stages, EmptyHanded, Batching, Inferring, Unclaimed,
              Unresolved, Ended
<1>3. CASE AnswerEmpty(r)
  BY <1>3 DEF AnswerEmpty, Resolve, Goto, Places, Stages, EmptyHanded, Batching, Inferring,
              Unclaimed, Unresolved, Ended
<1>4. CASE UNCHANGED <<future, jobVars, lifeVars, deviceVars, owner>> /\
           \E to \in {"slot", "preparing", "refused"} : producer[r] # "accepted" /\ Goto(r, to)
  BY <1>4 DEF Goto, Places, Stages, EmptyHanded, Batching, Inferring
<1>5. RefuseEarly(r) \/ Enter(r) \/ AcquireSlot(r) \/ SlotTooLate(r) \/ GiveBack(r)
        \/ BackpressureTimeout(r)
      => UNCHANGED <<future, jobVars, lifeVars, deviceVars, owner>> /\
         \E to \in {"slot", "preparing", "refused"} : producer[r] # "accepted" /\ Goto(r, to)
  BY DEF RefuseEarly, Enter, AcquireSlot, SlotTooLate, GiveBack, BackpressureTimeout
<1> QED BY <1>1, <1>2, <1>3, <1>4, <1>5 DEF Submits

LEMMA OwnerPlaces ==
  ASSUME BrokerInv, NEW r \in Requests, OwnerVisits(r)
  PROVE  Places' /\ Stages'
<1> USE DEF BrokerInv, BrokerTypeOK, CallsTypeOK, JobsTypeOK, callVars, jobVars, lifeVars,
            deviceVars, Places, Stages, EmptyHanded, Batching, Inferring, Unclaimed, Unresolved,
            Ended, Resolve
<1>1. CASE TakeFirst(r)
  BY <1>1 DEF TakeFirst
<1>2. CASE Claim(r)
  BY <1>2 DEF Claim
<1>3. CASE DropCancelled(r)
  BY <1>3 DEF DropCancelled
<1>4. CASE Answer(r)
  BY <1>4 DEF Answer
<1>5. CASE FailOne(r)
  BY <1>5 DEF FailOne
<1>6. CASE ReleaseOwnedJob(r)
  BY <1>6 DEF ReleaseOwnedJob
<1>7. CASE Abandon(r)
  BY <1>7 DEF Abandon
<1> QED BY <1>1, <1>2, <1>3, <1>4, <1>5, <1>6, <1>7 DEF OwnerVisits

LEMMA SchedulingPlaces ==
  ASSUME BrokerInv, OwnerSteps \/ Gather \/ ResultMissing \/ OwnerFails
  PROVE  Places' /\ Stages'
<1> USE DEF BrokerInv, BrokerTypeOK, CallsTypeOK, JobsTypeOK, callVars, jobVars, lifeVars,
            deviceVars, Places, Stages, EmptyHanded, Batching, Inferring, Unclaimed, Unresolved,
            Ended
<1>1. CASE Seal \/ Gather
  BY <1>1 DEF Seal, Gather, Scan
<1>2. CASE Claimed \/ TakeDevice \/ OwnerEnds
  BY <1>2 DEF Claimed, TakeDevice, OwnerEnds
<1>3. CASE Infer
  BY <1>3 DEF Infer
<1>4. CASE CountBatch \/ ResultMissing
  BY <1>4 DEF CountBatch, ResultMissing
<1>5. CASE OwnerFails
  BY <1>5 DEF OwnerFails, LeftBehind
<1> QED BY <1>1, <1>2, <1>3, <1>4, <1>5 DEF OwnerSteps

LEMMA LifePlaces ==
  ASSUME BrokerInv,
         (\E drop \in BOOLEAN : Shutdown(drop)) \/ Joined \/ BorrowDevice \/ ReturnDevice
  PROVE  Places' /\ Stages'
<1> USE DEF BrokerInv, BrokerTypeOK, CallsTypeOK, JobsTypeOK, callVars, jobVars, Places, Stages,
            EmptyHanded, Batching, Inferring, Unclaimed, Unresolved, Ended
<1>1. ASSUME NEW drop \in BOOLEAN, Shutdown(drop) PROVE Places' /\ Stages'
  BY <1>1 DEF Shutdown, deviceVars
<1>2. CASE Joined
  BY <1>2 DEF Joined, deviceVars
<1>3. CASE BorrowDevice \/ ReturnDevice
  BY <1>3 DEF BorrowDevice, ReturnDevice, lifeVars
<1> QED BY <1>1, <1>2, <1>3

-----------------------------------------------------------------------------
(* The books                                                                 *)

LEMMA Sizes ==
  ASSUME BrokerTypeOK
  PROVE  /\ Cardinality(Slots) \in Nat /\ Cardinality(queue) \in Nat
         /\ Cardinality(owned) \in Nat /\ Cardinality(abandoned) \in Nat
         /\ Cardinality(active) \in Nat
BY Finite DEF BrokerTypeOK, JobsTypeOK, Slots

LEMMA CallBooks ==
  ASSUME BrokerInv, NEW r \in Requests,
         RefuseEarly(r) \/ Enter(r) \/ Submits(r) \/ BackpressureTimeout(r) \/ Cancel(r)
  PROVE  SlotsBalance' /\ Accounted'
<1> USE Sizes DEF BrokerInv, SlotsBalance, Accounted
<1>1. Slots \subseteq Requests
  BY DEF Slots
<1>2. CASE UNCHANGED <<free, Slots, jobVars, owner, tally>>
  BY <1>2 DEF jobVars
<1>3. CASE AcquireSlot(r)
  <2>1. Slots' = Slots \cup {r} /\ r \notin Slots
    BY <1>3 DEF AcquireSlot, Goto, Slots, BrokerTypeOK, CallsTypeOK
  <2> QED BY <1>1, <1>3, <2>1, Grows DEF AcquireSlot, jobVars, BrokerTypeOK, CallsTypeOK
<1>4. ASSUME producer[r] = "preparing", NEW to \in {"accepted", "refused"}, Goto(r, to)
      PROVE  Slots' = Slots \ {r} /\ Cardinality(Slots') = Cardinality(Slots) - 1
  <2>1. Slots' = Slots \ {r} /\ r \in Slots
    BY <1>4 DEF Goto, Slots, BrokerTypeOK, CallsTypeOK
  <2> QED BY <1>1, <2>1, Shrinks
<1>5. CASE GiveBack(r) \/ AnswerEmpty(r)
  BY <1>4, <1>5 DEF GiveBack, AnswerEmpty, jobVars, BrokerTypeOK, CallsTypeOK
<1>6. CASE Enqueue(r)
  <2>1. Cardinality(queue') = Cardinality(queue) + 1
    BY <1>6, Grows DEF Enqueue, Places, Unclaimed, BrokerTypeOK, JobsTypeOK
  <2>2. /\ tally'.submitted = tally.submitted + 1 /\ tally'.completed = tally.completed
        /\ tally'.failed = tally.failed /\ tally'.cancelled = tally.cancelled
    BY <1>6 DEF Enqueue, Count, BrokerTypeOK, TallyTypeOK
  <2>3. UNCHANGED <<free, owned, abandoned, owner>> /\ Cardinality(Slots') = Cardinality(Slots) - 1
    BY <1>4, <1>6 DEF Enqueue
  <2> QED BY <2>1, <2>2, <2>3 DEF BrokerTypeOK, CallsTypeOK, TallyTypeOK
<1>7. RefuseEarly(r) \/ Enter(r) \/ SlotTooLate(r) \/ BackpressureTimeout(r) \/ Cancel(r)
      => UNCHANGED <<free, Slots, jobVars, owner, tally>>
  BY DEF RefuseEarly, Enter, SlotTooLate, BackpressureTimeout, Cancel, Goto, Slots,
         BrokerTypeOK, CallsTypeOK
<1> QED BY <1>2, <1>3, <1>5, <1>6, <1>7 DEF Submits

(* All that a step counts as ended, whatever the verdict.                    *)
EndedTally == tally.completed + tally.failed + tally.cancelled

LEMMA CountsEnded ==
  ASSUME TallyTypeOK, NEW n \in Nat,
         NEW what \in {"completed", "failed", "cancelled"}, Count(what, n)
  PROVE  tally'.submitted = tally.submitted /\ EndedTally' = EndedTally + n /\ EndedTally \in Nat
<1>1. CASE what = "completed"
  BY <1>1 DEF Count, TallyTypeOK, EndedTally
<1>2. CASE what = "failed"
  BY <1>2 DEF Count, TallyTypeOK, EndedTally
<1>3. CASE what = "cancelled"
  BY <1>3 DEF Count, TallyTypeOK, EndedTally
<1> QED BY <1>1, <1>2, <1>3

LEMMA OwnerBooks ==
  ASSUME BrokerInv, NEW r \in Requests, OwnerVisits(r)
  PROVE  SlotsBalance' /\ Accounted'
<1> USE Sizes DEF BrokerInv, BrokerTypeOK, SlotsBalance, Accounted
<1>1. CASE TakeFirst(r)
  <2>1. Cardinality(queue') = Cardinality(queue) - 1 /\ Cardinality(owned') = 1
    BY <1>1, Shrinks, FS_Singleton DEF TakeFirst, JobsTypeOK
  <2>2. Cardinality(owned) = 0 /\ UNCHANGED <<free, Slots, abandoned, tally>>
    BY <1>1, FS_EmptySet DEF TakeFirst, Stages, EmptyHanded, callVars, Slots
  <2>3. SlotsBalance'
    BY <2>1, <2>2 DEF CallsTypeOK
  <2>4. owner # "releasing" /\ owner' # "releasing"
    BY <1>1 DEF TakeFirst
  <2>5. Accounted'
    BY <2>1, <2>2, <2>4 DEF TallyTypeOK
  <2> QED BY <2>3, <2>5
<1>2. CASE UNCHANGED <<free, Slots, queue, owned, abandoned, owner, tally>>
  BY <1>2
<1>3. Claim(r) \/ Answer(r) \/ FailOne(r)
      => UNCHANGED <<free, Slots, queue, owned, abandoned, owner, tally>>
  BY DEF Claim, Answer, FailOne, Slots
<1>4. CASE DropCancelled(r)
  <2>1. Cardinality(owned') = Cardinality(owned) - 1
    BY <1>4, Shrinks DEF DropCancelled, JobsTypeOK
  <2>2. tally'.submitted = tally.submitted /\ EndedTally' = EndedTally + 1 /\ EndedTally \in Nat
    BY <1>4, CountsEnded DEF DropCancelled
  <2>3. UNCHANGED <<Slots, queue, abandoned, owner>> /\ free' = free + 1
    BY <1>4 DEF DropCancelled, Slots
  <2>4. SlotsBalance'
    BY <2>1, <2>3 DEF CallsTypeOK
  <2>5. owner # "releasing"
    BY <1>4 DEF DropCancelled
  <2>6. Accounted'
    BY <2>1, <2>2, <2>3, <2>5 DEF EndedTally, TallyTypeOK
  <2> QED BY <2>4, <2>6
<1>5. CASE ReleaseOwnedJob(r)
  <2>1. Cardinality(owned') = Cardinality(owned) - 1
    BY <1>5, Shrinks DEF ReleaseOwnedJob, JobsTypeOK
  <2>2. owner' # "releasing" => Cardinality(owned') = 0
    BY <1>5, FS_EmptySet DEF ReleaseOwnedJob, Stages, Inferring
  <2>3. UNCHANGED <<Slots, queue, abandoned, tally>> /\ free' = free + 1 /\ owner = "releasing"
    BY <1>5 DEF ReleaseOwnedJob, Slots
  <2>4. SlotsBalance'
    BY <2>1, <2>3 DEF CallsTypeOK
  <2>5. Accounted'
    BY <2>1, <2>2, <2>3
  <2> QED BY <2>4, <2>5
<1>6. CASE Abandon(r)
  <2>1. Cardinality(abandoned') = Cardinality(abandoned) - 1
    BY <1>6, Shrinks DEF Abandon, JobsTypeOK
  <2>2. tally'.submitted = tally.submitted /\ EndedTally' = EndedTally + 1 /\ EndedTally \in Nat
    BY <1>6, CountsEnded DEF Abandon
  <2>3. UNCHANGED <<Slots, queue, owned, owner>> /\ free' = free + 1
    BY <1>6 DEF Abandon, Slots
  <2>4. SlotsBalance'
    BY <2>1, <2>3 DEF CallsTypeOK
  <2>5. owner # "releasing"
    BY <1>6 DEF Abandon
  <2>6. Accounted'
    BY <2>1, <2>2, <2>3, <2>5 DEF EndedTally, TallyTypeOK
  <2> QED BY <2>4, <2>6
<1> QED BY <1>1, <1>2, <1>3, <1>4, <1>5, <1>6 DEF OwnerVisits

LEMMA SchedulingBooks ==
  ASSUME BrokerInv, OwnerSteps \/ Gather \/ ResultMissing \/ OwnerFails
  PROVE  SlotsBalance' /\ Accounted'
<1> USE Sizes DEF BrokerInv, BrokerTypeOK, SlotsBalance, Accounted
<1>1. CASE Seal \/ Gather
  <2>1. Scan /\ UNCHANGED <<free, Slots, abandoned, tally>>
    BY <1>1 DEF Seal, Gather, callVars, Slots
  <2>2. PICK S \in SUBSET queue : owned' = owned \cup S /\ queue' = queue \ S
    BY <2>1 DEF Scan
  <2>3. queue \cap owned = {}
    BY DEF Places
  <2>4. Cardinality(queue') + Cardinality(owned') = Cardinality(queue) + Cardinality(owned)
    BY <2>2, <2>3, Moved DEF JobsTypeOK
  <2>5. Cardinality(queue') \in Nat /\ Cardinality(owned') \in Nat
    BY <2>2, Finite DEF JobsTypeOK
  <2>6. owner # "releasing" /\ owner' # "releasing"
    BY <1>1 DEF Seal, Gather
  <2>7. SlotsBalance'
    BY <2>1, <2>4, <2>5 DEF CallsTypeOK
  <2>8. Accounted'
    BY <2>1, <2>4, <2>5, <2>6 DEF TallyTypeOK
  <2> QED BY <2>7, <2>8
<1>2. CASE Claimed \/ TakeDevice \/ Infer \/ OwnerEnds \/ ResultMissing
  <2>1. /\ UNCHANGED <<free, Slots, queue, owned, abandoned, tally>>
        /\ owner # "releasing" /\ owner' # "releasing"
    BY <1>2 DEF Claimed, TakeDevice, Infer, OwnerEnds, ResultMissing, callVars, jobVars, Slots
  <2> QED BY <2>1
<1>3. CASE CountBatch
  <2>1. active = owned
    BY <1>3 DEF CountBatch, Stages, Inferring
  <2>2. /\ tally'.submitted = tally.submitted /\ EndedTally \in Nat
        /\ EndedTally' = EndedTally + Cardinality(owned)
    BY <1>3, <2>1, CountsEnded DEF CountBatch, Counted
  <2>3. UNCHANGED <<free, Slots, queue, owned, abandoned>>
    BY <1>3 DEF CountBatch, callVars, jobVars, Slots
  <2>4. owner # "releasing" /\ owner' = "releasing"
    BY <1>3 DEF CountBatch
  <2> QED BY <2>2, <2>3, <2>4 DEF EndedTally, TallyTypeOK
<1>4. CASE OwnerFails
  <2>1. Cardinality(abandoned') = Cardinality(owned) + Cardinality(queue)
    BY <1>4, Merged DEF OwnerFails, LeftBehind, JobsTypeOK, Places
  <2>2. Cardinality(abandoned) = 0 /\ Cardinality(owned') = 0 /\ Cardinality(queue') = 0
    BY <1>4, FS_EmptySet DEF OwnerFails, Stages, EmptyHanded
  <2>3. UNCHANGED <<free, Slots, tally>> /\ owner # "releasing" /\ owner' # "releasing"
    BY <1>4 DEF OwnerFails, callVars, Slots
  <2>4. SlotsBalance'
    BY <2>1, <2>2, <2>3 DEF CallsTypeOK
  <2>5. Accounted'
    BY <2>1, <2>2, <2>3 DEF TallyTypeOK
  <2> QED BY <2>4, <2>5
<1> QED BY <1>1, <1>2, <1>3, <1>4 DEF OwnerSteps

LEMMA LifeBooks ==
  ASSUME BrokerInv,
         (\E drop \in BOOLEAN : Shutdown(drop)) \/ Joined \/ BorrowDevice \/ ReturnDevice
  PROVE  SlotsBalance' /\ Accounted'
<1> USE Sizes DEF BrokerInv, BrokerTypeOK, SlotsBalance, Accounted
<1>1. ASSUME Shutdown(TRUE) PROVE SlotsBalance' /\ Accounted'
  <2>1. Cardinality(queue') = 0 /\ free' = free + Cardinality(queue)
    BY <1>1, FS_EmptySet DEF Shutdown
  <2>2. /\ tally'.submitted = tally.submitted /\ EndedTally \in Nat
        /\ EndedTally' = EndedTally + Cardinality(queue)
    BY <1>1, CountsEnded DEF Shutdown
  <2>3. UNCHANGED <<Slots, owned, abandoned, owner>>
    BY <1>1 DEF Shutdown, Slots
  <2> QED BY <2>1, <2>2, <2>3 DEF EndedTally, CallsTypeOK, TallyTypeOK
<1>2. CASE Shutdown(FALSE) \/ Joined \/ BorrowDevice \/ ReturnDevice
  <2>1. UNCHANGED <<free, Slots, queue, owned, abandoned, owner, tally>>
    BY <1>2 DEF Shutdown, Joined, BorrowDevice, ReturnDevice, callVars, jobVars, Slots
  <2> QED BY <2>1
<1> QED BY <1>1, <1>2

-----------------------------------------------------------------------------
LEMMA BrokerInvariant == BrokerSpec => []BrokerInv
<1>1. BrokerInit => BrokerInv
  <2>1. ASSUME BrokerInit PROVE BrokerTypeOK /\ Places /\ Stages
    BY <2>1, BrokerConstants
    DEF BrokerInit, BrokerTypeOK, CallsTypeOK, JobsTypeOK, TallyTypeOK, Futures, Places, Unresolved,
        Stages, EmptyHanded, Batching, Inferring
  <2>2. ASSUME BrokerInit PROVE SlotsBalance /\ Accounted
    <3>1. Slots = {}
      BY <2>2 DEF BrokerInit, Slots
    <3> QED BY <2>2, <3>1, BrokerConstants, FS_EmptySet DEF BrokerInit, SlotsBalance, Accounted
  <2> QED BY <2>1, <2>2 DEF BrokerInv
<1>2. ASSUME BrokerInv, [BrokerNext]_brokerVars PROVE BrokerInv'
  <2> USE DEF BrokerInv
  <2>1. CASE \E r \in Requests :
               RefuseEarly(r) \/ Enter(r) \/ Submits(r) \/ BackpressureTimeout(r) \/ Cancel(r)
    BY <1>2, <2>1, CallStep, CallPlaces, CallBooks
  <2>2. CASE \E r \in Requests : OwnerVisits(r)
    BY <1>2, <2>2, OwnerStep, OwnerPlaces, OwnerBooks
  <2>3. CASE OwnerSteps \/ Gather \/ ResultMissing \/ OwnerFails
    BY <1>2, <2>3, SchedulingStep, SchedulingPlaces, SchedulingBooks
  <2>4. CASE (\E drop \in BOOLEAN : Shutdown(drop)) \/ Joined \/ BorrowDevice \/ ReturnDevice
    BY <1>2, <2>4, LifeStep, LifePlaces, LifeBooks
  <2>5. CASE UNCHANGED brokerVars
    BY <1>2, <2>5 DEF brokerVars, callVars, jobVars, lifeVars, deviceVars, BrokerTypeOK, CallsTypeOK,
                JobsTypeOK, TallyTypeOK, Places, Stages, EmptyHanded, Batching, Inferring,
                SlotsBalance, Accounted, Slots
  <2> QED BY <1>2, <2>1, <2>2, <2>3, <2>4, <2>5 DEF BrokerNext
<1> QED BY <1>1, <1>2, PTL DEF BrokerSpec

(* A slot of the semaphore is never lost and never returned twice.           *)
THEOREM SlotsKept == BrokerSpec => []SlotsBalance
BY BrokerInvariant, PTL DEF BrokerInv

(* Every accepted request shows up in the metrics exactly once.              *)
THEOREM RequestsAccounted == BrokerSpec => []Accounted
BY BrokerInvariant, PTL DEF BrokerInv

(* When is_idle() says so, the device is not in use by the owner and nobody  *)
(* waits for an answer but those a failed owner is failing.                  *)
THEOREM IdleIsProof == BrokerSpec => []IdleProof
<1>1. BrokerInv => IdleProof
  BY DEF BrokerInv, IdleProof, Idle, Places, Stages, Inferring, BrokerTypeOK, JobsTypeOK
<1> QED BY <1>1, BrokerInvariant, PTL

(* However the owner ended, by shutdown or by its own failure: it has given  *)
(* the device back, no caller holds an unresolved future, every accepted     *)
(* request is counted as completed, failed or cancelled, and its slots are   *)
(* back, but those of submit() calls about to find the broker closed.        *)
OwnerLeftNothing ==
    owner = "gone" =>
      /\ device # "owner"
      /\ \A r \in Requests : future[r] \notin Unresolved
      /\ tally.submitted = tally.completed + tally.failed + tally.cancelled
      /\ free + Cardinality(Slots) = MaxPending

THEOREM NothingLeftBehind == BrokerSpec => []OwnerLeftNothing
<1>1. ASSUME BrokerInv, owner = "gone" PROVE OwnerLeftNothing
  <2> USE DEF BrokerInv
  <2>1. queue = {} /\ owned = {} /\ abandoned = {} /\ device # "owner"
    BY <1>1 DEF Stages, EmptyHanded, Inferring
  <2>2. \A r \in Requests : future[r] \notin Unresolved
    BY <1>1, <2>1 DEF Places
  <2>3. Cardinality({}) = 0
    BY FS_EmptySet
  <2>4. Cardinality(Slots) \in Nat
    BY Finite DEF Slots
  <2>5. free + Cardinality(Slots) = MaxPending
    BY <1>1, <2>1, <2>3, <2>4 DEF SlotsBalance, BrokerTypeOK, CallsTypeOK
  <2>6. tally.submitted = tally.completed + tally.failed + tally.cancelled
    BY <1>1, <2>1, <2>3 DEF Accounted, BrokerTypeOK, TallyTypeOK
  <2> QED BY <2>1, <2>2, <2>5, <2>6 DEF OwnerLeftNothing
<1> QED BY <1>1, BrokerInvariant, PTL DEF OwnerLeftNothing

-----------------------------------------------------------------------------
(* The broker implements the pool of requests                                *)

LEMMA ShownOpen ==
  ASSUME BrokerTypeOK
  PROVE  /\ PoolState \in [Requests -> {"new", "open", "result", "error", "cancelled"}]
         /\ \A r \in Requests :
              /\ PoolState[r] = "new" <=> future[r] = "none"
              /\ PoolState[r] = "open" <=> future[r] \in Unresolved
BY DEF PoolState, Shown, Unresolved, BrokerTypeOK, CallsTypeOK, Futures

LEMMA ShownStep ==
  ASSUME BrokerTypeOK, NEW r \in Requests, NEW to, Resolve(r, to)
  PROVE  PoolState' = [PoolState EXCEPT ![r] = Shown(to)]
BY DEF PoolState, Resolve, BrokerTypeOK, CallsTypeOK

(* The call that takes the last slot is the only one that can still open.    *)
LEMMA RoomLeft ==
  ASSUME BrokerInv, NEW r \in Requests, producer[r] = "preparing"
  PROVE  Cardinality(Pool!OpenRequests) < MaxPending
<1> USE DEF BrokerInv, BrokerTypeOK
<1>1. Pool!OpenRequests \subseteq (queue \cup owned) \cup abandoned
  BY ShownOpen DEF Pool!OpenRequests, Places
<1>2. /\ Cardinality((queue \cup owned) \cup abandoned)
           = Cardinality(queue \cup owned) + Cardinality(abandoned)
      /\ Cardinality(queue \cup owned) = Cardinality(queue) + Cardinality(owned)
  BY Merged DEF Places, JobsTypeOK
<1>3. /\ Cardinality(Pool!OpenRequests) =< Cardinality((queue \cup owned) \cup abandoned)
      /\ Cardinality(Pool!OpenRequests) \in Nat
  BY <1>1, Finite, FS_Subset DEF JobsTypeOK
<1>4. Cardinality(Slots) # 0
  BY Finite, FS_EmptySet DEF Slots
<1> QED BY <1>2, <1>3, <1>4, Sizes, BrokerConstants DEF SlotsBalance, CallsTypeOK

LEMMA PoolCall ==
  ASSUME BrokerInv, NEW r \in Requests,
         RefuseEarly(r) \/ Enter(r) \/ Submits(r) \/ BackpressureTimeout(r) \/ Cancel(r)
  PROVE  [Pool!PoolNext]_PoolState
<1> USE DEF BrokerInv
<1>1. CASE Enqueue(r)
  <2>1. PoolState' = [PoolState EXCEPT ![r] = "open"]
    BY <1>1, ShownStep DEF Enqueue, Shown, Unresolved
  <2>2. PoolState[r] = "new" /\ Cardinality(Pool!OpenRequests) < MaxPending
    BY <1>1, RoomLeft, ShownOpen DEF Enqueue, Places
  <2>3. Pool!Accept(r)
    BY <2>1, <2>2 DEF Pool!Accept, Pool!Cardinality, Pool!IsFiniteSet, Cardinality, IsFiniteSet
  <2> QED BY <2>3 DEF Pool!PoolNext
<1>2. CASE AnswerEmpty(r)
  <2>1. PoolState' = [PoolState EXCEPT ![r] = "result"] /\ PoolState[r] = "new"
    BY <1>2, ShownStep, ShownOpen DEF AnswerEmpty, Shown, Unresolved, Places
  <2> QED BY <2>1 DEF Pool!PoolNext, Pool!AnswerAtOnce
<1>3. CASE Cancel(r)
  <2>1. PoolState' = [PoolState EXCEPT ![r] = "cancelled"] /\ PoolState[r] = "open"
    BY <1>3, ShownStep, ShownOpen DEF Cancel, Shown, Unresolved
  <2> QED BY <2>1 DEF Pool!PoolNext, Pool!Settle, Pool!Verdicts
<1>4. RefuseEarly(r) \/ Enter(r) \/ AcquireSlot(r) \/ SlotTooLate(r) \/ GiveBack(r)
        \/ BackpressureTimeout(r) => UNCHANGED future
  BY DEF RefuseEarly, Enter, AcquireSlot, SlotTooLate, GiveBack, BackpressureTimeout
<1>5. UNCHANGED future => UNCHANGED PoolState
  BY DEF PoolState
<1> QED BY <1>1, <1>2, <1>3, <1>4, <1>5 DEF Submits

(* The owner settles what is open, and changes nothing that is settled.      *)
LEMMA PoolOwner ==
  ASSUME BrokerInv, NEW r \in Requests, OwnerVisits(r)
  PROVE  [Pool!PoolNext]_PoolState
<1> USE DEF BrokerInv
<1>1. \/ UNCHANGED future
      \/ future[r] = "pending" /\ Resolve(r, "running")
      \/ \E to \in Pool!Verdicts :
           Resolve(r, to) /\ (future[r] \in Unresolved \/ future[r] = to)
  <2>1. CASE TakeFirst(r) \/ ReleaseOwnedJob(r)
    BY <2>1 DEF TakeFirst, ReleaseOwnedJob, callVars
  <2>2. CASE Claim(r)
    BY <2>2 DEF Claim
  <2>3. CASE DropCancelled(r)
    <3>1. future[r] \in Unclaimed
      BY <2>3 DEF DropCancelled, Stages, Batching
    <3> QED BY <2>3, <3>1 DEF DropCancelled, Pool!Verdicts, Unresolved, Unclaimed
  <2>4. CASE Answer(r) \/ FailOne(r)
    <3>1. future[r] = "running"
      BY <2>4 DEF Answer, FailOne, Stages, Inferring, BrokerTypeOK, JobsTypeOK
    <3> QED BY <2>4, <3>1 DEF Answer, FailOne, Pool!Verdicts, Unresolved
  <2>5. CASE Abandon(r)
    <3>1. future[r] \in Unclaimed
      BY <2>5 DEF Abandon, Places
    <3> QED BY <2>5, <3>1 DEF Abandon, Pool!Verdicts, Unresolved, Unclaimed
  <2> QED BY <2>1, <2>2, <2>3, <2>4, <2>5 DEF OwnerVisits
<1>2. CASE UNCHANGED future
  BY <1>2 DEF PoolState
<1>3. CASE future[r] = "pending" /\ Resolve(r, "running")
  BY <1>3, ShownStep, ShownOpen DEF Shown, Unresolved
<1>4. ASSUME NEW to \in Pool!Verdicts, Resolve(r, to), future[r] \in Unresolved \/ future[r] = to
      PROVE  [Pool!PoolNext]_PoolState
  <2>1. PoolState' = [PoolState EXCEPT ![r] = to]
    BY <1>4, ShownStep DEF Shown, Unresolved, Pool!Verdicts
  <2>2. CASE future[r] \in Unresolved
    BY <2>1, <2>2, ShownOpen DEF Pool!PoolNext, Pool!Settle
  <2>3. CASE future[r] = to
    <3>1. PoolState[r] = to
      BY <2>3 DEF PoolState, Shown, Unresolved, Pool!Verdicts
    <3> QED BY <2>1, <3>1, ShownOpen
  <2> QED BY <1>4, <2>2, <2>3
<1> QED BY <1>1, <1>2, <1>3, <1>4

LEMMA PoolShutdown ==
  ASSUME BrokerInv, NEW drop \in BOOLEAN, Shutdown(drop)
  PROVE  [Pool!PoolNext]_PoolState
<1>1. CASE drop
  <2> DEFINE dropped == {r \in queue : future[r] = "pending"}
  <2>1. dropped \in SUBSET Pool!OpenRequests
    BY ShownOpen DEF BrokerInv, BrokerTypeOK, JobsTypeOK, Pool!OpenRequests, Unresolved
  <2>2. \A r \in Requests :
          PoolState'[r] = IF r \in dropped THEN "cancelled" ELSE PoolState[r]
    BY <1>1 DEF Shutdown, PoolState, Shown, BrokerInv, Places, Unclaimed, Unresolved
  <2>3. PoolState' = [r \in Requests |-> IF r \in dropped THEN "cancelled" ELSE PoolState[r]]
    BY <2>2 DEF PoolState
  <2> HIDE DEF dropped
  <2> QED BY <2>1, <2>3 DEF Pool!PoolNext, Pool!CancelMany
<1>2. CASE ~drop
  BY <1>2 DEF Shutdown, PoolState
<1> QED BY <1>1, <1>2

(* Each accepted request is settled at most once, each by one verdict, and   *)
(* no more than max_pending_requests are open at a time.                     *)
THEOREM BrokerImplementsPool == BrokerSpec => Pool!PoolSafe
<1>1. ASSUME BrokerInit PROVE Pool!PoolInit
  <2>1. \A r \in Requests : Shown(future[r]) = "new"
    BY <1>1 DEF BrokerInit, Shown, Unresolved
  <2> QED BY <2>1, Zenon DEF Pool!PoolInit, PoolState
<1>2. ASSUME BrokerInv, [BrokerNext]_brokerVars PROVE [Pool!PoolNext]_PoolState
  <2>1. CASE \E r \in Requests :
               RefuseEarly(r) \/ Enter(r) \/ Submits(r) \/ BackpressureTimeout(r) \/ Cancel(r)
    BY <1>2, <2>1, PoolCall
  <2>2. CASE \E r \in Requests : OwnerVisits(r)
    BY <1>2, <2>2, PoolOwner
  <2>3. CASE \E drop \in BOOLEAN : Shutdown(drop)
    BY <1>2, <2>3, PoolShutdown
  <2>4. CASE OwnerSteps \/ Gather \/ ResultMissing \/ OwnerFails \/ Joined \/ BorrowDevice
               \/ ReturnDevice \/ UNCHANGED brokerVars
    <3>1. UNCHANGED future
      BY <2>4 DEF OwnerSteps, Seal, Claimed, TakeDevice, Infer, CountBatch, OwnerEnds, Gather,
                  ResultMissing, OwnerFails, Joined, BorrowDevice, ReturnDevice, callVars,
                  brokerVars
    <3> QED BY <3>1 DEF PoolState
  <2> QED BY <1>2, <2>1, <2>2, <2>3, <2>4 DEF BrokerNext
<1> QED BY <1>1, <1>2, BrokerInvariant, PTL DEF BrokerSpec, Pool!PoolSafe
=============================================================================
