----------------------------- MODULE Serve_proofs -----------------------------
(***************************************************************************)
(* Theorems about the analysis server, for any number of requests, any     *)
(* limits and any sequence of publications.                                *)
(***************************************************************************)
EXTENDS Serve, ServeModels_proofs

-----------------------------------------------------------------------------
(* The server drives the model manager by its own steps only, so what is     *)
(* proved of AtomicModelManager holds in the server.                         *)

THEOREM ServeImplementsManager == Spec => ModelsSpec
<1>1. Init => ModelsInit
  BY DEF Init
<1>2. ASSUME [Next]_vars PROVE [ModelsNext]_mvars
  <2>1. CASE Native
    BY <2>1, ServeConstants DEF Native, ModelsNext
  <2>2. CASE \E r \in Requests : Work(r)
    BY <2>2 DEF Work, ModelsNext, Requests
  <2>3. CASE \E r \in Requests : \/ Refuse(r) \/ Arrive(r) \/ Grant(r) \/ Abandon(r)
                                 \/ GiveUp(r) \/ LoopStep(r)
    BY <2>3 DEF Refuse, Arrive, Grant, Abandon, GiveUp, LoopStep, Admit, Reject,
                Start, JobDone, Respond, mvars
  <2>4. CASE Stop \/ UNCHANGED vars
    BY <2>4 DEF Stop, vars, mvars
  <2>5. CASE Drained
    BY <2>5 DEF Drained, ModelsNext
  <2> QED BY <1>2, <2>1, <2>2, <2>3, <2>4, <2>5 DEF Next
<1> QED BY <1>1, <1>2, PTL DEF Spec, ModelsSpec

(* No request is ever analysed with a closed model.                          *)
THEOREM ServeUsesOpen == Spec => []NoUseAfterClose
BY ServeImplementsManager, OpenWhileUsed, PTL

-----------------------------------------------------------------------------
(* The slots                                                                 *)

Queued == {r \in Requests : rq[r] = "queued"}
Admitted == {r \in Requests : rq[r] = "admitted"}
Held == jobs \cup Admitted

AdmissionTypeOK ==
    /\ rq \in [Requests -> {"new", "queued", "admitted", "running", "ended"}]
    /\ slots \in Nat
    /\ acquired \subseteq Queued /\ jobs \subseteq Requests
    /\ \A r \in jobs : rq[r] \in {"running", "ended"}

(* SlotBooks on the disjoint parts.                                          *)
Books ==
    /\ slots + Cardinality(acquired) + Cardinality(Held) = Concurrency
    /\ waiting = Cardinality(Queued)
    /\ requests = waiting + Cardinality(Held)

(* A native call exists only for a submitted analysis.                       *)
NativeIsJob ==
    \A r \in Requests : mpc[r] \notin {"none", "left", "failed"} => r \in jobs

(* The shutdown waits for every analysis there is, and then there is none.   *)
DrainOrder ==
    /\ life \in {"up", "drain", "closed"}
    /\ life # "closed" => cl = "open"
    /\ life = "drain" => jobs \subseteq draining
    /\ life = "closed" => jobs = {}

ServeInv == AdmissionTypeOK /\ Books /\ NativeIsJob /\ DrainOrder

LEMMA RequestCalls == Requests \subseteq Calls
BY DEF Requests

(* How the sets of requests change when one moves.                           *)
LEMMA RequestMoves ==
    ASSUME AdmissionTypeOK, NEW r \in Requests, NEW to, Move(r, to)
    PROVE  /\ Queued' = IF to = "queued" THEN Queued \cup {r} ELSE Queued \ {r}
           /\ Admitted' = IF to = "admitted" THEN Admitted \cup {r}
                          ELSE Admitted \ {r}
           /\ rq'[r] = to /\ \A s \in Requests \ {r} : rq'[s] = rq[s]
BY DEF AdmissionTypeOK, Move, Queued, Admitted

(* What the counting needs of the sets.                                      *)
LEMMA Sets ==
    ASSUME AdmissionTypeOK
    PROVE  /\ Queued \in SUBSET Calls /\ acquired \in SUBSET Calls
           /\ Held \in SUBSET Calls
           /\ Queued \cap Held = {} /\ jobs \cap Admitted = {}
BY RequestCalls DEF AdmissionTypeOK, Queued, Held, Admitted

-----------------------------------------------------------------------------
(* Each step of the admission keeps the books.                               *)

LEMMA Arrives ==
    ASSUME AdmissionTypeOK, Books, NEW r \in Requests, Refuse(r) \/ Arrive(r)
    PROVE  AdmissionTypeOK' /\ Books'
<1>1. rq[r] = "new" /\ UNCHANGED <<slots, acquired, jobs>>
  BY DEF Refuse, Arrive
<1>2. r \notin Queued /\ r \notin Admitted /\ r \notin jobs
  BY <1>1 DEF Queued, Admitted, AdmissionTypeOK
<1>3. PICK to \in {"ended", "queued"} :
        /\ Move(r, to)
        /\ to = "ended" => UNCHANGED <<requests, waiting>>
        /\ to = "queued" => requests' = requests + 1 /\ waiting' = waiting + 1
  BY DEF Refuse, Arrive
<1>4. Admitted' = Admitted /\ Queued' = IF to = "queued" THEN Queued \cup {r} ELSE Queued
  BY <1>2, <1>3, RequestMoves
<1>5. Held' = Held
  BY <1>1, <1>4 DEF Held
<1>6. AdmissionTypeOK'
  BY <1>1, <1>2, <1>3, <1>4, RequestMoves DEF AdmissionTypeOK, Move
<1>7. Books'
  <2>1. to = "queued" => Cardinality(Queued') = Cardinality(Queued) + 1
    BY <1>2, <1>4, Sets, Counting, RequestCalls
  <2>2. Cardinality(Queued) \in Nat /\ Cardinality(Held) \in Nat
    BY Sets, Counting, RequestCalls
  <2> QED BY <1>1, <1>3, <1>4, <1>5, <2>1, <2>2 DEF Books
<1> QED BY <1>6, <1>7

LEMMA Grants ==
    ASSUME AdmissionTypeOK, Books, NEW r \in Requests, Grant(r)
    PROVE  AdmissionTypeOK' /\ Books'
<1>1. /\ rq[r] = "queued" /\ r \notin acquired /\ slots > 0 /\ slots' = slots - 1
      /\ acquired' = acquired \cup {r}
      /\ UNCHANGED <<rq, requests, waiting, jobs>>
  BY DEF Grant
<1>2. Queued' = Queued /\ Held' = Held
  BY <1>1 DEF Queued, Held, Admitted
<1>3. AdmissionTypeOK'
  BY <1>1, <1>2 DEF AdmissionTypeOK, Queued
<1>4. Cardinality(acquired') = Cardinality(acquired) + 1
  BY <1>1, Sets, Counting, RequestCalls
<1>5. Books'
  BY <1>1, <1>2, <1>4, Sets, Counting, RequestCalls DEF Books, AdmissionTypeOK
<1> QED BY <1>3, <1>5

LEMMA Admits ==
    ASSUME AdmissionTypeOK, Books, NEW r \in Requests, Admit(r)
    PROVE  AdmissionTypeOK' /\ Books'
<1>1. /\ rq[r] = "queued" /\ r \in acquired /\ Move(r, "admitted")
      /\ waiting' = waiting - 1 /\ acquired' = acquired \ {r}
      /\ UNCHANGED <<slots, requests, jobs>>
  BY DEF Admit
<1>2. r \in Queued /\ r \notin Held /\ r \notin jobs
  BY <1>1, Sets DEF Queued, Held
<1>3. Queued' = Queued \ {r} /\ Held' = Held \cup {r}
  BY <1>1, RequestMoves DEF Held
<1>4. AdmissionTypeOK'
  BY <1>1, <1>2, <1>3, RequestMoves DEF AdmissionTypeOK, Move
<1>5. /\ Cardinality(acquired') = Cardinality(acquired) - 1
      /\ Cardinality(Queued') = Cardinality(Queued) - 1
      /\ Cardinality(Held') = Cardinality(Held) + 1
  BY <1>1, <1>2, <1>3, Sets, Counting, RequestCalls
<1>6. /\ Cardinality(acquired) \in Nat /\ Cardinality(Queued) \in Nat
      /\ Cardinality(Held) \in Nat
  BY Sets, Counting, RequestCalls
<1>7. Books'
  BY <1>1, <1>5, <1>6 DEF Books, AdmissionTypeOK
<1> QED BY <1>4, <1>7

LEMMA Rejects ==
    ASSUME AdmissionTypeOK, Books, NEW r \in Requests, Reject(r)
    PROVE  AdmissionTypeOK' /\ Books'
<1>1. /\ rq[r] = "queued" /\ Move(r, "ended")
      /\ waiting' = waiting - 1 /\ requests' = requests - 1
      /\ slots' = IF r \in acquired THEN slots + 1 ELSE slots
      /\ acquired' = acquired \ {r} /\ UNCHANGED jobs
  BY DEF Reject, Returned
<1>2. r \in Queued /\ r \notin Held /\ r \notin jobs /\ r \notin Admitted
  BY <1>1, Sets DEF Queued, Held
<1>3. Queued' = Queued \ {r} /\ Held' = Held
  BY <1>1, <1>2, RequestMoves DEF Held
<1>4. AdmissionTypeOK'
  BY <1>1, <1>2, <1>3, RequestMoves DEF AdmissionTypeOK, Move
<1>5. /\ Cardinality(acquired') = IF r \in acquired THEN Cardinality(acquired) - 1
                                  ELSE Cardinality(acquired)
      /\ Cardinality(Queued') = Cardinality(Queued) - 1
  <2>1. r \notin acquired => acquired' = acquired
    BY <1>1
  <2> QED BY <1>1, <1>2, <1>3, <2>1, Sets, Counting, RequestCalls
<1>6. /\ Cardinality(acquired) \in Nat /\ Cardinality(Queued) \in Nat
      /\ Cardinality(Held) \in Nat
  BY Sets, Counting, RequestCalls
<1>7. Books'
  BY <1>1, <1>3, <1>5, <1>6 DEF Books, AdmissionTypeOK
<1> QED BY <1>4, <1>7

(* A slot is released by whoever owns it: the admitted request that starts   *)
(* nothing, or its analysis.                                                 *)
LEMMA Releases ==
    ASSUME AdmissionTypeOK, Books, NEW r \in Held, Release,
           Held' = Held \ {r}, Queued' = Queued,
           UNCHANGED <<acquired, waiting>>, AdmissionTypeOK'
    PROVE  Books'
<1>1. r \in Calls
  BY Sets
<1>2. /\ Cardinality(acquired) \in Nat /\ Cardinality(Queued) \in Nat
      /\ Cardinality(Held) \in Nat /\ Cardinality(Held') = Cardinality(Held) - 1
  BY <1>1, Sets, Counting
<1> QED BY <1>2 DEF Books, Release, AdmissionTypeOK

LEMMA AdmittedMoves ==
    ASSUME AdmissionTypeOK, Books, NEW r \in Requests, Abandon(r) \/ Start(r)
    PROVE  AdmissionTypeOK' /\ Books'
<1>1. rq[r] = "admitted" /\ UNCHANGED <<acquired, waiting>>
  BY DEF Abandon, Start
<1>2. r \in Admitted /\ r \in Held /\ r \notin jobs /\ r \notin Queued
  BY <1>1, Sets DEF Admitted, Held
<1>3. CASE Move(r, "ended") /\ Release /\ UNCHANGED jobs
  <2>1. Queued' = Queued /\ Held' = Held \ {r}
    BY <1>2, <1>3, RequestMoves DEF Held
  <2>2. AdmissionTypeOK'
    BY <1>1, <1>2, <1>3, <2>1, RequestMoves DEF AdmissionTypeOK, Move, Release
  <2> QED BY <1>1, <1>2, <1>3, <2>1, <2>2, Releases
<1>4. CASE /\ Move(r, "running") /\ jobs' = jobs \cup {r}
           /\ UNCHANGED <<requests, slots>>
  <2>1. Queued' = Queued /\ Held' = Held
    BY <1>2, <1>4, RequestMoves DEF Held
  <2>2. AdmissionTypeOK'
    BY <1>1, <1>2, <1>4, <2>1, RequestMoves DEF AdmissionTypeOK, Move
  <2> QED BY <1>1, <1>4, <2>1, <2>2 DEF Books
<1> QED BY <1>3, <1>4 DEF Abandon, Start

LEMMA JobsEnd ==
    ASSUME AdmissionTypeOK, Books, NEW r \in Requests, JobDone(r)
    PROVE  AdmissionTypeOK' /\ Books'
<1>1. /\ r \in jobs /\ jobs' = jobs \ {r} /\ Release
      /\ UNCHANGED <<rq, acquired, waiting>>
  BY DEF JobDone
<1>2. r \in Held /\ r \notin Admitted
  BY <1>1, Sets DEF Held
<1>3. Queued' = Queued /\ Held' = Held \ {r}
  BY <1>1, <1>2 DEF Queued, Held, Admitted
<1>4. AdmissionTypeOK'
  BY <1>1, <1>3 DEF AdmissionTypeOK, Release
<1> QED BY <1>1, <1>2, <1>3, <1>4, Releases

LEMMA AnswersEnd ==
    ASSUME AdmissionTypeOK, Books, NEW r \in Requests, Respond(r) \/ GiveUp(r)
    PROVE  AdmissionTypeOK' /\ Books'
<1>1. /\ rq[r] = "running" /\ Move(r, "ended")
      /\ UNCHANGED <<slots, acquired, requests, waiting, jobs>>
  BY DEF Respond, GiveUp
<1>2. r \notin Queued /\ r \notin Admitted
  BY <1>1 DEF Queued, Admitted
<1>3. Queued' = Queued /\ Held' = Held
  BY <1>1, <1>2, RequestMoves DEF Held
<1>4. AdmissionTypeOK'
  BY <1>1, <1>2, <1>3, RequestMoves DEF AdmissionTypeOK, Move
<1> QED BY <1>1, <1>3, <1>4 DEF Books

-----------------------------------------------------------------------------
(* Native calls and the shutdown                                             *)

LEMMA CallsRun ==
    ASSUME ModelsTypeOK, NEW t \in Calls, EndEarly(t) \/ LeaseStep(t)
    PROVE  /\ mpc[t] \notin {"none", "left", "failed"}
           /\ \A s \in Calls \ {t} : mpc'[s] = mpc[s]
           /\ UNCHANGED cl
BY DEF ModelsTypeOK, EndEarly, LeaseStep, WaitForReload, RefuseClosed,
       BeginRefresh, Share, Stat, ReadManifest, Load, Install, CloseRetired,
       Leave, AtGate, Go

LEMMA NativeSteps ==
    ASSUME ModelsTypeOK, ServeInv, Native
    PROVE  NativeIsJob' /\ DrainOrder'
<1> USE DEF ServeInv, NativeIsJob, DrainOrder
<1>0. UNCHANGED avars
  BY DEF Native
<1>1. CASE Call(Boot)
  BY <1>0, <1>1 DEF Call, Go, ModelsTypeOK, Requests, avars
<1>2. CASE \E t \in Calls : EndEarly(t) \/ LeaseStep(t)
  <2>1. PICK t \in Calls : EndEarly(t) \/ LeaseStep(t)
    BY <1>2
  <2>2. NativeIsJob'
    BY <1>0, <2>1, CallsRun, RequestCalls DEF avars
  <2> QED BY <1>0, <2>1, <2>2, CallsRun DEF avars
<1>3. CASE CloseStep
  BY <1>0, <1>3 DEF CloseStep, CloseWaits, CloseTakes, CloseModel, avars
<1>4. CASE \E c \in Contents \cup Unusable : Publish(c)
  BY <1>0, <1>4 DEF Publish, avars
<1> QED BY <1>1, <1>2, <1>3, <1>4 DEF Native, ManagerStep

LEMMA RequestSteps ==
    ASSUME ModelsTypeOK, ServeInv, NEW r \in Requests,
           \/ Refuse(r) \/ Arrive(r) \/ Grant(r) \/ LoopStep(r) \/ Work(r)
           \/ Abandon(r) \/ GiveUp(r)
    PROVE  NativeIsJob' /\ DrainOrder'
<1> USE DEF ServeInv, NativeIsJob, DrainOrder
<1>1. CASE Work(r)
  <2>1. NativeIsJob'
    BY <1>1 DEF Work, Call, Go, ModelsTypeOK, Requests, avars
  <2> QED BY <1>1, <2>1 DEF Work, Call, avars
<1>2. CASE Start(r)
  BY <1>2 DEF Start, MayStart, stopping, mvars
<1>3. CASE JobDone(r)
  BY <1>3 DEF JobDone, Finished, mvars
<1>4. CASE \/ Refuse(r) \/ Arrive(r) \/ Grant(r) \/ Abandon(r) \/ GiveUp(r)
           \/ Admit(r) \/ Reject(r) \/ Respond(r)
  BY <1>4 DEF Refuse, Arrive, Grant, Abandon, GiveUp, Admit, Reject, Respond, mvars
<1> QED BY <1>1, <1>2, <1>3, <1>4 DEF LoopStep

LEMMA ShutdownSteps ==
    ASSUME ServeInv, Stop \/ Drained \/ UNCHANGED vars
    PROVE  NativeIsJob' /\ DrainOrder'
<1> USE DEF ServeInv, NativeIsJob, DrainOrder
<1>1. CASE Stop
  BY <1>1 DEF Stop, mvars
<1>2. CASE Drained
  BY <1>2 DEF Drained, Close
<1>3. CASE UNCHANGED vars
  BY <1>3 DEF vars, avars, mvars
<1> QED BY <1>1, <1>2, <1>3

LEMMA ServeInductive == Spec => []ServeInv
<1>1. Init => ServeInv
  <2> SUFFICES ASSUME Init PROVE ServeInv
    OBVIOUS
  <2>1. Queued = {} /\ Admitted = {} /\ Held = {}
    BY DEF Init, Queued, Admitted, Held
  <2>2. AdmissionTypeOK
    BY ServeLimits DEF Init, AdmissionTypeOK
  <2>3. Books
    BY <2>1, ServeLimits, FS_EmptySet DEF Init, Books
  <2> QED
    BY <2>2, <2>3, RequestCalls
    DEF Init, ModelsInit, ServeInv, NativeIsJob, DrainOrder
<1>2. ServeInv /\ ModelsTypeOK /\ [Next]_vars => ServeInv'
  <2> SUFFICES ASSUME ServeInv, ModelsTypeOK, [Next]_vars PROVE ServeInv'
    OBVIOUS
  <2>1. AdmissionTypeOK' /\ Books'
    <3>0. AdmissionTypeOK /\ Books
      BY DEF ServeInv
    <3>1. CASE \E r \in Requests : \/ Refuse(r) \/ Arrive(r) \/ Grant(r)
                                   \/ Abandon(r) \/ GiveUp(r) \/ LoopStep(r)
      BY <3>0, <3>1, Arrives, Grants, Admits, Rejects, AdmittedMoves, JobsEnd,
         AnswersEnd
      DEF LoopStep
    <3>2. CASE Native \/ Stop \/ Drained \/ UNCHANGED vars \/ \E r \in Requests : Work(r)
      <4>1. UNCHANGED <<rq, slots, acquired, requests, waiting, jobs>>
        BY <3>2 DEF Native, Stop, Drained, Work, vars, avars
      <4>2. Queued' = Queued /\ Held' = Held
        BY <4>1 DEF Queued, Held, Admitted
      <4> QED BY <3>0, <4>1, <4>2 DEF AdmissionTypeOK, Books
    <3> QED BY <3>1, <3>2 DEF Next
  <2>2. NativeIsJob' /\ DrainOrder'
    BY NativeSteps, RequestSteps, ShutdownSteps DEF Next
  <2> QED BY <2>1, <2>2 DEF ServeInv
<1>3. Spec => []ModelsTypeOK
  BY ServeImplementsManager, ModelsTypeCorrect, PTL
<1> QED BY <1>1, <1>2, <1>3, PTL DEF Spec

-----------------------------------------------------------------------------
(* No slot is ever leaked or released twice, whatever limits are configured  *)
(* and however acquisition, disconnection, timeout and shutdown interleave.  *)
THEOREM SlotsBalance == Spec => []SlotBooks
<1>1. ASSUME ServeInv PROVE SlotBooks
  <2>1. Holders = acquired \cup Held /\ Holders \ acquired = Held
        /\ acquired \cap Held = {}
    BY <1>1, Sets DEF ServeInv, AdmissionTypeOK, Holders, Held, Admitted
  <2>2. IsFiniteSet(acquired) /\ IsFiniteSet(Held)
    BY <1>1, Sets, ServeConstants, FS_Subset DEF ServeInv
  <2>3. /\ Cardinality(acquired) \in Nat /\ Cardinality(Held) \in Nat
        /\ Cardinality(Holders) = Cardinality(acquired) + Cardinality(Held)
    <3>1. /\ Cardinality(acquired) \in Nat /\ Cardinality(Held) \in Nat
          /\ Cardinality(acquired \cap Held) = 0
      BY <2>1, <2>2, FS_EmptySet, FS_CardinalityType
    <3>2. Cardinality(acquired \cup Held)
            = Cardinality(acquired) + Cardinality(Held) - Cardinality(acquired \cap Held)
      BY <2>2, FS_Union
    <3> QED BY <2>1, <3>1, <3>2
  <2>4. slots + Cardinality(Holders) = Concurrency
    BY <1>1, <2>3, ServeLimits DEF ServeInv, Books, AdmissionTypeOK
  <2>5. requests = waiting + Cardinality(Holders \ acquired)
    BY <1>1, <2>1 DEF ServeInv, Books
  <2>6. waiting = Cardinality({r \in Requests : rq[r] = "queued"})
    BY <1>1 DEF ServeInv, Books, Queued
  <2> QED BY <2>4, <2>5, <2>6 DEF SlotBooks
<1> QED BY <1>1, ServeInductive, PTL

(* At most max_concurrency analyses run, those of departed clients included. *)
THEOREM ConcurrencyKept == Spec => []NativeBounded
<1>1. ASSUME ServeInv PROVE NativeBounded
  <2> DEFINE N == {r \in Requests : mpc[r] \notin {"none", "left", "failed"}}
  <2>1. N \subseteq Held
    BY <1>1 DEF ServeInv, NativeIsJob, Held
  <2>2. Held \in SUBSET Calls /\ acquired \in SUBSET Calls
    BY <1>1, Sets DEF ServeInv
  <2>3. IsFiniteSet(Held) /\ IsFiniteSet(acquired)
    BY <2>2, ServeConstants, FS_Subset
  <2>4. /\ Cardinality(N) <= Cardinality(Held) /\ Cardinality(N) \in Nat
        /\ Cardinality(Held) \in Nat /\ Cardinality(acquired) \in Nat
    BY <2>1, <2>3, FS_Subset, FS_CardinalityType
  <2> HIDE DEF N
  <2>5. Cardinality(N) <= Concurrency
    BY <1>1, <2>4, ServeLimits DEF ServeInv, Books, AdmissionTypeOK
  <2> QED BY <2>5 DEF N, NativeBounded
<1> QED BY <1>1, ServeInductive, PTL

(* The shutdown closes the model only when no native analysis is left.       *)
THEOREM DrainBeforeClose == Spec => []ModelDrained
<1>1. ServeInv => ModelDrained
  BY DEF ServeInv, DrainOrder, NativeIsJob, ModelDrained
<1> QED BY <1>1, ServeInductive, PTL
=============================================================================
