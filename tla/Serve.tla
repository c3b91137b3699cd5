--------------------------------- MODULE Serve ---------------------------------
(***************************************************************************)
(* The analysis server (deltrelserve/app.py): requests are admitted on the *)
(* event loop, at most Concurrency analyses run in threads, at most Queue  *)
(* more requests wait, and the shutdown drains the analyses before the     *)
(* model they share is closed (ServeModels).  A request's slot belongs to  *)
(* its analysis: it outlives the answer when the client leaves or the      *)
(* request times out.                                                      *)
(* Everything between two awaits is one action.  A queue or request        *)
(* timeout, a disconnection and a cancellation of the request can happen   *)
(* whenever the request is at an await.                                    *)
(***************************************************************************)
EXTENDS ServeModels

CONSTANTS
    Concurrency,    \* limits.max_concurrency
    Queue           \* limits.max_queued_requests

ASSUME ServeLimits == Concurrency \in Nat \ {0} /\ Queue \in Nat

Requests == Calls \ {Boot}

VARIABLES
    rq,         \* each request: new, queued, admitted, running, ended
    slots,      \* free slots of the semaphore
    acquired,   \* queued requests whose acquire() has completed
    requests, waiting,  \* the capacity counters
    jobs,       \* analyses submitted and not yet seen to end by the loop
    life,       \* up, drain, closed
    draining    \* the analyses the shutdown waits for

avars == <<rq, slots, acquired, requests, waiting, jobs, life, draining>>
vars == <<mvars, avars>>

stopping == life # "up"     \* analysis_stopping
Move(r, to) == rq' = [rq EXCEPT ![r] = to]

(* _Admission.release *)
Release == requests' = requests - 1 /\ slots' = slots + 1

-----------------------------------------------------------------------------
(* _admit                                                                    *)

Refuse(r) ==
    /\ mpc[Boot] = "left" /\ rq[r] = "new"
    /\ stopping \/ requests >= Concurrency + Queue
    /\ Move(r, "ended")
    /\ UNCHANGED <<mvars, slots, acquired, requests, waiting, jobs, life, draining>>

Arrive(r) ==
    /\ mpc[Boot] = "left" /\ rq[r] = "new"
    /\ ~stopping /\ requests < Concurrency + Queue
    /\ Move(r, "queued")
    /\ requests' = requests + 1 /\ waiting' = waiting + 1
    /\ UNCHANGED <<mvars, slots, acquired, jobs, life, draining>>

(* The semaphore's acquire() completes, in a task of its own.                *)
Grant(r) ==
    /\ rq[r] = "queued" /\ r \notin acquired /\ slots > 0
    /\ slots' = slots - 1 /\ acquired' = acquired \cup {r}
    /\ UNCHANGED <<mvars, rq, requests, waiting, jobs, life, draining>>

(* Neither the shutdown's task nor the disconnection's had completed when    *)
(* the wait returned; either may be under way.                               *)
Admit(r) ==
    /\ rq[r] = "queued" /\ r \in acquired
    /\ Move(r, "admitted")
    /\ waiting' = waiting - 1 /\ acquired' = acquired \ {r}
    /\ UNCHANGED <<mvars, slots, requests, jobs, life, draining>>

(* The queue timeout, the shutdown, a disconnection or a cancellation: a     *)
(* slot acquired in the same iteration is returned.                          *)
(* Mutant: it is kept.                                                       *)
Mutant_Returned(r) == slots
Returned(r) == IF r \in acquired THEN slots + 1 ELSE slots

Reject(r) ==
    /\ rq[r] = "queued"
    /\ Move(r, "ended")
    /\ waiting' = waiting - 1 /\ requests' = requests - 1
    /\ slots' = Returned(r) /\ acquired' = acquired \ {r}
    /\ UNCHANGED <<mvars, jobs, life, draining>>

-----------------------------------------------------------------------------
(* The admitted request                                                      *)

(* A streaming response that is never started owns its slot until it is      *)
(* closed.                                                                   *)
Abandon(r) ==
    /\ rq[r] = "admitted"
    /\ Move(r, "ended") /\ Release
    /\ UNCHANGED <<mvars, acquired, waiting, jobs, life, draining>>

(* _run_bounded: a request that comes after the shutdown has begun, or after *)
(* its deadline, starts nothing.  Mutant: the shutdown is not looked at.     *)
Mutant_MayStart == TRUE
MayStart == ~stopping

Start(r) ==
    /\ rq[r] = "admitted"
    /\ \/ /\ Move(r, "ended") /\ Release /\ UNCHANGED jobs
       \/ /\ MayStart
          /\ Move(r, "running") /\ jobs' = jobs \cup {r}
          /\ UNCHANGED <<requests, slots>>
    /\ UNCHANGED <<mvars, acquired, waiting, life, draining>>

(* The executor's thread takes the analysis.                                 *)
Work(r) ==
    /\ r \in jobs /\ Call(r)
    /\ UNCHANGED avars

(* The native call has ended: the loop runs the future's callback.           *)
(* Mutant: only a request still waiting for its answer runs it.              *)
Finished(r) == mpc[r] \in {"left", "failed"}
Mutant_JobDone(r) ==
    /\ rq[r] = "running" /\ r \in jobs /\ Finished(r)
    /\ jobs' = jobs \ {r} /\ Release
    /\ UNCHANGED <<mvars, rq, acquired, waiting, life, draining>>

JobDone(r) ==
    /\ r \in jobs /\ Finished(r)
    /\ jobs' = jobs \ {r} /\ Release
    /\ UNCHANGED <<mvars, rq, acquired, waiting, life, draining>>

Respond(r) ==
    /\ rq[r] = "running" /\ r \notin jobs
    /\ Move(r, "ended")
    /\ UNCHANGED <<mvars, slots, acquired, requests, waiting, jobs, life, draining>>

(* The request timeout, a disconnection or a cancellation ends the request   *)
(* and asks the analysis to stop; its slot stays taken.  Mutant: it is       *)
(* returned at once.                                                         *)
Mutant_GiveUp(r) ==
    /\ rq[r] = "running" /\ r \in jobs
    /\ Move(r, "ended") /\ Release
    /\ jobs' = jobs \ {r}
    /\ UNCHANGED <<mvars, acquired, waiting, life, draining>>

GiveUp(r) ==
    /\ rq[r] = "running" /\ r \in jobs
    /\ Move(r, "ended")
    /\ UNCHANGED <<mvars, slots, acquired, requests, waiting, jobs, life, draining>>

-----------------------------------------------------------------------------
(* lifespan                                                                  *)

Stop ==
    /\ life = "up" /\ mpc[Boot] = "left"
    /\ life' = "drain" /\ draining' = jobs
    /\ UNCHANGED <<mvars, rq, slots, acquired, requests, waiting, jobs>>

Drained ==
    /\ life = "drain" /\ draining \cap jobs = {}
    /\ life' = "closed" /\ Close
    /\ UNCHANGED <<rq, slots, acquired, requests, waiting, jobs, draining>>

-----------------------------------------------------------------------------
Init ==
    /\ ModelsInit
    /\ rq = [r \in Requests |-> "new"] /\ slots = Concurrency
    /\ acquired = {} /\ requests = 0 /\ waiting = 0
    /\ jobs = {} /\ life = "up" /\ draining = {}

LoopStep(r) ==
    \/ Admit(r) \/ Reject(r) \/ Start(r) \/ JobDone(r) \/ Respond(r)

Native == (Call(Boot) \/ ManagerStep) /\ UNCHANGED avars

Next ==
    \/ Native
    \/ \E r \in Requests :
        \/ Refuse(r) \/ Arrive(r) \/ Grant(r) \/ LoopStep(r) \/ Work(r)
        \/ Abandon(r) \/ GiveUp(r)
    \/ Stop \/ Drained

Spec == Init /\ [][Next]_vars

(* The loop runs what is ready, every wait on it has a timeout, and threads  *)
(* are scheduled.                                                            *)
Fairness ==
    /\ \A r \in Requests : WF_vars(LoopStep(r)) /\ WF_vars(Work(r))
    /\ \A t \in Calls : WF_vars((EndEarly(t) \/ LeaseStep(t)) /\ UNCHANGED avars)
    /\ WF_vars(CloseStep /\ UNCHANGED avars) /\ WF_vars(Drained)

FairSpec == Spec /\ Fairness

-----------------------------------------------------------------------------
(* Correctness                                                               *)

Holders == acquired \cup jobs \cup {r \in Requests : rq[r] = "admitted"}

(* Every slot is free or owned by exactly one request or analysis, and the   *)
(* capacity counters agree with the requests they count: neither a race of   *)
(* the acquisition with a disconnection nor an abandoned stream leaks or     *)
(* doubles a slot.                                                           *)
SlotBooks ==
    /\ slots + Cardinality(Holders) = Concurrency
    /\ waiting = Cardinality({r \in Requests : rq[r] = "queued"})
    /\ requests = waiting + Cardinality(Holders \ acquired)

(* Never more native analyses than the configured concurrency, those whose   *)
(* client has long left included.                                            *)
NativeBounded ==
    Cardinality({r \in Requests : mpc[r] \notin {"none", "left", "failed"}})
        <= Concurrency

(* The shutdown closes the model only when no native analysis runs or will   *)
(* run: none is refused by a closed manager.                                 *)
ModelDrained ==
    life = "closed" => \A r \in Requests :
        /\ mpc[r] \in {"none", "left", "failed"}
        /\ r \notin jobs

(* Every request ends, and its slot comes back, whatever its client does ... *)
RequestEnds ==
    \A r \in Requests :
        rq[r] = "queued" ~> rq[r] = "ended" /\ r \notin jobs

(* ... and a shutdown, once begun, closes the model, after which nothing is  *)
(* submitted any more.                                                       *)
ShutdownEnds == life = "drain" ~> [](cl = "closed" /\ jobs = {})
=============================================================================
