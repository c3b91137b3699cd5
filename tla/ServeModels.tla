------------------------------ MODULE ServeModels ------------------------------
(***************************************************************************)
(* AtomicModelManager (deltrelserve/runtime.py): one evaluator shared by   *)
(* all analyses, replaced only while no analysis is active, closed when    *)
(* the last one has left.  A call is one analysis, in a thread of its own; *)
(* the first call is the server's startup.  The steps that hold the        *)
(* condition are single actions; everything a refreshing call does between *)
(* them runs without it.                                                   *)
(***************************************************************************)
EXTENDS Naturals, Sequences, FiniteSets

CONSTANTS
    Calls,      \* analyses, and the startup
    Boot,       \* the call made by the startup
    Contents,   \* champion manifests that may be published
    MaxPubs     \* bound: versions of the pointer file

Closer == "closer"      \* the thread that closes the manager

ASSUME ServeConstants ==
    /\ IsFiniteSet(Calls) /\ Boot \in Calls /\ Closer \notin Calls
    /\ Contents # {} /\ {"bad", "missing"} \cap Contents = {}
    /\ MaxPubs \in Nat \ {0}

VARIABLES
    published,  \* every content the pointer file has had; the last is current
    made,       \* contents of the models loaded so far, by number
    shut,       \* models that have been closed
    mpc, at,    \* each call: where it is and its local variables
    asleep,     \* threads waiting on the condition and not notified
    active, loading, current, signature, closed,    \* the manager's fields
    waits,      \* models whose broker waits for further submissions
    cl, closing \* the closing thread and the model it has taken

mvars == <<published, made, shut, mpc, at, asleep, active, loading, current,
           signature, closed, waits, cl, closing>>

NoModel == 0
Pointer == published[Len(published)]
Unusable == {"bad", "missing"}  \* not a champion manifest; no pointer file
Models == 1..Len(made)

Locals == [sig : Nat, man : Contents \cup Unusable, cand : Nat, err : BOOLEAN,
           mine : Nat, retired : Nat, start : Nat]
NoLocals == [sig |-> 0, man |-> "bad", cand |-> NoModel, err |-> FALSE,
             mine |-> NoModel, retired |-> NoModel, start |-> 0]

Refreshing == {t \in Calls : mpc[t] \in {"stat", "read", "load", "install"}}
Users == {t \in Calls : mpc[t] \in {"retire", "use"}}

Go(t, pc) == mpc' = [mpc EXCEPT ![t] = pc]
Forget(t) == at' = [at EXCEPT ![t] = NoLocals]

(* notify_all; mutant: nobody is woken.                                      *)
Mutant_Notify == UNCHANGED asleep
Notify == asleep' = {}

(* _update_batch_wait: the broker of the current model waits for company     *)
(* only while there is some.                                                 *)
Mutant_UpdateBatchWait(model, count) ==
    waits' = IF model # NoModel /\ count > 1 THEN waits \cup {model} ELSE waits
UpdateBatchWait(model, count) ==
    waits' = IF model = NoModel THEN waits
             ELSE IF count > 1 THEN waits \cup {model} ELSE waits \ {model}

(* One more analysis uses the model.                                         *)
Lease(model) == active' = active + 1 /\ UpdateBatchWait(model, active + 1)

-----------------------------------------------------------------------------
(* lease                                                                     *)

(* An analysis gets a thread ...                                             *)
Call(t) ==
    /\ mpc[t] = "none" /\ (t = Boot \/ mpc[Boot] = "left")
    /\ Go(t, "called")
    /\ UNCHANGED <<published, made, shut, at, asleep, active, loading, current,
                   signature, closed, waits, cl, closing>>

(* ... and may end before it asks for the model: a bad position, a           *)
(* cancellation.                                                             *)
EndEarly(t) ==
    /\ mpc[t] = "called" /\ t # Boot
    /\ Go(t, "failed")
    /\ UNCHANGED <<published, made, shut, at, asleep, active, loading, current,
                   signature, closed, waits, cl, closing>>

AtGate(t) == mpc[t] = "called" \/ (mpc[t] = "wait" /\ t \notin asleep)

WaitForReload(t) ==
    /\ AtGate(t) /\ loading
    /\ Go(t, "wait") /\ asleep' = asleep \cup {t}
    /\ UNCHANGED <<published, made, shut, at, active, loading, current,
                   signature, closed, waits, cl, closing>>

RefuseClosed(t) ==
    /\ AtGate(t) /\ ~loading /\ closed
    /\ Go(t, "failed")
    /\ UNCHANGED <<published, made, shut, at, asleep, active, loading, current,
                   signature, closed, waits, cl, closing>>

(* The first call of an idle manager refreshes the model ...                 *)
BeginRefresh(t) ==
    /\ AtGate(t) /\ ~loading /\ ~closed /\ active = 0
    /\ loading' = TRUE /\ Go(t, "stat")
    /\ at' = [at EXCEPT ![t] = [NoLocals EXCEPT !.start = Len(published)]]
    /\ UNCHANGED <<published, made, shut, asleep, active, current, signature,
                   closed, waits, cl, closing>>

(* ... any other shares the current one.                                     *)
Share(t) ==
    /\ AtGate(t) /\ ~loading /\ ~closed /\ active > 0
    /\ Lease(current) /\ Go(t, "use")
    /\ at' = [at EXCEPT ![t] = [NoLocals EXCEPT !.mine = current]]
    /\ UNCHANGED <<published, made, shut, asleep, loading, current, signature,
                   closed, cl, closing>>

(* _publication_signature: None (0) when there is no pointer file.  The      *)
(* manifest is not read again when the signature is the known one.           *)
Signature == IF Pointer = "missing" THEN 0 ELSE Len(published)

Stat(t) ==
    /\ mpc[t] = "stat"
    /\ at' = [at EXCEPT ![t].sig = Signature]
    /\ Go(t, IF current # NoModel /\ Signature # 0 /\ Signature = signature
               THEN "install" ELSE "read")
    /\ UNCHANGED <<published, made, shut, asleep, active, loading, current,
                   signature, closed, waits, cl, closing>>

(* What the manager will take for the version of its model: the signature    *)
(* seen before the manifest was read.                                        *)
(* Mutant: the signature seen after the load.                                *)
Mutant_Remember(t) == signature' = Signature
Remember(t) == signature' = at[t].sig

(* The manifest is read; a manifest equal to the current one needs no load.  *)
ReadManifest(t) ==
    /\ mpc[t] = "read"
    /\ IF Pointer \in Unusable
         THEN /\ at' = [at EXCEPT ![t].err = TRUE]
              /\ Go(t, "install") /\ UNCHANGED signature
         ELSE IF current # NoModel /\ made[current] = Pointer
         THEN /\ Remember(t)
              /\ Go(t, "install") /\ UNCHANGED at
         ELSE /\ at' = [at EXCEPT ![t].man = Pointer]
              /\ Go(t, "load") /\ UNCHANGED signature
    /\ UNCHANGED <<published, made, shut, asleep, active, loading, current,
                   closed, waits, cl, closing>>

(* The bundle is loaded, or cannot be.                                       *)
Load(t) ==
    /\ mpc[t] = "load"
    /\ \/ /\ made' = Append(made, at[t].man)
          /\ at' = [at EXCEPT ![t].cand = Len(made) + 1]
          /\ Remember(t)
       \/ /\ at' = [at EXCEPT ![t].err = TRUE]
          /\ UNCHANGED <<made, signature>>
    /\ Go(t, "install")
    /\ UNCHANGED <<published, shut, asleep, active, loading, current, closed,
                   waits, cl, closing>>

(* Under the condition again: swap the model in, or keep the current one,    *)
(* or raise when there is none.                                              *)
Installed(t) == IF at[t].cand # NoModel THEN at[t].cand ELSE current

Install(t) ==
    /\ mpc[t] = "install"
    /\ loading' = FALSE /\ Notify
    /\ current' = Installed(t)
    /\ IF Installed(t) = NoModel
         THEN Go(t, "failed") /\ Forget(t) /\ UNCHANGED <<active, waits>>
         ELSE LET old == IF at[t].cand # NoModel THEN current ELSE NoModel
              IN  /\ at' = [at EXCEPT ![t].retired = old, ![t].mine = Installed(t)]
                  /\ Lease(Installed(t))
                  /\ Go(t, IF old # NoModel THEN "retire" ELSE "use")
    /\ UNCHANGED <<published, made, shut, signature, closed, cl, closing>>

(* The caller that swapped the model closes the retired one ...              *)
CloseRetired(t) ==
    /\ mpc[t] = "retire"
    /\ shut' = shut \cup {at[t].retired}
    /\ Go(t, "use")
    /\ UNCHANGED <<published, made, at, asleep, active, loading, current,
                   signature, closed, waits, cl, closing>>

(* ... and every caller leaves in the end, whatever its analysis did.        *)
Leave(t) ==
    /\ mpc[t] = "use"
    /\ active' = active - 1 /\ Notify
    /\ UpdateBatchWait(current, active - 1)
    /\ Go(t, "left") /\ Forget(t)
    /\ UNCHANGED <<published, made, shut, loading, current, signature,
                   closed, cl, closing>>

-----------------------------------------------------------------------------
(* close                                                                     *)

(* Mutants: analyses, or a reload, in progress are not waited for.           *)
Mutant_BusyLoading == loading
Mutant_BusyActive == active > 0
Busy == active > 0 \/ loading

Close ==
    /\ cl = "open" /\ mpc[Boot] = "left"
    /\ cl' = "wait" /\ closed' = TRUE
    /\ UNCHANGED <<published, made, shut, mpc, at, asleep, active, loading,
                   current, signature, waits, closing>>

CloseWaits ==
    /\ cl = "wait" /\ Closer \notin asleep /\ Busy
    /\ asleep' = asleep \cup {Closer}
    /\ UNCHANGED <<published, made, shut, mpc, at, active, loading, current,
                   signature, closed, waits, cl, closing>>

CloseTakes ==
    /\ cl = "wait" /\ Closer \notin asleep /\ ~Busy
    /\ cl' = "closing" /\ closing' = current /\ current' = NoModel
    /\ UNCHANGED <<published, made, shut, mpc, at, asleep, active, loading,
                   signature, closed, waits>>

CloseModel ==
    /\ cl = "closing" /\ cl' = "closed"
    /\ shut' = shut \cup ({closing} \ {NoModel})
    /\ UNCHANGED <<published, made, mpc, at, asleep, active, loading, current,
                   signature, closed, waits, closing>>

-----------------------------------------------------------------------------
(* The pointer file is replaced, or removed, by somebody else.               *)
Publish(c) ==
    /\ Len(published) < MaxPubs
    /\ published' = Append(published, c)
    /\ UNCHANGED <<made, shut, mpc, at, asleep, active, loading, current,
                   signature, closed, waits, cl, closing>>

ModelsInit ==
    /\ published \in {<<c>> : c \in Contents \cup Unusable}
    /\ made = <<>> /\ shut = {}
    /\ mpc = [t \in Calls |-> "none"] /\ at = [t \in Calls |-> NoLocals]
    /\ asleep = {} /\ active = 0 /\ loading = FALSE
    /\ current = NoModel /\ signature = 0 /\ closed = FALSE /\ waits = {}
    /\ cl = "open" /\ closing = NoModel

LeaseStep(t) ==
    \/ WaitForReload(t) \/ RefuseClosed(t) \/ BeginRefresh(t) \/ Share(t)
    \/ Stat(t) \/ ReadManifest(t) \/ Load(t) \/ Install(t) \/ CloseRetired(t)
    \/ Leave(t)
CloseStep == CloseWaits \/ CloseTakes \/ CloseModel

(* A thread that can run does; no analysis runs forever, the search's guard  *)
(* on its iterations sees to that.                                           *)
ModelsFairness ==
    /\ \A t \in Calls : WF_mvars(EndEarly(t) \/ LeaseStep(t))
    /\ WF_mvars(CloseStep)

(* What happens around the manager once its calls and its close are made.    *)
ManagerStep ==
    \/ \E t \in Calls : EndEarly(t) \/ LeaseStep(t)
    \/ CloseStep
    \/ \E c \in Contents \cup Unusable : Publish(c)

ModelsNext == ManagerStep \/ Close \/ \E t \in Calls : Call(t)
ModelsSpec == ModelsInit /\ [][ModelsNext]_mvars
ModelsFairSpec == ModelsSpec /\ ModelsFairness

-----------------------------------------------------------------------------
(* Correctness                                                               *)

ModelsTypeOK ==
    /\ published \in Seq(Contents \cup Unusable) /\ Len(published) > 0
    /\ made \in Seq(Contents \cup Unusable) /\ shut \subseteq Models
    /\ mpc \in [Calls -> {"none", "called", "wait", "stat", "read", "load",
                          "install", "retire", "use", "left", "failed"}]
    /\ at \in [Calls -> Locals] /\ asleep \subseteq Calls \cup {Closer}
    /\ active \in Nat /\ loading \in BOOLEAN /\ current \in Nat
    /\ signature \in Nat /\ closed \in BOOLEAN /\ waits \subseteq Nat
    /\ cl \in {"open", "wait", "closing", "closed"} /\ closing \in Nat

(* No analysis ever uses a model that has been closed, whether it was        *)
(* retired by a reload or taken by the shutdown.                             *)
NoUseAfterClose == \A t \in Users : at[t].mine \in Models \ shut

(* A model is closed at most once, and none is forgotten: one that is not    *)
(* closed is current, on its way in, or about to be closed by exactly one    *)
(* thread; once the manager is closed, every model it ever loaded is.        *)
Retiring(m) == {t \in Calls : mpc[t] = "retire" /\ at[t].retired = m}
NoModelLost ==
    /\ cl = "closed" => shut = Models
    /\ \A m \in Models :
        LET ways == Cardinality(Retiring(m))
                    + Cardinality({t \in Calls : mpc[t] = "install" /\ at[t].cand = m})
                    + (IF cl = "closing" /\ closing = m THEN 1 ELSE 0)
                    + (IF current = m THEN 1 ELSE 0)
        IN  ways = IF m \in shut THEN 0 ELSE 1

(* A call that found the manager idle, and whose reload did not fail, uses a *)
(* model that was the published one at some moment after the call began.     *)
FreshModel ==
    \A t \in Users :
        at[t].start > 0 /\ ~at[t].err =>
            \E i \in at[t].start..Len(published) :
                published[i] = made[at[t].mine]

(* The broker of the model in use waits for company exactly while several    *)
(* analyses share it.                                                        *)
WaitsForCompany == current # NoModel => (current \in waits <=> active > 1)

(* A thread sleeps on the condition only while somebody is at work who will  *)
(* wake it: a call while another one reloads, the closing thread while a     *)
(* call reloads or uses the model.  No wake-up is lost.                      *)
WakerAtWork ==
    /\ \A t \in asleep \cap Calls : mpc[t] = "wait" /\ Refreshing # {}
    /\ Closer \in asleep => cl = "wait" /\ Users \cup Refreshing # {}

(* Every call that asks for a model ends, whoever reloads or closes          *)
(* meanwhile, and a close completes.                                         *)
CallsEnd ==
    /\ \A t \in Calls : mpc[t] = "called" ~> mpc[t] \in {"left", "failed"}
    /\ cl = "wait" ~> cl = "closed"
=============================================================================
