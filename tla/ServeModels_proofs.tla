-------------------------- MODULE ServeModels_proofs --------------------------
(***************************************************************************)
(* No analysis uses a closed model, no open model is lost, a new analysis  *)
(* does not get a model older than the file it looked at, and a call waits *)
(* only for calls that are there, for any number of calls and any sequence *)
(* of publications.                                                        *)
(***************************************************************************)
EXTENDS ServeModels, FiniteSetTheorems, TLAPS

(* The inductive invariant.  LeaseCount: the counter is the number of users, *)
(* which is what the two waits for "nobody" rely on.                         *)
LeaseCount == active = Cardinality(Users)

(* OneRefresh: at most one call reloads, and nobody uses the model then.     *)
OneRefresh ==
    /\ loading <=> Refreshing # {}
    /\ \A s, t \in Refreshing : s = t
    /\ loading => active = 0

(* OneModel: all users share the current model, which is open.               *)
OneModel ==
    /\ current \in {NoModel} \cup (Models \ shut)
    /\ \A t \in Users : at[t].mine = current /\ current # NoModel

(* What a reload has loaded is new, and what it has replaced is not current. *)
Loaded ==
    /\ \A t \in Calls :
        /\ mpc[t] \in {"stat", "read", "load"} => at[t].cand = NoModel
        /\ mpc[t] = "install" =>
            /\ at[t].cand \in {NoModel} \cup (Models \ shut)
            /\ at[t].cand = current => current = NoModel
        /\ mpc[t] = "retire" => at[t].retired # current /\ at[t].retired \in Models

(* The closing thread takes the model when it is neither used nor reloaded,  *)
(* and no call gets one afterwards.                                          *)
ClosedOut ==
    /\ cl # "open" => closed
    /\ cl \in {"closing", "closed"} =>
        Users = {} /\ Refreshing = {} /\ current = NoModel
    /\ closing \in Models \cup {NoModel}

LeaseInv ==
    /\ ModelsTypeOK /\ LeaseCount /\ OneRefresh /\ OneModel /\ Loaded /\ ClosedOut

-----------------------------------------------------------------------------
(* Counting                                                                  *)

LEMMA Counting ==
    ASSUME NEW U \in SUBSET Calls, NEW t \in Calls
    PROVE  /\ Cardinality(U) \in Nat
           /\ Cardinality(U) = 0 <=> U = {}
           /\ t \notin U => Cardinality(U \cup {t}) = Cardinality(U) + 1
           /\ t \in U => Cardinality(U \ {t}) = Cardinality(U) - 1
<1>1. IsFiniteSet(U)
  BY ServeConstants, FS_Subset
<1> QED BY <1>1, FS_CardinalityType, FS_EmptySet, FS_AddElement, FS_RemoveElement

(* How a move of one call changes the two sets the invariant speaks of.      *)
LEMMA Moves ==
    ASSUME ModelsTypeOK, NEW t \in Calls, NEW pc, Go(t, pc)
    PROVE  /\ Users' = IF pc \in {"retire", "use"} THEN Users \cup {t}
                       ELSE Users \ {t}
           /\ Refreshing' = IF pc \in {"stat", "read", "load", "install"}
                            THEN Refreshing \cup {t} ELSE Refreshing \ {t}
           /\ \A s \in Calls : mpc'[s] = IF s = t THEN pc ELSE mpc[s]
BY DEF ModelsTypeOK, Go, Users, Refreshing

(* Nobody uses the model exactly when the counter is zero.                   *)
LEMMA NoUsers == ASSUME LeaseInv PROVE active = 0 <=> Users = {}
BY Counting, ServeConstants DEF LeaseInv, LeaseCount, Users

(* The local variables of a call, and an assignment to one of them.          *)
LEMMA LocalFields ==
    ASSUME NEW r \in Locals
    PROVE  /\ r.sig \in Nat /\ r.man \in Contents \cup Unusable /\ r.cand \in Nat
           /\ r.mine \in Nat /\ r.retired \in Nat
BY DEF Locals

LEMMA Assigned ==
    ASSUME NEW r \in Locals
    PROVE  /\ \A n \in Nat : /\ [r EXCEPT !.sig = n] \in Locals
                            /\ [r EXCEPT !.sig = n].cand = r.cand
                            /\ [r EXCEPT !.cand = n] \in Locals
                            /\ [r EXCEPT !.cand = n].cand = n
           /\ \A m \in Contents \cup Unusable :
                            /\ [r EXCEPT !.man = m] \in Locals
                            /\ [r EXCEPT !.man = m].cand = r.cand
           /\ [r EXCEPT !.err = TRUE] \in Locals
           /\ [r EXCEPT !.err = TRUE].cand = r.cand
BY DEF Locals

Assigns(t, r) ==
    /\ at' \in [Calls -> Locals] /\ at'[t] = r
    /\ \A s \in Calls \ {t} : at'[s] = at[s]

LEMMA NewLocals ==
    ASSUME ModelsTypeOK, NEW t \in Calls, NEW r \in Locals,
           at' = [at EXCEPT ![t] = r]
    PROVE  Assigns(t, r)
BY DEF ModelsTypeOK, Assigns

-----------------------------------------------------------------------------
(* A call that neither reloads nor uses moves to a place of the same kind:   *)
(* the two sets stay as they are.                                            *)
LEMMA CallsElsewhere ==
    ASSUME LeaseInv, NEW t \in Calls,
           Call(t) \/ EndEarly(t) \/ WaitForReload(t) \/ RefuseClosed(t)
    PROVE  LeaseInv'
<1> USE DEF LeaseInv
<1>1. PICK pc \in {"called", "failed", "wait"} : Go(t, pc)
  BY DEF Call, EndEarly, WaitForReload, RefuseClosed
<1>2. mpc[t] \in {"none", "called", "wait"}
  BY DEF Call, EndEarly, WaitForReload, RefuseClosed, AtGate
<1>3. Users' = Users /\ Refreshing' = Refreshing
  BY <1>1, <1>2, Moves DEF Users, Refreshing
<1>4. /\ UNCHANGED <<published, made, shut, at, active, loading, current,
                     signature, closed, waits, cl, closing>>
      /\ asleep' \in {asleep, asleep \cup {t}}
  BY DEF Call, EndEarly, WaitForReload, RefuseClosed
<1>5. ModelsTypeOK'
  BY <1>1, <1>4 DEF ModelsTypeOK, Go, Models
<1>6. LeaseCount' /\ OneRefresh' /\ OneModel' /\ ClosedOut'
  BY <1>3, <1>4 DEF LeaseCount, OneRefresh, OneModel, ClosedOut, Models
<1>7. Loaded'
  BY <1>1, <1>4, Moves DEF Loaded, Models
<1> QED BY <1>5, <1>6, <1>7

(* Steps of a call that reloads, before it takes the condition again.        *)
LEMMA CallReloads ==
    ASSUME LeaseInv, NEW t \in Calls, Stat(t) \/ ReadManifest(t) \/ Load(t)
    PROVE  LeaseInv'
<1> USE DEF LeaseInv
<1>1. PICK pc \in {"read", "load", "install"} : Go(t, pc)
  BY DEF Stat, ReadManifest, Load
<1>2. t \in Refreshing
  BY DEF Stat, ReadManifest, Load, Refreshing
<1>3. Users' = Users /\ Refreshing' = Refreshing
  BY <1>1, <1>2, Moves DEF Users, Refreshing
<1>4. UNCHANGED <<published, shut, asleep, active, loading, current, closed,
                  waits, cl, closing>>
  BY DEF Stat, ReadManifest, Load
<1>5. /\ made' \in Seq(Contents \cup Unusable)
      /\ Len(made') >= Len(made) /\ signature' \in Nat
      /\ at' \in [Calls -> Locals]
      /\ \A s \in Calls \ {t} : at'[s] = at[s]
      /\ at'[t].cand \in {at[t].cand} \cup (Models' \ Models)
      /\ mpc'[t] # "install" => at'[t].cand = at[t].cand
  <2>1. /\ at[t] \in Locals /\ Len(published) \in Nat /\ Len(made) \in Nat
        /\ made \in Seq(Contents \cup Unusable) /\ signature \in Nat
    BY DEF ModelsTypeOK
  <2>2. Signature \in Nat /\ Pointer \in Contents \cup Unusable
    BY <2>1 DEF Signature, Pointer, ModelsTypeOK
  <2>3. CASE Stat(t)
    <3> DEFINE r == [at[t] EXCEPT !.sig = Signature]
    <3>1. at' = [at EXCEPT ![t] = r] /\ made' = made /\ signature' = signature
      BY <2>3 DEF Stat
    <3>2. r \in Locals /\ r.cand = at[t].cand
      BY <2>1, <2>2, Assigned
    <3> HIDE DEF r
    <3>3. Assigns(t, r)
      BY <3>1, <3>2, NewLocals
    <3> QED BY <2>1, <3>1, <3>2, <3>3 DEF Assigns
  <2>4. CASE ReadManifest(t)
    <3>1. made' = made /\ signature' \in {signature, at[t].sig}
      BY <2>4 DEF ReadManifest, Remember
    <3>2. \E r \in Locals : r.cand = at[t].cand /\ at' = [at EXCEPT ![t] = r]
      <4>1. CASE UNCHANGED at
        BY <2>1, <4>1 DEF ModelsTypeOK
      <4>2. CASE at' = [at EXCEPT ![t] = [at[t] EXCEPT !.err = TRUE]]
        BY <2>1, <4>2, Assigned
      <4>3. CASE at' = [at EXCEPT ![t] = [at[t] EXCEPT !.man = Pointer]]
        BY <2>1, <2>2, <4>3, Assigned
      <4> QED BY <2>4, <4>1, <4>2, <4>3 DEF ReadManifest
    <3>3. PICK r \in Locals : r.cand = at[t].cand /\ Assigns(t, r)
      BY <3>2, NewLocals
    <3> QED BY <2>1, <3>1, <3>3, LocalFields DEF Assigns
  <2>5. CASE Load(t)
    <3>1. mpc'[t] = "install"
      BY <2>5 DEF Load, Go, ModelsTypeOK
    <3>2. CASE /\ made' = Append(made, at[t].man) /\ signature' = at[t].sig
               /\ at' = [at EXCEPT ![t] = [at[t] EXCEPT !.cand = Len(made) + 1]]
      <4>1. at[t].man \in Contents \cup Unusable /\ at[t].sig \in Nat
        BY <2>1, LocalFields
      <4> DEFINE m == at[t].man
                 n == Len(made) + 1
                 r == [at[t] EXCEPT !.cand = n]
      <4>2. m \in Contents \cup Unusable /\ made' = Append(made, m)
        BY <3>2, <4>1
      <4>3. n \in Nat /\ n = Len(made) + 1 /\ at' = [at EXCEPT ![t] = r]
        BY <2>1, <3>2
      <4> HIDE DEF m, n
      <4>4. Len(made') = n /\ made' \in Seq(Contents \cup Unusable)
        BY <2>1, <4>2, <4>3
      <4>5. r \in Locals /\ r.cand = n
        BY <2>1, <4>3, Assigned
      <4> HIDE DEF r
      <4>6. Assigns(t, r)
        BY <4>3, <4>5, NewLocals
      <4> QED
        BY <2>1, <3>1, <3>2, <4>1, <4>3, <4>4, <4>5, <4>6 DEF Models, Assigns
    <3>3. CASE /\ UNCHANGED <<made, signature>>
               /\ at' = [at EXCEPT ![t] = [at[t] EXCEPT !.err = TRUE]]
      <4> DEFINE r == [at[t] EXCEPT !.err = TRUE]
      <4>1. r \in Locals /\ r.cand = at[t].cand /\ at' = [at EXCEPT ![t] = r]
        BY <2>1, <3>3, Assigned
      <4> HIDE DEF r
      <4>2. Assigns(t, r)
        BY <4>1, NewLocals
      <4> QED BY <2>1, <3>3, <4>1, <4>2 DEF Assigns
    <3> QED BY <2>5, <3>2, <3>3 DEF Load, Remember
  <2> QED BY <2>3, <2>4, <2>5
<1>6. Models \subseteq Models'
  BY <1>5 DEF Models, ModelsTypeOK
<1>7. ModelsTypeOK'
  BY <1>1, <1>4, <1>5, <1>6 DEF ModelsTypeOK, Go
<1>8. LeaseCount' /\ OneRefresh' /\ ClosedOut'
  BY <1>3, <1>4, <1>6 DEF LeaseCount, OneRefresh, ClosedOut
<1>9. OneModel'
  BY <1>2, <1>3, <1>4, <1>5, <1>6 DEF OneModel, Users, Refreshing
<1>10. Loaded'
  <2>1. shut \subseteq Models
    BY DEF ModelsTypeOK
  <2>2. at[t].cand = NoModel
    BY DEF Loaded, Stat, ReadManifest, Load
  <2>3. current \in {NoModel} \cup Models
    BY DEF OneModel
  <2> QED
    BY <1>1, <1>4, <1>5, <1>6, <2>1, <2>2, <2>3, Moves DEF Loaded
<1> QED BY <1>7, <1>8, <1>9, <1>10

-----------------------------------------------------------------------------
(* An idle manager: the caller reloads.                                      *)
LEMMA CallBegins ==
    ASSUME LeaseInv, NEW t \in Calls, BeginRefresh(t) PROVE LeaseInv'
<1> USE DEF LeaseInv
<1> DEFINE r == [NoLocals EXCEPT !.start = Len(published)]
<1>1. /\ Go(t, "stat") /\ ~loading /\ loading' = TRUE /\ active = 0 /\ ~closed
      /\ at' = [at EXCEPT ![t] = r]
      /\ UNCHANGED <<published, made, shut, asleep, active, current, signature,
                     closed, waits, cl, closing>>
  BY DEF BeginRefresh
<1>2. r \in Locals /\ r.cand = NoModel
  <2>1. Len(published) \in Nat
    BY DEF ModelsTypeOK
  <2>2. NoLocals \in Locals /\ NoLocals.cand = NoModel
    BY DEF NoLocals, Locals, Unusable, NoModel
  <2> QED BY <2>1, <2>2 DEF Locals
<1> HIDE DEF r
<1>3. Assigns(t, r)
  BY <1>1, <1>2, NewLocals
<1>4. Users = {} /\ Refreshing = {}
  BY <1>1, NoUsers DEF OneRefresh
<1>5. Users' = {} /\ Refreshing' = {t}
  BY <1>1, <1>4, Moves
<1>6. ModelsTypeOK'
  BY <1>1, <1>3 DEF ModelsTypeOK, Go, Models, Assigns
<1>7. LeaseCount' /\ OneRefresh' /\ OneModel' /\ ClosedOut'
  BY <1>1, <1>4, <1>5
  DEF LeaseCount, OneRefresh, OneModel, ClosedOut, Models, ModelsTypeOK
<1>8. Loaded'
  BY <1>1, <1>2, <1>3, Moves DEF Loaded, Models, Assigns
<1> QED BY <1>6, <1>7, <1>8

(* A manager in use: the caller shares the model.                            *)
LEMMA CallShares ==
    ASSUME LeaseInv, NEW t \in Calls, Share(t) PROVE LeaseInv'
<1> USE DEF LeaseInv
<1> DEFINE r == [NoLocals EXCEPT !.mine = current]
<1>1. /\ Go(t, "use") /\ ~loading /\ active > 0 /\ active' = active + 1
      /\ mpc[t] \in {"called", "wait"}
      /\ at' = [at EXCEPT ![t] = r]
      /\ UNCHANGED <<published, made, shut, asleep, loading, current, signature,
                     closed, cl, closing>>
  BY DEF Share, Lease, AtGate
<1>2. r \in Locals /\ r.mine = current
  <2>1. current \in Nat
    BY DEF ModelsTypeOK
  <2>2. NoLocals \in Locals
    BY DEF NoLocals, Locals, Unusable, NoModel
  <2> QED BY <2>1, <2>2 DEF Locals
<1> HIDE DEF r
<1>3. Assigns(t, r)
  BY <1>1, <1>2, NewLocals
<1>4. Users # {} /\ Users \subseteq Calls /\ t \notin Users /\ t \notin Refreshing
  <2>1. active # 0
    BY <1>1
  <2> QED BY <1>1, <2>1, NoUsers DEF Users, Refreshing
<1>5. Users' = Users \cup {t} /\ Refreshing' = Refreshing
  <2>1. Users' = Users \cup {t} /\ Refreshing' = Refreshing \ {t}
    BY <1>1, Moves
  <2> QED BY <1>4, <2>1
<1>6. current # NoModel
  BY <1>4 DEF OneModel
<1>7. waits' \subseteq Nat
  BY DEF Share, Lease, UpdateBatchWait, ModelsTypeOK
<1>8. ModelsTypeOK'
  BY <1>1, <1>3, <1>7 DEF ModelsTypeOK, Go, Models, Assigns
<1>9. LeaseCount'
  BY <1>1, <1>4, <1>5, Counting DEF LeaseCount
<1>10. OneRefresh' /\ OneModel' /\ ClosedOut'
  BY <1>1, <1>2, <1>3, <1>4, <1>5, <1>6
  DEF OneRefresh, OneModel, ClosedOut, Models, Assigns, Users
<1>11. Loaded'
  BY <1>1, <1>3, Moves DEF Loaded, Models, Assigns
<1> QED BY <1>8, <1>9, <1>10, <1>11

(* The caller that swapped the model closes the old one, which nobody uses.  *)
LEMMA CallRetires ==
    ASSUME LeaseInv, NEW t \in Calls, CloseRetired(t) PROVE LeaseInv'
<1> USE DEF LeaseInv
<1>1. /\ Go(t, "use") /\ mpc[t] = "retire" /\ shut' = shut \cup {at[t].retired}
      /\ UNCHANGED <<published, made, at, asleep, active, loading, current,
                     signature, closed, waits, cl, closing>>
  BY DEF CloseRetired
<1>2. at[t].retired # current /\ at[t].retired \in Models
  BY <1>1 DEF Loaded
<1>3. t \in Users /\ t \notin Refreshing
  BY <1>1 DEF Users, Refreshing
<1>4. Users' = Users /\ Refreshing' = Refreshing
  BY <1>1, <1>3, Moves
<1>5. Refreshing = {}
  BY <1>3, NoUsers DEF OneRefresh
<1>6. ModelsTypeOK'
  BY <1>1, <1>2 DEF ModelsTypeOK, Go, Models
<1>7. LeaseCount' /\ OneRefresh' /\ OneModel' /\ ClosedOut'
  BY <1>1, <1>2, <1>4, NoUsers
  DEF LeaseCount, OneRefresh, OneModel, ClosedOut, Models
<1>8. Loaded'
  <2>1. \A s \in Calls : mpc[s] # "install"
    BY <1>5 DEF Refreshing
  <2> QED BY <1>1, <2>1, Moves DEF Loaded, Models
<1> QED BY <1>6, <1>7, <1>8

(* A user leaves.                                                            *)
LEMMA CallLeaves ==
    ASSUME LeaseInv, NEW t \in Calls, Leave(t) PROVE LeaseInv'
<1> USE DEF LeaseInv
<1>1. /\ Go(t, "left") /\ mpc[t] = "use" /\ active' = active - 1 /\ asleep' = {}
      /\ at' = [at EXCEPT ![t] = NoLocals]
      /\ UNCHANGED <<published, made, shut, loading, current, signature, closed,
                     cl, closing>>
  BY DEF Leave, Notify, Forget
<1>2. NoLocals \in Locals
  BY DEF NoLocals, Locals, Unusable, NoModel
<1>3. Assigns(t, NoLocals)
  BY <1>1, <1>2, NewLocals
<1>4. t \in Users /\ Users \subseteq Calls /\ t \notin Refreshing
  BY <1>1 DEF Users, Refreshing
<1>5. Users' = Users \ {t} /\ Refreshing' = Refreshing
  BY <1>1, <1>4, Moves
<1>6. active # 0
  BY <1>4, NoUsers
<1>7. waits' \subseteq Nat
  BY DEF Leave, UpdateBatchWait, ModelsTypeOK
<1>8. ModelsTypeOK'
  BY <1>1, <1>3, <1>6, <1>7 DEF ModelsTypeOK, Go, Models, Assigns
<1>9. LeaseCount'
  BY <1>1, <1>4, <1>5, Counting DEF LeaseCount
<1>10. OneRefresh' /\ OneModel' /\ ClosedOut'
  BY <1>1, <1>3, <1>4, <1>5, <1>6
  DEF OneRefresh, OneModel, ClosedOut, Models, Assigns, Users
<1>11. Loaded'
  BY <1>1, <1>3, Moves DEF Loaded, Models, Assigns
<1> QED BY <1>8, <1>9, <1>10, <1>11

(* A reload ends: its model, if it has one, becomes current and the caller   *)
(* its first user; without any model the caller fails.                       *)
LEMMA CallInstalls ==
    ASSUME LeaseInv, NEW t \in Calls, Install(t) PROVE LeaseInv'
<1> USE DEF LeaseInv
<1> DEFINE new == Installed(t)
           old == IF at[t].cand # NoModel THEN current ELSE NoModel
<1>1. /\ mpc[t] = "install" /\ loading' = FALSE /\ asleep' = {} /\ current' = new
      /\ UNCHANGED <<published, made, shut, signature, closed, cl, closing>>
  BY DEF Install, Notify
<1>2. t \in Refreshing /\ Refreshing = {t} /\ active = 0 /\ Users = {}
  <2>1. t \in Refreshing
    BY <1>1 DEF Refreshing
  <2> QED BY <2>1, NoUsers DEF OneRefresh
<1>3. cl \notin {"closing", "closed"}
  BY <1>2 DEF ClosedOut
<1>4. /\ new \in {NoModel} \cup (Models \ shut) /\ new \in Nat
      /\ current \in {NoModel} \cup (Models \ shut)
      /\ at[t].cand # NoModel => at[t].cand # current
  BY <1>1 DEF Loaded, OneModel, Installed, Models, NoModel, ModelsTypeOK
<1>5. CASE new = NoModel
  <2>1. /\ Go(t, "failed") /\ at' = [at EXCEPT ![t] = NoLocals]
        /\ UNCHANGED <<active, waits>>
    BY <1>5 DEF Install, Forget
  <2>2. NoLocals \in Locals
    BY DEF NoLocals, Locals, Unusable, NoModel
  <2>3. Assigns(t, NoLocals)
    BY <2>1, <2>2, NewLocals
  <2>4. Users' = {} /\ Refreshing' = {}
    BY <1>2, <2>1, Moves
  <2>5. ModelsTypeOK'
    BY <1>1, <1>4, <2>1, <2>3 DEF ModelsTypeOK, Go, Models, Assigns
  <2>6. LeaseCount' /\ OneRefresh' /\ OneModel' /\ ClosedOut'
    BY <1>1, <1>2, <1>3, <1>4, <1>5, <2>1, <2>4
    DEF LeaseCount, OneRefresh, OneModel, ClosedOut, Models
  <2>7. Loaded'
    <3>1. \A s \in Calls : mpc'[s] \notin {"stat", "read", "load", "install", "retire"}
      BY <1>2, <2>1, Moves DEF Users, Refreshing
    <3> QED BY <3>1 DEF Loaded
  <2> QED BY <2>5, <2>6, <2>7
<1>6. CASE new # NoModel
  <2> DEFINE pc == IF old # NoModel THEN "retire" ELSE "use"
             r == [at[t] EXCEPT !.retired = old, !.mine = new]
  <2>1. /\ Go(t, pc) /\ active' = active + 1
        /\ at' = [at EXCEPT ![t] = r]
        /\ Lease(new)
    BY <1>6 DEF Install, Lease
  <2>2. r \in Locals /\ r.mine = new /\ r.retired = old
    <3>1. at[t] \in Locals /\ old \in Nat
      BY DEF ModelsTypeOK, NoModel
    <3> QED BY <1>4, <3>1 DEF Locals
  <2>3. pc \in {"retire", "use"} /\ (pc = "retire" => old \in Models /\ old # new)
    BY <1>4 DEF Installed
  <2> HIDE DEF r, pc, old, new
  <2>4. Assigns(t, r)
    BY <2>1, <2>2, NewLocals
  <2>5. Users' = {t} /\ Refreshing' = {}
    BY <1>2, <2>1, <2>3, Moves
  <2>6. waits' \subseteq Nat
    BY <1>4, <2>1 DEF Lease, UpdateBatchWait, ModelsTypeOK
  <2>7. ModelsTypeOK'
    <3>1. mpc' \in [Calls -> {"none", "called", "wait", "stat", "read", "load",
                             "install", "retire", "use", "left", "failed"}]
      BY <2>1, <2>3 DEF ModelsTypeOK, Go
    <3>2. active' \in Nat
      BY <1>2, <2>1
    <3>3. closed' \in BOOLEAN /\ loading' \in BOOLEAN
      BY <1>1 DEF ModelsTypeOK
    <3>4. current' \in Nat /\ shut' \subseteq Models' /\ signature' \in Nat
          /\ asleep' \subseteq Calls \cup {Closer} /\ made' = made
          /\ published' = published /\ cl' = cl /\ closing' = closing
      BY <1>1, <1>4 DEF ModelsTypeOK, Models
    <3> QED
      BY <2>4, <2>6, <3>1, <3>2, <3>3, <3>4 DEF ModelsTypeOK, Assigns
  <2>8. LeaseCount'
    <3>1. active' = 1
      BY <1>2, <2>1
    <3>2. Cardinality({t}) = 1
      BY FS_Singleton
    <3> QED BY <2>5, <3>1, <3>2 DEF LeaseCount
  <2>9. OneRefresh' /\ OneModel' /\ ClosedOut'
    BY <1>1, <1>3, <1>4, <1>6, <2>2, <2>4, <2>5
    DEF OneRefresh, OneModel, ClosedOut, Models, Assigns
  <2>10. Loaded'
    <3>1. \A s \in Calls :
            /\ mpc'[s] \notin {"stat", "read", "load", "install"}
            /\ mpc'[s] = "retire" => s = t /\ pc = "retire"
      BY <1>2, <2>1, <2>3, Moves DEF Users, Refreshing
    <3> QED BY <1>1, <2>2, <2>3, <2>4, <3>1 DEF Loaded, Models, Assigns
  <2> QED BY <2>7, <2>8, <2>9, <2>10
<1> QED BY <1>5, <1>6

-----------------------------------------------------------------------------
(* The closing thread and the publisher move no call.                        *)
LEMMA OthersMove ==
    ASSUME LeaseInv,
           \/ Close \/ CloseStep \/ UNCHANGED mvars
           \/ \E c \in Contents \cup Unusable : Publish(c)
    PROVE  LeaseInv'
<1> USE DEF LeaseInv
<1>1. /\ UNCHANGED <<made, mpc, at, active, loading, signature, waits>>
      /\ Users' = Users /\ Refreshing' = Refreshing /\ Models' = Models
  BY DEF Close, CloseStep, CloseWaits, CloseTakes, CloseModel, Publish, mvars,
         Users, Refreshing, Models
<1>2. CASE Close \/ CloseWaits \/ UNCHANGED mvars
           \/ \E c \in Contents \cup Unusable : Publish(c)
  <2>1. /\ UNCHANGED <<shut, current, closing>>
        /\ asleep' \subseteq asleep \cup {Closer}
        /\ cl' \in {cl, "wait"} /\ closed' \in BOOLEAN
        /\ cl' # "open" => closed'
        /\ \/ published' = published
           \/ \E c \in Contents \cup Unusable : published' = Append(published, c)
    <3>1. CASE Close
      BY <3>1 DEF Close
    <3>2. CASE CloseWaits
      BY <3>2 DEF CloseWaits, ModelsTypeOK, ClosedOut
    <3>3. CASE UNCHANGED mvars
      BY <3>3 DEF mvars, ModelsTypeOK, ClosedOut
    <3>4. CASE \E c \in Contents \cup Unusable : Publish(c)
      BY <3>4 DEF Publish, ModelsTypeOK, ClosedOut
    <3> QED BY <1>2, <3>1, <3>2, <3>3, <3>4
  <2>2. published' \in Seq(Contents \cup Unusable) /\ Len(published') > 0
    BY <2>1 DEF ModelsTypeOK
  <2>3. ModelsTypeOK'
    BY <1>1, <2>1, <2>2 DEF ModelsTypeOK
  <2> QED
    BY <1>1, <2>1, <2>3 DEF LeaseCount, OneRefresh, OneModel, Loaded, ClosedOut
<1>3. CASE CloseTakes
  <2>1. /\ cl = "wait" /\ cl' = "closing" /\ closing' = current
        /\ current' = NoModel /\ active = 0 /\ ~loading
        /\ UNCHANGED <<published, shut, asleep, closed>>
    BY <1>3 DEF CloseTakes, Busy, ModelsTypeOK
  <2>2. Users = {} /\ Refreshing = {}
    BY <2>1, NoUsers DEF OneRefresh
  <2>3. ModelsTypeOK'
    BY <1>1, <2>1 DEF ModelsTypeOK, NoModel
  <2>4. Loaded'
    <3>1. \A s \in Calls : mpc[s] \notin {"stat", "read", "load", "install", "retire"}
      BY <2>2 DEF Users, Refreshing
    <3> QED BY <1>1, <3>1 DEF Loaded
  <2> QED
    BY <1>1, <2>1, <2>2, <2>3, <2>4 DEF LeaseCount, OneRefresh, OneModel, ClosedOut
<1>4. CASE CloseModel
  <2>1. /\ cl = "closing" /\ cl' = "closed"
        /\ shut' = shut \cup ({closing} \ {NoModel})
        /\ UNCHANGED <<published, asleep, current, closed, closing>>
    BY <1>4 DEF CloseModel
  <2>2. Users = {} /\ Refreshing = {} /\ current = NoModel
    BY <2>1 DEF ClosedOut
  <2>3. shut' \subseteq Models
    BY <2>1 DEF ModelsTypeOK, ClosedOut
  <2>4. ModelsTypeOK'
    BY <1>1, <2>1, <2>3 DEF ModelsTypeOK
  <2>5. Loaded'
    <3>1. \A s \in Calls : mpc[s] \notin {"stat", "read", "load", "install", "retire"}
      BY <2>2 DEF Users, Refreshing
    <3> QED BY <1>1, <3>1 DEF Loaded
  <2> QED
    BY <1>1, <2>1, <2>2, <2>4, <2>5 DEF LeaseCount, OneRefresh, OneModel, ClosedOut
<1> QED BY <1>2, <1>3, <1>4 DEF CloseStep

-----------------------------------------------------------------------------
LEMMA LeaseInductive == ModelsSpec => []LeaseInv
<1>1. ModelsInit => LeaseInv
  <2> SUFFICES ASSUME ModelsInit PROVE LeaseInv
    OBVIOUS
  <2>1. NoLocals \in Locals
    BY DEF NoLocals, Locals, Unusable, NoModel
  <2>2. PICK c \in Contents \cup Unusable : published = <<c>>
    BY DEF ModelsInit
  <2>3. published \in Seq(Contents \cup Unusable) /\ Len(published) > 0
    BY <2>2
  <2>4. ModelsTypeOK
    <3>1. made \in Seq(Contents \cup Unusable)
      BY DEF ModelsInit
    <3> QED BY <2>1, <2>3, <3>1 DEF ModelsInit, ModelsTypeOK, NoModel
  <2>5. Users = {} /\ Refreshing = {}
    BY DEF ModelsInit, Users, Refreshing
  <2> QED
    BY <2>4, <2>5, FS_EmptySet
    DEF ModelsInit, LeaseInv, LeaseCount, OneRefresh, OneModel, Loaded, ClosedOut
<1>2. LeaseInv /\ [ModelsNext]_mvars => LeaseInv'
  BY CallsElsewhere, CallReloads, CallBegins, CallShares, CallRetires,
     CallLeaves, CallInstalls, OthersMove
  DEF ModelsNext, ManagerStep, LeaseStep
<1> QED BY <1>1, <1>2, PTL DEF ModelsSpec

(* The manager's variables stay well-formed, its lease count natural: the    *)
(* error "model lease count became negative" cannot be raised.               *)
THEOREM ModelsTypeCorrect == ModelsSpec => []ModelsTypeOK
<1>1. LeaseInv => ModelsTypeOK
  BY DEF LeaseInv
<1> QED BY <1>1, LeaseInductive, PTL

(* AtomicModelManager.lease never yields, and no analysis ever holds, a      *)
(* model that a reload or close() has closed.                                *)
THEOREM OpenWhileUsed == ModelsSpec => []NoUseAfterClose
<1>1. LeaseInv => NoUseAfterClose
  BY DEF LeaseInv, OneModel, NoUseAfterClose, Users
<1> QED BY <1>1, LeaseInductive, PTL
-----------------------------------------------------------------------------
(* Which models are open, and who closes them                                *)

(* Every open model is somebody's: one retired model at most waits to be     *)
(* closed, and what the closing thread has taken is still open.              *)
Accounted ==
    /\ \A s, t \in Calls : mpc[s] = "retire" /\ mpc[t] = "retire" => s = t
    /\ \A t \in Calls : mpc[t] = "retire" => at[t].retired \in Models \ shut
    /\ cl = "closing" => closing \in {NoModel} \cup (Models \ shut)
    /\ \A m \in Models \ shut :
        \/ m = current
        \/ cl = "closing" /\ closing = m
        \/ \E t \in Calls : mpc[t] = "retire" /\ at[t].retired = m
        \/ \E t \in Calls : mpc[t] = "install" /\ at[t].cand = m

(* What a step of a call leaves alone: the places and the variables of the   *)
(* other calls.                                                              *)
LEMMA OnlyOne ==
    ASSUME ModelsTypeOK, NEW t \in Calls, Call(t) \/ EndEarly(t) \/ LeaseStep(t)
    PROVE  \A s \in Calls \ {t} : mpc'[s] = mpc[s] /\ at'[s] = at[s]
<1>1. \E pc : Go(t, pc)
  BY DEF LeaseStep, Call, EndEarly, WaitForReload, RefuseClosed, BeginRefresh,
         Share, Stat, ReadManifest, Load, Install, CloseRetired, Leave
<1>2. at' = at \/ \E r : at' = [at EXCEPT ![t] = r]
  BY DEF LeaseStep, Call, EndEarly, WaitForReload, RefuseClosed, BeginRefresh,
         Share, Stat, ReadManifest, Load, Install, CloseRetired, Leave, Forget
<1> QED BY <1>1, <1>2 DEF Go, ModelsTypeOK

(* What each reloading step does to the number of the model on its way in.   *)
LEMMA ReloadEffect ==
    ASSUME ModelsTypeOK, NEW t \in Calls, Stat(t) \/ ReadManifest(t) \/ Load(t)
    PROVE  /\ mpc'[t] \in {"read", "load", "install"}
           /\ UNCHANGED <<published, shut, active, loading, current, closed,
                          waits, cl, closing>>
           /\ at'[t].start = at[t].start
           /\ \/ made' = made /\ at'[t].cand = at[t].cand
              \/ /\ mpc[t] = "load" /\ mpc'[t] = "install"
                 /\ made' = Append(made, at[t].man)
                 /\ at'[t].cand = Len(made) + 1
<1>1. /\ at[t] \in Locals /\ Len(made) \in Nat
      /\ at \in [Calls -> Locals]
      /\ \A pc : [mpc EXCEPT ![t] = pc][t] = pc
  BY DEF ModelsTypeOK
<1>2. CASE Stat(t)
  BY <1>1, <1>2 DEF Stat, Go, Locals
<1>3. CASE ReadManifest(t)
  <2>1. /\ mpc'[t] \in {"read", "load", "install"}
        /\ UNCHANGED <<published, made, shut, active, loading, current, closed,
                       waits, cl, closing>>
    BY <1>1, <1>3 DEF ReadManifest, Go
  <2>2. \/ at' = at
        \/ at' = [at EXCEPT ![t] = [at[t] EXCEPT !.err = TRUE]]
        \/ at' = [at EXCEPT ![t] = [at[t] EXCEPT !.man = Pointer]]
    BY <1>3 DEF ReadManifest
  <2>3. at'[t].cand = at[t].cand /\ at'[t].start = at[t].start
    BY <1>1, <2>2 DEF Locals
  <2> QED BY <2>1, <2>3
<1>4. CASE Load(t)
  BY <1>1, <1>4 DEF Load, Go, Locals
<1> QED BY <1>2, <1>3, <1>4

LEMMA AccountedStep ==
    ASSUME LeaseInv, Accounted, [ModelsNext]_mvars PROVE Accounted'
<1> USE DEF LeaseInv
<1> DEFINE Quiet == {"none", "called", "wait", "stat", "use", "left", "failed"}
<1>1. ASSUME NEW t \in Calls, Call(t) \/ EndEarly(t) \/ LeaseStep(t)
      PROVE  Accounted'
  <2>1. \A s \in Calls \ {t} : mpc'[s] = mpc[s] /\ at'[s] = at[s]
    BY <1>1, OnlyOne
  <2>2. CASE \/ Call(t) \/ EndEarly(t) \/ WaitForReload(t) \/ RefuseClosed(t)
             \/ BeginRefresh(t) \/ Share(t) \/ Leave(t)
    <3>1. mpc[t] \in Quiet /\ mpc'[t] \in Quiet
      BY <2>2 DEF Call, EndEarly, WaitForReload, RefuseClosed, BeginRefresh,
                  Share, Leave, AtGate, Go, ModelsTypeOK
    <3>2. UNCHANGED <<made, shut, current, cl, closing>>
      BY <2>2 DEF Call, EndEarly, WaitForReload, RefuseClosed, BeginRefresh,
                  Share, Leave
    <3> QED BY <2>1, <3>1, <3>2 DEF Accounted, Models
  <2>3. CASE Stat(t) \/ ReadManifest(t) \/ Load(t)
    <3>1. /\ mpc'[t] \in {"read", "load", "install"}
          /\ UNCHANGED <<shut, current, cl, closing>>
          /\ \/ made' = made /\ at'[t].cand = at[t].cand
             \/ /\ mpc'[t] = "install" /\ made' = Append(made, at[t].man)
                /\ at'[t].cand = Len(made) + 1
      BY <2>3, ReloadEffect
    <3>2. mpc[t] \in {"stat", "read", "load"}
      BY <2>3 DEF Stat, ReadManifest, Load
    <3>3. \/ Models' = Models /\ at'[t].cand = at[t].cand
          \/ /\ Models' = Models \cup {at'[t].cand}
             /\ mpc'[t] = "install"
      <4>1. CASE made' = made /\ at'[t].cand = at[t].cand
        BY <4>1 DEF Models
      <4>2. CASE /\ mpc'[t] = "install" /\ made' = Append(made, at[t].man)
                 /\ at'[t].cand = Len(made) + 1
        <5>1. Len(made) \in Nat /\ Len(made') = Len(made) + 1
          BY <4>2 DEF ModelsTypeOK
        <5> QED BY <4>2, <5>1 DEF Models
      <4> QED BY <3>1, <4>1, <4>2
    <3> QED BY <2>1, <3>1, <3>2, <3>3 DEF Accounted
  <2>4. CASE Install(t)
    <3>1. /\ mpc[t] = "install" /\ UNCHANGED <<made, shut, cl, closing>>
          /\ current' = Installed(t)
      BY <2>4 DEF Install
    <3>2. /\ Users = {} /\ Refreshing = {t} /\ cl \notin {"closing", "closed"}
      BY <3>1, NoUsers DEF OneRefresh, Refreshing, ClosedOut
    <3>3. \A s \in Calls \ {t} : mpc'[s] \notin {"retire", "install"}
      BY <2>1, <3>2 DEF Users, Refreshing
    <3>4. at[t].cand \in Nat /\ current \in {NoModel} \cup (Models \ shut)
      BY LocalFields DEF OneModel, ModelsTypeOK
    <3>5. \/ mpc'[t] \in {"use", "failed"} /\ (current = NoModel \/ current' = current)
          \/ mpc'[t] = "retire" /\ at'[t].retired = current /\ current # NoModel
      <4>1. CASE Installed(t) = NoModel
        BY <2>4, <3>4, <4>1 DEF Install, Go, Installed, ModelsTypeOK
      <4>2. CASE Installed(t) # NoModel /\ (at[t].cand = NoModel \/ current = NoModel)
        BY <2>4, <3>4, <4>2 DEF Install, Go, Installed, ModelsTypeOK
      <4>3. CASE at[t].cand # NoModel /\ current # NoModel
        <5>1. /\ mpc' = [mpc EXCEPT ![t] = "retire"]
              /\ at' = [at EXCEPT ![t] = [at[t] EXCEPT !.retired = current,
                                                      !.mine = Installed(t)]]
          BY <2>4, <4>3 DEF Install, Go, Installed
        <5> QED BY <4>3, <5>1 DEF ModelsTypeOK, Locals
      <4> QED BY <4>1, <4>2, <4>3
    <3>6. \A m \in Models \ shut : m = current \/ m = at[t].cand
      BY <3>2 DEF Accounted, Users, Refreshing
    <3>7. NoModel \notin Models
      BY DEF Models, NoModel
    <3> QED BY <3>1, <3>2, <3>3, <3>4, <3>5, <3>6, <3>7 DEF Accounted, Models, Installed
  <2>5. CASE CloseRetired(t)
    <3>1. /\ mpc[t] = "retire" /\ mpc'[t] = "use" /\ at' = at
          /\ shut' = shut \cup {at[t].retired}
          /\ UNCHANGED <<made, current, cl, closing>>
      BY <2>5 DEF CloseRetired, Go, ModelsTypeOK
    <3>2. cl # "closing"
      BY <3>1 DEF ClosedOut, Users
    <3> QED BY <2>1, <3>1, <3>2 DEF Accounted, Models
  <2> QED BY <1>1, <2>2, <2>3, <2>4, <2>5 DEF LeaseStep
<1>2. CASE \/ Close \/ CloseWaits \/ UNCHANGED mvars
           \/ \E c \in Contents \cup Unusable : Publish(c)
  <2>1. /\ UNCHANGED <<made, shut, mpc, at, current, closing>>
        /\ cl' = cl \/ (cl = "open" /\ cl' = "wait")
    BY <1>2 DEF Close, CloseWaits, Publish, mvars
  <2> QED BY <2>1 DEF Accounted, Models
<1>3. CASE CloseTakes
  <2>1. /\ UNCHANGED <<made, shut, mpc, at>> /\ cl = "wait" /\ cl' = "closing"
        /\ closing' = current /\ current' = NoModel
    BY <1>3 DEF CloseTakes
  <2>2. current \in {NoModel} \cup (Models \ shut)
    BY DEF OneModel
  <2> QED BY <2>1, <2>2 DEF Accounted, Models
<1>4. CASE CloseModel
  <2>1. /\ UNCHANGED <<made, mpc, at, current, closing>> /\ cl' = "closed"
        /\ cl = "closing" /\ shut' = shut \cup ({closing} \ {NoModel})
    BY <1>4 DEF CloseModel
  <2>2. Users = {} /\ Refreshing = {}
    BY <2>1 DEF ClosedOut
  <2>3. \A s \in Calls : mpc[s] \notin {"retire", "install"}
    BY <2>2 DEF Users, Refreshing
  <2>4. NoModel \notin Models
    BY DEF Models, NoModel
  <2> QED BY <2>1, <2>3, <2>4 DEF Accounted, Models
<1> QED BY <1>1, <1>2, <1>3, <1>4 DEF ModelsNext, ManagerStep, CloseStep

(* AtomicModelManager closes every model once: an open one is current, on    *)
(* its way in, or about to be closed by exactly one thread, and close()      *)
(* leaves none open.                                                         *)
THEOREM ModelsAccounted == ModelsSpec => []NoModelLost
<1>1. ModelsInit => Accounted
  BY DEF ModelsInit, Accounted, Models
<1>2. LeaseInv /\ Accounted /\ [ModelsNext]_mvars => Accounted'
  BY AccountedStep
<1>3. LeaseInv /\ Accounted => NoModelLost
  <2> SUFFICES ASSUME LeaseInv, Accounted PROVE NoModelLost
    OBVIOUS
  <2> USE DEF LeaseInv
  <2>1. NoModel \notin Models
    BY DEF Models, NoModel
  <2>2. cl = "closed" => shut = Models
    <3>1. cl = "closed" => \A t \in Calls : mpc[t] \notin {"retire", "install"}
      BY DEF ClosedOut, Users, Refreshing
    <3>2. cl = "closed" => Models \ shut = {}
      BY <2>1, <3>1 DEF ClosedOut, Accounted
    <3> QED BY <3>2 DEF ModelsTypeOK
  <2>3. ASSUME NEW m \in Models
        PROVE  LET ways == Cardinality(Retiring(m))
                    + Cardinality({t \in Calls : mpc[t] = "install" /\ at[t].cand = m})
                    + (IF cl = "closing" /\ closing = m THEN 1 ELSE 0)
                    + (IF current = m THEN 1 ELSE 0)
               IN  ways = IF m \in shut THEN 0 ELSE 1
    <3> DEFINE R == Retiring(m)
               I == {t \in Calls : mpc[t] = "install" /\ at[t].cand = m}
               c == IF cl = "closing" /\ closing = m THEN 1 ELSE 0
               d == IF current = m THEN 1 ELSE 0
    <3>1. /\ R = {} \/ \E t \in Calls : R = {t}
          /\ I = {} \/ \E t \in Calls : I = {t}
      BY DEF Retiring, Accounted, OneRefresh, Refreshing
    <3>2. Cardinality({}) = 0 /\ \A t \in Calls : Cardinality({t}) = 1
      BY FS_EmptySet, FS_Singleton
    <3>3. /\ Cardinality(R) = IF R = {} THEN 0 ELSE 1
          /\ Cardinality(I) = IF I = {} THEN 0 ELSE 1
      BY <3>1, <3>2
    <3>4. R # {} => Refreshing = {} /\ m # current /\ m \notin shut
                    /\ cl # "closing" /\ I = {}
      BY NoUsers DEF Retiring, Accounted, Loaded, OneRefresh, Users, ClosedOut, Refreshing
    <3>5. I # {} => m # current /\ m \notin shut /\ cl # "closing"
      BY <2>1 DEF Loaded, ClosedOut, Refreshing
    <3>6. m \in shut => c = 0 /\ d = 0
      BY <2>1 DEF Accounted, OneModel
    <3>7. m = current => cl # "closing" /\ m \notin shut
      BY <2>1 DEF ClosedOut, OneModel
    <3>8. m \in shut \/ R # {} \/ I # {} \/ c = 1 \/ d = 1
      BY DEF Accounted, Retiring
    <3>9. Cardinality(R) + Cardinality(I) + c + d = IF m \in shut THEN 0 ELSE 1
      <4> HIDE DEF R, I
      <4> QED BY <3>3, <3>4, <3>5, <3>6, <3>7, <3>8
    <3> QED BY <3>9
  <2> QED BY <2>2, <2>3 DEF NoModelLost
<1> QED BY <1>1, <1>2, <1>3, LeaseInductive, PTL DEF ModelsSpec

(* AtomicModelManager._update_batch_wait: the broker of the current model    *)
(* waits for company exactly while several analyses share it, whichever of   *)
(* them came or left last and whatever was reloaded meanwhile.               *)
THEOREM CompanyKnown == ModelsSpec => []WaitsForCompany
<1>1. ModelsInit => WaitsForCompany
  BY DEF ModelsInit, WaitsForCompany
<1>2. LeaseInv /\ WaitsForCompany /\ [ModelsNext]_mvars => WaitsForCompany'
  <2> SUFFICES ASSUME LeaseInv, WaitsForCompany, [ModelsNext]_mvars
               PROVE  WaitsForCompany'
    OBVIOUS
  <2>1. ASSUME NEW t \in Calls, LeaseStep(t) PROVE WaitsForCompany'
    <3>1. CASE Share(t)
      BY <3>1 DEF Share, Lease, UpdateBatchWait, WaitsForCompany
    <3>2. CASE Leave(t)
      BY <3>2 DEF Leave, UpdateBatchWait, WaitsForCompany
    <3>3. CASE Install(t)
      BY <3>3 DEF Install, Lease, UpdateBatchWait, WaitsForCompany
    <3> QED
      BY <2>1, <3>1, <3>2, <3>3
      DEF LeaseStep, WaitForReload, RefuseClosed, BeginRefresh, Stat,
          ReadManifest, Load, CloseRetired, WaitsForCompany
  <2>2. CASE CloseTakes
    BY <2>2 DEF CloseTakes, WaitsForCompany
  <2>3. CASE \/ Close \/ CloseWaits \/ CloseModel \/ UNCHANGED mvars
             \/ \E t \in Calls : Call(t) \/ EndEarly(t)
             \/ \E c \in Contents \cup Unusable : Publish(c)
    BY <2>3 DEF Close, CloseWaits, CloseModel, Call, EndEarly, Publish, mvars,
                WaitsForCompany
  <2> QED BY <2>1, <2>2, <2>3 DEF ModelsNext, ManagerStep, CloseStep
<1> QED BY <1>1, <1>2, LeaseInductive, PTL DEF ModelsSpec
-----------------------------------------------------------------------------
(* How old the model may be                                                  *)

(* The content c was published as version i or a later one.                  *)
Since(c, i) == \E j \in 1..Len(published) : i <= j /\ published[j] = c

(* Where a call's signature and its manifest come from: nothing is older     *)
(* than the call, and the manifest was read after the signature.             *)
Sources(t) ==
    /\ t \in Refreshing => at[t].start \in 1..Len(published)
    /\ mpc[t] \in {"read", "load"} =>
        at[t].sig <= Len(published) /\ (at[t].sig = 0 \/ at[t].start <= at[t].sig)
    /\ mpc[t] = "load" =>
        Since(at[t].man, at[t].start) /\ Since(at[t].man, at[t].sig)
    /\ mpc[t] = "install" /\ ~at[t].err =>
        Installed(t) # NoModel /\ Since(made[Installed(t)], at[t].start)
    /\ mpc[t] = "install" /\ Installed(t) # NoModel =>
        Since(made[Installed(t)], signature)
    /\ t \in Users /\ at[t].start > 0 /\ ~at[t].err =>
        Since(made[at[t].mine], at[t].start)

(* The current model is at least as new as the manager's signature says,     *)
(* unless a reload that has changed the signature is about to replace it.    *)
Signed ==
    /\ \A t \in Calls : Sources(t)
    /\ current # NoModel /\ (\A t \in Calls : mpc[t] # "install") =>
        Since(made[current], signature)

LEMMA SinceGrows ==
    ASSUME ModelsTypeOK, NEW c, NEW i \in Nat, NEW n,
           published' \in {published, Append(published, n)}, Since(c, i)
    PROVE  Since(c, i)'
BY DEF Since, ModelsTypeOK

(* What is published now is a version as new as any other.                   *)
LEMMA SinceNow ==
    ASSUME ModelsTypeOK, NEW i \in Nat, i <= Len(published)
    PROVE  Since(Pointer, i)
<1>1. Len(published) \in Nat /\ Len(published) > 0
  BY DEF ModelsTypeOK
<1> QED BY <1>1 DEF Since, Pointer

(* A step that changes neither the pointer file nor the loaded models moves  *)
(* no content.                                                               *)
LEMMA SameSources ==
    ASSUME LeaseInv, Signed, NEW t \in Calls, UNCHANGED <<published, made, signature, current>>,
           \A s \in Calls \ {t} : mpc'[s] = mpc[s] /\ at'[s] = at[s]
    PROVE  \A s \in Calls \ {t} : Sources(s)'
BY DEF Sources, Signed, Since, Installed, Users, Refreshing

LEMMA SignedStep ==
    ASSUME LeaseInv, LeaseInv', Signed, [ModelsNext]_mvars PROVE Signed'
<1> USE DEF LeaseInv
<1>1. ASSUME NEW t \in Calls, Call(t) \/ EndEarly(t) \/ LeaseStep(t)
      PROVE  Signed'
  <2>1. \A s \in Calls \ {t} : mpc'[s] = mpc[s] /\ at'[s] = at[s]
    BY <1>1, OnlyOne
  <2>2. /\ at[t] \in Locals /\ at'[t] \in Locals
        /\ Len(published) \in Nat /\ Len(published) > 0
        /\ current \in Nat /\ signature \in Nat
        /\ Pointer \in Contents \cup Unusable /\ NoLocals \in Locals
    <3>1. NoLocals \in Locals
      BY DEF NoLocals, Locals, Unusable, NoModel
    <3> QED BY <3>1 DEF ModelsTypeOK, Pointer
  <2>3. /\ at[t].start \in Nat /\ at[t].sig \in Nat
        /\ at[t].man \in Contents \cup Unusable /\ at[t].cand \in Nat
    BY <2>2 DEF Locals
  <2>4. CASE \/ Call(t) \/ EndEarly(t) \/ WaitForReload(t) \/ RefuseClosed(t)
             \/ Leave(t) \/ Share(t) \/ BeginRefresh(t)
    <3>1. /\ UNCHANGED <<published, made, signature, current>>
          /\ mpc[t] \in {"none", "called", "wait", "use"}
          /\ mpc'[t] \in {"called", "failed", "wait", "left", "use", "stat"}
      BY <2>4 DEF Call, EndEarly, WaitForReload, RefuseClosed, Leave, AtGate,
                  Share, BeginRefresh, Go, ModelsTypeOK
    <3>2. /\ mpc'[t] = "use" => at'[t].start = 0
          /\ mpc'[t] = "stat" => at'[t].start = Len(published)
      <4>1. CASE Share(t)
        BY <2>2, <4>1 DEF Share, NoLocals, ModelsTypeOK, Go
      <4>2. CASE BeginRefresh(t)
        BY <2>2, <4>2 DEF BeginRefresh, NoLocals, ModelsTypeOK, Go
      <4>3. CASE \/ Call(t) \/ EndEarly(t) \/ WaitForReload(t) \/ RefuseClosed(t)
                 \/ Leave(t)
        BY <4>3 DEF Call, EndEarly, WaitForReload, RefuseClosed, Leave, Go, ModelsTypeOK
      <4> QED BY <2>4, <4>1, <4>2, <4>3
    <3>3. Sources(t)'
      BY <2>2, <3>1, <3>2 DEF Sources, Refreshing, Users
    <3>4. \A s \in Calls \ {t} : Sources(s)'
      BY <2>1, <3>1, SameSources
    <3> QED BY <2>1, <3>1, <3>3, <3>4 DEF Signed, Since
  <2>5. CASE Stat(t) \/ ReadManifest(t) \/ Load(t)
    <3>1. /\ t \in Refreshing /\ mpc[t] # "install" /\ Refreshing = {t} /\ Users = {}
          /\ \A s \in Calls : mpc[s] # "install"
          /\ at[t].cand = NoModel /\ mpc[t] \in {"stat", "read", "load"}
      <4>1. t \in Refreshing /\ mpc[t] \in {"stat", "read", "load"}
        BY <2>5 DEF Stat, ReadManifest, Load, Refreshing
      <4> QED BY <4>1, NoUsers DEF OneRefresh, Refreshing, Loaded
    <3>2. /\ mpc'[t] \in {"read", "load", "install"}
          /\ published' = published /\ current' = current
          /\ at'[t].start = at[t].start
      BY <2>5, ReloadEffect
    <3>3. \A s \in Calls \ {t} : Sources(s)'
      BY <2>1, <3>1 DEF Sources, Refreshing, Users
    <3>4. /\ at[t].start \in 1..Len(published)
          /\ current # NoModel => Since(made[current], signature)
          /\ current # NoModel => current \in Models
      BY <3>1 DEF Signed, Sources, OneModel
    <3>5. ASSUME mpc'[t] # "install", UNCHANGED <<made, signature>>
          PROVE  current # NoModel => Since(made[current], signature)'
      BY <3>2, <3>4, <3>5 DEF Since
    <3>6. CASE Stat(t)
      <4>1. /\ at' = [at EXCEPT ![t] = [at[t] EXCEPT !.sig = Signature]]
            /\ UNCHANGED <<made, signature>>
            /\ mpc'[t] = IF current # NoModel /\ Signature # 0 /\ Signature = signature
                           THEN "install" ELSE "read"
        BY <3>6 DEF Stat, Go, ModelsTypeOK
      <4>2. Signature \in {0, Len(published)}
        BY DEF Signature
      <4>3. at'[t].sig = Signature /\ at'[t].cand = NoModel
        BY <2>2, <3>1, <4>1 DEF ModelsTypeOK, Locals
      <4>4. CASE mpc'[t] = "read"
        BY <2>2, <3>1, <3>2, <3>3, <3>4, <3>5, <4>1, <4>2, <4>3, <4>4
        DEF Signed, Sources, Refreshing, Users
      <4>5. CASE mpc'[t] = "install"
        <5>1. current # NoModel /\ signature = Len(published) /\ Installed(t)' = current
          BY <3>2, <4>1, <4>2, <4>3, <4>5 DEF Installed
        <5>2. Since(made[current], at[t].start)
          BY <2>2, <3>4, <5>1 DEF Since
        <5>3. Sources(t)'
          BY <3>2, <3>4, <4>1, <4>5, <5>1, <5>2 DEF Sources, Since, Users
        <5> QED BY <3>3, <4>5, <5>3 DEF Signed
      <4> QED BY <4>1, <4>4, <4>5
    <3>7. CASE ReadManifest(t)
      <4>1. /\ UNCHANGED made /\ mpc[t] = "read" /\ at'[t].cand = NoModel
        BY <3>1, <3>7, ReloadEffect DEF ReadManifest
      <4>2. at[t].sig <= Len(published)
        BY <4>1 DEF Signed, Sources
      <4>3. CASE Pointer \in Unusable
        <5>1. at'[t].err = TRUE /\ mpc'[t] = "install" /\ signature' = signature
          BY <2>2, <3>7, <4>3 DEF ReadManifest, Go, ModelsTypeOK, Locals
        <5>2. Sources(t)'
          BY <3>2, <3>4, <4>1, <5>1 DEF Sources, Since, Users, Installed
        <5> QED BY <3>3, <5>1, <5>2 DEF Signed
      <4>4. CASE Pointer \notin Unusable /\ current # NoModel /\ made[current] = Pointer
        <5>1. signature' = at[t].sig /\ mpc'[t] = "install" /\ at' = at
          BY <3>7, <4>4 DEF ReadManifest, Go, ModelsTypeOK, Remember
        <5>2. Since(made[current], at[t].sig) /\ Since(made[current], at[t].start)
          BY <2>3, <3>4, <4>2, <4>4, SinceNow
        <5>3. Sources(t)'
          BY <3>2, <3>4, <4>1, <4>4, <5>1, <5>2 DEF Sources, Since, Users, Installed
        <5> QED BY <3>3, <5>1, <5>3 DEF Signed
      <4>5. CASE Pointer \notin Unusable /\ ~(current # NoModel /\ made[current] = Pointer)
        <5>1. /\ at' = [at EXCEPT ![t] = [at[t] EXCEPT !.man = Pointer]]
              /\ mpc'[t] = "load" /\ signature' = signature
          BY <3>7, <4>5 DEF ReadManifest, Go, ModelsTypeOK
        <5>2. at'[t].man = Pointer /\ at'[t].sig = at[t].sig
          BY <2>2, <5>1 DEF Locals, ModelsTypeOK
        <5>3. Since(Pointer, at[t].sig) /\ Since(Pointer, at[t].start)
          BY <2>3, <3>4, <4>2, SinceNow
        <5>4. Sources(t)'
          BY <3>1, <3>2, <3>4, <4>1, <5>1, <5>2, <5>3 DEF Signed, Sources, Since, Users
        <5> QED BY <3>2, <3>3, <3>5, <4>1, <5>1, <5>4 DEF Signed
      <4> QED BY <4>3, <4>4, <4>5
    <3>8. CASE Load(t)
      <4>1. mpc[t] = "load" /\ mpc'[t] = "install"
        BY <3>8 DEF Load, Go, ModelsTypeOK
      <4>2. Since(at[t].man, at[t].start) /\ Since(at[t].man, at[t].sig)
        BY <4>1 DEF Signed, Sources
      <4>3. CASE UNCHANGED <<made, signature>> /\ at'[t].err = TRUE /\ at'[t].cand = NoModel
        <5>1. Sources(t)'
          BY <3>2, <3>4, <4>1, <4>3 DEF Sources, Since, Users, Installed
        <5> QED BY <3>3, <4>1, <5>1 DEF Signed
      <4>4. CASE /\ made' = Append(made, at[t].man) /\ signature' = at[t].sig
                 /\ at'[t].cand = Len(made) + 1
        <5>1. Len(made) \in Nat /\ made'[Len(made) + 1] = at[t].man
          BY <2>3, <4>4 DEF ModelsTypeOK
        <5>2. Installed(t)' = Len(made) + 1 /\ Installed(t)' # NoModel
          BY <4>4, <5>1 DEF Installed, NoModel
        <5>3. Since(made[Installed(t)], at[t].start)' /\ Since(made[Installed(t)], signature)'
          BY <3>2, <4>2, <4>4, <5>1, <5>2 DEF Since
        <5>4. Sources(t)'
          BY <3>2, <3>4, <4>1, <5>2, <5>3 DEF Sources, Users
        <5> QED BY <3>3, <4>1, <5>4 DEF Signed
      <4>5. \/ UNCHANGED <<made, signature>> /\ at'[t].err = TRUE /\ at'[t].cand = NoModel
            \/ /\ made' = Append(made, at[t].man) /\ signature' = at[t].sig
               /\ at'[t].cand = Len(made) + 1
        <5>1. CASE /\ UNCHANGED <<made, signature>>
                   /\ at' = [at EXCEPT ![t] = [at[t] EXCEPT !.err = TRUE]]
          BY <2>2, <3>1, <5>1 DEF ModelsTypeOK, Locals
        <5>2. CASE /\ made' = Append(made, at[t].man) /\ signature' = at[t].sig
                   /\ at' = [at EXCEPT ![t] = [at[t] EXCEPT !.cand = Len(made) + 1]]
          BY <2>2, <3>1, <5>2 DEF ModelsTypeOK, Locals
        <5> QED BY <3>8, <5>1, <5>2 DEF Load, Remember
      <4> QED BY <4>3, <4>4, <4>5
    <3> QED BY <2>5, <3>6, <3>7, <3>8
  <2>6. CASE Install(t)
    <3>1. /\ mpc[t] = "install" /\ current' = Installed(t)
          /\ UNCHANGED <<published, made, signature>>
      BY <2>6 DEF Install
    <3>2. Refreshing = {t} /\ Users = {}
      BY <3>1, NoUsers DEF OneRefresh, Refreshing
    <3>3. \A s \in Calls \ {t} : Sources(s)'
      BY <2>1, <3>2 DEF Sources, Refreshing, Users
    <3>4. Installed(t) # NoModel => Since(made[Installed(t)], signature)
      BY <3>1 DEF Signed, Sources
    <3>5. CASE Installed(t) = NoModel
      <4>1. mpc'[t] = "failed"
        BY <2>6, <3>5 DEF Install, Go, ModelsTypeOK
      <4> QED BY <3>1, <3>3, <3>5, <4>1 DEF Signed, Sources, Refreshing, Users
    <3>6. CASE Installed(t) # NoModel
      <4> DEFINE old == IF at[t].cand # NoModel THEN current ELSE NoModel
      <4>1. /\ at' = [at EXCEPT ![t] = [at[t] EXCEPT !.retired = old, !.mine = Installed(t)]]
            /\ mpc'[t] \in {"retire", "use"}
        BY <2>6, <3>6 DEF Install, Go, ModelsTypeOK
      <4>2. /\ at'[t].mine = Installed(t) /\ at'[t].start = at[t].start
            /\ at'[t].err = at[t].err
        BY <2>2, <4>1 DEF ModelsTypeOK, Locals
      <4>3. ~at[t].err => Since(made[Installed(t)], at[t].start)
        BY <3>1 DEF Signed, Sources
      <4>4. Sources(t)'
        BY <3>1, <4>1, <4>2, <4>3 DEF Sources, Since, Refreshing
      <4> QED BY <3>1, <3>3, <3>4, <4>4 DEF Signed, Since
    <3> QED BY <3>5, <3>6
  <2>7. CASE CloseRetired(t)
    <3>1. /\ mpc[t] = "retire" /\ mpc'[t] = "use" /\ at' = at
          /\ UNCHANGED <<published, made, current, signature>>
      BY <2>7 DEF CloseRetired, Go, ModelsTypeOK
    <3>2. Sources(t)'
      BY <3>1 DEF Signed, Sources, Since, Users, Refreshing
    <3>3. \A s \in Calls \ {t} : Sources(s)'
      BY <2>1, <3>1, SameSources
    <3> QED BY <2>1, <3>1, <3>2, <3>3 DEF Signed, Since
  <2> QED BY <1>1, <2>4, <2>5, <2>6, <2>7 DEF LeaseStep
<1>2. CASE Close \/ CloseWaits \/ CloseModel \/ UNCHANGED mvars
  <2>1. UNCHANGED <<published, made, mpc, at, signature, current>>
    BY <1>2 DEF Close, CloseWaits, CloseModel, mvars
  <2> QED BY <2>1 DEF Signed, Sources, Since, Installed, Users, Refreshing
<1>3. CASE CloseTakes
  <2>1. /\ UNCHANGED <<published, made, mpc, at, signature>> /\ current' = NoModel
        /\ ~loading
    BY <1>3 DEF CloseTakes, Busy
  <2>2. \A s \in Calls : s \notin Refreshing /\ mpc[s] \notin {"read", "load", "install"}
    BY <2>1 DEF OneRefresh, Refreshing
  <2> QED BY <2>1, <2>2 DEF Signed, Sources, Since, Users, Refreshing
<1>4. ASSUME NEW c \in Contents \cup Unusable, Publish(c) PROVE Signed'
  <2>1. /\ published' = Append(published, c)
        /\ UNCHANGED <<made, mpc, at, signature, current>>
    BY <1>4 DEF Publish
  <2>2. Len(published) \in Nat /\ Len(published') = Len(published) + 1
    BY <2>1 DEF ModelsTypeOK
  <2>3. \A d, i : i \in Nat /\ Since(d, i) => Since(d, i)'
    BY <2>1, SinceGrows
  <2>4. \A s \in Calls : at[s].sig \in Nat /\ at[s].start \in Nat
    BY DEF ModelsTypeOK, Locals
  <2>5. signature \in Nat /\ UNCHANGED <<Users, Refreshing>>
    BY <2>1 DEF ModelsTypeOK, Users, Refreshing
  <2>6. ASSUME NEW s \in Calls PROVE Sources(s)'
    <3>1. Sources(s)
      BY DEF Signed
    <3>2. /\ Since(at[s].man, at[s].start) => Since(at[s].man, at[s].start)'
          /\ Since(at[s].man, at[s].sig) => Since(at[s].man, at[s].sig)'
          /\ \A m : Since(made[m], at[s].start) => Since(made[m], at[s].start)'
          /\ \A m : Since(made[m], signature) => Since(made[m], signature)'
      BY <2>1, <2>3, <2>4, <2>5 DEF Since
    <3>3. Installed(s)' = Installed(s)
      BY <2>1 DEF Installed
    <3> QED BY <2>1, <2>2, <2>4, <2>5, <3>1, <3>2, <3>3 DEF Sources
  <2> QED BY <2>1, <2>3, <2>5, <2>6 DEF Signed, Since
<1> QED BY <1>1, <1>2, <1>3, <1>4 DEF ModelsNext, ManagerStep, CloseStep

(* A call that found the manager idle and whose reload did not fail uses a   *)
(* model that was the published one at some moment after the call began,     *)
(* however often the pointer file changed while it read and loaded: that is  *)
(* what taking the signature before the manifest is for.                     *)
THEOREM ModelsFresh == ModelsSpec => []FreshModel
<1>1. ModelsInit => Signed
  BY DEF ModelsInit, Signed, Sources, Refreshing, Users
<1>2. LeaseInv /\ LeaseInv' /\ Signed /\ [ModelsNext]_mvars => Signed'
  BY SignedStep
<1>3. LeaseInv /\ Signed => FreshModel
  <2> SUFFICES ASSUME LeaseInv, Signed, NEW t \in Users,
                      at[t].start > 0, ~at[t].err
               PROVE  \E i \in at[t].start..Len(published) :
                          published[i] = made[at[t].mine]
    BY DEF FreshModel
  <2>1. Since(made[at[t].mine], at[t].start)
    BY DEF Signed, Sources, Users
  <2>2. at[t].start \in Nat /\ Len(published) \in Nat
    BY DEF LeaseInv, ModelsTypeOK, Locals, Users
  <2> QED BY <2>1, <2>2 DEF Since
<1> QED BY <1>1, <1>2, <1>3, LeaseInductive, PTL DEF ModelsSpec

-----------------------------------------------------------------------------
(* Who sleeps, and who will wake it                                          *)

(* A step puts at most one thread to sleep, and leaves the sleepers alone or *)
(* wakes all of them; the steps that wake none end neither a reload nor a    *)
(* use of the model.                                                         *)
LEMMA WakerStep ==
    ASSUME LeaseInv, LeaseInv', WakerAtWork, [ModelsNext]_mvars
    PROVE  WakerAtWork'
<1> USE DEF LeaseInv
<1>1. ASSUME NEW t \in Calls, Call(t) \/ EndEarly(t) \/ LeaseStep(t)
      PROVE  WakerAtWork'
  <2>1. cl' = cl /\ \A s \in Calls \ {t} : mpc'[s] = mpc[s]
    BY <1>1, OnlyOne DEF LeaseStep, Call, EndEarly, WaitForReload, RefuseClosed,
       BeginRefresh, Share, Stat, ReadManifest, Load, Install, CloseRetired, Leave
  <2>2. CASE Install(t) \/ Leave(t)
    BY <2>2 DEF Install, Leave, Notify, WakerAtWork
  <2>3. CASE WaitForReload(t)
    <3>1. /\ mpc'[t] = "wait" /\ asleep' = asleep \cup {t}
          /\ loading' = loading /\ loading /\ active' = active
      BY <2>3 DEF WaitForReload, Go, ModelsTypeOK
    <3>2. Refreshing' # {}
      BY <3>1 DEF OneRefresh
    <3> QED BY <2>1, <3>1, <3>2, ServeConstants DEF WakerAtWork
  <2>4. CASE \/ Call(t) \/ EndEarly(t) \/ RefuseClosed(t) \/ BeginRefresh(t)
             \/ Share(t) \/ Stat(t) \/ ReadManifest(t) \/ Load(t) \/ CloseRetired(t)
    <3>1. asleep' = asleep /\ t \notin asleep
      BY <2>4 DEF Call, EndEarly, RefuseClosed, BeginRefresh, Share, Stat, ReadManifest,
             Load, CloseRetired, AtGate, WakerAtWork
    <3>2. \/ mpc'[t] \in {"called", "failed", "stat", "use"}
             /\ mpc[t] \in {"none", "called", "wait", "retire"}
             /\ (mpc[t] = "retire" => mpc'[t] = "use")
          \/ /\ mpc[t] \in {"stat", "read", "load"}
             /\ mpc'[t] \in {"read", "load", "install"}
      BY <2>4, ReloadEffect DEF Call, EndEarly, RefuseClosed, BeginRefresh, Share, Stat,
             ReadManifest, Load, CloseRetired, AtGate, Go, ModelsTypeOK
    <3>3. (Refreshing # {} => Refreshing' # {})
          /\ (Users \cup Refreshing # {} => Users' \cup Refreshing' # {})
      BY <2>1, <3>2 DEF Refreshing, Users
    <3> QED BY <2>1, <3>1, <3>3 DEF WakerAtWork
  <2> QED BY <1>1, <2>2, <2>3, <2>4 DEF LeaseStep
<1>2. CASE CloseStep \/ Close \/ UNCHANGED mvars \/ \E c \in Contents \cup Unusable : Publish(c)
  <2>1. mpc' = mpc /\ Users' = Users /\ Refreshing' = Refreshing
    BY <1>2 DEF CloseStep, CloseWaits, CloseTakes, CloseModel, Close, Publish, mvars,
           Users, Refreshing
  <2>2. \/ asleep' = asleep /\ (Closer \in asleep => cl' = cl)
        \/ asleep' = asleep \cup {Closer} /\ Busy /\ cl' = "wait"
    BY <1>2 DEF CloseStep, CloseWaits, CloseTakes, CloseModel, Close, Publish, mvars,
           WakerAtWork
  <2>3. Busy => Users \cup Refreshing # {}
    BY NoUsers DEF Busy, OneRefresh, ModelsTypeOK
  <2> QED BY <2>1, <2>2, <2>3, ServeConstants DEF WakerAtWork
<1> QED BY <1>1, <1>2 DEF ModelsNext, ManagerStep

(* AtomicModelManager never misses a notification: whoever waits on its      *)
(* condition, in lease() or in close(), waits for a call that is there and   *)
(* whose last step under the condition wakes everybody.                      *)
THEOREM NoLostWakeUp == ModelsSpec => []WakerAtWork
<1>1. ModelsInit => WakerAtWork
  BY DEF ModelsInit, WakerAtWork
<1>2. LeaseInv /\ LeaseInv' /\ WakerAtWork /\ [ModelsNext]_mvars => WakerAtWork'
  BY WakerStep
<1> QED BY <1>1, <1>2, LeaseInductive, PTL DEF ModelsSpec
=============================================================================
