---------------------------- MODULE Promotion_proofs ----------------------------
(***************************************************************************)
(* The learning rate is never lowered without a rejection that earned it   *)
(* (StagesEarned), and a candidate is decided once and leads only if it    *)
(* won (DecidedOnce), for any number of models, stages and kills; without  *)
(* kills a candidate that won is champion (WonIsChampion).                 *)
(***************************************************************************)
EXTENDS Promotion, FiniteSetTheorems, TLAPS

Results == Ends \cup {"none", "partial"}
Rates == [stages : Nat, for : Models \cup {Nobody}]
Receipts == [Models -> [at : Nat, spent : SUBSET Models]]
Governors == [rate : Rates, receipts : Receipts]

PromotionTypeOK ==
    /\ published \in 0 .. MaxModels /\ leader \in Models \cup {Nobody}
    /\ result \in [Models -> [Models -> Results]]
    /\ verdicts \subseteq Models \X Models /\ known \subseteq Models \X Models
    /\ job \in Models \cup {Nobody} /\ judged \in Models \cup {Nobody}
    /\ rate \in Rates /\ receipts \in Receipts
    /\ saved \in Governors /\ recoveries \subseteq Governors

(* The rejections a reduction may point to, and what a governor must hold:   *)
(* only those are spent, one at least for each stage.                        *)
RejectedBy(b) == {c \in 1 .. published : result[c][b] = "reject"}

Earned(g) ==
    /\ \A b \in Models : g.receipts[b].spent \subseteq RejectedBy(b)
    /\ g.rate.stages > 0 =>
        /\ g.rate.for \in Models
        /\ g.rate.stages =< Cardinality(g.receipts[g.rate.for].spent)

AllEarned == Earned(Governed) /\ Earned(saved) /\ \A g \in recoveries : Earned(g)

(* Verdicts and the status report only what a result says.                   *)
Rejection(c, b) == c \in Models /\ b \in Models /\ result[c][b] = "reject"
Evident ==
    /\ \A p \in verdicts \cup known : Rejection(p[1], p[2])
    /\ report.decision = "reject" => Rejection(report.candidate, report.champion)

(* A session is about the open result of a model newer than the champion;    *)
(* what is about to be written is true.                                      *)
Underway ==
    /\ stage \in {"chosen", "session", "wave"} \/ (stage = "report" /\ found = "partial") =>
        leader \in Models /\ job \in Models /\ job > leader /\ ~Terminal(job, leader)
    /\ stage \in {"verdict", "point", "report"} => job \in Models
    /\ stage = "verdict" => found = "reject" /\ Rejection(job, leader)
    /\ stage = "point" =>
        found = "promote" /\ leader \in Models /\ job > leader /\ result[job][leader] = "promote"
    /\ stage = "report" /\ found = "reject" => Rejection(job, leader)

(* Where a reduction is decided, the present one is for the same champion.   *)
SameChampion ==
    activity \in {"control", "deciding"} =>
        judged \in Models /\ rate.for \in {Nobody, judged}

PromotionInv == PromotionTypeOK /\ AllEarned /\ Evident /\ Underway /\ SameChampion

(* Rejections are never taken back.                                          *)
Kept ==
    /\ published =< published'
    /\ \A c, b \in Models : result[c][b] = "reject" => result'[c][b] = "reject"

(* What was earned stays earned.                                             *)
LEMMA RejectionsGrow ==
    ASSUME PromotionTypeOK, PromotionTypeOK', Kept, NEW b \in Models
    PROVE  RejectedBy(b) \subseteq RejectedBy(b)'
BY PromotionConstants DEF RejectedBy, Kept, PromotionTypeOK, Models

LEMMA EarnedStays ==
    ASSUME PromotionTypeOK, PromotionTypeOK', Kept, NEW g, Earned(g)
    PROVE  Earned(g)'
BY RejectionsGrow DEF Earned

LEMMA RejectionStays ==
    ASSUME Kept, NEW c, NEW b, Rejection(c, b) PROVE Rejection(c, b)'
BY DEF Kept, Rejection

(* Writing the outcome of an open result takes no rejection back.            *)
LEMMA DecideKeeps ==
    ASSUME PromotionInv, NEW c \in Models, leader \in Models, ~Terminal(c, leader),
           NEW outcome \in Ends \cup {"partial"}, Decide(c, outcome), UNCHANGED published
    PROVE  Kept /\ result' \in [Models -> [Models -> Results]]
BY PromotionConstants DEF PromotionInv, PromotionTypeOK, Terminal, Ends, Decide, Kept, Results, Models

(* Governors that are only copied from memory to a checkpoint and back, while *)
(* no rejection is taken back, stay earned.                                  *)
Held == {Governed, saved} \cup recoveries

LEMMA GovernorsKept ==
    ASSUME PromotionInv, PromotionTypeOK', Kept,
           Governed' \in Held, saved' \in Held, recoveries' \subseteq Held
    PROVE  AllEarned'
<1>1. \A g \in Held : Earned(g)
  BY DEF Held, PromotionInv, AllEarned
<1>2. \A g \in Held : Earned(g)'
  BY <1>1, EarnedStays DEF PromotionInv
<1>3. Earned(Governed)' /\ Earned(saved)'
  BY <1>2 DEF Earned
<1> QED BY <1>2, <1>3 DEF AllEarned

-----------------------------------------------------------------------------
(* The supervisor.  What every one of its steps leaves to be shown:          *)
LEMMA ArenaFrame ==
    ASSUME PromotionInv, UNCHANGED <<learnerMemory, disk, activity>>, Kept,
           leader' \in Models \cup {Nobody}, job' \in Models \cup {Nobody},
           result' \in [Models -> [Models -> Results]],
           verdicts' \subseteq Models \X Models, Evident', Underway'
    PROVE  PromotionInv'
<1>1. PromotionTypeOK'
  BY DEF PromotionInv, PromotionTypeOK, learnerMemory, disk
<1>2. AllEarned'
  BY <1>1, GovernorsKept DEF learnerMemory, disk, Held, Governed
<1>3. SameChampion'
  BY DEF PromotionInv, SameChampion, learnerMemory
<1> QED BY <1>1, <1>2, <1>3 DEF PromotionInv

(* Verdicts, status and what the learner has read stay true while results    *)
(* are only added.                                                           *)
LEMMA EvidentStays ==
    ASSUME PromotionInv, Kept, UNCHANGED <<verdicts, known, report>>
    PROVE  Evident'
BY RejectionStays DEF PromotionInv, Evident

LEMMA ArenaStep == ASSUME PromotionInv, Measures PROVE PromotionInv'
<1> USE DEF arenaVars, learnerMemory, disk, learnerSide
<1>1. CASE Bootstrap
  <2>1. Kept /\ leader' \in Models /\ job' \in Models
    BY <1>1, PromotionConstants DEF Bootstrap, Kept, PromotionInv, PromotionTypeOK, Models
  <2>2. Evident' /\ Underway'
    BY <1>1, <2>1, EvidentStays DEF Bootstrap, Underway
  <2> QED BY <1>1, <2>1, <2>2, ArenaFrame DEF Bootstrap, PromotionInv, PromotionTypeOK
<1>2. CASE Choose
  <2>1. Kept /\ job' \in Models /\ leader \in Models
    BY <1>2, PromotionConstants DEF Choose, Viable, Kept, PromotionInv, PromotionTypeOK, Models
  <2>2. job' > leader /\ ~Terminal(job', leader) /\ stage' \in {"session", "chosen"}
    BY <1>2 DEF Choose, Viable
  <2>3. Evident' /\ Underway'
    BY <1>2, <2>1, <2>2, EvidentStays DEF Choose, Underway, Terminal
  <2> QED BY <1>2, <2>1, <2>3, ArenaFrame DEF Choose, PromotionInv, PromotionTypeOK
<1>3. CASE EnterSession \/ BeginWave \/ YieldLease \/ ArenaKilled
  <2>1. Kept
    BY <1>3, PromotionConstants
    DEF EnterSession, BeginWave, YieldLease, ArenaKilled, Kept, PromotionInv, PromotionTypeOK
  <2>2. Evident' /\ Underway'
    BY <1>3, <2>1, EvidentStays
    DEF EnterSession, BeginWave, YieldLease, ArenaKilled, Underway, Terminal, PromotionInv
  <2> QED BY <1>3, <2>1, <2>2, ArenaFrame
          DEF EnterSession, BeginWave, YieldLease, ArenaKilled, PromotionInv, PromotionTypeOK
<1>4. CASE GiveWay
  <2>1. Kept /\ result' \in [Models -> [Models -> Results]]
    BY <1>4, DecideKeeps DEF GiveWay, PromotionInv, Underway, Ends
  <2>2. Evident' /\ Underway'
    BY <1>4, <2>1, EvidentStays DEF GiveWay, Underway
  <2> QED BY <1>4, <2>1, <2>2, ArenaFrame DEF GiveWay, PromotionInv, PromotionTypeOK
<1>5. ASSUME NEW c \in Models, PassOver(c) PROVE PromotionInv'
  <2>1. leader \in Models /\ ~Terminal(c, leader)
    BY <1>5 DEF PassOver, Outdated, Viable, PromotionInv, PromotionTypeOK, Underway
  <2>2. Kept /\ result' \in [Models -> [Models -> Results]]
    BY <1>5, <2>1, DecideKeeps DEF PassOver, Ends
  <2>3. stage = "chosen" => c # job
    BY <1>5, PromotionConstants DEF PassOver, PromotionInv, Underway, Models
  <2>4. stage = "chosen" => ~Terminal(job, leader)'
    BY <1>5, <2>1, <2>3
    DEF PassOver, Decide, Terminal, PromotionInv, PromotionTypeOK, Underway
  <2>5. Evident' /\ Underway'
    BY <1>5, <2>1, <2>2, <2>4, EvidentStays DEF PassOver, Underway, PromotionInv
  <2> QED BY <1>5, <2>2, <2>5, ArenaFrame DEF PassOver, PromotionInv, PromotionTypeOK
<1>10. CASE CheckpointWave
  <2>1. leader \in Models /\ job \in Models /\ job > leader /\ ~Terminal(job, leader)
    BY <1>10 DEF CheckpointWave, PromotionInv, Underway
  <2>2. Kept /\ result' \in [Models -> [Models -> Results]]
    BY <1>10, <2>1, DecideKeeps DEF CheckpointWave
  <2>3. result'[job][leader] = "partial"
    BY <1>10, <2>1 DEF CheckpointWave, Decide, PromotionInv, PromotionTypeOK
  <2>4. Evident' /\ Underway'
    BY <1>10, <2>1, <2>2, <2>3, EvidentStays DEF CheckpointWave, Underway, Terminal, Ends
  <2> QED BY <1>10, <2>2, <2>4, ArenaFrame DEF CheckpointWave, PromotionInv, PromotionTypeOK
<1>6. ASSUME NEW outcome \in Ends \cup {"partial"}, PersistWave(outcome)
      PROVE PromotionInv'
  <2>1. leader \in Models /\ job \in Models /\ job > leader /\ ~Terminal(job, leader)
    BY <1>6 DEF PersistWave, PromotionInv, Underway
  <2>2. Kept /\ result' \in [Models -> [Models -> Results]]
    BY <1>6, <2>1, DecideKeeps DEF PersistWave, Ends
  <2>3. result'[job][leader] = outcome
    BY <1>6, <2>1 DEF PersistWave, Decide, PromotionInv, PromotionTypeOK
  <2>4. Evident' /\ Underway'
    BY <1>6, <2>1, <2>2, <2>3, EvidentStays DEF PersistWave, Underway, Rejection, Terminal, Ends
  <2> QED BY <1>6, <2>2, <2>4, ArenaFrame DEF PersistWave, PromotionInv, PromotionTypeOK
<1>7. CASE PointChampion
  <2>1. Kept /\ job \in Models
    BY <1>7, PromotionConstants DEF PointChampion, Kept, PromotionInv, PromotionTypeOK, Underway, Models
  <2>2. Evident' /\ Underway'
    BY <1>7, <2>1, EvidentStays DEF PointChampion, Underway, PromotionInv
  <2> QED BY <1>7, <2>1, <2>2, ArenaFrame DEF PointChampion, PromotionInv, PromotionTypeOK
<1>8. CASE RecordVerdict
  <2>1. Kept /\ found = "reject" /\ Rejection(job, leader)
    BY <1>8, PromotionConstants DEF RecordVerdict, Kept, PromotionInv, PromotionTypeOK, Underway, Models
  <2>2. Evident' /\ Underway' /\ verdicts' \subseteq Models \X Models
    BY <1>8, <2>1
    DEF RecordVerdict, Underway, Evident, Rejection, PromotionInv, PromotionTypeOK
  <2> QED BY <1>8, <2>1, <2>2, ArenaFrame DEF RecordVerdict, PromotionInv, PromotionTypeOK
<1>9. CASE WriteStatus
  <2>1. Kept /\ job \in Models /\ (found = "reject" => Rejection(job, leader))
    BY <1>9, PromotionConstants DEF WriteStatus, Kept, PromotionInv, PromotionTypeOK, Underway, Models
  <2>2. report'.decision = found /\ report'.candidate = job /\ report'.champion = leader
    BY <1>9 DEF WriteStatus
  <2>3. Evident'
    BY <1>9, <2>1, <2>2 DEF WriteStatus, Evident, Rejection, PromotionInv
  <2>4. Underway'
    BY <1>9 DEF WriteStatus, Underway, Terminal, PromotionInv
  <2> QED BY <1>9, <2>1, <2>3, <2>4, ArenaFrame DEF WriteStatus, PromotionInv, PromotionTypeOK
<1> QED BY <1>1, <1>2, <1>3, <1>4, <1>5, <1>6, <1>7, <1>8, <1>9, <1>10 DEF Measures

-----------------------------------------------------------------------------
(* The learner.  Its steps leave the results and the supervisor alone.       *)
LEMMA LearnerFrame ==
    ASSUME PromotionInv, UNCHANGED <<arenaVars, report>>, published =< published',
           PromotionTypeOK', AllEarned', SameChampion',
           \A p \in verdicts' \cup known' : Rejection(p[1], p[2])
    PROVE  PromotionInv'
BY DEF PromotionInv, Evident, Rejection, Underway, Terminal, arenaVars

(* Rejections that are known and about this champion may be spent.           *)
LEMMA EvidenceIsRejected ==
    ASSUME PromotionInv, judged \in Models
    PROVE  /\ Evidence \subseteq RejectedBy(judged) /\ IsFiniteSet(Evidence)
           /\ Evidence \cap receipts[judged].spent = {}
<1>1. Evidence \subseteq RejectedBy(judged)
  BY PromotionConstants
  DEF Evidence, Against, Fresh, RejectedBy, PromotionInv, Evident, Rejection, Models
<1>2. IsFiniteSet(1 .. published) /\ RejectedBy(judged) \subseteq 1 .. published
  BY PromotionConstants, FS_Interval DEF RejectedBy, PromotionInv, PromotionTypeOK
<1>3. IsFiniteSet(Evidence)
  BY <1>1, <1>2, FS_Subset
<1>4. Evidence \cap receipts[judged].spent = {}
  BY DEF Evidence, Against, Fresh
<1> QED BY <1>1, <1>3, <1>4

(* One more stage for one more rejection.                                    *)
LEMMA OneMoreStage ==
    ASSUME NEW spent, IsFiniteSet(spent), NEW more, IsFiniteSet(more), more # {},
           more \cap spent = {}, NEW n \in Nat, n =< Cardinality(spent)
    PROVE  n + 1 =< Cardinality(spent \cup more)
<1>1. Cardinality(spent \cup more)
        = Cardinality(spent) + Cardinality(more) - Cardinality(spent \cap more)
  BY FS_Union
<1>2. Cardinality(spent \cap more) = 0
  BY FS_EmptySet
<1>3. Cardinality(more) > 0 /\ Cardinality(more) \in Nat /\ Cardinality(spent) \in Nat
  BY FS_EmptySet, FS_CardinalityType
<1> QED BY <1>1, <1>2, <1>3

LEMMA GovernedType ==
    PromotionTypeOK => Governed \in Governors /\ Held \subseteq Governors
BY DEF PromotionTypeOK, Governed, Governors, Held

(* A reduction of the rate is earned by what it spends.                      *)
LEMMA ReduceEarned ==
    ASSUME PromotionInv, ReduceRate, PromotionTypeOK'
    PROVE  AllEarned'
<1> USE DEF arenaVars, learnerMemory, disk
<1>1. judged \in Models /\ rate.for \in {Nobody, judged} /\ Nobody \notin Models
  BY DEF ReduceRate, PromotionInv, SameChampion, Nobody, Models
<1> DEFINE spent == receipts[judged].spent
<1>2. PICK more :
        /\ Spend(judged, more) /\ more \cap spent = {} /\ IsFiniteSet(more) /\ more # {}
        /\ more \subseteq RejectedBy(judged)
  <2>1. CASE Cardinality(Evidence) >= Required /\ Spend(judged, Evidence)
    <3>1. Evidence # {}
      BY <2>1, FS_EmptySet, PromotionConstants
    <3> QED BY <1>1, <2>1, <3>1, EvidenceIsRejected
  <2>2. CASE ByStatus /\ Spend(judged, {published})
    <3>1. spent = {} /\ Rejection(published, judged)
      BY <2>2 DEF ByStatus, PromotionInv, Evident
    <3>2. {published} \subseteq RejectedBy(judged)
      BY <3>1 DEF Rejection, RejectedBy, Models
    <3>3. /\ {published} \cap spent = {} /\ {published} # {}
          /\ IsFiniteSet({published})
      BY <3>1, FS_Singleton
    <3> QED BY <2>2, <3>2, <3>3
  <2> QED BY <2>1, <2>2 DEF ReduceRate
<1>3. spent \subseteq RejectedBy(judged) /\ IsFiniteSet(spent)
  <2>1. spent \subseteq RejectedBy(judged)
    BY <1>1 DEF PromotionInv, AllEarned, Earned, Governed
  <2>2. RejectedBy(judged) \subseteq 1 .. published
    BY DEF RejectedBy
  <2>3. IsFiniteSet(1 .. published)
    BY PromotionConstants, FS_Interval DEF PromotionInv, PromotionTypeOK
  <2> QED BY <2>1, <2>2, <2>3, FS_Subset
<1>4. rate.stages \in Nat /\ rate.stages =< Cardinality(spent)
  <2>1. rate.stages \in Nat /\ Cardinality(spent) \in Nat
    BY <1>3, FS_CardinalityType DEF PromotionInv, PromotionTypeOK, Rates
  <2> QED BY <1>1, <2>1 DEF PromotionInv, AllEarned, Earned, Governed
<1>5. rate.stages + 1 =< Cardinality(spent \cup more)
  BY <1>2, <1>3, <1>4, OneMoreStage
<1>6. /\ receipts' = [receipts EXCEPT ![judged] = [at |-> published, spent |-> spent \cup more]]
      /\ rate' = [stages |-> rate.stages + 1, for |-> judged]
  BY <1>2 DEF ReduceRate, Spend
<1> HIDE DEF spent
<1>7. \A b \in Models : RejectedBy(b)' = RejectedBy(b)
  BY DEF ReduceRate, RejectedBy
<1>8. \A b \in Models : receipts'[b].spent \subseteq RejectedBy(b)
  BY <1>1, <1>2, <1>3, <1>6
  DEF PromotionInv, PromotionTypeOK, Receipts, AllEarned, Earned, Governed
<1>9. receipts'[judged].spent = spent \cup more
  BY <1>1, <1>6 DEF PromotionInv, PromotionTypeOK, Receipts
<1>10. Earned(Governed)'
  <2>1. Governed'.receipts = receipts' /\ Governed'.rate = rate'
    BY DEF Governed
  <2>2. \A b \in Models : receipts'[b].spent \subseteq RejectedBy(b)'
    BY <1>7, <1>8
  <2>3. /\ rate'.for \in Models
        /\ rate'.stages =< Cardinality(receipts'[rate'.for].spent)
    BY <1>1, <1>5, <1>6, <1>9
  <2> QED BY <2>1, <2>2, <2>3 DEF Earned
<1>11. Earned(saved)' /\ \A g \in recoveries' : Earned(g)'
  BY <1>7 DEF ReduceRate, PromotionInv, AllEarned, Earned
<1> QED BY <1>10, <1>11 DEF AllEarned

LEMMA LearnerStep == ASSUME PromotionInv, Controls PROVE PromotionInv'
<1> USE DEF arenaVars, learnerMemory, disk
<1> DEFINE Known == \A p \in verdicts' \cup known' : Rejection(p[1], p[2])
<1>1. Governed \in Governors /\ Held \subseteq Governors
      /\ \A p \in verdicts \cup known : Rejection(p[1], p[2])
  BY GovernedType DEF PromotionInv, Evident
<1>2. CASE PublishModel
  <2>1. Kept /\ PromotionTypeOK' /\ SameChampion' /\ published =< published'
    BY <1>1, <1>2, PromotionConstants
    DEF PublishModel, Kept, PromotionInv, PromotionTypeOK, SameChampion
  <2>2. AllEarned'
    BY <1>2, <2>1, GovernorsKept DEF PublishModel, Held, Governed
  <2> QED BY <1>1, <1>2, <2>1, <2>2, LearnerFrame DEF PublishModel
<1>3. CASE SaveRecovery \/ SaveReduction
  <2>1. Kept /\ PromotionTypeOK' /\ SameChampion' /\ published =< published'
    BY <1>1, <1>3, PromotionConstants
    DEF SaveRecovery, SaveReduction, Kept, PromotionInv, PromotionTypeOK, SameChampion
  <2>2. AllEarned'
    BY <1>3, <2>1, GovernorsKept DEF SaveRecovery, SaveReduction, Held, Governed
  <2> QED BY <1>1, <1>3, <2>1, <2>2, LearnerFrame DEF SaveRecovery, SaveReduction
<1>4. CASE BeginControl
  <2>1. /\ PromotionTypeOK' /\ published =< published' /\ Reference \in Rates
        /\ Reference.stages = 0
    BY <1>4, PromotionConstants
    DEF BeginControl, PromotionInv, PromotionTypeOK, Reference, Rates
  <2>2. SameChampion'
    BY <1>4 DEF BeginControl, SameChampion, Reference, PromotionInv, PromotionTypeOK
  <2>3. Kept
    BY <1>4, <2>1 DEF BeginControl, Kept
  <2>4. ASSUME rate' = rate PROVE AllEarned'
    BY <1>4, <2>1, <2>3, <2>4, GovernorsKept DEF BeginControl, Held, Governed
  <2>5. ASSUME rate' = Reference PROVE AllEarned'
    <3>1. Governed'.receipts = receipts /\ Governed'.rate = Reference
      BY <1>4, <2>5 DEF BeginControl, Governed
    <3>2. \A b \in Models : receipts[b].spent \subseteq RejectedBy(b)
      BY DEF PromotionInv, AllEarned, Earned, Governed
    <3>3. \A b \in Models : RejectedBy(b)' = RejectedBy(b)
      BY <1>4 DEF BeginControl, RejectedBy
    <3>4. Earned(Governed)'
      BY <2>1, <3>1, <3>2, <3>3 DEF Earned
    <3>5. Earned(saved)' /\ \A g \in recoveries' : Earned(g)'
      BY <1>4, <3>3 DEF BeginControl, PromotionInv, AllEarned, Earned
    <3> QED BY <3>4, <3>5 DEF AllEarned
  <2>6. AllEarned'
    BY <1>4, <2>4, <2>5 DEF BeginControl
  <2> QED BY <1>1, <1>4, <2>1, <2>2, <2>6, LearnerFrame DEF BeginControl
<1>5. CASE ReadVerdicts
  <2>1. Rejected \subseteq Models \X Models /\ \A p \in Rejected : Rejection(p[1], p[2])
    BY <1>1 DEF Rejected, Rejection, PromotionInv, PromotionTypeOK
  <2>2. Kept /\ PromotionTypeOK' /\ SameChampion' /\ published =< published'
    BY <1>5, <2>1, PromotionConstants
    DEF ReadVerdicts, Kept, PromotionInv, PromotionTypeOK, SameChampion
  <2>3. AllEarned'
    BY <1>5, <2>2, GovernorsKept DEF ReadVerdicts, Held, Governed
  <2>4. Known
    BY <1>1, <1>5, <2>1 DEF ReadVerdicts
  <2> QED BY <1>5, <2>2, <2>3, <2>4, LearnerFrame DEF ReadVerdicts
<1>6. CASE ScannedLately \/ Proceed \/ LearnerKilled
  <2>1. Kept /\ PromotionTypeOK' /\ SameChampion' /\ published =< published'
    BY <1>6, PromotionConstants
    DEF ScannedLately, Proceed, LearnerKilled, Kept, PromotionInv, PromotionTypeOK, SameChampion
  <2>2. AllEarned'
    BY <1>6, <2>1, GovernorsKept DEF ScannedLately, Proceed, LearnerKilled, Held, Governed
  <2> QED BY <1>1, <1>6, <2>1, <2>2, LearnerFrame DEF ScannedLately, Proceed, LearnerKilled
<1>7. CASE ReduceRate
  <2>1. judged \in Models
    BY <1>7 DEF ReduceRate, PromotionInv, SameChampion
  <2>2. rate' \in Rates
    BY <1>7, <2>1 DEF ReduceRate, Rates, PromotionInv, PromotionTypeOK
  <2>3. receipts' \in Receipts
    <3>1. Evidence \subseteq Models /\ published \in Nat
      BY <2>1, EvidenceIsRejected, PromotionConstants
      DEF RejectedBy, Models, PromotionInv, PromotionTypeOK
    <3>2. ByStatus => published \in Models
      BY DEF ByStatus, PromotionInv, Evident, Rejection
    <3>3. PICK more \in SUBSET Models : Spend(judged, more)
      BY <1>7, <3>1, <3>2 DEF ReduceRate
    <3> QED BY <2>1, <3>1, <3>3 DEF Spend, Receipts, PromotionInv, PromotionTypeOK
  <2>4. PromotionTypeOK' /\ SameChampion' /\ published =< published'
    BY <1>7, <2>2, <2>3, PromotionConstants
    DEF ReduceRate, PromotionInv, PromotionTypeOK, SameChampion
  <2>5. AllEarned'
    BY <1>7, <2>4, ReduceEarned
  <2> QED BY <1>1, <1>7, <2>4, <2>5, LearnerFrame DEF ReduceRate
<1>8. CASE LearnerStarts
  <2>1. PICK checkpoint \in Resumes :
          rate' = checkpoint.rate /\ receipts' = checkpoint.receipts
    BY <1>8 DEF LearnerStarts
  <2>2. checkpoint \in Held /\ checkpoint \in Governors
    BY <1>1 DEF Resumes, Held
  <2>3. Governed' = checkpoint
    BY <2>1, <2>2 DEF Governed, Governors
  <2>4. Kept /\ PromotionTypeOK' /\ SameChampion' /\ published =< published'
    BY <1>8, <2>1, <2>2, PromotionConstants
    DEF LearnerStarts, Kept, PromotionInv, PromotionTypeOK, SameChampion, Governors
  <2>5. AllEarned'
    BY <1>8, <2>2, <2>3, <2>4, GovernorsKept DEF LearnerStarts, Held
  <2>6. Known
    BY <1>1, <1>8 DEF LearnerStarts
  <2> QED BY <1>8, <2>4, <2>5, <2>6, LearnerFrame DEF LearnerStarts
<1> QED BY <1>2, <1>3, <1>4, <1>5, <1>6, <1>7, <1>8 DEF Controls

-----------------------------------------------------------------------------
LEMMA PromotionStart == PromotionInit => PromotionInv
<1> SUFFICES ASSUME PromotionInit PROVE PromotionInv
  OBVIOUS
<1>1. PromotionTypeOK
  BY PromotionConstants
  DEF PromotionInit, PromotionTypeOK, Reference, NoReceipt, Governed, Governors, Rates,
      Receipts, Results, Nobody
<1>2. AllEarned
  BY DEF PromotionInit, AllEarned, Earned, Reference, NoReceipt, Governed
<1>3. Evident /\ Underway /\ SameChampion
  BY DEF PromotionInit, Evident, Underway, SameChampion, NoReport
<1> QED BY <1>1, <1>2, <1>3 DEF PromotionInv

LEMMA PromotionStays == PromotionInv /\ UNCHANGED promotionVars => PromotionInv'
BY DEF PromotionInv, PromotionTypeOK, AllEarned, Earned, RejectedBy, Governed, Evident,
       Rejection, Underway, Terminal, SameChampion, promotionVars, arenaVars, learnerMemory,
       disk, learnerSide

LEMMA PromotionInductive == PromotionSpec => []PromotionInv
<1>1. PromotionInv /\ [PromotionNext]_promotionVars => PromotionInv'
  BY ArenaStep, LearnerStep, PromotionStays DEF PromotionNext
<1> QED BY <1>1, PromotionStart, PTL DEF PromotionSpec

(* The learning rate is never more stages below its reference than           *)
(* candidates have been rejected by the champion of these stages, whatever   *)
(* is killed when and however often.                                         *)
THEOREM RateEarned == PromotionSpec => []StagesEarned
<1>1. ASSUME PromotionInv PROVE StagesEarned
  <2> DEFINE R == {c \in 1 .. published : rate.for # Nobody /\ result[c][rate.for] = "reject"}
  <2>1. rate.stages \in Nat /\ published \in Nat
    BY <1>1, PromotionConstants DEF PromotionInv, PromotionTypeOK, Rates
  <2>2. IsFiniteSet(1 .. published)
    BY <2>1, FS_Interval
  <2>3. IsFiniteSet(R) /\ Cardinality(R) \in Nat
    BY <2>2, FS_Subset, FS_CardinalityType
  <2>4. CASE rate.stages > 0
    <3>1. /\ rate.for \in Models /\ rate.stages =< Cardinality(receipts[rate.for].spent)
          /\ receipts[rate.for].spent \subseteq RejectedBy(rate.for)
      BY <1>1, <2>4 DEF PromotionInv, AllEarned, Earned, Governed
    <3>2. receipts[rate.for].spent \subseteq R
      BY <3>1 DEF RejectedBy, Nobody, Models
    <3>3. Cardinality(receipts[rate.for].spent) =< Cardinality(R)
          /\ Cardinality(receipts[rate.for].spent) \in Nat
      BY <2>3, <3>2, FS_Subset, FS_CardinalityType
    <3> HIDE DEF R
    <3>4. rate.stages =< Cardinality(R)
      BY <2>1, <2>3, <3>1, <3>3
    <3> QED BY <3>4 DEF R, StagesEarned
  <2>5. CASE rate.stages = 0
    BY <2>3, <2>5 DEF StagesEarned
  <2> QED BY <2>1, <2>4, <2>5
<1> QED BY <1>1, PromotionInductive, PTL

-----------------------------------------------------------------------------
(* The pointer and the results                                               *)

(* An open result is all that a decision replaces.                           *)
LEMMA DecideOnce ==
    ASSUME PromotionInv, NEW c \in Models, leader \in Models, ~Terminal(c, leader),
           NEW outcome, Decide(c, outcome), NEW d \in Models, NEW b \in Models,
           result[d][b] \in Ends
    PROVE  result'[d][b] = result[d][b]
<1>1. CASE d = c /\ b = leader
  BY <1>1 DEF Terminal
<1>2. CASE d # c
  BY <1>2 DEF Decide, PromotionInv, PromotionTypeOK
<1>3. CASE b # leader
  BY <1>3 DEF Decide, PromotionInv, PromotionTypeOK
<1> QED BY <1>1, <1>2, <1>3

(* The steps that write a result, and that they write an open one.           *)
Decides ==
    \E c \in Models, outcome \in Ends \cup {"partial"} :
        leader \in Models /\ ~Terminal(c, leader) /\ Decide(c, outcome) /\ UNCHANGED leader

LEMMA ResultSteps ==
    ASSUME PromotionInv, [PromotionNext]_promotionVars
    PROVE  \/ Decides
           \/ UNCHANGED result /\ (UNCHANGED leader \/ Bootstrap \/ PointChampion)
<1> USE DEF arenaVars
<1>1. CASE GiveWay \/ CheckpointWave
  BY <1>1 DEF GiveWay, CheckpointWave, Decides, PromotionInv, Underway, Ends
<1>2. ASSUME NEW outcome \in Ends \cup {"partial"}, PersistWave(outcome) PROVE Decides
  BY <1>2 DEF PersistWave, Decides, PromotionInv, Underway
<1>3. ASSUME NEW c \in Models, PassOver(c) PROVE Decides
  <2>1. leader \in Models /\ ~Terminal(c, leader)
    BY <1>3 DEF PassOver, Outdated, Viable, PromotionInv, PromotionTypeOK, Underway
  <2> QED BY <1>3, <2>1 DEF PassOver, Decides, Ends
<1>4. CASE Choose \/ EnterSession \/ BeginWave \/ RecordVerdict \/ WriteStatus
            \/ YieldLease \/ ArenaKilled
  BY <1>4 DEF Choose, EnterSession, BeginWave, RecordVerdict, WriteStatus, YieldLease, ArenaKilled
<1>5. CASE Bootstrap \/ PointChampion
  BY <1>5 DEF Bootstrap, PointChampion
<1>6. CASE Controls
  BY <1>6 DEF Controls, PublishModel, SaveRecovery, BeginControl, ReadVerdicts, ScannedLately,
              ReduceRate, Proceed, SaveReduction, LearnerKilled, LearnerStarts
<1>7. CASE UNCHANGED promotionVars
  BY <1>7 DEF promotionVars
<1> QED BY <1>1, <1>2, <1>3, <1>4, <1>5, <1>6, <1>7 DEF PromotionNext, Measures

(* What DecidedOnce says of one step.                                        *)
DecidesOnce ==
    /\ leader' # leader =>
         leader = Nobody \/ (leader' > leader /\ result[leader'][leader] = "promote")
    /\ \A c, b \in Models : result[c][b] \in Ends => result'[c][b] = result[c][b]

LEMMA OnceByStep ==
    ASSUME PromotionInv, [PromotionNext]_promotionVars PROVE DecidesOnce
<1>1. CASE Decides
  <2>1. PICK c \in Models, outcome \in Ends \cup {"partial"} :
          leader \in Models /\ ~Terminal(c, leader) /\ Decide(c, outcome) /\ UNCHANGED leader
    BY <1>1 DEF Decides
  <2> QED BY <2>1, DecideOnce DEF DecidesOnce
<1>2. CASE UNCHANGED result /\ UNCHANGED leader
  BY <1>2 DEF DecidesOnce
<1>3. CASE UNCHANGED result /\ Bootstrap
  BY <1>3 DEF Bootstrap, DecidesOnce
<1>4. CASE UNCHANGED result /\ PointChampion
  BY <1>4 DEF PointChampion, DecidesOnce, PromotionInv, Underway
<1> QED BY <1>1, <1>2, <1>3, <1>4, ResultSteps

(* A candidate is decided once against a champion, and a champion is only    *)
(* replaced by a newer model whose win over it is durable, whatever is       *)
(* killed when and however often.                                            *)
THEOREM ResultsFinal == PromotionSpec => DecidedOnce
<1>1. PromotionInv /\ [PromotionNext]_promotionVars => [DecidesOnce]_promotionVars
  BY OnceByStep
<1> QED BY <1>1, PromotionInductive, PTL DEF PromotionSpec, DecidedOnce, DecidesOnce

(* Without kills, the pointer follows every win at once.                     *)
Crowned ==
    /\ kills = 0
    /\ \A c, b \in Models :
          result[c][b] = "promote" => c =< leader \/ (stage = "point" /\ job = c)

LEMMA CrownedStep ==
    ASSUME MaxKills = 0, PromotionInv, PromotionInv', Crowned, [PromotionNext]_promotionVars
    PROVE  Crowned'
<1> USE DEF arenaVars, learnerMemory, disk, learnerSide
<1>1. kills' = kills /\ ~ArenaKilled /\ ~LearnerKilled
  BY DEF Crowned, PromotionNext, Measures, Controls, promotionVars, Bootstrap, Choose,
         EnterSession, GiveWay, BeginWave, CheckpointWave, PointChampion, RecordVerdict,
         WriteStatus, YieldLease, ArenaKilled, PassOver, PersistWave, PublishModel,
         SaveRecovery, BeginControl, ReadVerdicts, ScannedLately, ReduceRate, Proceed,
         SaveReduction, LearnerKilled, LearnerStarts
<1>2. CASE PointChampion
  <2>1. leader' = job /\ result' = result /\ leader \in Models /\ job > leader
    BY <1>2 DEF PointChampion, PromotionInv, Underway
  <2>2. ASSUME NEW c \in Models, NEW b \in Models, result'[c][b] = "promote" PROVE c =< leader'
    <3>1. c =< leader \/ c = job
      BY <2>1, <2>2 DEF Crowned
    <3>2. c \in Int /\ leader \in Int /\ job \in Int
      BY <2>1, PromotionConstants DEF Models, PromotionInv, PromotionTypeOK, Nobody
    <3> QED BY <2>1, <3>1, <3>2
  <2> QED BY <1>1, <2>2 DEF Crowned
<1>3. CASE Bootstrap
  <2>1. \A c, b \in Models : result[c][b] # "promote"
    BY <1>3, PromotionConstants DEF Bootstrap, Crowned, Nobody, Models
  <2> QED BY <1>1, <1>3, <2>1 DEF Bootstrap, Crowned
<1>4. ASSUME NEW outcome \in Ends \cup {"partial"}, PersistWave(outcome) PROVE Crowned'
  <2>1. /\ leader \in Models /\ job \in Models /\ stage = "wave" /\ UNCHANGED <<leader, job>>
        /\ outcome = "promote" => stage' = "point"
    BY <1>4 DEF PersistWave, PromotionInv, Underway
  <2>2. ASSUME NEW c \in Models, NEW b \in Models, result'[c][b] = "promote"
        PROVE  c =< leader' \/ (stage' = "point" /\ job' = c)
    <3>1. CASE c = job /\ b = leader
      BY <1>4, <2>1, <2>2, <3>1 DEF PersistWave, Decide, PromotionInv, PromotionTypeOK
    <3>2. CASE ~(c = job /\ b = leader)
      <4>1. result[c][b] = "promote"
        BY <1>4, <2>1, <2>2, <3>2 DEF PersistWave, Decide, PromotionInv, PromotionTypeOK
      <4> QED BY <2>1, <4>1 DEF Crowned
    <3> QED BY <3>1, <3>2
  <2> QED BY <1>1, <2>2 DEF Crowned
<1>5. ASSUME NEW c \in Models, NEW outcome, leader \in Models, Decide(c, outcome),
             outcome # "promote", stage # "point", UNCHANGED leader
      PROVE  Crowned'
  <2>1. ASSUME NEW d \in Models, NEW b \in Models, result'[d][b] = "promote"
        PROVE  result[d][b] = "promote"
    BY <1>5, <2>1 DEF Decide, PromotionInv, PromotionTypeOK
  <2> QED BY <1>1, <1>5, <2>1 DEF Crowned
<1>6. CASE GiveWay \/ CheckpointWave
  <2>1. leader \in Models /\ job \in Models
    BY <1>6 DEF GiveWay, CheckpointWave, PromotionInv, Underway
  <2> QED BY <1>5, <1>6, <2>1 DEF GiveWay, CheckpointWave
<1>7. ASSUME NEW c \in Models, PassOver(c) PROVE Crowned'
  <2>1. leader \in Models
    BY <1>7 DEF PassOver, PromotionInv, PromotionTypeOK, Underway
  <2> QED BY <1>5, <1>7, <2>1 DEF PassOver
<1>8. CASE Choose \/ EnterSession \/ BeginWave \/ RecordVerdict \/ WriteStatus \/ YieldLease
  BY <1>1, <1>8 DEF Choose, EnterSession, BeginWave, RecordVerdict, WriteStatus, YieldLease, Crowned
<1>9. CASE Controls \/ UNCHANGED promotionVars
  <2>1. UNCHANGED <<result, leader, stage, job>>
    BY <1>9 DEF Controls, PublishModel, SaveRecovery, BeginControl, ReadVerdicts, ScannedLately,
                ReduceRate, Proceed, SaveReduction, LearnerKilled, LearnerStarts, promotionVars
  <2> QED BY <1>1, <2>1 DEF Crowned
<1> QED BY <1>1, <1>2, <1>3, <1>4, <1>6, <1>7, <1>8, <1>9 DEF PromotionNext, Measures

(* Kills are the only reason why a candidate that won may not lead: without  *)
(* any, WonIsChampion holds for any number of models.                        *)
THEOREM WonUnlessKilled ==
    ASSUME MaxKills = 0 PROVE PromotionSpec => []WonIsChampion
<1>1. PromotionInit => Crowned
  BY DEF PromotionInit, Crowned
<1>2. PromotionInv /\ PromotionInv' /\ Crowned /\ [PromotionNext]_promotionVars => Crowned'
  BY CrownedStep, MaxKills = 0
<1>3. PromotionInv /\ Crowned => WonIsChampion
  BY DEF Crowned, WonIsChampion, NoWork
<1> QED BY <1>1, <1>2, <1>3, PromotionInductive, PTL DEF PromotionSpec
=============================================================================
