-------------------------------- MODULE Promotion --------------------------------
(***************************************************************************)
(* The decisions of the arena (deltreltrain/promotion.py) and what the     *)
(* learner does about them (plateau_evidence.py, lr_governor.py and        *)
(* _plateau_control of learner.py): a candidate is measured against the    *)
(* champion and promoted, rejected or superseded; enough rejections by one *)
(* champion lower the learning rate one stage, once.  Two processes share  *)
(* files, each of which is replaced whole; either may be killed between    *)
(* two writes.                                                             *)
(*                                                                         *)
(* Models are numbered in the order of their training steps.  The learner  *)
(* keeps its weights on a plateau (reduce_lr_keep_weights) and returns to  *)
(* the reference rate on a promotion.  A rejection without evidence that   *)
(* does not count is here `superseded': it lowers no rate.  The champion   *)
(* does not change between the two looks at its pointer in one control.    *)
(***************************************************************************)
EXTENDS Integers, FiniteSets

CONSTANTS
    MaxModels,          \* bound: models the learner publishes
    Required,           \* consecutive_terminal_rejections
    MaxStages,          \* reductions down to minimum_learning_rate_scale
    FinishInflight,     \* finish_inflight_candidate
    MaxKills            \* bound: how often a process is killed

ASSUME PromotionConstants ==
    /\ MaxModels \in Nat /\ Required \in Nat \ {0} /\ MaxStages \in Nat
    /\ FinishInflight \in BOOLEAN /\ MaxKills \in Nat

Models == 1 .. MaxModels
Nobody == 0             \* no champion, no candidate
Ends == {"promote", "reject", "superseded"}

VARIABLES
    published,          \* the newest candidate; all of 1 .. published have manifests
    leader,             \* champion.json
    result,             \* result[c][b]: the result file of candidate c against champion b
    verdicts,           \* plateau-verdicts/: pairs <<candidate, champion>>
    report,             \* promotion-status.json
    stage, job, found,  \* the supervisor: what it does, on which candidate, with which outcome
    activity,           \* the learner: down, training, control, deciding, saving
    rate,               \* its governor: stages below the reference, and for which champion
    receipts,           \* receipts[b]: the step of the last reduction, the verdicts spent
    judged,             \* the champion control looks at
    known, scanned,     \* the verdicts it has read, and whether it ever did
    saved, recoveries,  \* what the newest candidate and the recovery checkpoints of its step hold
    kills

arenaVars == <<leader, result, stage, job, found>>
learnerMemory == <<rate, receipts, judged, known, scanned>>
disk == <<published, saved, recoveries>>
learnerSide == <<learnerMemory, disk, activity>>
promotionVars == <<arenaVars, learnerSide, verdicts, report, kills>>

Reference == [stages |-> 0, for |-> Nobody]
NoReceipt == [at |-> 0, spent |-> {}]
NoReport == [candidate |-> Nobody, champion |-> Nobody, decision |-> "none", streak |-> 0]
Governed == [rate |-> rate, receipts |-> receipts]

-----------------------------------------------------------------------------
(* The supervisor's loop                                                     *)

Terminal(c, b) == result[c][b] \in Ends
(* Mutant: a restart measures a candidate again that is decided.             *)
Mutant_Viable == {c \in 1 .. published : c > leader}
Viable == {c \in 1 .. published : c > leader /\ ~Terminal(c, leader)}
Outdated == {c \in 1 .. published : c < leader /\ ~Terminal(c, leader)}
Started(c) == result[c][leader] = "partial"

Decide(c, outcome) == result' = [result EXCEPT ![c][leader] = outcome]

Bootstrap ==
    /\ stage = "idle" /\ leader = Nobody /\ published > 0
    /\ leader' = 1 /\ stage' = "report" /\ job' = 1 /\ found' = "promote"
    /\ UNCHANGED <<result, learnerSide, verdicts, report, kills>>

(* _mark_superseded(): older than the champion, or passed over for a newer   *)
(* candidate before any of its games was played.                             *)
PassOver(c) ==
    /\ \/ stage = "idle" /\ leader # Nobody /\ c \in Outdated
       \/ stage = "chosen" /\ c \in Viable /\ c < job
    /\ Decide(c, "superseded")
    /\ UNCHANGED <<leader, stage, job, found, learnerSide, verdicts, report, kills>>

(* What was begun is finished first, the oldest of it; else the newest.      *)
Choose ==
    LET begun == {c \in Viable : Started(c)}
    IN  /\ stage = "idle" /\ leader # Nobody /\ Outdated = {} /\ Viable # {}
        /\ job' \in Viable
        /\ IF begun # {} THEN job' \in begun /\ \A c \in begun : job' =< c
                         ELSE \A c \in Viable : c =< job'
        /\ stage' = IF begun # {} THEN "session" ELSE "chosen"
        /\ UNCHANGED <<leader, result, found, learnerSide, verdicts, report, kills>>

EnterSession ==
    /\ stage = "chosen" /\ {c \in Viable : c < job} = {} /\ stage' = "session"
    /\ UNCHANGED <<leader, result, job, found, learnerSide, verdicts, report, kills>>

(* A session of waves; before each wave a newer candidate may take over,     *)
(* unless a game of this one was played.                                     *)
Overtaken == published > job /\ ~(FinishInflight /\ Started(job))

GiveWay ==
    /\ stage = "session" /\ Overtaken /\ Decide(job, "superseded") /\ stage' = "idle"
    /\ UNCHANGED <<leader, job, found, learnerSide, verdicts, report, kills>>

BeginWave ==
    /\ stage = "session" /\ ~Overtaken /\ stage' = "wave"
    /\ UNCHANGED <<leader, result, job, found, learnerSide, verdicts, report, kills>>

(* A checkpoint of the games in progress: the evaluation is started.         *)
CheckpointWave ==
    /\ stage = "wave" /\ Decide(job, "partial")
    /\ UNCHANGED <<leader, stage, job, found, learnerSide, verdicts, report, kills>>

(* _persist_wave(): the result is durable, then the pointer, the verdict and *)
(* the status, each by itself.  A candidate whose pairs are used up is       *)
(* rejected like after a wave without games.                                 *)
PersistWave(outcome) ==
    /\ stage = "wave" /\ Decide(job, outcome) /\ found' = outcome
    /\ stage' = CASE outcome = "promote" -> "point"
                  [] outcome = "reject" -> "verdict"
                  [] OTHER -> "report"
    /\ UNCHANGED <<leader, job, learnerSide, verdicts, report, kills>>

PointChampion ==
    /\ stage = "point" /\ leader' = job /\ stage' = "report"
    /\ UNCHANGED <<result, job, found, learnerSide, verdicts, report, kills>>

RecordVerdict ==
    /\ stage = "verdict" /\ verdicts' = verdicts \cup {<<job, leader>>} /\ stage' = "report"
    /\ UNCHANGED <<leader, result, job, found, learnerSide, report, kills>>

(* _write_status(): the streak is carried on from the file.                  *)
Streak ==
    CASE found = "promote" -> 0
      [] found = "reject" /\ ~(report.candidate = job /\ report.decision = "reject")
           -> report.streak + 1
      [] OTHER -> report.streak

WriteStatus ==
    /\ stage = "report"
    /\ stage' \in IF found = "partial" THEN {"session", "wave"} ELSE {"idle"}
    /\ report' = [candidate |-> job, champion |-> leader, decision |-> found, streak |-> Streak]
    /\ UNCHANGED <<leader, result, job, found, learnerSide, verdicts, kills>>

(* The lease ends, its time or its waves being used up, and the supervisor   *)
(* looks for work again; or it is killed and started anew, between any two   *)
(* writes.                                                                   *)
YieldLease ==
    /\ stage = "session" /\ stage' = "idle"
    /\ UNCHANGED <<leader, result, job, found, learnerSide, verdicts, report, kills>>

ArenaKilled ==
    /\ stage # "idle" /\ kills < MaxKills /\ kills' = kills + 1 /\ stage' = "idle"
    /\ UNCHANGED <<leader, result, job, found, learnerSide, verdicts, report>>

-----------------------------------------------------------------------------
(* The learner                                                               *)

(* Training up to the next candidate, which is a checkpoint too; no recovery *)
(* checkpoint of an earlier step is considered by a restart any more.        *)
PublishModel ==
    /\ activity = "training" /\ published < MaxModels
    /\ published' = published + 1 /\ saved' = Governed /\ recoveries' = {}
    /\ UNCHANGED <<arenaVars, learnerMemory, verdicts, report, activity, kills>>

(* A recovery checkpoint at a window's end or for a pause.                   *)
SaveRecovery ==
    /\ activity \in {"training", "deciding"} /\ published > 0
    /\ recoveries' = recoveries \cup {Governed}
    /\ UNCHANGED <<arenaVars, learnerMemory, published, saved, verdicts, report, activity, kills>>

(* _plateau_control(): a reduction ends when its champion is replaced.       *)
BeginControl ==
    /\ activity = "training" /\ leader # Nobody /\ judged' = leader /\ activity' = "control"
    /\ rate' = IF rate.for \notin {Nobody, leader} THEN Reference ELSE rate
    /\ UNCHANGED <<arenaVars, receipts, known, scanned, disk, verdicts, report, kills>>

AtFloor == rate.stages >= MaxStages

(* PlateauVerdictStore._scan(): all verdicts, and the result files whose     *)
(* verdict was never written, which it writes.  Not again before             *)
(* poll_seconds: then control decides on what it read before.                *)
(* Mutant: verdicts only.                                                    *)
Mutant_Rejected == verdicts
Rejected == verdicts \cup {p \in Models \X Models : result[p[1]][p[2]] = "reject"}

ReadVerdicts ==
    /\ activity = "control" /\ ~AtFloor
    /\ verdicts' = Rejected /\ known' = known \cup Rejected /\ scanned' = TRUE
    /\ activity' = "deciding"
    /\ UNCHANGED <<arenaVars, rate, receipts, judged, disk, report, kills>>

ScannedLately ==
    /\ activity = "control" /\ ~AtFloor /\ scanned /\ activity' = "deciding"
    /\ UNCHANGED <<arenaVars, learnerMemory, disk, verdicts, report, kills>>

(* pending_recovery(): what counts for one more reduction.  Candidate steps  *)
(* after the last reduction come from candidates trained after it.           *)
Against(b) == {p \in known : p[2] = b}
Fresh(c) ==
    /\ c \notin receipts[judged].spent /\ c =< published
    /\ c > judged /\ c > receipts[judged].at
Evidence == {p[1] : p \in {q \in Against(judged) : Fresh(q[1])}}

(* Without any durable evidence about this champion: the status.             *)
ByStatus ==
    /\ Against(judged) = {} /\ receipts[judged].spent = {}
    /\ report.candidate = published /\ report.champion = judged
    /\ report.decision = "reject" /\ report.streak >= Required

Spend(b, candidates) ==
    receipts' = [receipts EXCEPT ![b] = [at |-> published, spent |-> @.spent \cup candidates]]

ReduceRate ==
    /\ activity = "deciding"
    /\ \/ Cardinality(Evidence) >= Required /\ Spend(judged, Evidence)
       \/ Cardinality(Evidence) < Required /\ ByStatus /\ Spend(judged, {published})
    /\ rate' = [stages |-> rate.stages + 1, for |-> judged] /\ activity' = "saving"
    /\ UNCHANGED <<arenaVars, judged, known, scanned, disk, verdicts, report, kills>>

Proceed ==
    /\ \/ activity = "control" /\ AtFloor
       \/ activity = "deciding" /\ Cardinality(Evidence) < Required /\ ~ByStatus
    /\ activity' = "training"
    /\ UNCHANGED <<arenaVars, learnerMemory, disk, verdicts, report, kills>>

(* The reduction and its receipt, in one checkpoint.                         *)
SaveReduction ==
    /\ activity = "saving" /\ activity' = "training" /\ recoveries' = recoveries \cup {Governed}
    /\ UNCHANGED <<arenaVars, learnerMemory, published, saved, verdicts, report, kills>>

LearnerKilled ==
    /\ activity # "down" /\ kills < MaxKills /\ kills' = kills + 1 /\ activity' = "down"
    /\ UNCHANGED <<arenaVars, learnerMemory, disk, verdicts, report>>

(* From a recovery checkpoint of the newest step, whichever there is; else   *)
(* from the candidate.                                                       *)
Resumes == IF recoveries = {} THEN {saved} ELSE recoveries

(* Mutant: the rate is restored and the receipts are not.                    *)
Mutant_LearnerStarts ==
    /\ activity = "down" /\ activity' = "training"
    /\ \E checkpoint \in Resumes : rate' = checkpoint.rate
    /\ receipts' = [b \in Models |-> NoReceipt]
    /\ judged' = Nobody /\ known' = {} /\ scanned' = FALSE
    /\ UNCHANGED <<arenaVars, disk, verdicts, report, kills>>

LearnerStarts ==
    /\ activity = "down" /\ activity' = "training"
    /\ \E checkpoint \in Resumes : rate' = checkpoint.rate /\ receipts' = checkpoint.receipts
    /\ judged' = Nobody /\ known' = {} /\ scanned' = FALSE
    /\ UNCHANGED <<arenaVars, disk, verdicts, report, kills>>

-----------------------------------------------------------------------------
PromotionInit ==
    /\ published = 0 /\ leader = Nobody /\ verdicts = {} /\ report = NoReport
    /\ result = [c \in Models |-> [b \in Models |-> "none"]]
    /\ stage = "idle" /\ job = Nobody /\ found = "partial"
    /\ activity = "training" /\ rate = Reference /\ receipts = [b \in Models |-> NoReceipt]
    /\ judged = Nobody /\ known = {} /\ scanned = FALSE
    /\ saved = Governed /\ recoveries = {} /\ kills = 0

Measures ==
    \/ Bootstrap \/ Choose \/ EnterSession \/ GiveWay \/ BeginWave \/ CheckpointWave
    \/ PointChampion \/ RecordVerdict \/ WriteStatus \/ YieldLease \/ ArenaKilled
    \/ \E c \in Models : PassOver(c)
    \/ \E outcome \in Ends \cup {"partial"} : PersistWave(outcome)

Controls ==
    \/ PublishModel \/ SaveRecovery \/ BeginControl \/ ReadVerdicts \/ ScannedLately
    \/ ReduceRate \/ Proceed \/ SaveReduction \/ LearnerKilled \/ LearnerStarts

PromotionNext == Measures \/ Controls

(* The learner goes on and comes back to plateau control after every window; *)
(* poll_seconds pass, so that it scans again and again.                      *)
PromotionFairness ==
    /\ WF_promotionVars(BeginControl \/ ReadVerdicts \/ ScannedLately \/ ReduceRate
                        \/ Proceed \/ SaveReduction \/ LearnerStarts)
    /\ SF_promotionVars(ReadVerdicts)

PromotionSpec == PromotionInit /\ [][PromotionNext]_promotionVars /\ PromotionFairness

-----------------------------------------------------------------------------
(* Properties                                                                *)

(* Each stage below the reference was earned by a rejection of its own by    *)
(* the champion it is for, also when the learner is killed before or after   *)
(* the stage was saved, restarts from an older checkpoint, or reads a        *)
(* verdict twice (from its file and from the result): no response is counted *)
(* double.                                                                   *)
StagesEarned ==
    rate.stages
      =< Cardinality({c \in 1 .. published : rate.for # Nobody /\ result[c][rate.for] = "reject"})

(* "Restart, new candidate publication, and ongoing arena sessions cannot    *)
(* lose ... that response": a champion that has rejected enough candidates   *)
(* since the last stage does not stay unanswered, unless the rate is at its  *)
(* floor, although the supervisor may be killed before it writes the verdict *)
(* and the learner after it has read it.                                     *)
Unanswered ==
    {c \in leader + 1 .. published : result[c][leader] = "reject" /\ c > receipts[leader].at}

PlateauAnswered ==
    []<>(leader = Nobody \/ AtFloor \/ Cardinality(Unanswered) < Required)

(* A candidate is decided once against a champion, and the champion is only  *)
(* replaced by a newer model whose win over it is on file, although the      *)
(* supervisor may be killed between any two writes, yields in the middle of  *)
(* an evaluation, and finds newer candidates whenever it comes back.         *)
DecidedOnce == [][
    /\ leader' # leader =>
         leader = Nobody \/ (leader' > leader /\ result[leader'][leader] = "promote")
    /\ \A c, b \in Models : result[c][b] \in Ends => result'[c][b] = result[c][b]]_promotionVars

(* "Only an arena promote result atomically replaces the champion pointer",  *)
(* and the lease ends once both are durable: a candidate that won is the     *)
(* champion, or an older one, when the supervisor has no work left.          *)
NoWork == leader # Nobody /\ stage = "idle" /\ Viable = {} /\ Outdated = {}
WonIsChampion ==
    NoWork => \A c \in Models, b \in Models : result[c][b] = "promote" => c =< leader
=============================================================================
