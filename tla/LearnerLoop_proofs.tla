--------------------------- MODULE LearnerLoop_proofs ---------------------------
(***************************************************************************)
(* The learner never trains on credit and never returns to a lineage it    *)
(* gave up, for all intervals, ratios and numbers of rewinds; and where    *)
(* snapshots come with candidates only, no restart is refused unless a     *)
(* rewind was cut short.                                                   *)
(***************************************************************************)
EXTENDS LearnerLoop, Integers, TLAPS

Memories == [examples : Nat, segment : Segments \cup {None}, resumed : Segments \cup {None},
             cadence : Cadences \cup {None}, saved : Nat, line : Nat, rewinds : BOOLEAN]
Applying == {"segment", "cadence", "rebase", "unlink"}
Begun == {"start", "due", "training", "save", "cutover", "pointer"}
Places == {"down", "refused", "recover", "ensure"} \cup Applying \cup Begun

LearnTypeOK ==
    /\ samples \in Nat /\ pc \in Places /\ mem \in Memories
    /\ journal \in SUBSET Checkpoints
    /\ candidate \in Checkpoints \cup {None} /\ champion \in Checkpoints \cup {None}
    /\ trial \in Checkpoints \cup {None}
    /\ segmentFile \in Segments \cup {None} /\ cadenceFile \in Cadences \cup {None}
    /\ pending \in Rebases \cup {None} /\ rebased \in Rebases \cup {None}
    /\ cutover \in Nat /\ plateaus \in Nat

(* A segment whose own beginning was paid for, and a number of examples that *)
(* the samples committed since then pay for, when t are committed in all.    *)
Sound(s, t) == s.samples =< t /\ Down * s.examples =< Up * s.samples
Pays(n, s, t) ==
    /\ Sound(s, t) /\ s.examples =< n
    /\ Down * n + Up * s.samples =< Up * t + Down * s.examples

Paid(c) == c # None => Pays(c.at, c.segment, samples)
Boundary(r) == r # None => Sound(r.segment, samples) /\ r.segment.examples = r.to

(* Whatever a restart may load was paid for, and so is what the memory holds,*)
(* except that a rewind keeps its old segment until the new one is on disk.  *)
Credit ==
    /\ \A c \in journal : Paid(c)
    /\ Paid(candidate) /\ Paid(champion) /\ Paid(trial)
    /\ segmentFile # None => Sound(segmentFile, samples)
    /\ Boundary(pending) /\ Boundary(rebased)
    /\ Down * mem.examples =< Up * samples
    /\ mem.segment # None /\ ~(mem.rewinds /\ pc \in Applying)
         => Pays(mem.examples, mem.segment, samples)
    /\ mem.segment = None /\ mem.resumed # None => Pays(mem.examples, mem.resumed, samples)
    /\ mem.segment = None /\ mem.resumed = None => mem.examples = 0

Progress ==
    /\ pc \in Applying => pending \in Rebases /\ pending.to = mem.examples
    /\ pc \in Begun => mem.segment \in Segments
    /\ pc \in Begun \ {"start"} => mem.cadence \in Cadences
    /\ mem.rewinds => pc \in Applying \cup {"save"}

Lineage ==
    /\ \A c \in journal : c.fresh /\ c.line >= cutover
    /\ \A c \in {candidate, champion, trial} : c # None /\ c.fresh => c.line >= cutover
    /\ cutover > 0 => journal # {}
    /\ pc # "down" => mem.line >= cutover


-----------------------------------------------------------------------------
(* Arithmetic                                                                *)

LEMMA Quotient ==
    ASSUME NEW d \in Nat \ {0}, NEW n \in Nat
    PROVE  n \div d \in Nat /\ d * (n \div d) =< n
OBVIOUS

LEMMA Monotone == ASSUME NEW d \in Nat, NEW a \in Int, NEW b \in Int, a =< b PROVE d * a =< d * b
OBVIOUS

LEMMA Distributes ==
    ASSUME NEW d \in Nat, NEW a \in Int, NEW b \in Int
    PROVE  d * (a + b) = d * a + d * b /\ d * (a - b) = d * a - d * b
OBVIOUS

LEMMA Product == ASSUME NEW d \in Nat, NEW a \in Int PROVE d * a \in Int
OBVIOUS

(* One more batch within the budget stays paid for.                          *)
LEMMA Budget ==
    ASSUME NEW n \in Nat, NEW b \in Nat, NEW e \in Nat, NEW s \in Nat, NEW t \in Nat, s =< t,
           n + b =< e + (Up * (t - s)) \div Down
    PROVE  Down * (n + b) + Up * s =< Up * t + Down * e
<1> DEFINE rest == Up * (t - s)
<1> DEFINE quota == rest \div Down
<1>1. rest \in Nat /\ rest = Up * t - Up * s
  <2>1. t - s \in Nat OBVIOUS
  <2>2. rest \in Int /\ 0 =< rest BY <2>1, Product, LearnerConstants
  <2> QED BY <2>2, Distributes, LearnerConstants
<1>2. quota \in Nat /\ Down * quota =< rest BY <1>1, Quotient, LearnerConstants
<1>3. Down * (n + b) =< Down * (e + quota) BY <1>2, Monotone, LearnerConstants
<1>4. Down * (e + quota) = Down * e + Down * quota BY <1>2, Distributes, LearnerConstants
<1>5. /\ Down * (n + b) \in Int /\ Down * e \in Int /\ Up * t \in Int /\ Up * s \in Int
      /\ Down * quota \in Int
  BY <1>2, Product, LearnerConstants
<1> HIDE DEF rest, quota
<1> QED BY <1>1, <1>2, <1>3, <1>4, <1>5

-----------------------------------------------------------------------------
(* Types and the order of the steps                                          *)

LEMMA CheckpointType ==
    ASSUME LearnTypeOK, Progress, pc \in Begun PROVE Checkpoint \in Checkpoints
BY DEF LearnTypeOK, Progress, Checkpoint, Checkpoints, Memories

LEMMA StaleType ==
    ASSUME NEW c \in Checkpoints \cup {None}
    PROVE  Stale(c) \in Checkpoints \cup {None}
BY DEF Stale, Checkpoints

LEMMA EmptyType == Empty \in Memories
BY DEF Empty, Memories

LEMMA ResumeType == ASSUME NEW c \in Checkpoints PROVE Resume(c) \in Memories
BY DEF Resume, Empty, Memories, Checkpoints

LEMMA CadenceType == ASSUME NEW n \in Nat, NEW k \in Nat PROVE Cadence(n, k) \in Cadences
BY DEF Cadence, Cadences

LEMMA CadenceKept ==
    ASSUME mem \in Memories, NEW k \in Cadences
    PROVE  [mem EXCEPT !.cadence = k] \in Memories
BY DEF Memories

LEMMA CadenceBump ==
    ASSUME mem \in Memories, mem.cadence \in Cadences
    PROVE  /\ [mem EXCEPT !.cadence.candidate = mem.examples, !.saved = mem.examples] \in Memories
           /\ [mem EXCEPT !.cadence.selfplay = mem.examples] \in Memories
<1>1. /\ [mem.cadence EXCEPT !.candidate = mem.examples] \in Cadences
      /\ [mem.cadence EXCEPT !.selfplay = mem.examples] \in Cadences
  BY DEF Cadences, Memories
<1> QED BY <1>1 DEF Memories

LEMMA RebaseType ==
    ASSUME mem \in Memories, NEW r \in Rebases
    PROVE  [mem EXCEPT !.segment = r.segment, !.resumed = r.segment,
                       !.cadence = Cadence(r.to, r.to)] \in Memories
<1>1. Cadence(r.to, r.to) \in Cadences BY CadenceType DEF Rebases
<1> QED BY <1>1 DEF Memories, Rebases

LEMMA ResetType ==
    ASSUME mem \in Memories, NEW c \in Checkpoints
    PROVE  [Resume(c) EXCEPT !.segment = mem.segment, !.line = mem.line + 1,
                             !.cadence = mem.cadence, !.rewinds = TRUE] \in Memories
<1>1. ASSUME NEW m \in Memories, NEW s \in Segments \cup {None}, NEW l \in Nat,
             NEW k \in Cadences \cup {None}
      PROVE  [m EXCEPT !.segment = s, !.line = l, !.cadence = k, !.rewinds = TRUE] \in Memories
  <2> DEFINE n == [m EXCEPT !.segment = s, !.line = l, !.cadence = k]
  <2>1. n \in Memories BY DEF Memories
  <2>2. [n EXCEPT !.rewinds = TRUE] \in Memories
    <3> HIDE DEF n
    <3> QED BY <2>1 DEF Memories
  <2> QED BY <2>2 DEF Memories
<1>2. /\ mem.segment \in Segments \cup {None} /\ mem.line + 1 \in Nat
      /\ mem.cadence \in Cadences \cup {None}
  BY DEF Memories
<1> QED BY <1>1, <1>2, ResumeType

LEMMA LearnTypeInductive == LearnTypeOK /\ Progress /\ [LearnNext]_learnVars => LearnTypeOK'
<1> SUFFICES ASSUME LearnTypeOK, Progress, [LearnNext]_learnVars PROVE LearnTypeOK'
  OBVIOUS
<1> USE DEF LearnTypeOK, modelVars, rebaseVars
<1>1. CASE Restart
  BY <1>1, EmptyType, ResumeType DEF Restart, Discovered, Source, Places
<1>2. CASE RecoverPending
  BY <1>2 DEF RecoverPending, Places, Applying
<1>3. CASE EnsureSegment
  BY <1>3 DEF EnsureSegment, Loaded, Origin, Segments, Memories, Places, Begun
<1>4. CASE FirstCandidate
  BY <1>4, CheckpointType DEF FirstCandidate, Begun
<1>5. CASE LoadCadence
  <2> DEFINE counters == CASE mem.cadence # None -> mem.cadence
                           [] mem.cadence = None /\ cadenceFile # None -> cadenceFile
                           [] OTHER -> Cadence(candidate.at, candidate.at)
  <2>1. candidate \in Checkpoints /\ candidate.at \in Nat
    BY <1>5 DEF LoadCadence, Checkpoints
  <2>2. Cadence(candidate.at, candidate.at) \in Cadences BY <2>1, CadenceType
  <2>3. mem.cadence \in Cadences \cup {None} BY DEF Memories
  <2>4. counters \in Cadences BY <2>2, <2>3
  <2>5. /\ mem' = [mem EXCEPT !.cadence = counters] \/ mem' = mem
        /\ cadenceFile' \in {counters, cadenceFile} /\ pc' \in {"due", "refused"}
        /\ UNCHANGED <<samples, journal, modelVars, segmentFile, pending, rebased, cutover, plateaus>>
    BY <1>5 DEF LoadCadence
  <2>6. mem' \in Memories BY <2>4, <2>5, CadenceKept
  <2> HIDE DEF counters
  <2> QED BY <2>4, <2>5, <2>6 DEF Places, Begun
<1>6. CASE Reset
  <2>1. champion \in Checkpoints /\ champion.at \in Nat BY <1>6 DEF Reset, Checkpoints
  <2>2. mem' \in Memories BY <1>6, <2>1, ResetType DEF Reset
  <2>3. pending' \in Rebases BY <1>6, <2>1 DEF Reset, Rebases, Segments
  <2> QED BY <1>6, <2>2, <2>3 DEF Reset, Places, Applying
<1>7. CASE ApplySegment
  BY <1>7 DEF ApplySegment, Progress, Places, Applying, Rebases
<1>8. CASE ApplyCadence
  BY <1>8, CadenceType DEF ApplyCadence, Progress, Places, Applying, Rebases
<1>9. CASE ApplyRebase
  BY <1>9 DEF ApplyRebase, Progress, Places, Applying
<1>10. CASE DropPending
  BY <1>10, RebaseType DEF DropPending, Progress, Places, Applying, Begun
<1>11. CASE SaveForced
  BY <1>11, CheckpointType DEF SaveForced, Places, Begun, Memories
<1>12. CASE WriteCutover
  BY <1>12, CheckpointType, StaleType DEF WriteCutover, Places, Begun, Memories
<1>13. CASE PointCandidate
  BY <1>13 DEF PointCandidate, Places, Begun
<1>14. CASE TrainStep
  BY <1>14, LearnerConstants DEF TrainStep, Places, Begun, Memories
<1>15. CASE PublishCandidate
  BY <1>15, CheckpointType, CadenceBump DEF PublishCandidate, Progress, Places, Begun
<1>16. CASE PublishSelfplay
  BY <1>16, CadenceBump DEF PublishSelfplay, Progress, Places, Begun
<1>17. CASE SaveCadence
  BY <1>17 DEF SaveCadence, Places, Begun, Memories
<1>18. CASE WriteRecovery
  BY <1>18, CheckpointType DEF WriteRecovery, Places, Begun, Memories
<1>19. CASE Stop
  BY <1>19, CheckpointType, EmptyType DEF Stop, Places, Begun
<1>20. CASE Recover
  BY <1>20 DEF Recover, Places, Begun
<1>21. CASE Crash
  BY <1>21, EmptyType DEF Crash, Places
<1>22. CASE CommitSample
  BY <1>22 DEF CommitSample
<1>23. CASE StartTrial
  BY <1>23 DEF StartTrial
<1>24. CASE Promote
  BY <1>24 DEF Promote
<1>25. CASE UNCHANGED learnVars
  BY <1>25 DEF learnVars
<1> QED BY <1>1, <1>2, <1>3, <1>4, <1>5, <1>6, <1>7, <1>8, <1>9, <1>10, <1>11, <1>12, <1>13, <1>14, <1>15, <1>16, <1>17, <1>18, <1>19, <1>20, <1>21, <1>22, <1>23, <1>24, <1>25 DEF LearnNext, StartUp, Rewind, Training

(* What a restart finds is a fresh checkpoint of the journal or a pointer.   *)
LEMMA Found ==
    ASSUME NEW f \in Discovered
    PROVE  f[2] \in journal \cup {candidate, champion} /\ f[2] # None /\ f[2].fresh
<1>1. ASSUME NEW S, NEW n, f \in Source(S, n) PROVE f[2] \in S /\ f[2] # None /\ f[2].fresh
  BY <1>1 DEF Source
<1> QED BY <1>1 DEF Discovered

LEMMA RestartMemory ==
    ASSUME LearnTypeOK, Restart
    PROVE  /\ mem'.rewinds = FALSE
           /\ \/ Discovered = {} /\ mem' = Empty
              \/ \E c \in (journal \cup {candidate, champion}) \cap Checkpoints :
                     /\ c.fresh /\ mem' = Resume(c) /\ mem'.line = c.line /\ mem'.examples = c.at
                     /\ mem'.segment = None /\ mem'.resumed = c.segment
<1>1. CASE Discovered = {} /\ mem' = Empty
  BY <1>1 DEF Empty
<1>2. CASE \E found \in Discovered : mem' = Resume(found[2])
  <2>1. PICK found \in Discovered : mem' = Resume(found[2]) BY <1>2
  <2>2. found[2] \in (journal \cup {candidate, champion}) \cap Checkpoints /\ found[2].fresh
    BY Found DEF LearnTypeOK
  <2> QED BY <2>1, <2>2 DEF Resume, Empty
<1> QED BY <1>1, <1>2 DEF Restart

(* What the code may rely on at each place.                                  *)
LEMMA ProgressInductive == LearnTypeOK /\ Progress /\ [LearnNext]_learnVars => Progress'
<1> SUFFICES ASSUME LearnTypeOK, Progress, [LearnNext]_learnVars PROVE Progress'
  OBVIOUS
<1> USE DEF Progress, LearnTypeOK, Applying, Begun, modelVars, rebaseVars
<1>1. CASE Restart
  BY <1>1, RestartMemory DEF Restart
<1>2. CASE RecoverPending
  BY <1>2 DEF RecoverPending
<1>3. CASE EnsureSegment
  BY <1>3, LearnTypeInductive DEF EnsureSegment, Loaded, Origin, Segments, Memories
<1>4. CASE FirstCandidate
  BY <1>4 DEF FirstCandidate, Memories
<1>5. CASE LoadCadence
  BY <1>5, LearnTypeInductive, CadenceType DEF LoadCadence, Memories, Checkpoints
<1>6. CASE Reset
  BY <1>6 DEF Reset, Resume, Empty, Memories, Rebases, Segments, Checkpoints
<1>7. CASE ApplySegment
  BY <1>7 DEF ApplySegment, Memories
<1>8. CASE ApplyCadence
  BY <1>8 DEF ApplyCadence, Memories
<1>9. CASE ApplyRebase
  BY <1>9 DEF ApplyRebase, Memories
<1>10. CASE DropPending
  BY <1>10, CadenceType DEF DropPending, Memories, Rebases
<1>11. CASE SaveForced
  BY <1>11 DEF SaveForced, Memories
<1>12. CASE WriteCutover
  BY <1>12 DEF WriteCutover, Memories
<1>13. CASE PointCandidate
  BY <1>13 DEF PointCandidate, Memories
<1>14. CASE TrainStep
  BY <1>14 DEF TrainStep, Memories
<1>15. CASE PublishCandidate
  BY <1>15 DEF PublishCandidate, Memories, Cadences
<1>16. CASE PublishSelfplay
  BY <1>16 DEF PublishSelfplay, Memories, Cadences
<1>17. CASE SaveCadence
  BY <1>17 DEF SaveCadence, Memories
<1>18. CASE WriteRecovery
  BY <1>18 DEF WriteRecovery, Memories
<1>19. CASE Stop
  BY <1>19 DEF Stop, Empty
<1>20. CASE Recover
  BY <1>20 DEF Recover, Memories
<1>21. CASE Crash
  BY <1>21 DEF Crash, Empty
<1>22. CASE CommitSample
  BY <1>22 DEF CommitSample, Memories
<1>23. CASE StartTrial
  BY <1>23 DEF StartTrial, Memories
<1>24. CASE Promote
  BY <1>24 DEF Promote, Memories
<1>25. CASE UNCHANGED learnVars
  BY <1>25 DEF learnVars
<1> QED BY <1>1, <1>2, <1>3, <1>4, <1>5, <1>6, <1>7, <1>8, <1>9, <1>10, <1>11, <1>12, <1>13, <1>14, <1>15, <1>16, <1>17, <1>18, <1>19, <1>20, <1>21, <1>22, <1>23, <1>24, <1>25 DEF LearnNext, StartUp, Rewind, Training

(* A cutover is not undone.                                                  *)
LEMMA StaleLine == ASSUME NEW c \in Checkpoints \cup {None}, Stale(c) # None PROVE ~Stale(c).fresh
BY DEF Stale, Checkpoints

LEMMA LineageInductive == LearnTypeOK /\ Progress /\ Lineage /\ [LearnNext]_learnVars => Lineage'
<1> SUFFICES ASSUME LearnTypeOK, Progress, Lineage, [LearnNext]_learnVars PROVE Lineage'
  OBVIOUS
<1> USE DEF Lineage, modelVars, rebaseVars
<1>1. CASE Restart
  <2>1. journal # {} => Discovered # {}
    <3>1. ASSUME NEW c \in journal PROVE <<3, c>> \in Discovered
      <4>1. c # None BY LearnerConstants DEF LearnTypeOK
      <4> QED BY <4>1 DEF Discovered, Source
    <3> QED BY <3>1
  <2>2. cutover > 0 \/ cutover = 0 BY DEF LearnTypeOK
  <2>3. mem'.line >= cutover
    <3>1. CASE Discovered = {} /\ mem' = Empty
      BY <2>1, <2>2, <3>1 DEF Empty
    <3>2. ASSUME NEW k \in (journal \cup {candidate, champion}) \cap Checkpoints,
                 k.fresh, mem'.line = k.line
          PROVE  mem'.line >= cutover
      <4>1. k # None BY LearnerConstants
      <4> QED BY <3>2, <4>1
    <3> QED BY <1>1, <3>1, <3>2, RestartMemory
  <2> QED BY <1>1, <2>3 DEF Restart
<1>2. CASE RecoverPending
  BY <1>2 DEF LearnTypeOK, RecoverPending, Checkpoint, Memories
<1>3. CASE EnsureSegment
  BY <1>3 DEF LearnTypeOK, EnsureSegment, Checkpoint, Memories
<1>4. CASE FirstCandidate
  BY <1>4 DEF LearnTypeOK, FirstCandidate, Checkpoint, Memories
<1>5. CASE LoadCadence
  BY <1>5 DEF LearnTypeOK, LoadCadence, Checkpoint, Memories
<1>6. CASE Reset
  BY <1>6 DEF LearnTypeOK, Reset, Resume, Empty, Memories
<1>7. CASE ApplySegment
  BY <1>7 DEF LearnTypeOK, ApplySegment, Checkpoint, Memories
<1>8. CASE ApplyCadence
  BY <1>8 DEF LearnTypeOK, ApplyCadence, Checkpoint, Memories
<1>9. CASE ApplyRebase
  BY <1>9 DEF LearnTypeOK, ApplyRebase, Checkpoint, Memories
<1>10. CASE DropPending
  BY <1>10 DEF LearnTypeOK, DropPending, Checkpoint, Memories
<1>11. CASE SaveForced
  BY <1>11 DEF LearnTypeOK, SaveForced, Checkpoint, Memories
<1>12. CASE WriteCutover
  BY <1>12, StaleLine DEF WriteCutover, LearnTypeOK, Checkpoint, Memories
<1>13. CASE PointCandidate
  BY <1>13 DEF LearnTypeOK, PointCandidate, Checkpoint, Memories
<1>14. CASE TrainStep
  BY <1>14 DEF LearnTypeOK, TrainStep, Checkpoint, Memories
<1>15. CASE PublishCandidate
  BY <1>15 DEF LearnTypeOK, PublishCandidate, Checkpoint, Memories
<1>16. CASE PublishSelfplay
  BY <1>16 DEF LearnTypeOK, PublishSelfplay, Checkpoint, Memories
<1>17. CASE SaveCadence
  BY <1>17 DEF LearnTypeOK, SaveCadence, Checkpoint, Memories
<1>18. CASE WriteRecovery
  BY <1>18 DEF LearnTypeOK, WriteRecovery, Checkpoint, Memories
<1>19. CASE Stop
  BY <1>19 DEF LearnTypeOK, Stop, Empty, Checkpoint
<1>20. CASE Recover
  BY <1>20 DEF LearnTypeOK, Recover, Checkpoint, Memories
<1>21. CASE Crash
  BY <1>21 DEF Crash
<1>22. CASE CommitSample
  BY <1>22 DEF LearnTypeOK, CommitSample, Checkpoint, Memories
<1>23. CASE StartTrial
  BY <1>23 DEF LearnTypeOK, StartTrial, Checkpoint, Memories
<1>24. CASE Promote
  BY <1>24 DEF LearnTypeOK, Promote, Checkpoint, Memories
<1>25. CASE UNCHANGED learnVars
  BY <1>25 DEF learnVars
<1> QED BY <1>1, <1>2, <1>3, <1>4, <1>5, <1>6, <1>7, <1>8, <1>9, <1>10, <1>11, <1>12, <1>13, <1>14, <1>15, <1>16, <1>17, <1>18, <1>19, <1>20, <1>21, <1>22, <1>23, <1>24, <1>25 DEF LearnNext, StartUp, Rewind, Training

-----------------------------------------------------------------------------
(* The credit                                                                *)

LEMMA PaysAll ==
    ASSUME NEW n \in Nat, NEW s \in Segments, NEW t \in Nat, Pays(n, s, t)
    PROVE  Down * n =< Up * t
<1>1. s.examples \in Nat /\ s.samples \in Nat BY DEF Segments
<1>2. /\ Down * n \in Int /\ Down * s.examples \in Int
      /\ Up * t \in Int /\ Up * s.samples \in Int
  BY <1>1, Product, LearnerConstants
<1> QED BY <1>1, <1>2 DEF Pays, Sound

LEMMA Nothing == ASSUME NEW t \in Nat PROVE Down * 0 =< Up * t
BY Product, LearnerConstants

(* More samples pay for as much, and more.                                   *)
LEMMA MoreSamples ==
    ASSUME NEW t \in Nat
    PROVE  /\ \A n \in Nat : Down * n =< Up * t => Down * n =< Up * (t + 1)
           /\ \A s \in Segments : Sound(s, t) => Sound(s, t + 1)
           /\ \A n \in Nat, s \in Segments : Pays(n, s, t) => Pays(n, s, t + 1)
<1>1. Up * t =< Up * (t + 1) /\ Up * t \in Int /\ Up * (t + 1) \in Int
  BY Monotone, Product, LearnerConstants
<1>2. \A n \in Nat : Down * n \in Int BY Product, LearnerConstants
<1>3. \A s \in Segments : /\ s.samples \in Nat /\ s.examples \in Nat
                           /\ Up * s.samples \in Int /\ Down * s.examples \in Int
  BY Product, LearnerConstants DEF Segments
<1>4. \A s \in Segments : Sound(s, t) => Sound(s, t + 1) BY <1>3 DEF Sound
<1> QED BY <1>1, <1>2, <1>3, <1>4 DEF Pays

(* A segment that begins here is paid for if its beginning is.               *)
LEMMA FreshSegment ==
    ASSUME NEW s \in Segments, NEW t \in Nat, Sound(s, t)
    PROVE  Pays(s.examples, s, t)
<1>1. s.samples \in Nat /\ s.examples \in Nat BY DEF Segments
<1>2. /\ Up * s.samples \in Int /\ Down * s.examples \in Int /\ Up * t \in Int
      /\ Up * s.samples =< Up * t
  BY <1>1, Product, Monotone, LearnerConstants DEF Sound
<1> QED BY <1>1, <1>2 DEF Pays, Sound

(* What a new checkpoint holds was paid for.                                 *)
LEMMA CheckpointPaid ==
    ASSUME LearnTypeOK, Progress, Credit, pc \in Begun
    PROVE  Paid(Checkpoint) /\ Checkpoint # None
<1>1. mem.segment # None /\ pc \notin Applying
  BY LearnerConstants DEF Progress, Begun, Applying
<1>2. Pays(mem.examples, mem.segment, samples) BY <1>1 DEF Credit
<1> QED BY <1>2, CheckpointType, LearnerConstants DEF Paid, Checkpoint

LEMMA StalePaid == ASSUME NEW c \in Checkpoints \cup {None}, Paid(c) PROVE Paid(Stale(c))
BY DEF Paid, Stale, Checkpoints

LEMMA CreditInductive == LearnTypeOK /\ Progress /\ Credit /\ [LearnNext]_learnVars => Credit'
<1> SUFFICES ASSUME LearnTypeOK, Progress, Credit, [LearnNext]_learnVars PROVE Credit'
  OBVIOUS
<1> USE DEF Credit, Paid, Boundary, modelVars, rebaseVars
<1>1. CASE Restart
  <2>1. CASE mem' = Empty
    BY <1>1, <2>1, Nothing DEF Restart, Empty, LearnTypeOK
  <2>2. ASSUME NEW c \in (journal \cup {candidate, champion}) \cap Checkpoints,
               mem'.examples = c.at, mem'.segment = None, mem'.resumed = c.segment
        PROVE  Credit'
    <3>1. c # None /\ c.segment # None /\ c.at \in Nat /\ c.segment \in Segments
      BY LearnerConstants DEF Checkpoints
    <3>2. Pays(c.at, c.segment, samples) BY <3>1, <2>2
    <3>3. Down * c.at =< Up * samples BY <3>1, <3>2, PaysAll DEF LearnTypeOK
    <3> QED BY <1>1, <2>2, <3>1, <3>2, <3>3 DEF Restart
  <2> QED BY <1>1, <2>1, <2>2, RestartMemory
<1>2. CASE RecoverPending
  BY <1>2 DEF RecoverPending, LearnTypeOK, Progress, Memories, Checkpoint, Stale, Empty, Applying, Begun
<1>3. CASE EnsureSegment
  <2> DEFINE accepted ==
        /\ mem.segment # None \/ mem.resumed \in {None, Loaded} \/ Authorized(Loaded)
        /\ Loaded.examples =< mem.examples
  <2>1. CASE ~accepted
    BY <1>3, <2>1 DEF EnsureSegment, Applying
  <2>2. CASE accepted
    <3>1. accepted BY <2>2
    <3>2. Loaded \in Segments /\ Sound(Loaded, samples)
      <4>1. Origin \in Segments /\ Sound(Origin, samples)
        BY Nothing, Product, LearnerConstants DEF Origin, Segments, Sound, LearnTypeOK
      <4>2. mem.segment # None => mem.segment \in Segments /\ Sound(mem.segment, samples)
        BY <1>3 DEF EnsureSegment, Applying, Pays, LearnTypeOK, Memories
      <4>3. mem.segment = None /\ mem.resumed # None =>
              mem.resumed \in Segments /\ Sound(mem.resumed, samples)
        BY DEF Pays, LearnTypeOK, Memories
      <4>4. segmentFile # None => segmentFile \in Segments /\ Sound(segmentFile, samples)
        BY DEF LearnTypeOK
      <4> QED BY <4>1, <4>2, <4>3, <4>4 DEF Loaded
    <3>3. Pays(mem.examples, Loaded, samples)
      <4>1. CASE mem.segment # None
        BY <4>1, <1>3 DEF EnsureSegment, Applying, Loaded
      <4>2. CASE mem.segment = None /\ mem.resumed # None /\ mem.resumed = Loaded
        BY <4>2
      <4>3. CASE mem.segment = None /\ mem.resumed = None
        <5>1. mem.examples = 0 /\ Loaded.examples = 0
          BY <3>1, <3>2, <4>3 DEF Segments
        <5> QED BY <3>2, <5>1, FreshSegment DEF LearnTypeOK
      <4>4. CASE Authorized(Loaded)
        <5>1. mem.examples = Loaded.examples BY <4>4 DEF Authorized
        <5> QED BY <3>2, <5>1, FreshSegment DEF LearnTypeOK
      <4> QED BY <3>1, <4>1, <4>2, <4>3, <4>4
    <3>4. /\ mem' = [mem EXCEPT !.segment = Loaded] /\ pc' = "start"
          /\ segmentFile' \in {Loaded, segmentFile}
          /\ UNCHANGED <<samples, journal, modelVars, cadenceFile, pending, rebased, cutover, plateaus>>
      BY <1>3, <3>1 DEF EnsureSegment
    <3>5. mem'.segment = Loaded /\ mem'.examples = mem.examples /\ Loaded # None
      BY <3>2, <3>4, LearnerConstants DEF LearnTypeOK, Memories
    <3>6. segmentFile' # None => Sound(segmentFile', samples) BY <3>2, <3>4
    <3> QED BY <3>3, <3>4, <3>5, <3>6
  <2> QED BY <2>1, <2>2
<1>4. CASE FirstCandidate
  BY <1>4, CheckpointPaid DEF FirstCandidate, Begun
<1>5. CASE LoadCadence
  BY <1>5 DEF LoadCadence, LearnTypeOK, Progress, Memories, Checkpoint, Stale, Empty, Applying, Begun
<1>6. CASE Reset
  <2>1. champion \in Checkpoints /\ champion # None /\ Pays(champion.at, champion.segment, samples)
    BY <1>6 DEF Reset, LearnTypeOK
  <2>2. champion.at \in Nat /\ champion.segment \in Segments BY <2>1 DEF Checkpoints
  <2>3. Down * champion.at =< Up * samples BY <2>1, <2>2, PaysAll DEF LearnTypeOK
  <2>4. /\ mem'.examples = champion.at /\ mem'.rewinds = TRUE /\ mem'.segment = mem.segment
        /\ pc' \in Applying /\ mem.segment # None
    BY <1>6, LearnerConstants DEF Reset, Resume, Empty, Applying, Progress, Begun
  <2>5. Sound(pending'.segment, samples) /\ pending'.segment.examples = pending'.to
    BY <1>6, <2>3 DEF Reset, Sound, LearnTypeOK
  <2> QED BY <1>6, <2>3, <2>4, <2>5 DEF Reset
<1>7. CASE ApplySegment
  BY <1>7, LearnerConstants DEF ApplySegment, Progress, Applying
<1>8. CASE ApplyCadence
  BY <1>8 DEF ApplyCadence, LearnTypeOK, Progress, Memories, Checkpoint, Stale, Empty, Applying, Begun
<1>9. CASE ApplyRebase
  BY <1>9 DEF ApplyRebase, LearnTypeOK, Progress, Memories, Checkpoint, Stale, Empty, Applying, Begun
<1>10. CASE DropPending
  <2>1. /\ pending \in Rebases /\ pending # None /\ pending.to = mem.examples
        /\ pending.segment \in Segments /\ Sound(pending.segment, samples)
        /\ pending.segment.examples = mem.examples
    BY <1>10, LearnerConstants DEF DropPending, Progress, Applying, Rebases
  <2>2. Pays(mem.examples, pending.segment, samples)
    BY <2>1, FreshSegment DEF LearnTypeOK
  <2> QED BY <1>10, <2>1, <2>2, LearnerConstants DEF DropPending, LearnTypeOK, Memories
<1>11. CASE SaveForced
  BY <1>11, CheckpointPaid DEF SaveForced, LearnTypeOK, Memories, Applying, Begun
<1>12. CASE WriteCutover
  BY <1>12, CheckpointPaid, StalePaid DEF WriteCutover, LearnTypeOK, Applying, Begun
<1>13. CASE PointCandidate
  BY <1>13 DEF PointCandidate, LearnTypeOK, Progress, Memories, Checkpoint, Stale, Empty, Applying, Begun
<1>14. CASE TrainStep
  <2>1. mem.segment \in Segments /\ mem.segment # None /\ mem.examples \in Nat
    BY <1>14, LearnerConstants DEF TrainStep, Progress, Begun, LearnTypeOK, Memories
  <2>2. Pays(mem.examples, mem.segment, samples)
    BY <1>14, <2>1 DEF TrainStep, Applying
  <2>3. /\ mem'.examples = mem.examples + Batch /\ mem'.segment = mem.segment
        /\ mem'.examples =< mem.segment.examples
             + (Up * (samples - mem.segment.samples)) \div Down
    BY <1>14, <2>1 DEF TrainStep, Allowed, LearnTypeOK, Memories
  <2>4. Pays(mem'.examples, mem.segment, samples)
    BY <2>1, <2>2, <2>3, Budget, LearnerConstants DEF Pays, Sound, Segments, LearnTypeOK
  <2>5. mem'.examples \in Nat BY <2>1, <2>3, LearnerConstants
  <2>6. Down * mem'.examples =< Up * samples BY <2>1, <2>4, <2>5, PaysAll DEF LearnTypeOK
  <2> QED BY <1>14, <2>1, <2>3, <2>4, <2>6 DEF TrainStep
<1>15. CASE PublishCandidate
  BY <1>15, CheckpointPaid DEF PublishCandidate, LearnTypeOK, Memories, Begun
<1>16. CASE PublishSelfplay
  BY <1>16 DEF PublishSelfplay, LearnTypeOK, Progress, Memories, Checkpoint, Stale, Empty, Applying, Begun
<1>17. CASE SaveCadence
  BY <1>17 DEF SaveCadence, LearnTypeOK, Progress, Memories, Checkpoint, Stale, Empty, Applying, Begun
<1>18. CASE WriteRecovery
  BY <1>18, CheckpointPaid DEF WriteRecovery, LearnTypeOK, Memories, Begun
<1>19. CASE Stop
  BY <1>19, CheckpointPaid, Nothing DEF Stop, LearnTypeOK, Empty, Begun
<1>20. CASE Recover
  BY <1>20 DEF Recover, LearnTypeOK, Progress, Memories, Checkpoint, Stale, Empty, Applying, Begun
<1>21. CASE Crash
  BY <1>21, Nothing DEF Crash, LearnTypeOK, Empty
<1>22. CASE CommitSample
  BY <1>22, MoreSamples DEF CommitSample, LearnTypeOK, Checkpoints, Memories, Rebases, Applying
<1>23. CASE StartTrial
  BY <1>23 DEF StartTrial, LearnTypeOK, Progress, Memories, Checkpoint, Stale, Empty, Applying, Begun
<1>24. CASE Promote
  BY <1>24 DEF Promote, LearnTypeOK, Progress, Memories, Checkpoint, Stale, Empty, Applying, Begun
<1>25. CASE UNCHANGED learnVars
  BY <1>25 DEF learnVars
<1> QED BY <1>1, <1>2, <1>3, <1>4, <1>5, <1>6, <1>7, <1>8, <1>9, <1>10, <1>11, <1>12, <1>13, <1>14, <1>15, <1>16, <1>17, <1>18, <1>19, <1>20, <1>21, <1>22, <1>23, <1>24, <1>25 DEF LearnNext, StartUp, Rewind, Training

-----------------------------------------------------------------------------
(* Theorems                                                                  *)

LearnInv == LearnTypeOK /\ Progress /\ Credit /\ Lineage

LEMMA LearnInvariant == LearnSpec => []LearnInv
<1>1. LearnInit => LearnInv
  <2> SUFFICES ASSUME LearnInit PROVE LearnInv OBVIOUS
  <2>1. LearnTypeOK BY EmptyType DEF LearnInit, LearnTypeOK, Places
  <2>2. Progress BY DEF LearnInit, Progress, Empty, Applying, Begun
  <2>3. Down * 0 =< Up * 0 BY Nothing
  <2>4. Credit BY <2>3 DEF LearnInit, Credit, Paid, Boundary, Empty
  <2>5. Lineage BY DEF LearnInit, Lineage
  <2> QED BY <2>1, <2>2, <2>4, <2>5 DEF LearnInv
<1>2. LearnInv /\ [LearnNext]_learnVars => LearnInv'
  BY LearnTypeInductive, ProgressInductive, CreditInductive, LineageInductive DEF LearnInv
<1> QED BY <1>1, <1>2, PTL DEF LearnSpec

(* Every variable of the learner and every file it leaves keeps its type.    *)
THEOREM LearnTypeCorrect == LearnSpec => []LearnTypeOK
<1>1. LearnInv => LearnTypeOK BY DEF LearnInv
<1> QED BY <1>1, LearnInvariant, PTL

(* _utd_step_budget() bounds the updates by what was committed, for every    *)
(* ratio and across every crash, restart and rewind to the champion.         *)
THEOREM TrainedWithinCredit == LearnSpec => []WithinCredit
<1>1. LearnInv => WithinCredit
  <2> SUFFICES ASSUME LearnInv PROVE WithinCredit OBVIOUS
  <2>1. Down * mem.examples =< Up * samples BY DEF LearnInv, Credit
  <2>2. ASSUME mem.segment # None, ~mem.rewinds
        PROVE  Down * (mem.examples - mem.segment.examples)
                 =< Up * (samples - mem.segment.samples)
    <3>1. /\ mem.segment \in Segments /\ mem.examples \in Nat /\ samples \in Nat
          /\ Pays(mem.examples, mem.segment, samples)
      BY <2>2 DEF LearnInv, LearnTypeOK, Memories, Credit
    <3>2. mem.segment.examples \in Nat /\ mem.segment.samples \in Nat BY <3>1 DEF Segments
    <3>3. /\ Down * (mem.examples - mem.segment.examples)
               = Down * mem.examples - Down * mem.segment.examples
          /\ Up * (samples - mem.segment.samples) = Up * samples - Up * mem.segment.samples
      BY <3>1, <3>2, Distributes, LearnerConstants
    <3>4. /\ Down * mem.examples \in Int /\ Down * mem.segment.examples \in Int
          /\ Up * samples \in Int /\ Up * mem.segment.samples \in Int
      BY <3>1, <3>2, Product, LearnerConstants
    <3> QED BY <3>1, <3>3, <3>4 DEF Pays
  <2> QED BY <2>1, <2>2 DEF WithinCredit
<1> QED BY <1>1, LearnInvariant, PTL

(* discover_resume_checkpoints() never offers what a durable cutover gave up,*)
(* whatever the arena promotes meanwhile.                                    *)
THEOREM CutoverIsFinal == LearnSpec => []CutoverFinal
<1>1. LearnInv => CutoverFinal BY DEF LearnInv, Lineage, CutoverFinal
<1> QED BY <1>1, LearnInvariant, PTL

-----------------------------------------------------------------------------
(* Restarts                                                                  *)

Covered(k) == k.candidate = k.selfplay /\ \E c \in Offered : k.candidate =< c.at

(* Between a candidate and the snapshot that is due with it.                 *)
Halfway ==
    /\ pc = "due" /\ SelfplayDue /\ candidate.fresh
    /\ mem.cadence.candidate = mem.examples /\ candidate.at = mem.examples

(* No champion is ahead of what the learner offers itself, and the memory is *)
(* not behind, except in a rewind; at its end only its checkpoint is left.   *)
Order ==
    /\ \A c \in {champion, trial} : c # None /\ c.fresh => \E t \in Offered : c.at =< t.at
    /\ pc \notin {"down", "refused", "cutover"} /\ ~mem.rewinds =>
         \A t \in Offered : t.at =< mem.examples
    /\ pc = "pointer" => \A c \in {candidate, champion, trial} : c # None => ~c.fresh

(* Which files there are.                                                    *)
Present ==
    /\ candidate = None =>
         /\ champion = None /\ trial = None /\ journal = {} /\ pending = None
         /\ cadenceFile = None /\ segmentFile \in {None, Origin}
    /\ candidate # None =>
         Offered # {} /\ segmentFile # None /\ (candidate.fresh \/ cadenceFile # None)
    /\ pending # None => cadenceFile # None
    /\ pc \in Applying \cup (Begun \ {"start"}) => candidate # None /\ cadenceFile # None
    /\ mem.rewinds \/ pc \in {"cutover", "pointer"} => champion # None

(* The memory and the files of the segment and the counters.                 *)
Agreement ==
    /\ pc \in Begun \/ (pc = "ensure" /\ mem.segment # None) => mem.segment = segmentFile
    /\ pc \in {"cadence", "rebase", "unlink"} => segmentFile = pending.segment
    /\ pc \in {"rebase", "unlink"} => cadenceFile = Cadence(pending.to, pending.to)
    /\ cadenceFile # None => cadenceFile.candidate = cadenceFile.selfplay
    /\ pc = "recover" => mem.cadence = None /\ mem.segment = None
    /\ pc \in {"ensure", "start"} /\ mem.cadence # None => cadenceFile = mem.cadence
    /\ pc \in Begun \ {"start"} =>
         /\ cadenceFile.candidate =< mem.examples /\ mem.cadence.candidate =< mem.examples
         /\ Halfway \/ mem.cadence.candidate = mem.cadence.selfplay

(* Where nothing is torn, a restart agrees with the files, and some offered  *)
(* checkpoint is as far as the counters.                                     *)
Whole ==
    ~Torn =>
      /\ pc # "refused"
      /\ pc \in {"recover", "ensure"} /\ mem.segment = None =>
           mem.resumed = segmentFile \/ (mem.resumed = None /\ segmentFile \in {None, Origin})
      /\ cadenceFile # None => Covered(cadenceFile)
      /\ pc \in Begun \ {"start"} => Covered(mem.cadence) \/ Halfway

RestartInv == Order /\ Present /\ Agreement /\ Whole

LEMMA OfferedType == ASSUME LearnTypeOK PROVE Offered \subseteq Checkpoints
BY DEF LearnTypeOK, Offered

(* A restart finds the furthest of what is offered, and the champion only if *)
(* nothing is.                                                               *)
LEMMA RestartsFurthest ==
    ASSUME LearnInv, Order, Restart
    PROVE  \/ Offered = {} /\ mem' = Empty
           \/ \E f \in Offered : /\ mem' = Resume(f) /\ mem'.examples = f.at
                                 /\ mem'.resumed = f.segment /\ mem'.rewinds = FALSE
                                 /\ mem'.segment = None /\ mem'.cadence = None
                                 /\ \A t \in Offered : t.at =< mem'.examples
<1>1. ASSUME NEW t \in Offered PROVE <<3, t>> \in Discovered \/ <<2, t>> \in Discovered
  BY <1>1 DEF Offered, Discovered, Source
<1>2. ASSUME NEW f \in Discovered, Best(f), NEW t \in Offered
      PROVE  t.at =< f[2].at /\ (t.at = f[2].at => f[1] >= 2)
  <2>1. PICK n \in {2, 3} : <<n, t>> \in Discovered
    BY <1>1
  <2>2. t.at < f[2].at \/ (t.at = f[2].at /\ n =< f[1])
    BY <1>2, <2>1 DEF Best
  <2>3. t \in Checkpoints /\ f[2] \in Checkpoints
    BY OfferedType, Found DEF LearnInv, LearnTypeOK
  <2>4. f[1] \in {1, 2, 3}
    BY DEF Discovered, Source
  <2> QED BY <2>2, <2>3, <2>4 DEF Checkpoints
<1>3. ASSUME NEW f \in Discovered PROVE f[2] \in Offered \/ (f[1] = 1 /\ f[2] = champion)
  BY DEF Discovered, Source, Offered
<1>4. ASSUME NEW f \in Discovered, Best(f) PROVE f[2] \in Offered
  <2>1. SUFFICES ASSUME f[1] = 1, f[2] = champion, champion # None, champion.fresh PROVE FALSE
    BY <1>3, Found
  <2>2. PICK t \in Offered : champion.at =< t.at
    BY <2>1 DEF Order
  <2>3. t.at \in Nat /\ champion.at \in Nat
    BY <2>1, OfferedType DEF LearnInv, LearnTypeOK, Checkpoints
  <2>4. t.at =< champion.at /\ t.at # champion.at
    BY <1>2, <1>4, <2>1
  <2> QED BY <2>2, <2>3, <2>4
<1>5. CASE Discovered = {} /\ mem' = Empty
  BY <1>1, <1>5
<1>6. ASSUME NEW f \in Discovered, Best(f), mem' = Resume(f[2])
      PROVE  \E g \in Offered : /\ mem' = Resume(g) /\ mem'.examples = g.at
                                /\ mem'.resumed = g.segment /\ mem'.rewinds = FALSE
                                /\ mem'.segment = None /\ mem'.cadence = None
                                /\ \A t \in Offered : t.at =< mem'.examples
  <2> DEFINE g == f[2]
  <2>1. g \in Offered /\ \A t \in Offered : t.at =< g.at
    BY <1>2, <1>4, <1>6
  <2>2. /\ Resume(g).examples = g.at /\ Resume(g).resumed = g.segment
        /\ Resume(g).rewinds = FALSE /\ Resume(g).segment = None /\ Resume(g).cadence = None
    BY DEF Resume, Empty
  <2> HIDE DEF g
  <2>3. mem' = Resume(g)
    BY <1>6 DEF g
  <2> QED BY <2>1, <2>2, <2>3
<1> QED BY <1>5, <1>6 DEF Restart

(* Adding a checkpoint to the journal.                                       *)
LEMMA OfferMore ==
    ASSUME journal' = journal \cup {Checkpoint}, UNCHANGED candidate, LearnInv, pc \in Begun
    PROVE  /\ Offered' = Offered \cup {Checkpoint} /\ Checkpoint.at = mem.examples
           /\ Checkpoint.segment = mem.segment
<1>1. Checkpoint # None
  BY CheckpointType, LearnerConstants DEF LearnInv
<1> QED BY <1>1 DEF Offered, Checkpoint

(* A new candidate replaces the old one.                                     *)
LEMMA OfferCandidate ==
    ASSUME candidate' = Checkpoint, UNCHANGED journal, LearnInv, pc \in Begun
    PROVE  /\ Checkpoint \in Offered' /\ Offered' \subseteq Offered \cup {Checkpoint}
           /\ Offered' = journal \cup {Checkpoint}
           /\ Checkpoint.at = mem.examples /\ Checkpoint.segment = mem.segment
           /\ Checkpoint.fresh /\ Checkpoint # None
<1>1. Checkpoint # None
  BY CheckpointType, LearnerConstants DEF LearnInv
<1>2. \A c \in journal : c # None /\ c.fresh
  BY LearnerConstants DEF LearnInv, LearnTypeOK, Lineage
<1> QED BY <1>1, <1>2 DEF Offered, Checkpoint

(* After the cutover only the checkpoint of the rewind is offered.           *)
LEMMA OfferOne ==
    ASSUME WriteCutover, LearnInv
    PROVE  /\ Offered' = {Checkpoint} /\ Checkpoint.at = mem.examples
           /\ Checkpoint.segment = mem.segment
           /\ \A c \in {candidate', champion', trial'} : c # None => ~c.fresh
<1>1. Checkpoint # None
  BY CheckpointType, LearnerConstants DEF LearnInv, WriteCutover, Begun
<1>2. \A c \in {candidate', champion', trial'} : c # None => ~c.fresh
  BY StaleLine DEF WriteCutover, LearnInv, LearnTypeOK
<1>3. candidate' \notin {c \in {candidate'} : c # None /\ c.fresh}
  BY <1>2
<1> QED BY <1>1, <1>2, <1>3 DEF Offered, Checkpoint, WriteCutover

(* How far what is offered is.                                              *)
LEMMA OrderStep ==
    ASSUME SelfplayInterval = CandidateInterval, LearnInv, LearnInv', RestartInv,
           [LearnNext]_learnVars
    PROVE  Order'
<1> USE DEF LearnInv, modelVars, rebaseVars, RestartInv, Order, Applying, Begun
<1>1. CASE Restart
  <2>1. \A t \in Offered : t.at =< mem'.examples
    BY <1>1, RestartsFurthest
  <2> QED BY <1>1, <2>1 DEF Restart, Offered
<1>2. CASE FirstCandidate
  <2>1. champion = None /\ trial = None /\ journal = {}
    BY <1>2 DEF FirstCandidate, Present
  <2>2. Offered' = {Checkpoint} /\ Checkpoint.at = mem.examples /\ mem.examples \in Nat
    BY <1>2, <2>1, OfferCandidate DEF FirstCandidate, LearnTypeOK, Memories
  <2> QED BY <1>2, <2>1, <2>2 DEF FirstCandidate
<1>3. CASE PublishCandidate
  <2>1. /\ Checkpoint \in Offered' /\ Offered' \subseteq Offered \cup {Checkpoint}
        /\ Checkpoint.at = mem.examples
    BY <1>3, OfferCandidate DEF PublishCandidate
  <2>2. mem'.examples = mem.examples /\ mem'.rewinds = mem.rewinds /\ mem.examples \in Nat
    BY <1>3 DEF PublishCandidate, LearnTypeOK, Memories
  <2>3. ~mem.rewinds
    BY <1>3 DEF PublishCandidate, Progress
  <2>4. \A t \in Offered : t.at =< mem.examples /\ t.at \in Nat
    BY <1>3, <2>3, OfferedType DEF PublishCandidate, Checkpoints
  <2>5. ASSUME NEW c \in {champion, trial}, c # None, c.fresh
        PROVE  c.at =< Checkpoint.at
    <3>1. PICK t \in Offered : c.at =< t.at
      BY <2>5
    <3>2. c.at \in Nat
      BY <2>5 DEF LearnTypeOK, Checkpoints
    <3> QED BY <2>1, <2>2, <2>4, <3>1, <3>2
  <2> QED BY <1>3, <2>1, <2>2, <2>4, <2>5 DEF PublishCandidate
<1>4. CASE TrainStep
  <2>1. /\ mem'.examples = mem.examples + Batch /\ mem'.rewinds = mem.rewinds
        /\ mem.examples \in Nat
    BY <1>4 DEF TrainStep, LearnTypeOK, Memories
  <2>2. \A t \in Offered : t.at \in Nat
    BY OfferedType DEF Checkpoints
  <2> QED BY <1>4, <2>1, <2>2, LearnerConstants DEF TrainStep, Offered
<1>5. CASE WriteRecovery \/ SaveForced \/ Stop
  <2>1. Offered' = Offered \cup {Checkpoint} /\ Checkpoint.at = mem.examples
    BY <1>5, OfferMore DEF WriteRecovery, SaveForced, Stop
  <2>2. mem.examples \in Nat /\ mem.rewinds \in BOOLEAN
    BY DEF LearnTypeOK, Memories
  <2>3. pc' \notin {"down", "cutover"} => mem'.examples = mem.examples /\ ~mem.rewinds
    BY <1>5 DEF WriteRecovery, SaveForced, Stop, LearnTypeOK, Memories, Progress
  <2> QED BY <1>5, <2>1, <2>2, <2>3 DEF WriteRecovery, SaveForced, Stop
<1>6. CASE Reset
  <2>1. mem'.rewinds
    BY <1>6 DEF Reset, Resume, Empty
  <2> QED BY <1>6, <2>1 DEF Reset, Offered
<1>7. CASE WriteCutover
  <2>1. mem.examples \in Nat
    BY DEF LearnTypeOK, Memories
  <2> QED BY <1>7, <2>1, OfferOne DEF WriteCutover
<1>8. CASE PointCandidate
  <2>1. Offered' \subseteq Offered
    BY <1>8 DEF PointCandidate, Offered
  <2> QED BY <1>8, <2>1 DEF PointCandidate
<1>9. CASE StartTrial
  <2>1. candidate.fresh => candidate \in Offered /\ candidate.at \in Nat
    BY <1>9 DEF StartTrial, Offered, LearnTypeOK, Checkpoints
  <2>2. Offered' = Offered
    BY <1>9 DEF StartTrial, Offered
  <2> QED BY <1>9, <2>1, <2>2 DEF StartTrial
<1>10. CASE Promote
  <2>1. Offered' = Offered
    BY <1>10 DEF Promote, Offered
  <2> QED BY <1>10, <2>1 DEF Promote
<1>11. CASE RecoverPending \/ EnsureSegment \/ LoadCadence \/ PublishSelfplay \/ SaveCadence \/ Recover \/ ApplySegment \/ ApplyCadence \/ ApplyRebase \/ DropPending
  <2>1. mem'.examples = mem.examples /\ mem'.rewinds = mem.rewinds
    BY <1>11 DEF RecoverPending, EnsureSegment, LoadCadence, PublishSelfplay, SaveCadence, Recover,
             ApplySegment, ApplyCadence, ApplyRebase, DropPending, LearnTypeOK, Memories
  <2>2. Offered' = Offered /\ UNCHANGED modelVars
    BY <1>11 DEF RecoverPending, EnsureSegment, LoadCadence, PublishSelfplay, SaveCadence, Recover,
             ApplySegment, ApplyCadence, ApplyRebase, DropPending, Offered
  <2>3. pc \notin {"down", "refused", "cutover"} /\ pc' # "pointer"
    BY <1>11 DEF RecoverPending, EnsureSegment, LoadCadence, PublishSelfplay, SaveCadence, Recover,
             ApplySegment, ApplyCadence, ApplyRebase, DropPending
  <2> QED BY <2>1, <2>2, <2>3
<1>12. CASE Crash \/ CommitSample \/ UNCHANGED learnVars
  BY <1>12 DEF Crash, CommitSample, learnVars, Offered
<1> QED BY <1>1, <1>2, <1>3, <1>4, <1>5, <1>6, <1>7, <1>8, <1>9, <1>10, <1>11, <1>12 DEF
           LearnNext, StartUp, Rewind, Training

(* Which files there are.                                                    *)
LEMMA PresentStep ==
    ASSUME SelfplayInterval = CandidateInterval, LearnInv, LearnInv', RestartInv,
           [LearnNext]_learnVars
    PROVE  Present'
<1> USE DEF LearnInv, modelVars, rebaseVars, RestartInv, Present, Applying, Begun
<1>1. CASE Restart
  <2>1. mem'.rewinds = FALSE
    BY <1>1, RestartMemory
  <2> QED BY <1>1, <2>1 DEF Restart, Offered
<1>2. CASE EnsureSegment
  <2>1. mem'.rewinds = mem.rewinds /\ Offered' = Offered /\ pc' \in {"start", "refused"}
    BY <1>2 DEF EnsureSegment, Offered, LearnTypeOK, Memories
  <2>2. ASSUME candidate = None, segmentFile = None PROVE Loaded = Origin
    <3>1. ~Torn
      BY <2>2 DEF Torn, Offered
    <3> QED BY <1>2, <2>2, <3>1 DEF EnsureSegment, Whole, Agreement, Loaded
  <2> QED BY <1>2, <2>1, <2>2 DEF EnsureSegment
<1>3. CASE FirstCandidate
  <2>1. Checkpoint \in Offered' /\ Checkpoint.fresh /\ Checkpoint # None
    BY <1>3, OfferCandidate DEF FirstCandidate
  <2>2. segmentFile # None
    BY <1>3, LearnerConstants DEF FirstCandidate, Agreement, Progress
  <2> QED BY <1>3, <2>1, <2>2 DEF FirstCandidate
<1>4. CASE LoadCadence
  <2> DEFINE counters == CASE mem.cadence # None -> mem.cadence
                           [] mem.cadence = None /\ cadenceFile # None -> cadenceFile
                           [] OTHER -> Cadence(candidate.at, candidate.at)
  <2>1. Cadence(candidate.at, candidate.at) # None
    BY <1>4, CadenceType, LearnerConstants DEF LoadCadence, LearnTypeOK, Checkpoints
  <2>2. counters # None
    BY <2>1
  <2>3. cadenceFile' \in {counters, cadenceFile} /\ (pc' = "due" => cadenceFile' # None)
        /\ pc' \in {"due", "refused"} /\ (cadenceFile # None => cadenceFile' # None)
    BY <1>4, <2>2 DEF LoadCadence
  <2>4. mem'.rewinds = mem.rewinds /\ Offered' = Offered
    BY <1>4 DEF LoadCadence, Offered, LearnTypeOK, Memories
  <2> HIDE DEF counters
  <2> QED BY <1>4, <2>3, <2>4 DEF LoadCadence
<1>5. CASE Reset
  <2>1. Offered' = Offered
    BY <1>5 DEF Reset, Offered
  <2> QED BY <1>5, <2>1 DEF Reset
<1>6. CASE ApplySegment
  <2>1. pending.segment # None /\ pending # None
    BY <1>6, LearnerConstants DEF ApplySegment, Progress, Rebases
  <2> QED BY <1>6, <2>1 DEF ApplySegment, Offered
<1>7. CASE ApplyCadence
  <2>1. Cadence(pending.to, pending.to) # None /\ pending # None
    BY <1>7, CadenceType, LearnerConstants DEF ApplyCadence, Progress, Rebases
  <2> QED BY <1>7, <2>1 DEF ApplyCadence, Offered
<1>8. CASE DropPending
  <2>1. mem'.rewinds = mem.rewinds
    BY <1>8 DEF DropPending, LearnTypeOK, Memories
  <2> QED BY <1>8, <2>1 DEF DropPending, Offered
<1>9. CASE WriteRecovery \/ SaveForced \/ Stop
  <2>1. Offered' = Offered \cup {Checkpoint}
    BY <1>9, OfferMore DEF WriteRecovery, SaveForced, Stop
  <2>2. mem'.rewinds => mem.rewinds
    <3>1. CASE Stop
      BY <3>1 DEF Stop, Empty
    <3>2. CASE WriteRecovery \/ SaveForced
      BY <3>2 DEF WriteRecovery, SaveForced, LearnTypeOK, Memories
    <3> QED BY <1>9, <3>1, <3>2
  <2> QED BY <1>9, <2>1, <2>2 DEF WriteRecovery, SaveForced, Stop
<1>10. CASE WriteCutover
  <2>1. candidate # None /\ champion # None
    BY <1>10 DEF WriteCutover
  <2>2. Stale(candidate) # None /\ Stale(champion) # None
    BY <2>1, LearnerConstants, StaleType DEF Stale, LearnTypeOK, Checkpoints
  <2> QED BY <1>10, <2>1, <2>2, OfferOne DEF WriteCutover
<1>11. CASE PointCandidate
  <2>1. candidate # None /\ champion # None /\ ~candidate.fresh
    BY <1>11 DEF PointCandidate, Order
  <2>2. Offered \subseteq Offered'
    BY <1>11, <2>1 DEF PointCandidate, Offered
  <2> QED BY <1>11, <2>1, <2>2 DEF PointCandidate
<1>12. CASE PublishCandidate
  <2>1. mem'.rewinds = mem.rewinds
    BY <1>12 DEF PublishCandidate, LearnTypeOK, Memories
  <2>2. segmentFile # None
    BY <1>12 DEF PublishCandidate
  <2> QED BY <1>12, <2>1, <2>2, OfferCandidate DEF PublishCandidate
<1>13. CASE SaveCadence
  <2>1. mem.cadence # None
    BY <1>13, LearnerConstants DEF SaveCadence, Progress
  <2> QED BY <1>13, <2>1 DEF SaveCadence, Offered
<1>14. CASE TrainStep \/ PublishSelfplay
  <2>1. mem'.rewinds = mem.rewinds
    BY <1>14 DEF TrainStep, PublishSelfplay, LearnTypeOK, Memories
  <2> QED BY <1>14, <2>1 DEF TrainStep, PublishSelfplay, Offered
<1>15. CASE RecoverPending \/ ApplyRebase \/ Recover \/ Crash \/ CommitSample \/ StartTrial \/
        Promote \/ UNCHANGED learnVars
  BY <1>15 DEF RecoverPending, ApplyRebase, Recover, Crash, CommitSample, StartTrial, Promote,
         learnVars, Offered, Empty
<1> QED BY <1>1, <1>2, <1>3, <1>4, <1>5, <1>6, <1>7, <1>8, <1>9, <1>10, <1>11, <1>12, <1>13,
           <1>14, <1>15 DEF LearnNext, StartUp, Rewind, Training

(* A candidate is published while its counters are even, and the snapshot    *)
(* that is due with it follows.                                              *)
LEMMA BecomesHalfway ==
    ASSUME SelfplayInterval = CandidateInterval, LearnInv, RestartInv, PublishCandidate
    PROVE  /\ Halfway' /\ mem'.cadence.candidate = mem.examples /\ mem'.examples = mem.examples
           /\ mem'.segment = mem.segment
<1> USE DEF LearnInv, Begun
<1>1. mem.cadence \in Cadences /\ mem.examples \in Nat
  BY DEF PublishCandidate, Progress, LearnTypeOK, Memories
<1>2. ~Halfway
  BY <1>1, LearnerConstants DEF PublishCandidate, CandidateDue, Halfway
<1>3. mem.cadence.candidate = mem.cadence.selfplay
  BY <1>2 DEF PublishCandidate, RestartInv, Agreement
<1>4. SelfplayDue
  BY <1>3 DEF PublishCandidate, CandidateDue, SelfplayDue
<1>5. /\ mem'.segment = mem.segment /\ mem'.examples = mem.examples
      /\ mem'.cadence = [mem.cadence EXCEPT !.candidate = mem.examples]
  BY DEF PublishCandidate, LearnTypeOK, Memories
<1>6. mem'.cadence.candidate = mem.examples /\ mem'.cadence.selfplay = mem.cadence.selfplay
  BY <1>1, <1>5 DEF Cadences
<1>7. candidate' = Checkpoint /\ Checkpoint.fresh /\ Checkpoint.at = mem.examples /\ pc' = "due"
  BY DEF PublishCandidate, Checkpoint
<1> QED BY <1>4, <1>5, <1>6, <1>7 DEF Halfway, SelfplayDue

(* The snapshot makes them even again, at the candidate.                     *)
LEMMA BecomesEven ==
    ASSUME SelfplayInterval = CandidateInterval, LearnInv, RestartInv, PublishSelfplay
    PROVE  /\ mem'.cadence.selfplay = mem.examples /\ mem'.cadence.candidate = mem.examples
           /\ candidate.fresh /\ candidate.at = mem.examples
           /\ mem'.examples = mem.examples /\ mem'.segment = mem.segment
<1> USE DEF LearnInv, Begun
<1>1. mem.cadence \in Cadences /\ mem.examples \in Nat
  BY DEF PublishSelfplay, Progress, LearnTypeOK, Memories
<1>2. Halfway
  BY DEF PublishSelfplay, CandidateDue, SelfplayDue, RestartInv, Agreement
<1>3. /\ mem'.segment = mem.segment /\ mem'.examples = mem.examples
      /\ mem'.cadence = [mem.cadence EXCEPT !.selfplay = mem.examples]
  BY DEF PublishSelfplay, LearnTypeOK, Memories
<1> QED BY <1>1, <1>2, <1>3 DEF Halfway, Cadences

(* A rewind that is finished leaves even counters at its checkpoint.         *)
LEMMA AfterRewind ==
    ASSUME LearnInv, DropPending
    PROVE  /\ mem'.segment = pending.segment /\ mem'.cadence = Cadence(pending.to, pending.to)
           /\ mem'.examples = mem.examples /\ pending.to = mem.examples
           /\ pending.to \in Nat /\ pending.segment \in Segments /\ pending.segment # None
           /\ pending.segment.examples = pending.to /\ pc' \in {"save", "ensure"}
           /\ mem'.cadence.candidate = pending.to /\ mem'.cadence.selfplay = pending.to
<1>1. pending \in Rebases /\ pending # None /\ pending.to = mem.examples
  BY LearnerConstants DEF LearnInv, Progress, DropPending, Applying
<1>2. pending.segment.examples = pending.to
  BY <1>1 DEF LearnInv, Credit, Boundary
<1>3. /\ mem'.segment = pending.segment /\ mem'.cadence = Cadence(pending.to, pending.to)
      /\ mem'.examples = mem.examples
  BY DEF DropPending, LearnInv, LearnTypeOK, Memories
<1> QED BY <1>1, <1>2, <1>3, LearnerConstants DEF Rebases, DropPending, Cadence

(* The counters a restarted learner goes on with.                            *)
LEMMA LoadedCounters ==
    ASSUME LearnInv, RestartInv, LoadCadence
    PROVE  \E k \in Cadences :
             /\ k.candidate = k.selfplay
             /\ \/ cadenceFile = k
                \/ /\ cadenceFile = None /\ k.candidate = candidate.at /\ candidate \in Offered
             /\ IF k.candidate =< mem.examples
                THEN /\ mem' = [mem EXCEPT !.cadence = k] /\ pc' = "due" /\ cadenceFile' = k
                     /\ mem'.segment = mem.segment /\ mem'.examples = mem.examples
                     /\ mem'.cadence = k
                ELSE pc' = "refused" /\ UNCHANGED <<mem, cadenceFile>>
<1> DEFINE counters == CASE mem.cadence # None -> mem.cadence
                         [] mem.cadence = None /\ cadenceFile # None -> cadenceFile
                         [] OTHER -> Cadence(candidate.at, candidate.at)
<1> USE DEF LearnInv, RestartInv
<1>1. candidate.at \in Nat
  BY DEF LoadCadence, LearnTypeOK, Checkpoints
<1>2. cadenceFile = None => candidate \in Offered
  BY DEF LoadCadence, Present, Offered
<1>3. mem.cadence # None => cadenceFile = mem.cadence
  BY DEF LoadCadence, Agreement
<1>4. CASE cadenceFile # None
  <2>1. counters = cadenceFile /\ cadenceFile \in Cadences
    BY <1>3, <1>4 DEF LearnTypeOK
  <2>2. cadenceFile.candidate = cadenceFile.selfplay
    BY <1>4 DEF Agreement
  <2>3. IF cadenceFile.candidate =< mem.examples
        THEN mem' = [mem EXCEPT !.cadence = cadenceFile] /\ pc' = "due" /\ cadenceFile' = cadenceFile
        ELSE pc' = "refused" /\ UNCHANGED <<mem, cadenceFile>>
    BY <1>4, <2>1, <2>2 DEF LoadCadence
  <2> QED BY <2>1, <2>2, <2>3 DEF LearnTypeOK, Memories
<1>5. CASE cadenceFile = None
  <2> DEFINE k == Cadence(candidate.at, candidate.at)
  <2>1. counters = k
    BY <1>3, <1>5
  <2>2. k \in Cadences /\ k.candidate = candidate.at /\ k.selfplay = candidate.at
    BY <1>1, CadenceType DEF Cadence
  <2> HIDE DEF k
  <2>3. IF k.candidate =< mem.examples
        THEN mem' = [mem EXCEPT !.cadence = k] /\ pc' = "due" /\ cadenceFile' = k
        ELSE pc' = "refused" /\ UNCHANGED <<mem, cadenceFile>>
    BY <1>5, <2>1, <2>2 DEF LoadCadence
  <2> QED BY <1>2, <1>5, <2>2, <2>3 DEF LearnTypeOK, Memories
<1> QED BY <1>4, <1>5

(* The memory and the files.                                                 *)
LEMMA AgreementStep ==
    ASSUME SelfplayInterval = CandidateInterval, LearnInv, LearnInv', RestartInv,
           [LearnNext]_learnVars
    PROVE  Agreement'
<1> USE DEF LearnInv, modelVars, rebaseVars, RestartInv, Agreement, Applying, Begun
<1>1. CASE Restart
  <2>1. mem'.cadence = None /\ mem'.segment = None
    <3>1. CASE mem' = Empty
      BY <3>1 DEF Empty
    <3>2. CASE \E f \in Offered : mem'.segment = None /\ mem'.cadence = None
      BY <3>2
    <3> QED BY <1>1, <3>1, <3>2, RestartsFurthest
  <2> QED BY <1>1, <2>1 DEF Restart
<1>2. CASE EnsureSegment
  <2>1. CASE pc' = "refused"
    BY <1>2, <2>1 DEF EnsureSegment
  <2>2. CASE pc' = "start"
    <3>1. /\ mem' = [mem EXCEPT !.segment = Loaded] /\ cadenceFile' = cadenceFile
          /\ segmentFile' = IF segmentFile = None THEN Loaded ELSE segmentFile
      BY <1>2, <2>2 DEF EnsureSegment
    <3>2. mem'.segment = Loaded /\ mem'.cadence = mem.cadence
      BY <3>1 DEF LearnTypeOK, Memories
    <3>3. Loaded = segmentFile'
      BY <1>2, <3>1 DEF EnsureSegment, Loaded
    <3> QED BY <1>2, <2>2, <3>1, <3>2, <3>3 DEF EnsureSegment
  <2> QED BY <1>2, <2>1, <2>2 DEF EnsureSegment
<1>3. CASE LoadCadence
  <2>1. PICK k \in Cadences :
          /\ k.candidate = k.selfplay
          /\ IF k.candidate =< mem.examples
             THEN /\ pc' = "due" /\ cadenceFile' = k /\ mem'.segment = mem.segment
                  /\ mem'.examples = mem.examples /\ mem'.cadence = k
             ELSE pc' = "refused" /\ UNCHANGED <<mem, cadenceFile>>
    BY <1>3, LoadedCounters
  <2> QED BY <1>3, <2>1 DEF LoadCadence
<1>4. CASE Reset
  BY <1>4 DEF Reset
<1>5. CASE ApplySegment \/ ApplyRebase
  BY <1>5 DEF ApplySegment, ApplyRebase
<1>6. CASE ApplyCadence
  BY <1>6 DEF ApplyCadence, Cadence
<1>7. CASE DropPending
  <2>1. segmentFile = pending.segment /\ cadenceFile = Cadence(pending.to, pending.to)
    BY <1>7 DEF DropPending
  <2>2. UNCHANGED <<segmentFile, cadenceFile>> /\ mem.examples \in Nat
    BY <1>7 DEF DropPending, LearnTypeOK, Memories
  <2> QED BY <1>7, <2>1, <2>2, AfterRewind DEF Cadence
<1>8. CASE PublishCandidate
  <2>1. mem.examples \in Nat
    BY DEF LearnTypeOK, Memories
  <2> QED BY <1>8, <2>1, BecomesHalfway DEF PublishCandidate
<1>9. CASE PublishSelfplay
  <2>1. mem.examples \in Nat
    BY DEF LearnTypeOK, Memories
  <2> QED BY <1>9, <2>1, BecomesEven DEF PublishSelfplay
<1>10. CASE SaveCadence
  BY <1>10 DEF SaveCadence, Halfway
<1>11. CASE TrainStep
  <2>1. /\ mem'.segment = mem.segment /\ mem'.examples = mem.examples + Batch
        /\ mem'.cadence = mem.cadence /\ mem.examples \in Nat
    BY <1>11 DEF TrainStep, LearnTypeOK, Memories
  <2>2. cadenceFile \in Cadences /\ mem.cadence \in Cadences
    BY <1>11 DEF TrainStep, Progress, Present, LearnTypeOK
  <2>3. cadenceFile.candidate =< mem'.examples /\ mem.cadence.candidate =< mem'.examples
    BY <1>11, <2>1, <2>2, LearnerConstants DEF TrainStep, Cadences
  <2>4. mem.cadence.candidate = mem.cadence.selfplay
    BY <1>11 DEF TrainStep, Halfway
  <2> QED BY <1>11, <2>1, <2>3, <2>4 DEF TrainStep
<1>12. CASE WriteRecovery \/ SaveForced
  <2>1. /\ mem'.segment = mem.segment /\ mem'.examples = mem.examples
        /\ mem'.cadence = mem.cadence
    BY <1>12 DEF WriteRecovery, SaveForced, LearnTypeOK, Memories
  <2>2. mem.cadence.candidate = mem.cadence.selfplay
    BY <1>12 DEF WriteRecovery, SaveForced, Halfway
  <2> QED BY <1>12, <2>1, <2>2 DEF WriteRecovery, SaveForced
<1>13. CASE WriteCutover \/ PointCandidate \/ Recover
  <2>1. mem.cadence.candidate = mem.cadence.selfplay
    BY <1>13 DEF WriteCutover, PointCandidate, Recover, Halfway
  <2> QED BY <1>13, <2>1 DEF WriteCutover, PointCandidate, Recover
<1>14. CASE RecoverPending \/ FirstCandidate \/ Stop \/ Crash \/ CommitSample \/ StartTrial \/
        Promote \/ UNCHANGED learnVars
  BY <1>14 DEF RecoverPending, FirstCandidate, Stop, Crash, CommitSample, StartTrial, Promote,
         learnVars, Halfway, SelfplayDue, Empty
<1> QED BY <1>1, <1>2, <1>3, <1>4, <1>5, <1>6, <1>7, <1>8, <1>9, <1>10, <1>11, <1>12, <1>13, <1>14
           DEF LearnNext, StartUp, Rewind, Training

(* A step that leaves nothing torn.                                          *)
LEMMA WholeStep ==
    ASSUME SelfplayInterval = CandidateInterval, LearnInv, LearnInv', RestartInv,
           [LearnNext]_learnVars
    PROVE  Whole'
<1> USE DEF LearnInv, modelVars, rebaseVars, RestartInv, Whole, Applying, Begun
<1>1. CASE Restart
  <2>1. Offered' = Offered /\ Torn' = Torn /\ UNCHANGED <<segmentFile, cadenceFile>>
    BY <1>1 DEF Restart, Offered, Torn
  <2>2. ~Torn => mem'.resumed = segmentFile \/ (mem'.resumed = None /\ segmentFile \in {None, Origin})
    <3>1. CASE Offered = {} /\ mem' = Empty
      BY <3>1 DEF Empty, Present
    <3>2. CASE \E f \in Offered : mem'.resumed = f.segment
      BY <3>2 DEF Torn
    <3> QED BY <1>1, <3>1, <3>2, RestartsFurthest
  <2> QED BY <1>1, <2>1, <2>2 DEF Restart, Covered
<1>2. CASE RecoverPending
  BY <1>2 DEF RecoverPending, Offered, Torn, Covered
<1>3. CASE EnsureSegment
  <2>1. Offered' = Offered /\ UNCHANGED <<cadenceFile, pending>> /\ pc' \in {"start", "refused"}
    BY <1>3 DEF EnsureSegment, Offered
  <2>2. segmentFile # None => segmentFile' = segmentFile
    BY <1>3 DEF EnsureSegment
  <2>3. CASE Torn
    <3>1. candidate # None
      BY <2>3 DEF Torn, Present, Offered
    <3>2. Torn'
      BY <2>1, <2>2, <2>3, <3>1 DEF Torn, Present
    <3> QED BY <3>2
  <2>4. CASE ~Torn
    <3>1. mem.segment # None \/ mem.resumed \in {None, Loaded}
      BY <1>3, <2>4 DEF EnsureSegment, Loaded
    <3>2. Loaded.examples =< mem.examples
      <4>1. mem.examples \in Nat
        BY DEF LearnTypeOK, Memories
      <4>2. CASE mem.segment # None
        BY <1>3, <4>2 DEF EnsureSegment, Loaded, Credit, Pays
      <4>3. CASE mem.segment = None /\ mem.resumed # None
        BY <1>3, <2>4, <4>3 DEF EnsureSegment, Loaded, Credit, Pays
      <4>4. CASE mem.segment = None /\ mem.resumed = None
        BY <1>3, <2>4, <4>1, <4>4 DEF EnsureSegment, Loaded, Origin
      <4> QED BY <4>2, <4>3, <4>4
    <3>3. pc' = "start"
      BY <1>3, <3>1, <3>2 DEF EnsureSegment
    <3> QED BY <2>1, <2>4, <3>3 DEF Covered
  <2> QED BY <2>3, <2>4
<1>4. CASE FirstCandidate
  BY <1>4 DEF FirstCandidate, Present
<1>5. CASE LoadCadence
  <2>1. Offered' = Offered /\ Torn' = Torn
    BY <1>5 DEF LoadCadence, Offered, Torn
  <2>2. PICK k \in Cadences :
          /\ k.candidate = k.selfplay
          /\ \/ cadenceFile = k
             \/ cadenceFile = None /\ k.candidate = candidate.at /\ candidate \in Offered
          /\ IF k.candidate =< mem.examples
             THEN pc' = "due" /\ cadenceFile' = k /\ mem'.cadence = k
             ELSE pc' = "refused" /\ UNCHANGED <<mem, cadenceFile>>
    BY <1>5, LoadedCounters
  <2>3. k # None /\ k.candidate \in Nat /\ candidate.at \in Nat
    BY <1>5, LearnerConstants DEF LoadCadence, Cadences, LearnTypeOK, Checkpoints
  <2>4. ASSUME ~Torn PROVE Covered(k)
    BY <2>2, <2>3, <2>4 DEF Covered
  <2>5. ASSUME ~Torn PROVE k.candidate =< mem.examples
    <3>1. PICK t \in Offered : k.candidate =< t.at
      BY <2>4, <2>5 DEF Covered
    <3>2. t.at =< mem.examples
      BY <1>5 DEF LoadCadence, Order, Progress
    <3>3. t.at \in Nat /\ mem.examples \in Nat
      BY OfferedType DEF LearnTypeOK, Memories, Checkpoints
    <3> QED BY <2>3, <3>1, <3>2, <3>3
  <2> QED BY <2>1, <2>2, <2>4, <2>5 DEF Covered
<1>6. CASE Reset \/ ApplySegment \/ ApplyCadence \/ ApplyRebase
  <2>1. pending' # None
    <3>1. pc' \in Applying
      BY <1>6 DEF Reset, ApplySegment, ApplyCadence, ApplyRebase
    <3> QED BY <3>1, LearnerConstants DEF Progress
  <2> QED BY <2>1 DEF Torn
<1>7. CASE DropPending
  <2>1. /\ Offered' = Offered /\ Offered # {} /\ segmentFile' = segmentFile
        /\ segmentFile = pending.segment /\ cadenceFile = Cadence(pending.to, pending.to)
        /\ cadenceFile' = cadenceFile
    BY <1>7 DEF DropPending, Offered, Present, Agreement
  <2>2. ASSUME ~Torn' PROVE Covered(cadenceFile)
    <3>1. PICK t \in Offered : t.segment = pending.segment
      BY <2>1, <2>2 DEF Torn
    <3>2. t \in journal \cup {candidate} /\ t # None
      BY DEF Offered
    <3>3. Pays(t.at, t.segment, samples)
      BY <3>2 DEF Credit, Paid
    <3>4. pending.to =< t.at
      BY <1>7, <3>1, <3>3, AfterRewind DEF Pays
    <3> QED BY <2>1, <3>4 DEF Covered, Cadence
  <2>3. mem'.segment # None /\ mem'.cadence = cadenceFile /\ pc' \in {"save", "ensure"}
    BY <1>7, <2>1, AfterRewind
  <2> QED BY <2>1, <2>2, <2>3 DEF Covered
<1>8. CASE WriteRecovery \/ SaveForced \/ Stop
  <2>1. Offered' = Offered \cup {Checkpoint}
    BY <1>8, OfferMore DEF WriteRecovery, SaveForced, Stop
  <2>2. UNCHANGED <<segmentFile, cadenceFile, pending>> /\ (~Torn' => ~Torn)
    BY <1>8, <2>1 DEF WriteRecovery, SaveForced, Stop, Torn
  <2>3. mem'.cadence = mem.cadence \/ pc' = "down"
    BY <1>8 DEF WriteRecovery, SaveForced, Stop, LearnTypeOK, Memories
  <2>4. pc # "due" /\ pc \in Begun \ {"start"} /\ pc' \in {"down", "training", "cutover"}
    BY <1>8 DEF WriteRecovery, SaveForced, Stop
  <2> QED BY <2>1, <2>2, <2>3, <2>4 DEF Covered, Halfway
<1>9. CASE WriteCutover
  <2>1. Offered' = {Checkpoint} /\ Checkpoint.at = mem.examples
    BY <1>9, OfferOne
  <2>2. UNCHANGED <<mem, cadenceFile>> /\ pc' = "pointer"
    BY <1>9 DEF WriteCutover
  <2>3. cadenceFile # None => Covered(cadenceFile)'
    BY <1>9, <2>1, <2>2 DEF WriteCutover, Agreement, Covered
  <2>4. Covered(mem.cadence)'
    BY <1>9, <2>1, <2>2 DEF WriteCutover, Agreement, Covered, Halfway
  <2> QED BY <2>2, <2>3, <2>4
<1>10. CASE PointCandidate
  <2>1. Offered' = Offered
    BY <1>10 DEF PointCandidate, Order, Offered
  <2>2. Torn' = Torn
    BY <1>10, <2>1 DEF PointCandidate, Torn
  <2> QED BY <1>10, <2>1, <2>2 DEF PointCandidate, Covered, Halfway
<1>11. CASE PublishCandidate
  <2>1. Checkpoint \in Offered' /\ Checkpoint.at = mem.examples /\ cadenceFile' = cadenceFile
        /\ pc' = "due"
    BY <1>11, OfferCandidate DEF PublishCandidate
  <2>2. Covered(cadenceFile)'
    BY <1>11, <2>1 DEF PublishCandidate, Agreement, Present, Covered
  <2> QED BY <1>11, <2>1, <2>2, BecomesHalfway
<1>12. CASE PublishSelfplay
  <2>1. Offered' = Offered /\ Torn' = Torn /\ cadenceFile' = cadenceFile /\ pc' = "due"
    BY <1>12 DEF PublishSelfplay, Offered, Torn
  <2>2. candidate \in Offered
    BY <1>12, BecomesEven DEF PublishSelfplay, Offered, Present
  <2>3. mem.examples \in Nat
    BY DEF LearnTypeOK, Memories
  <2>4. Covered(mem.cadence)'
    BY <1>12, <2>1, <2>2, <2>3, BecomesEven DEF Covered
  <2> QED BY <2>1, <2>4 DEF Covered
<1>13. CASE SaveCadence
  <2>1. Offered' = Offered /\ Torn' = Torn /\ mem' = mem /\ cadenceFile' = mem.cadence
        /\ pc' = "training" /\ pc = "due" /\ ~Halfway
    BY <1>13 DEF SaveCadence, Offered, Torn, Halfway
  <2> QED BY <2>1 DEF Covered
<1>14. CASE TrainStep \/ Recover
  <2>1. Offered' = Offered /\ Torn' = Torn /\ mem'.cadence = mem.cadence /\ pc = "training"
        /\ cadenceFile' = cadenceFile /\ pc' \in {"due", "save"}
    BY <1>14 DEF TrainStep, Recover, Offered, Torn, LearnTypeOK, Memories
  <2> QED BY <2>1 DEF Covered, Halfway
<1>15. CASE Crash \/ CommitSample \/ StartTrial \/ Promote \/ UNCHANGED learnVars
  BY <1>15 DEF Crash, CommitSample, StartTrial, Promote, learnVars, Offered, Torn, Covered,
         Halfway, SelfplayDue
<1> QED BY <1>1, <1>2, <1>3, <1>4, <1>5, <1>6, <1>7, <1>8, <1>9, <1>10, <1>11, <1>12, <1>13,
           <1>14, <1>15 DEF LearnNext, StartUp, Rewind, Training

(* Where self-play snapshots come with the candidates, as without a          *)
(* selfplay_snapshot_interval_examples of their own, a restart is only ever  *)
(* refused where a rewind was cut short before its cutover was durable,      *)
(* for any number of rewinds, promotions, crashes and restarts.              *)
THEOREM RefusedByTornRewind ==
    ASSUME SelfplayInterval = CandidateInterval
    PROVE  LearnSpec => []RefusedIfTorn
<1>1. LearnInit => RestartInv
  BY DEF LearnInit, RestartInv, Order, Present, Agreement, Whole, Torn, Offered, Empty, Applying,
         Begun
<1>2. LearnInv /\ LearnInv' /\ RestartInv /\ [LearnNext]_learnVars => RestartInv'
  BY OrderStep, PresentStep, AgreementStep, WholeStep, SelfplayInterval = CandidateInterval
  DEF RestartInv
<1>3. RestartInv => RefusedIfTorn
  BY DEF RestartInv, Whole, RefusedIfTorn
<1> QED BY <1>1, <1>2, <1>3, LearnInvariant, PTL DEF LearnSpec
=============================================================================
