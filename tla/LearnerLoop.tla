------------------------------- MODULE LearnerLoop -------------------------------
(***************************************************************************)
(* The durable state of the learner (deltreltrain/learner.py and           *)
(* checkpoint.py): what it may train, the checkpoints, counters and        *)
(* pointers it writes one file at a time, the rewind to the champion that  *)
(* rewrites all of them, and the restart that must make sense of whatever  *)
(* was on disk when it was killed.                                         *)
(*                                                                         *)
(* Steps of training and examples grow together, so that one number stands *)
(* for both.  A file is written or renamed whole (atomic_json, durable     *)
(* append): each such write is one action, and a crash may follow it.      *)
(***************************************************************************)
EXTENDS Naturals

CONSTANTS
    Batch,              \* examples of one training step
    Up, Down,           \* target_updates_per_new_sample = Up / Down
    CandidateInterval,  \* examples between promotion candidates
    SelfplayInterval,   \* examples between self-play snapshots
    RecoveryInterval,   \* examples between recovery checkpoints
    MaxReplay,          \* bound: samples committed by the actors
    MaxPlateaus,        \* bound: verdicts of a plateau
    None                \* a file or a value that is not there

Segments == [examples : Nat, samples : Nat]     \* UTDSegmentState
Checkpoints == [at : Nat, segment : Segments, line : Nat, fresh : BOOLEAN]
Rebases == [to : Nat, segment : Segments]       \* state-rebase.json
Cadences == [candidate : Nat, selfplay : Nat]   \* cadence.json

ASSUME LearnerConstants ==
    /\ Batch \in Nat \ {0} /\ Up \in Nat \ {0} /\ Down \in Nat \ {0}
    /\ CandidateInterval \in Nat \ {0} /\ SelfplayInterval \in Nat \ {0}
    /\ RecoveryInterval \in Nat \ {0}
    /\ MaxReplay \in Nat /\ MaxPlateaus \in Nat
    /\ None \notin Segments \cup Checkpoints \cup Rebases \cup Cadences

VARIABLES
    samples,        \* committed samples of the replay store
    pc,             \* where rank 0 is: down, refused, training, or in a sequence of writes
    mem,            \* its memory
    journal,        \* recovery checkpoints a restart considers
    candidate, champion,    \* the model pointers
    trial,          \* the candidate the arena measures
    segmentFile, cadenceFile,       \* utd-segment.json, cadence.json
    pending, rebased,       \* state-rebase.pending.json, state-rebase.json
    cutover,        \* lineages given up by a durable resume-cutover.json
    plateaus        \* verdicts so far

modelVars == <<candidate, champion, trial>>
rebaseVars == <<segmentFile, cadenceFile, pending, rebased>>
learnVars == <<samples, pc, mem, journal, modelVars, rebaseVars, cutover, plateaus>>

Empty == [examples |-> 0, segment |-> None, resumed |-> None, cadence |-> None,
          saved |-> 0, line |-> 0, rewinds |-> FALSE]

(* What a checkpoint holds; `fresh' says it is not older than the cutover.   *)
Checkpoint == [at |-> mem.examples, segment |-> mem.segment, line |-> mem.line, fresh |-> TRUE]

(* What a restart no longer considers; mutant: only the journal is filtered. *)
Mutant_Stale(c) == c
Stale(c) == IF c = None THEN None ELSE [c EXCEPT !.fresh = FALSE]
Cadence(c, s) == [candidate |-> c, selfplay |-> s]
Origin == [examples |-> 0, samples |-> 0]

-----------------------------------------------------------------------------
(* discover_resume_checkpoints() and the restart                             *)

Source(S, priority) == {<<priority, c>> : c \in {d \in S : d # None /\ d.fresh}}
(* Mutant: the candidate pointer is not considered.                          *)
Mutant_Discovered == Source(journal, 3) \cup Source({champion}, 1)
Discovered == Source(journal, 3) \cup Source({candidate}, 2) \cup Source({champion}, 1)

(* The checkpoint of the highest step, by the priority of its source.        *)
Best(found) ==
    \A other \in Discovered :
        \/ other[2].at < found[2].at
        \/ other[2].at = found[2].at /\ other[1] =< found[1]

Resume(c) ==
    [Empty EXCEPT !.examples = c.at, !.resumed = c.segment, !.saved = c.at, !.line = c.line]

Restart ==
    /\ pc = "down" /\ pc' = "recover"
    /\ \/ Discovered = {} /\ mem' = Empty
       \/ \E found \in Discovered : Best(found) /\ mem' = Resume(found[2])
    /\ UNCHANGED <<samples, journal, modelVars, rebaseVars, cutover, plateaus>>

(* _recover_pending_state_rebase(): a rewind was cut short.                  *)
RecoverPending ==
    /\ pc = "recover"
    /\ pc' = CASE pending = None -> "ensure"
               [] pending # None /\ pending.to = mem.examples -> "segment"
               [] OTHER -> "refused"
    /\ UNCHANGED <<samples, mem, journal, modelVars, rebaseVars, cutover, plateaus>>

(* _rank_zero_complete_state_rebase(): four writes, the same in a rewind and *)
(* in its recovery; the memory follows when all are done.                    *)
ApplySegment ==
    /\ pc = "segment" /\ pc' = "cadence" /\ segmentFile' = pending.segment
    /\ UNCHANGED <<samples, mem, journal, modelVars, cadenceFile, pending, rebased, cutover, plateaus>>

ApplyCadence ==
    /\ pc = "cadence" /\ pc' = "rebase" /\ cadenceFile' = Cadence(pending.to, pending.to)
    /\ UNCHANGED <<samples, mem, journal, modelVars, segmentFile, pending, rebased, cutover, plateaus>>

ApplyRebase ==
    /\ pc = "rebase" /\ pc' = "unlink" /\ rebased' = pending
    /\ UNCHANGED <<samples, mem, journal, modelVars, segmentFile, cadenceFile, pending, cutover, plateaus>>

DropPending ==
    /\ pc = "unlink" /\ pending' = None
    /\ mem' = [mem EXCEPT !.segment = pending.segment, !.resumed = pending.segment,
                          !.cadence = Cadence(pending.to, pending.to)]
    /\ pc' = IF mem.rewinds THEN "save" ELSE "ensure"
    /\ UNCHANGED <<samples, journal, modelVars, segmentFile, cadenceFile, rebased, cutover, plateaus>>

(* _ensure_utd_segment_state(): the file, or what the checkpoint says, or    *)
(* the origin of a new run.  A file that differs from the checkpoint needs a *)
(* rewind to exactly this checkpoint that explains it.                       *)
Loaded ==
    CASE mem.segment # None -> mem.segment
      [] mem.segment = None /\ segmentFile # None -> segmentFile
      [] mem.segment = None /\ segmentFile = None /\ mem.resumed # None -> mem.resumed
      [] OTHER -> Origin

(* Mutant: the rewind need not lead to the restored checkpoint.              *)
Mutant_Authorized(s) == rebased # None /\ rebased.segment = s
Authorized(s) == rebased # None /\ rebased.to = mem.examples /\ rebased.segment = s

EnsureSegment ==
    LET agrees == mem.segment # None \/ mem.resumed \in {None, Loaded} \/ Authorized(Loaded)
    IN  /\ pc = "ensure"
        /\ IF agrees /\ Loaded.examples =< mem.examples
           THEN /\ mem' = [mem EXCEPT !.segment = Loaded] /\ pc' = "start"
                /\ segmentFile' = IF segmentFile = None THEN Loaded ELSE segmentFile
           ELSE pc' = "refused" /\ UNCHANGED <<mem, segmentFile>>
        /\ UNCHANGED <<samples, journal, modelVars, cadenceFile, pending, rebased, cutover, plateaus>>

FirstCandidate ==
    /\ pc = "start" /\ candidate = None /\ candidate' = Checkpoint
    /\ UNCHANGED <<samples, pc, mem, journal, champion, trial, rebaseVars, cutover, plateaus>>

(* _load_cadence_state(), unless the recovered rewind gave the counters.     *)
LoadCadence ==
    LET counters == CASE mem.cadence # None -> mem.cadence
                      [] mem.cadence = None /\ cadenceFile # None -> cadenceFile
                      [] OTHER -> Cadence(candidate.at, candidate.at)
    IN  /\ pc = "start" /\ candidate # None
        /\ IF counters.candidate =< mem.examples /\ counters.selfplay =< mem.examples
           THEN /\ mem' = [mem EXCEPT !.cadence = counters] /\ pc' = "due"
                /\ cadenceFile' = IF cadenceFile = None THEN counters ELSE cadenceFile
           ELSE pc' = "refused" /\ UNCHANGED <<mem, cadenceFile>>
        /\ UNCHANGED <<samples, journal, modelVars, segmentFile, pending, rebased, cutover, plateaus>>

-----------------------------------------------------------------------------
(* Training                                                                  *)

(* _utd_step_budget()                                                        *)
Allowed == mem.segment.examples + (Up * (samples - mem.segment.samples)) \div Down

TrainStep ==
    /\ pc = "training" /\ mem.examples + Batch =< Allowed
    /\ mem' = [mem EXCEPT !.examples = @ + Batch] /\ pc' = "due"
    /\ UNCHANGED <<samples, journal, modelVars, rebaseVars, cutover, plateaus>>

(* _publish_due_models(): the candidate, then the self-play snapshot, then   *)
(* the counters of both.  The snapshot lies outside the learner's directory, *)
(* where a restart does not look.                                            *)
CandidateDue == mem.examples - mem.cadence.candidate >= CandidateInterval
SelfplayDue == mem.examples - mem.cadence.selfplay >= SelfplayInterval

PublishCandidate ==
    /\ pc = "due" /\ CandidateDue /\ candidate' = Checkpoint
    /\ mem' = [mem EXCEPT !.cadence.candidate = mem.examples, !.saved = mem.examples]
    /\ UNCHANGED <<samples, pc, journal, champion, trial, rebaseVars, cutover, plateaus>>

PublishSelfplay ==
    /\ pc = "due" /\ ~CandidateDue /\ SelfplayDue
    /\ mem' = [mem EXCEPT !.cadence.selfplay = mem.examples]
    /\ UNCHANGED <<samples, pc, journal, modelVars, rebaseVars, cutover, plateaus>>

SaveCadence ==
    /\ pc = "due" /\ ~CandidateDue /\ ~SelfplayDue
    /\ cadenceFile' = mem.cadence /\ pc' = "training"
    /\ UNCHANGED <<samples, mem, journal, modelVars, segmentFile, pending, rebased, cutover, plateaus>>

(* _maybe_write_recovery_checkpoint(), when a window closed...               *)
WriteRecovery ==
    /\ pc = "training" /\ mem.examples - mem.saved >= RecoveryInterval
    /\ journal' = journal \cup {Checkpoint} /\ mem' = [mem EXCEPT !.saved = mem.examples]
    /\ UNCHANGED <<samples, pc, modelVars, rebaseVars, cutover, plateaus>>

(* ... and forced, when the run stops in good order.                         *)
Stop ==
    /\ pc = "training" /\ pc' = "down" /\ mem' = Empty
    /\ journal' = journal \cup {Checkpoint}
    /\ UNCHANGED <<samples, modelVars, rebaseVars, cutover, plateaus>>

-----------------------------------------------------------------------------
(* _plateau_control()                                                        *)

(* reduce_lr_keep_weights: the new rate is saved in a checkpoint at once.    *)
Recover ==
    /\ pc = "training" /\ champion # None /\ plateaus < MaxPlateaus
    /\ plateaus' = plateaus + 1 /\ pc' = "save"
    /\ UNCHANGED <<samples, mem, journal, modelVars, rebaseVars, cutover>>

(* reset_from_champion: the champion's checkpoint is loaded, and a new       *)
(* segment begins with what is committed now.                                *)
Reset ==
    LET new == [examples |-> champion.at, samples |-> samples]
    IN  /\ pc = "training" /\ champion # None /\ plateaus < MaxPlateaus
        /\ champion.at < mem.examples
        /\ plateaus' = plateaus + 1 /\ pc' = "segment"
        /\ mem' = [Resume(champion) EXCEPT !.segment = mem.segment, !.line = mem.line + 1,
                                           !.cadence = mem.cadence, !.rewinds = TRUE]
        /\ pending' = [to |-> champion.at, segment |-> new]
        /\ UNCHANGED <<samples, journal, modelVars, segmentFile, cadenceFile, rebased, cutover>>

(* The forced checkpoint of either.                                          *)
SaveForced ==
    /\ pc = "save" /\ journal' = journal \cup {Checkpoint}
    /\ mem' = [mem EXCEPT !.saved = mem.examples, !.rewinds = FALSE]
    /\ pc' = IF mem.rewinds THEN "cutover" ELSE "training"
    /\ UNCHANGED <<samples, modelVars, rebaseVars, cutover, plateaus>>

(* write_resume_cutover(): from now on whatever is older does not count,     *)
(* except the checkpoint it names.                                           *)
WriteCutover ==
    /\ pc = "cutover" /\ pc' = "pointer" /\ cutover' = mem.line
    /\ journal' = {Checkpoint}
    /\ candidate' = Stale(candidate) /\ champion' = Stale(champion) /\ trial' = Stale(trial)
    /\ UNCHANGED <<samples, mem, rebaseVars, plateaus>>

PointCandidate ==
    /\ pc = "pointer" /\ pc' = "training" /\ candidate' = champion
    /\ UNCHANGED <<samples, mem, journal, champion, trial, rebaseVars, cutover, plateaus>>

-----------------------------------------------------------------------------
(* The environment: actors commit samples, the arena measures a candidate    *)
(* and makes it the champion, perhaps one the learner has given up.          *)

CommitSample ==
    /\ samples < MaxReplay /\ samples' = samples + 1
    /\ UNCHANGED <<pc, mem, journal, modelVars, rebaseVars, cutover, plateaus>>

StartTrial ==
    /\ candidate # None /\ trial' = candidate
    /\ UNCHANGED <<samples, pc, mem, journal, candidate, champion, rebaseVars, cutover, plateaus>>

Promote ==
    /\ trial # None /\ champion' = trial
    /\ UNCHANGED <<samples, pc, mem, journal, candidate, trial, rebaseVars, cutover, plateaus>>

Crash ==
    /\ pc \notin {"down", "refused"} /\ pc' = "down" /\ mem' = Empty
    /\ UNCHANGED <<samples, journal, modelVars, rebaseVars, cutover, plateaus>>

-----------------------------------------------------------------------------
LearnInit ==
    /\ samples = 0 /\ pc = "down" /\ mem = Empty /\ journal = {}
    /\ candidate = None /\ champion = None /\ trial = None
    /\ segmentFile = None /\ cadenceFile = None /\ pending = None /\ rebased = None
    /\ cutover = 0 /\ plateaus = 0

StartUp ==
    \/ Restart \/ RecoverPending \/ EnsureSegment \/ FirstCandidate \/ LoadCadence

Rewind ==
    \/ Reset \/ ApplySegment \/ ApplyCadence \/ ApplyRebase \/ DropPending
    \/ SaveForced \/ WriteCutover \/ PointCandidate

Training ==
    \/ TrainStep \/ PublishCandidate \/ PublishSelfplay \/ SaveCadence
    \/ WriteRecovery \/ Stop \/ Recover

LearnNext ==
    StartUp \/ Rewind \/ Training \/ Crash \/ CommitSample \/ StartTrial \/ Promote

LearnSpec == LearnInit /\ [][LearnNext]_learnVars

-----------------------------------------------------------------------------
(* Properties                                                                *)

(* Nobody trains on credit: within its segment, and over the whole life of   *)
(* the weights, the learner has made at most the target number of updates    *)
(* for each committed sample, however often it was rewound to a champion,    *)
(* killed between two writes and restarted from an older checkpoint.         *)
WithinCredit ==
    /\ Down * mem.examples =< Up * samples
    /\ mem.segment # None /\ ~mem.rewinds =>
         Down * (mem.examples - mem.segment.examples)
            =< Up * (samples - mem.segment.samples)

(* A rewind that reached its cutover is final: no restart brings back a      *)
(* checkpoint, a candidate or a champion of the lineage it gave up, although *)
(* those have more steps and the arena may still promote one of them.        *)
CutoverFinal == pc # "down" => mem.line >= cutover

(* What the learner left on disk never keeps its next run from starting.     *)
RestartAccepted == pc # "refused"

(* A restart is refused only where a rewind was cut short before its cutover *)
(* was durable: the rewind is pending, or a checkpoint that is still offered *)
(* belongs to another segment than utd-segment.json.  This is for a learner  *)
(* whose snapshots come with its candidates; with an interval of their own   *)
(* they break RestartAccepted in a second way.                               *)
Offered == {c \in journal \cup {candidate} : c # None /\ c.fresh}
Torn == pending # None \/ \E c \in Offered : c.segment # segmentFile
RefusedIfTorn == pc = "refused" => Torn
=============================================================================
