------------------------------- MODULE ReplayStore -------------------------------
(***************************************************************************)
(* The replay store: actors publish growing revisions of their games       *)
(* (replay_publication.append_revision, called and retried by              *)
(* selfplay._write_game_revision), the learner pins and reads windows of   *)
(* them and retires old shards (collect_garbage), and a process that opens *)
(* the store reconciles files and rows (reconcile_orphans).                *)
(*                                                                         *)
(* A shard is a file, written first, and a row of the SQLite manifest.  A  *)
(* transaction (BEGIN IMMEDIATE ... COMMIT) is one action: a crash inside  *)
(* it leaves nothing of it.  Files and memory change in steps of their own.*)
(* Every generation of the actor plays one game here.                      *)
(***************************************************************************)
EXTENDS Naturals, FiniteSets

CONSTANTS
    Last,           \* bound: generations 1 .. Last are leased
    MaxSamples,     \* bound: decisions of a game
    FileNames,      \* bound: names for shard files (they carry a UUID)
    Ranks,          \* processes of the learner, each with its own loader
    MaxDamage       \* bound: files the disk loses

ASSUME ReplayConstants ==
    /\ Last \in Nat /\ MaxSamples \in Nat /\ MaxDamage \in Nat
    /\ Ranks # {} /\ 0 \notin FileNames

Games == 1 .. Last

VARIABLES
    lease,          \* actor_generations: the generation leased last
    writers,        \* generations whose actor still runs, stale ones included
    prefix,         \* _published_prefixes: samples the actor knows published
    call,           \* the actor's current publication
    head,           \* game_publications: the last revision of each game
    credit,         \* run_counters: committed samples, enriched rows
    shards, lastId, \* rows of the shards table, and its AUTOINCREMENT
    files, lost,    \* shard files present; files the disk lost
    phase,          \* the learner: idle, selected, open, failed
    window, pin,    \* the shards of its replay window; the ids its watermark covers
    reading,        \* ranks whose loader is open
    collector,      \* garbage collection: idle, planned, unlink
    plan, doomed    \* the shards it is to retire, the files it is to unlink

actorVars == <<writers, prefix, call>>
manifestVars == <<lease, head, credit, shards, lastId>>
windowVars == <<phase, window, pin, reading>>
gcVars == <<collector, plan, doomed>>
learnerVars == <<windowVars, gcVars>>
replayVars == <<actorVars, manifestVars, files, lost, learnerVars>>

NoCall == [stage |-> "none", count |-> 0, final |-> FALSE, file |-> 0, uncertain |-> FALSE]
NoHead == [count |-> 0, final |-> FALSE, shard |-> 0, enriched |-> 0]
NoPin == [low |-> 1, high |-> 0]

Ready == {s \in shards : s.state = "ready"}
Pinned(s) == pin.low =< s.id /\ s.id =< pin.high
Written == {g \in writers : call[g].stage = "written"}
NamesUsed == files \cup lost \cup doomed \cup {s.file : s \in shards \cup window}
                 \cup {call[g].file : g \in Written}

(* Files of the last five minutes, within which a living writer commits;     *)
(* mutant: an orphan is removed whatever its age.                            *)
Mutant_Recent == {}
Recent == {call[g].file : g \in Written}

(* The lease check of append_revision; mutant: none.                         *)
Mutant_HoldsLease(g) == TRUE
HoldsLease(g) == lease = g

NewFile == CHOOSE f \in FileNames : f \notin NamesUsed

-----------------------------------------------------------------------------
(* The actor                                                                 *)

LeaseGeneration ==
    /\ lease < Last
    /\ lease' = lease + 1 /\ writers' = writers \cup {lease + 1}
    /\ UNCHANGED <<prefix, call, head, credit, shards, lastId, files, lost, learnerVars>>

(* A longer prefix of the game in play, or the whole game once it is over.   *)
BeginRevision(g, n, final) ==
    /\ g \in writers /\ call[g].stage = "none"
    /\ n > 0 /\ IF final THEN n >= prefix[g] ELSE n > prefix[g]
    /\ call' = [call EXCEPT ![g] = [stage |-> "writing", count |-> n, final |-> final,
                                    file |-> 0, uncertain |-> FALSE]]
    /\ UNCHANGED <<writers, prefix, manifestVars, files, lost, learnerVars>>

WriteShard(g) ==
    /\ g \in writers /\ call[g].stage = "writing" /\ HoldsLease(g)
    /\ FileNames \ NamesUsed # {}
    /\ files' = files \cup {NewFile}
    /\ call' = [call EXCEPT ![g].stage = "written", ![g].file = NewFile]
    /\ UNCHANGED <<writers, prefix, manifestVars, lost, learnerVars>>

(* Another generation was leased: the call raises, and the actor's batch     *)
(* fails.                                                                    *)
StaleLease(g) ==
    /\ g \in writers /\ call[g].stage \in {"writing", "written"} /\ ~HoldsLease(g)
    /\ writers' = writers \ {g} /\ files' = files \ {call[g].file}
    /\ call' = [call EXCEPT ![g] = NoCall]
    /\ UNCHANGED <<prefix, manifestVars, lost, learnerVars>>

(* The manifest already holds exactly this revision.                         *)
Replayed(g) == head[g].count = call[g].count /\ head[g].final = call[g].final

(* What the revision adds to the credit; mutant: the whole prefix, again.    *)
Mutant_NewSamples(g) == call[g].count
NewSamples(g) == call[g].count - head[g].count

NewShard(g) == [id |-> lastId + 1, game |-> g, file |-> call[g].file, state |-> "ready"]
Retired(g, s) ==
    IF s.id = head[g].shard /\ s.state = "ready" THEN [s EXCEPT !.state = "superseded"] ELSE s

Committed(g) ==
    LET enriched == IF call[g].final THEN head[g].count ELSE 0
    IN  /\ g \in Written /\ HoldsLease(g) /\ ~Replayed(g) /\ ~head[g].final
        /\ lastId' = lastId + 1
        /\ shards' = {Retired(g, s) : s \in shards} \cup {NewShard(g)}
        /\ head' = [head EXCEPT ![g] = [count |-> call[g].count, final |-> call[g].final,
                                        shard |-> lastId + 1, enriched |-> enriched]]
        /\ credit' = [committed |-> credit.committed + NewSamples(g),
                      enriched |-> credit.enriched + enriched]

(* The receipt agrees with the actor's prefix, or the actor's batch fails.   *)
Receipt(g, agrees) ==
    IF agrees
    THEN /\ prefix' = [prefix EXCEPT ![g] = call[g].count]
         /\ call' = [call EXCEPT ![g] = [NoCall EXCEPT !.stage =
                                          IF call[g].final THEN "over" ELSE "none"]]
         /\ UNCHANGED writers
    ELSE /\ writers' = writers \ {g} /\ call' = [call EXCEPT ![g] = NoCall]
         /\ UNCHANGED prefix

(* An error of the disk or of SQLite: the call is tried once more.           *)
TryAgain(g) ==
    /\ UNCHANGED prefix
    /\ IF call[g].uncertain
       THEN writers' = writers \ {g} /\ call' = [call EXCEPT ![g] = NoCall]
       ELSE /\ call' = [call EXCEPT ![g].stage = "writing", ![g].file = 0,
                                    ![g].uncertain = TRUE]
            /\ UNCHANGED writers

Publish(g) ==
    /\ Committed(g) /\ Receipt(g, head[g].count = prefix[g])
    /\ UNCHANGED <<lease, files, lost, learnerVars>>

(* COMMIT reached the disk, its acknowledgement did not reach the caller.    *)
PublishUnacknowledged(g) ==
    /\ Committed(g) /\ TryAgain(g)
    /\ UNCHANGED <<lease, files, lost, learnerVars>>

(* Nothing was committed: the transaction is rolled back, the file unlinked. *)
PublishFails(g) ==
    /\ g \in writers /\ call[g].stage \in {"writing", "written"} /\ HoldsLease(g)
    /\ files' = files \ {call[g].file} /\ TryAgain(g)
    /\ UNCHANGED <<manifestVars, lost, learnerVars>>

(* The idempotent receipt: no credit, and the second file is unlinked.  Only *)
(* a retry may take it for its own.                                          *)
PublishReplayed(g) ==
    /\ g \in Written /\ HoldsLease(g) /\ Replayed(g)
    /\ files' = files \ {call[g].file} /\ Receipt(g, call[g].uncertain)
    /\ UNCHANGED <<manifestVars, lost, learnerVars>>

ActorDies(g) ==
    /\ g \in writers
    /\ writers' = writers \ {g} /\ call' = [call EXCEPT ![g] = NoCall]
    /\ UNCHANGED <<prefix, manifestVars, files, lost, learnerVars>>

-----------------------------------------------------------------------------
(* The learner's windows                                                     *)

(* The newest ready shards, down to some id, pinned in the same transaction. *)
SelectWindow(low) ==
    LET chosen == {s \in Ready : s.id >= low}
    IN  /\ phase = "idle" /\ phase' = "selected" /\ window' = chosen
        /\ \E first, newest \in chosen :
             /\ \A s \in chosen : first.id =< s.id /\ s.id =< newest.id
             /\ pin' = [low |-> first.id, high |-> newest.id]
        /\ UNCHANGED <<actorVars, manifestVars, files, lost, reading, gcVars>>

(* The update budget allows no batch: the pin is returned.                   *)
NoBatches ==
    /\ phase = "selected" /\ reading = {}
    /\ phase' = "idle" /\ window' = {} /\ pin' = NoPin
    /\ UNCHANGED <<actorVars, manifestVars, files, lost, reading, gcVars>>

OpenLoader(k) ==
    /\ phase = "selected" /\ k \notin reading
    /\ reading' = reading \cup {k}
    /\ phase' = IF reading' = Ranks THEN "open" ELSE "selected"
    /\ UNCHANGED <<actorVars, manifestVars, files, lost, window, pin, gcVars>>

(* Rank 0 cannot open its loader: it clears the watermark and raises; the    *)
(* other ranks stop with it.                                                 *)
LoaderFails ==
    /\ phase = "selected" /\ phase' = "failed" /\ pin' = NoPin
    /\ UNCHANGED <<actorVars, manifestVars, files, lost, window, reading, gcVars>>

CloseLoader(k) ==
    /\ phase = "open" /\ k \in reading /\ reading' = reading \ {k}
    /\ UNCHANGED <<actorVars, manifestVars, files, lost, phase, window, pin, gcVars>>

(* After the collective that every rank joins with its loader closed.        *)
ClearWatermark ==
    /\ phase = "open" /\ reading = {}
    /\ phase' = "idle" /\ window' = {} /\ pin' = NoPin
    /\ UNCHANGED <<actorVars, manifestVars, files, lost, reading, gcVars>>

(* A dead learner's watermark stays; its ranks are gone.                     *)
LearnerDies ==
    /\ phase # "idle" /\ phase' = "idle" /\ window' = {} /\ reading' = {}
    /\ UNCHANGED <<actorVars, manifestVars, files, lost, pin, gcVars>>

-----------------------------------------------------------------------------
(* collect_garbage(): the learner calls it when it closed a window, but the  *)
(* store allows it to any process at any time                                *)

(* Superseded shards, and ready ones older than those retained.              *)
PlanGarbage(low) ==
    /\ collector = "idle" /\ (Ready # {} => \E s \in Ready : s.id >= low)
    /\ plan' = {s \in shards : ~Pinned(s) /\ \/ s.state = "superseded"
                                             \/ s.state = "ready" /\ s.id < low}
    /\ collector' = IF plan' = {} THEN "idle" ELSE "planned"
    /\ UNCHANGED <<actorVars, manifestVars, files, lost, windowVars, doomed>>

(* The rows go in one transaction that reads the watermarks again; mutant:   *)
(* the plan is carried out as made...                                        *)
Mutant_Gone == plan
Gone == {s \in plan : ~Pinned(s)}

DeleteRows ==
    /\ collector = "planned" /\ plan' = {}
    /\ shards' = {s \in shards : \A d \in Gone : s.id # d.id}
    /\ doomed' = {d.file : d \in Gone}
    /\ collector' = IF Gone = {} THEN "idle" ELSE "unlink"
    /\ UNCHANGED <<actorVars, lease, head, credit, lastId, files, lost, windowVars>>

(* ... and then the files.                                                   *)
UnlinkFile(f) ==
    /\ collector = "unlink" /\ f \in doomed
    /\ files' = files \ {f} /\ doomed' = doomed \ {f}
    /\ collector' = IF doomed' = {} THEN "idle" ELSE "unlink"
    /\ UNCHANGED <<actorVars, manifestVars, lost, windowVars, plan>>

CollectorDies ==
    /\ collector # "idle"
    /\ collector' = "idle" /\ plan' = {} /\ doomed' = {}
    /\ UNCHANGED <<actorVars, manifestVars, files, lost, windowVars>>

-----------------------------------------------------------------------------
(* reconcile_orphans(), by any process that opens the store                  *)

(* An old file without a row.                                                *)
CleanOrphan(f) ==
    /\ f \in files \ Recent /\ \A s \in shards : s.file # f
    /\ files' = files \ {f}
    /\ UNCHANGED <<actorVars, manifestVars, lost, learnerVars>>

(* A ready row whose file is missing or corrupt when the repair transaction  *)
(* looks at both.                                                            *)
RepairRow(s) ==
    /\ s \in Ready /\ s.file \notin files
    /\ shards' = (shards \ {s}) \cup {[s EXCEPT !.state = "quarantined"]}
    /\ UNCHANGED <<actorVars, lease, head, credit, lastId, files, lost, learnerVars>>

(* The disk loses or damages a file.                                         *)
LoseFile(f) ==
    /\ f \in files /\ Cardinality(lost) < MaxDamage
    /\ files' = files \ {f} /\ lost' = lost \cup {f}
    /\ UNCHANGED <<actorVars, manifestVars, learnerVars>>

-----------------------------------------------------------------------------
ReplayInit ==
    /\ lease = 0 /\ writers = {}
    /\ prefix = [g \in Games |-> 0] /\ call = [g \in Games |-> NoCall]
    /\ head = [g \in Games |-> NoHead] /\ credit = [committed |-> 0, enriched |-> 0]
    /\ shards = {} /\ lastId = 0 /\ files = {} /\ lost = {}
    /\ phase = "idle" /\ window = {} /\ pin = NoPin
    /\ reading = {} /\ collector = "idle" /\ plan = {} /\ doomed = {}

Publication(g) ==
    \/ WriteShard(g) \/ StaleLease(g) \/ Publish(g) \/ PublishUnacknowledged(g)
    \/ PublishFails(g) \/ PublishReplayed(g) \/ ActorDies(g)

LearnerStep ==
    \/ \E low \in 1 .. lastId : SelectWindow(low) \/ PlanGarbage(low)
    \/ \E k \in Ranks : OpenLoader(k) \/ CloseLoader(k)
    \/ \E f \in doomed : UnlinkFile(f)
    \/ NoBatches \/ LoaderFails \/ ClearWatermark \/ LearnerDies
    \/ DeleteRows \/ CollectorDies

ReplayNext ==
    \/ LeaseGeneration
    \/ \E g \in Games : Publication(g)
    \/ \E g \in Games, n \in 1 .. MaxSamples, final \in BOOLEAN : BeginRevision(g, n, final)
    \/ LearnerStep
    \/ \E f \in files : CleanOrphan(f) \/ LoseFile(f)
    \/ \E s \in shards : RepairRow(s)

ReplaySpec == ReplayInit /\ [][ReplayNext]_replayVars

-----------------------------------------------------------------------------
(* Properties                                                                *)

(* The samples that the games' revisions hold, and those whose labels the    *)
(* final revision of a game completed, each by its game and its place in it. *)
Samples(number) == UNION {{g} \X (1 .. number[g]) : g \in Games}
Published == Samples([g \in Games |-> head[g].count])
Enriched == Samples([g \in Games |-> head[g].enriched])

(* The credit that lets the learner train counts exactly the samples that    *)
(* were published, each once, whatever was retried, left unacknowledged or   *)
(* published by an actor that lost its lease; and an actor that is not in    *)
(* doubt knows what it published.                                            *)
CreditExact ==
    /\ credit.committed = Cardinality(Published)
    /\ credit.enriched = Cardinality(Enriched)
    /\ \A g \in writers : ~call[g].uncertain => head[g].count = prefix[g]

(* Every row has its file, unless the disk lost it; only lost files are      *)
(* quarantined; and the ready shards are heads, so that no sample is         *)
(* selected twice.                                                           *)
RowsReadable ==
    /\ \A s \in shards : s.file \in files \cup lost
    /\ \A s \in shards : s.state = "quarantined" => s.file \in lost
    /\ \A s \in Ready : head[s.game].shard = s.id

(* What any rank of a healthy learner reads is on disk, with one revision of *)
(* a game at most, while actors supersede it and anybody reconciles the      *)
(* store or collects its garbage.                                            *)
WindowReadable ==
    phase # "failed" =>
        /\ \A s \in window : s.file \in files \cup lost
        /\ \A s, t \in window : s.game = t.game => s = t

(* A publication only grows, is made by the holder of the lease, never       *)
(* changes once it is final, and is paid for once.                           *)
RevisionsGrow ==
    [][ /\ \A g \in Games : head'[g] # head[g] =>
             /\ g = lease /\ ~head[g].final /\ head'[g].count >= head[g].count
             /\ head'[g].final \/ head'[g].count > head[g].count
             /\ credit'.committed - credit.committed = head'[g].count - head[g].count
        /\ head' = head => credit' = credit ]_replayVars
=============================================================================
