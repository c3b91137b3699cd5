--------------------------- MODULE ReplayStore_proofs ---------------------------
(***************************************************************************)
(* Theorems about the replay store, for any number of generations, samples *)
(* and files, any losses of the disk, and any interleaving of publication, *)
(* reading, garbage collection and reconciliation.                         *)
(***************************************************************************)
EXTENDS ReplayStore, FiniteSetTheorems, TLAPS

-----------------------------------------------------------------------------
(* The inductive invariant                                                   *)

Rows == [id : Nat, game : Games, file : FileNames,
         state : {"ready", "superseded", "quarantined"}]
Calls == [stage : {"none", "writing", "written", "over"}, count : Nat, final : BOOLEAN,
          file : FileNames \cup {0}, uncertain : BOOLEAN]
Heads == [count : Nat, final : BOOLEAN, shard : Nat, enriched : Nat]

ActorTypeOK ==
    /\ writers \subseteq Games /\ prefix \in [Games -> Nat] /\ call \in [Games -> Calls]
    /\ lease \in Nat /\ head \in [Games -> Heads]
    /\ credit \in [committed : Nat, enriched : Nat]
StoreTypeOK ==
    /\ shards \subseteq Rows /\ lastId \in Nat
    /\ files \subseteq FileNames /\ lost \subseteq FileNames
LearnerTypeOK ==
    /\ window \subseteq Rows /\ pin \in [low : Nat, high : Nat]
    /\ plan \subseteq Rows /\ doomed \subseteq FileNames
ReplayTypeOK == ActorTypeOK /\ StoreTypeOK /\ LearnerTypeOK

(* What an actor may still have to learn about its publication.              *)
Longer(c, n) == IF c.final THEN c.count >= n ELSE c.count > n
Doubts ==
    \A g \in writers :
        /\ head[g].count = prefix[g] \/ (call[g].uncertain /\ Replayed(g))
        /\ IF call[g].stage \in {"writing", "written"}
           THEN Longer(call[g], prefix[g]) ELSE ~call[g].uncertain
Leases ==
    /\ \A g \in writers : g =< lease
    /\ \A g \in Games \ writers : call[g] = NoCall
    /\ \A g \in Games : g > lease => head[g].count = 0 /\ prefix[g] = 0

(* A shard has its row and its file to itself.                               *)
SameShard(s, t) == s.id = t.id /\ s.file = t.file
Identities ==
    /\ \A s \in shards : s.id =< lastId
    /\ \A s, t \in shards : s.id = t.id \/ s.file = t.file => s = t

(* A file written and not yet committed belongs to its call alone.           *)
Drafts ==
    /\ \A g \in Games : call[g].stage # "written" => call[g].file = 0
    /\ \A g \in Written :
         /\ call[g].file \in files \cup lost
         /\ call[g].file \notin doomed
         /\ \A s \in shards : s.file # call[g].file
         /\ \A h \in Written : call[h].file = call[g].file => h = g

(* Garbage collection plans for rows that exist, and unlinks what no row     *)
(* names; a window is made of rows that exist and that its pin covers.       *)
Garbage ==
    /\ \A d \in plan : \E s \in shards : SameShard(s, d)
    /\ \A s \in shards : s.file \notin doomed
Windows ==
    /\ phase = "idle" => window = {}
    /\ phase # "failed" =>
         /\ \A w \in window : Pinned(w) /\ \E s \in shards : SameShard(s, w)
         /\ \A s, t \in window : s.game = t.game => s = t

ReplayInv ==
    /\ ReplayTypeOK /\ Doubts /\ Leases
    /\ Identities /\ Drafts /\ Garbage /\ Windows /\ RowsReadable

-----------------------------------------------------------------------------
(* The learner's windows: nothing moves but the window, its pin and the      *)
(* readers.                                                                  *)

LEMMA WindowStep ==
  ASSUME ReplayInv, NEW low \in Nat, NEW k \in Ranks,
         \/ SelectWindow(low) \/ OpenLoader(k) \/ CloseLoader(k)
         \/ NoBatches \/ LoaderFails \/ ClearWatermark \/ LearnerDies
  PROVE  ReplayInv'
<1> USE DEF ReplayInv, ReplayTypeOK
<1>1. /\ UNCHANGED <<actorVars, manifestVars, files, lost, gcVars>>
      /\ ActorTypeOK' /\ StoreTypeOK' /\ Doubts' /\ Leases' /\ Identities' /\ Drafts' /\ Garbage'
      /\ RowsReadable'
  <2>1. UNCHANGED <<actorVars, manifestVars, files, lost, gcVars>>
    BY DEF SelectWindow, OpenLoader, CloseLoader, NoBatches, LoaderFails, ClearWatermark,
           LearnerDies
  <2> QED
    BY <2>1 DEF actorVars, manifestVars, gcVars, ActorTypeOK, StoreTypeOK, Doubts, Longer, Leases,
                Identities, Drafts, Garbage, RowsReadable, Ready, Written, Replayed
<1>2. LearnerTypeOK' /\ Windows'
  <2>1. CASE SelectWindow(low)
    <3>1. window' \subseteq Ready /\ phase' = "selected"
      BY <2>1 DEF SelectWindow
    <3>2. PICK first \in window', newest \in window' :
            /\ \A s \in window' : first.id =< s.id /\ s.id =< newest.id
            /\ pin' = [low |-> first.id, high |-> newest.id]
      BY <2>1 DEF SelectWindow
    <3>3. LearnerTypeOK'
      BY <1>1, <3>1, <3>2 DEF LearnerTypeOK, StoreTypeOK, Rows, Ready, gcVars
    <3>4. \A w \in window' : Pinned(w)' /\ \E s \in shards' : SameShard(s, w)
      BY <1>1, <3>1, <3>2 DEF Pinned, SameShard, Ready, manifestVars
    <3>5. \A s, t \in window' : s.game = t.game => s = t
      BY <3>1 DEF RowsReadable, Identities, Ready
    <3> QED BY <3>1, <3>2, <3>3, <3>4, <3>5 DEF Windows
  <2>2. CASE OpenLoader(k) \/ CloseLoader(k)
    BY <1>1, <2>2 DEF OpenLoader, CloseLoader, LearnerTypeOK, Windows, Pinned, SameShard,
                      manifestVars, gcVars
  <2>3. CASE NoBatches \/ LoaderFails \/ ClearWatermark \/ LearnerDies
    BY <1>1, <2>3 DEF NoBatches, LoaderFails, ClearWatermark, LearnerDies, NoPin, LearnerTypeOK,
                      Windows, Pinned, SameShard, manifestVars, gcVars
  <2> QED BY <2>1, <2>2, <2>3
<1> QED BY <1>1, <1>2

-----------------------------------------------------------------------------
(* Garbage collection                                                        *)

LEMMA PlanStep ==
  ASSUME ReplayInv, NEW low \in Nat, PlanGarbage(low) \/ CollectorDies
  PROVE  ReplayInv'
<1> USE DEF ReplayInv, ReplayTypeOK
<1>1. /\ UNCHANGED <<actorVars, manifestVars, files, lost, windowVars>>
      /\ plan' \subseteq shards /\ doomed' \in {doomed, {}}
  BY DEF PlanGarbage, CollectorDies
<1>2. ActorTypeOK' /\ StoreTypeOK' /\ Doubts' /\ Leases' /\ Identities' /\ Windows' /\ RowsReadable'
  BY <1>1 DEF actorVars, manifestVars, windowVars, ActorTypeOK, StoreTypeOK, Doubts, Longer,
              Leases, Identities, Windows, Pinned, SameShard, RowsReadable, Ready, Replayed
<1>3. LearnerTypeOK' /\ Drafts' /\ Garbage'
  BY <1>1 DEF actorVars, manifestVars, windowVars, LearnerTypeOK, StoreTypeOK, Drafts, Written,
              Garbage, SameShard
<1> QED BY <1>2, <1>3

(* What the transaction deletes is neither pinned nor named by another row.  *)
LEMMA DeleteStep ==
  ASSUME ReplayInv, DeleteRows
  PROVE  ReplayInv'
<1> USE DEF ReplayInv, ReplayTypeOK
<1>1. /\ UNCHANGED <<actorVars, lease, head, credit, lastId, files, lost, windowVars>>
      /\ plan' = {} /\ shards' = {s \in shards : \A d \in Gone : s.id # d.id}
      /\ doomed' = {d.file : d \in Gone}
  BY DEF DeleteRows
<1>2. \A d \in Gone : d \in Rows /\ ~Pinned(d) /\ \E s \in shards : SameShard(s, d)
  BY DEF Gone, Garbage, LearnerTypeOK
<1>3. ActorTypeOK' /\ StoreTypeOK' /\ Doubts' /\ Leases' /\ Identities' /\ RowsReadable'
  BY <1>1 DEF actorVars, ActorTypeOK, StoreTypeOK, Doubts, Longer, Leases, Identities,
              RowsReadable, Ready, Replayed
<1>4. LearnerTypeOK' /\ Garbage'
  BY <1>1, <1>2 DEF windowVars, LearnerTypeOK, StoreTypeOK, Garbage, SameShard, Identities, Rows
<1>5. Drafts'
  BY <1>1, <1>2 DEF actorVars, Drafts, Written, SameShard
<1>6. Windows'
  <2>1. UNCHANGED <<phase, window, pin>>
    BY <1>1 DEF windowVars
  <2>2. ASSUME NEW w \in window, Pinned(w), NEW s \in shards, SameShard(s, w)
        PROVE  s \in shards'
    BY <1>1, <1>2, <2>2 DEF Pinned, SameShard
  <2>3. phase # "failed" => \A w \in window : Pinned(w)' /\ \E s \in shards' : SameShard(s, w)
    BY <2>1, <2>2 DEF Windows, Pinned
  <2> QED BY <2>1, <2>3 DEF Windows
<1> QED BY <1>3, <1>4, <1>5, <1>6

-----------------------------------------------------------------------------
(* Files that are removed or lost                                            *)

LEMMA RemoveStep ==
  ASSUME ReplayInv, NEW f \in FileNames, UnlinkFile(f) \/ CleanOrphan(f) \/ LoseFile(f)
  PROVE  ReplayInv'
<1> USE DEF ReplayInv, ReplayTypeOK
<1>1. /\ UNCHANGED <<actorVars, manifestVars, windowVars, plan>>
      /\ files' \subseteq files /\ doomed' \subseteq doomed /\ lost' \subseteq lost \cup {f}
      /\ f \in FileNames
  BY DEF UnlinkFile, CleanOrphan, LoseFile, learnerVars, gcVars
<1>2. \A x \in files \cup lost : x \in files' \cup lost' \/ (x = f /\ f \notin lost')
  BY DEF UnlinkFile, CleanOrphan, LoseFile
<1>3. f \notin lost' => (\A s \in shards : s.file # f) /\ (\A g \in Written : call[g].file # f)
  BY DEF UnlinkFile, CleanOrphan, LoseFile, Garbage, Drafts, Recent
<1>4. ActorTypeOK' /\ StoreTypeOK' /\ LearnerTypeOK' /\ Doubts' /\ Leases' /\ Identities'
  BY <1>1 DEF actorVars, manifestVars, windowVars, ActorTypeOK, StoreTypeOK, LearnerTypeOK,
              Doubts, Longer, Leases, Identities, Replayed
<1>5. Garbage' /\ Windows'
  BY <1>1 DEF manifestVars, windowVars, Garbage, Windows, Pinned, SameShard
<1>6. Drafts'
  BY <1>1, <1>2, <1>3 DEF actorVars, manifestVars, Drafts, Written
<1>7. RowsReadable'
  <2>1. lost \subseteq lost'
    BY DEF UnlinkFile, CleanOrphan, LoseFile
  <2> QED BY <1>1, <1>2, <1>3, <2>1 DEF manifestVars, RowsReadable, Ready
<1> QED BY <1>4, <1>5, <1>6, <1>7

LEMMA RepairStep ==
  ASSUME ReplayInv, NEW s \in shards, RepairRow(s)
  PROVE  ReplayInv'
<1> USE DEF ReplayInv, ReplayTypeOK
<1> DEFINE bad == [s EXCEPT !.state = "quarantined"]
<1>1. /\ UNCHANGED <<actorVars, lease, head, credit, lastId, files, lost, learnerVars>>
      /\ shards' = (shards \ {s}) \cup {bad}
      /\ s \in Ready /\ s.file \notin files
  BY DEF RepairRow
<1>2. /\ bad \in Rows /\ bad.id = s.id /\ bad.file = s.file /\ bad.game = s.game
      /\ bad.state = "quarantined"
  BY DEF StoreTypeOK, Rows
<1> HIDE DEF bad
<1>3. ActorTypeOK' /\ LearnerTypeOK' /\ Doubts' /\ Leases'
  BY <1>1 DEF actorVars, learnerVars, windowVars, gcVars, ActorTypeOK, LearnerTypeOK, Doubts,
              Longer, Leases, Replayed
<1>4. StoreTypeOK' /\ Identities'
  BY <1>1, <1>2 DEF StoreTypeOK, Identities
<1>5. Drafts'
  BY <1>1, <1>2 DEF actorVars, learnerVars, gcVars, Drafts, Written
<1>6. \A w : (\E t \in shards : SameShard(t, w)) => \E t \in shards' : SameShard(t, w)
  BY <1>1, <1>2 DEF SameShard
<1>7. Garbage'
  BY <1>1, <1>2, <1>6 DEF learnerVars, gcVars, Garbage
<1>8. Windows'
  BY <1>1, <1>6 DEF learnerVars, windowVars, Windows, Pinned
<1>9. RowsReadable'
  BY <1>1, <1>2 DEF RowsReadable, Ready
<1> QED BY <1>3, <1>4, <1>5, <1>7, <1>8, <1>9

-----------------------------------------------------------------------------
(* The actors, up to the transaction                                         *)

LEMMA NewFileIsNew ==
  ASSUME FileNames \ NamesUsed # {}
  PROVE  NewFile \in FileNames /\ NewFile \notin NamesUsed
BY DEF NewFile

LEMMA LeaseStep ==
  ASSUME ReplayInv, LeaseGeneration
  PROVE  ReplayInv'
<1> USE DEF ReplayInv, ReplayTypeOK
<1>1. /\ lease' = lease + 1 /\ writers' = writers \cup {lease + 1} /\ lease + 1 \in Games
      /\ UNCHANGED <<prefix, call, head, credit, shards, lastId, files, lost, learnerVars>>
  BY ReplayConstants DEF LeaseGeneration, ActorTypeOK, Games
<1>2. lease + 1 \notin writers
  BY DEF Leases, ActorTypeOK, Games
<1>3. call[lease + 1] = NoCall /\ head[lease + 1].count = 0 /\ prefix[lease + 1] = 0
  BY <1>1, <1>2 DEF Leases, ActorTypeOK
<1>4. Written' = Written
  BY <1>1, <1>3 DEF Written, NoCall
<1>5. ActorTypeOK' /\ StoreTypeOK' /\ LearnerTypeOK' /\ Identities' /\ RowsReadable'
  BY <1>1 DEF ActorTypeOK, StoreTypeOK, LearnerTypeOK, Identities, RowsReadable, Ready,
              learnerVars, windowVars, gcVars
<1>6. Doubts'
  BY <1>1, <1>3 DEF Doubts, Longer, Replayed, NoCall
<1>7. Leases'
  BY <1>1 DEF Leases, ActorTypeOK, Games
<1>8. Drafts' /\ Garbage' /\ Windows'
  BY <1>1, <1>4 DEF Drafts, Garbage, Windows, Pinned, SameShard, learnerVars, windowVars, gcVars
<1> QED BY <1>5, <1>6, <1>7, <1>8

(* How a call ends, fails or is tried again: its file, if it had one, is no  *)
(* longer its own, and what it believes agrees with the head `h'.            *)
CallMoves(g, c, n) ==
    /\ c \in Calls /\ n \in Nat /\ c.stage # "written" /\ c.file = 0
    /\ writers' \in {writers, writers \ {g}}
    /\ call' = [call EXCEPT ![g] = c] /\ prefix' = [prefix EXCEPT ![g] = n]
    /\ g \notin writers' => c = NoCall

Agrees(c, n, h) ==
    /\ h.count = n \/ (c.uncertain /\ h.count = c.count /\ h.final = c.final)
    /\ IF c.stage = "writing" THEN Longer(c, n) ELSE ~c.uncertain

CallSteps(g) ==
    /\ UNCHANGED <<manifestVars, lost, learnerVars>>
    /\ files' = files \/ files' = files \ {call[g].file}
    /\ \E c \in Calls, n \in Nat :
         CallMoves(g, c, n) /\ (g \in writers' => Agrees(c, n, head[g]))

LEMMA MovesStep ==
  ASSUME ActorTypeOK, Leases, Drafts, NEW g \in Games, g \in writers, NEW c, NEW n,
         CallMoves(g, c, n)
  PROVE  /\ writers' \subseteq Games /\ prefix' \in [Games -> Nat] /\ call' \in [Games -> Calls]
         /\ Written' = Written \ {g}
         /\ \A h \in Games \ {g} : call'[h] = call[h] /\ prefix'[h] = prefix[h]
         /\ \A h \in Games \ {g} : h \in writers' <=> h \in writers
         /\ call'[g] = c /\ prefix'[g] = n
         /\ g =< lease
         /\ \A h \in Games \ writers' : call'[h] = NoCall
         /\ \A h \in Games : call'[h].stage # "written" => call'[h].file = 0
BY DEF CallMoves, ActorTypeOK, Written, Leases, Drafts

LEMMA CallStep ==
  ASSUME ReplayInv, NEW g \in Games, g \in writers, CallSteps(g)
  PROVE  ReplayInv'
<1> USE DEF ReplayInv, ReplayTypeOK
<1>1. UNCHANGED <<manifestVars, lost, learnerVars>> /\ files' \subseteq files
  BY DEF CallSteps
<1>2. PICK c \in Calls, n \in Nat :
         CallMoves(g, c, n) /\ (g \in writers' => Agrees(c, n, head[g]))
  BY DEF CallSteps
<1>3. /\ writers' \subseteq Games /\ prefix' \in [Games -> Nat] /\ call' \in [Games -> Calls]
      /\ Written' = Written \ {g}
      /\ \A h \in Games \ {g} : call'[h] = call[h] /\ prefix'[h] = prefix[h]
      /\ \A h \in Games \ {g} : h \in writers' <=> h \in writers
      /\ call'[g] = c /\ prefix'[g] = n
      /\ g =< lease
      /\ \A h \in Games \ writers' : call'[h] = NoCall
      /\ \A h \in Games : call'[h].stage # "written" => call'[h].file = 0
  BY <1>2, MovesStep
<1>4. \A x \in files : x \in files' \/ (x = call[g].file /\ call[g].file # 0)
  BY ReplayConstants DEF CallSteps, StoreTypeOK
<1>5. call[g].file # 0 => g \in Written
  BY DEF Drafts, Written
<1>6. ActorTypeOK'
  BY <1>1, <1>3 DEF ActorTypeOK, manifestVars
<1>7. StoreTypeOK' /\ LearnerTypeOK' /\ Identities'
  BY <1>1 DEF StoreTypeOK, LearnerTypeOK, Identities, manifestVars, learnerVars, windowVars, gcVars
<1>8. Doubts'
  <2>1. ASSUME NEW h \in writers', h # g
        PROVE  /\ head[h].count = prefix[h] \/ (call[h].uncertain /\ Replayed(h))
               /\ IF call[h].stage \in {"writing", "written"}
                  THEN Longer(call[h], prefix[h]) ELSE ~call[h].uncertain
    BY <1>3, <2>1 DEF Doubts
  <2>2. c.stage # "written"
    BY <1>2 DEF CallMoves
  <2> QED BY <1>1, <1>2, <1>3, <2>1, <2>2 DEF Doubts, Replayed, Agrees, manifestVars
<1>9. Leases'
  BY <1>1, <1>3 DEF Leases, ActorTypeOK, manifestVars, Games
<1>10. Drafts'
  BY <1>1, <1>3, <1>4, <1>5 DEF Drafts, manifestVars, learnerVars, gcVars, Written
<1>11. Garbage' /\ Windows'
  BY <1>1 DEF Garbage, Windows, Pinned, SameShard, manifestVars, learnerVars, windowVars, gcVars
<1>12. RowsReadable'
  BY <1>1, <1>4, <1>5 DEF RowsReadable, Ready, Drafts, manifestVars
<1> QED BY <1>6, <1>7, <1>8, <1>9, <1>10, <1>11, <1>12

(* The second attempt knows that the first may have been committed.          *)
LEMMA AgainMoves ==
  ASSUME ActorTypeOK, NEW g \in Games, g \in writers,
         call[g].stage \in {"writing", "written"}, TryAgain(g)
  PROVE  \E c \in Calls :
           /\ CallMoves(g, c, prefix[g])
           /\ g \in writers' => /\ c.uncertain /\ c.stage = "writing"
                                /\ c.count = call[g].count /\ c.final = call[g].final
<1>1. prefix' = [prefix EXCEPT ![g] = prefix[g]] /\ prefix[g] \in Nat
  BY DEF ActorTypeOK, TryAgain
<1>2. CASE call[g].uncertain
  BY <1>1, <1>2 DEF TryAgain, CallMoves, NoCall, Calls
<1>3. CASE ~call[g].uncertain
  <2> DEFINE c == [call[g] EXCEPT !.stage = "writing", !.file = 0, !.uncertain = TRUE]
  <2>1. /\ c \in Calls /\ c.stage = "writing" /\ c.file = 0 /\ c.uncertain
        /\ c.count = call[g].count /\ c.final = call[g].final
    BY DEF ActorTypeOK, Calls
  <2>2. call' = [call EXCEPT ![g] = c] /\ writers' = writers
    BY <1>3 DEF TryAgain, ActorTypeOK, Calls
  <2> HIDE DEF c
  <2> QED BY <1>1, <2>1, <2>2 DEF CallMoves
<1> QED BY <1>2, <1>3

LEMMA ReceiptMoves ==
  ASSUME ActorTypeOK, NEW g \in Games, g \in writers, NEW agrees \in BOOLEAN, Receipt(g, agrees)
  PROVE  \E c \in Calls, n \in Nat :
           /\ CallMoves(g, c, n)
           /\ g \in writers' => n = call[g].count /\ ~c.uncertain /\ c.stage # "writing"
<1>1. CASE agrees
  <2> DEFINE c == [NoCall EXCEPT !.stage = IF call[g].final THEN "over" ELSE "none"]
  <2>1. c \in Calls /\ c.stage \in {"over", "none"} /\ c.file = 0 /\ ~c.uncertain
    BY DEF NoCall, Calls
  <2>2. call' = [call EXCEPT ![g] = c] /\ writers' = writers
    BY <1>1 DEF Receipt
  <2>3. prefix' = [prefix EXCEPT ![g] = call[g].count] /\ call[g].count \in Nat
    BY <1>1 DEF Receipt, ActorTypeOK, Calls
  <2> HIDE DEF c
  <2> QED BY <2>1, <2>2, <2>3 DEF CallMoves
<1>2. CASE ~agrees
  <2>1. prefix' = [prefix EXCEPT ![g] = prefix[g]] /\ prefix[g] \in Nat
    BY <1>2 DEF Receipt, ActorTypeOK
  <2>2. CallMoves(g, NoCall, prefix[g]) /\ NoCall \in Calls /\ g \notin writers'
    BY <1>2, <2>1 DEF Receipt, CallMoves, NoCall, Calls
  <2> QED BY <2>1, <2>2
<1> QED BY <1>1, <1>2

LEMMA CallEnds ==
  ASSUME ReplayInv, NEW g \in Games,
         \/ \E n \in 1 .. MaxSamples, final \in BOOLEAN : BeginRevision(g, n, final)
         \/ StaleLease(g) \/ PublishFails(g) \/ PublishReplayed(g) \/ ActorDies(g)
  PROVE  g \in writers /\ CallSteps(g)
<1> USE DEF ReplayInv, ReplayTypeOK
<1>1. prefix = [prefix EXCEPT ![g] = prefix[g]] /\ prefix[g] \in Nat
  BY DEF ActorTypeOK
<1>2. ASSUME NEW n \in 1 .. MaxSamples, NEW final \in BOOLEAN, BeginRevision(g, n, final)
      PROVE  g \in writers /\ CallSteps(g)
  <2> DEFINE c == [stage |-> "writing", count |-> n, final |-> final, file |-> 0,
                   uncertain |-> FALSE]
  <2>1. c \in Calls /\ Longer(c, prefix[g]) /\ c.stage = "writing" /\ c.file = 0
    BY <1>2 DEF BeginRevision, Calls, Longer
  <2>2. head[g].count = prefix[g]
    BY <1>2 DEF BeginRevision, Doubts
  <2>3. /\ g \in writers /\ call' = [call EXCEPT ![g] = c]
        /\ UNCHANGED <<writers, prefix, manifestVars, files, lost, learnerVars>>
    BY <1>2 DEF BeginRevision
  <2> HIDE DEF c
  <2>4. CallMoves(g, c, prefix[g]) /\ Agrees(c, prefix[g], head[g])
    BY <1>1, <2>1, <2>2, <2>3 DEF CallMoves, Agrees
  <2> QED BY <1>1, <2>1, <2>3, <2>4 DEF CallSteps
<1>3. CASE ActorDies(g) \/ StaleLease(g)
  <2>1. CallMoves(g, NoCall, prefix[g]) /\ NoCall \in Calls /\ g \notin writers'
    BY <1>1, <1>3 DEF ActorDies, StaleLease, CallMoves, NoCall, Calls
  <2> QED BY <1>1, <1>3, <2>1 DEF ActorDies, StaleLease, CallSteps
<1>4. CASE PublishFails(g)
  <2>1. PICK c \in Calls :
           /\ CallMoves(g, c, prefix[g])
           /\ g \in writers' => /\ c.uncertain /\ c.stage = "writing"
                                /\ c.count = call[g].count /\ c.final = call[g].final
    BY <1>4, AgainMoves DEF PublishFails
  <2>2. g \in writers' => Agrees(c, prefix[g], head[g])
    BY <1>4, <2>1 DEF PublishFails, Agrees, Doubts, Replayed, Longer
  <2> QED BY <1>1, <1>4, <2>1, <2>2 DEF PublishFails, CallSteps
<1>5. CASE PublishReplayed(g)
  <2>1. PICK c \in Calls, n \in Nat :
           /\ CallMoves(g, c, n)
           /\ g \in writers' => n = call[g].count /\ ~c.uncertain /\ c.stage # "writing"
    BY <1>5, ReceiptMoves DEF PublishReplayed, Written, ActorTypeOK, Calls
  <2>2. g \in writers' => Agrees(c, n, head[g])
    BY <1>5, <2>1 DEF PublishReplayed, Agrees, Replayed
  <2> QED BY <1>5, <2>1, <2>2 DEF PublishReplayed, CallSteps, Written
<1> QED BY <1>2, <1>3, <1>4, <1>5

LEMMA WriteStep ==
  ASSUME ReplayInv, NEW g \in Games, WriteShard(g)
  PROVE  ReplayInv'
<1> USE DEF ReplayInv, ReplayTypeOK
<1> DEFINE c == [call[g] EXCEPT !.stage = "written", !.file = NewFile]
<1>1. /\ g \in writers /\ call[g].stage = "writing" /\ files' = files \cup {NewFile}
      /\ call' = [call EXCEPT ![g] = c]
      /\ UNCHANGED <<writers, prefix, manifestVars, lost, learnerVars>>
  BY DEF WriteShard
<1>2. NewFile \in FileNames /\ NewFile \notin NamesUsed
  BY NewFileIsNew DEF WriteShard
<1>3. /\ c \in Calls /\ c.stage = "written" /\ c.file = NewFile
      /\ c.count = call[g].count /\ c.final = call[g].final /\ c.uncertain = call[g].uncertain
  BY <1>2 DEF ActorTypeOK, Calls
<1> HIDE DEF c
<1>4. Written' = Written \cup {g} /\ \A h \in Games \ {g} : call'[h] = call[h]
  BY <1>1, <1>3 DEF Written, ActorTypeOK
<1>5. ActorTypeOK' /\ StoreTypeOK' /\ LearnerTypeOK' /\ Identities' /\ RowsReadable'
  BY <1>1, <1>2, <1>3 DEF ActorTypeOK, StoreTypeOK, LearnerTypeOK, Identities, RowsReadable, Ready,
              manifestVars, learnerVars, windowVars, gcVars
<1>6. call'[g] = c
  BY <1>1 DEF ActorTypeOK
<1>7. Doubts' /\ Leases'
  BY <1>1, <1>3, <1>4, <1>6 DEF Doubts, Leases, Longer, Replayed, manifestVars
<1>8. Drafts'
  <2>1. /\ NewFile \notin lost /\ NewFile \notin doomed /\ \A s \in shards : s.file # NewFile
        /\ \A h \in Written : call[h].file # NewFile
    BY <1>2 DEF NamesUsed
  <2> QED BY <1>1, <1>3, <1>4, <1>6, <2>1 DEF Drafts, manifestVars, learnerVars, gcVars, Written
<1>9. Garbage' /\ Windows'
  BY <1>1 DEF Garbage, Windows, Pinned, SameShard, manifestVars, learnerVars, windowVars, gcVars
<1> QED BY <1>5, <1>7, <1>8, <1>9

-----------------------------------------------------------------------------
(* The transaction of a publication                                          *)

LEMMA CommitGrows ==
  ASSUME ReplayInv, NEW g \in Games, Committed(g)
  PROVE  /\ g = lease /\ ~head[g].final
         /\ IF call[g].final THEN call[g].count >= head[g].count ELSE call[g].count > head[g].count
         /\ head' = [head EXCEPT ![g] = head'[g]]
         /\ head'[g] \in Heads /\ head'[g].count = call[g].count /\ head'[g].final = call[g].final
         /\ head'[g].shard = lastId + 1
         /\ credit' \in [committed : Nat, enriched : Nat]
         /\ credit'.committed - credit.committed = head'[g].count - head[g].count
<1> USE DEF ReplayInv, ReplayTypeOK
<1> DEFINE enriched == IF call[g].final THEN head[g].count ELSE 0
           new == [count |-> call[g].count, final |-> call[g].final, shard |-> lastId + 1,
                   enriched |-> enriched]
<1>1. /\ g = lease /\ ~head[g].final /\ ~Replayed(g) /\ g \in writers /\ call[g].stage = "written"
  BY DEF Committed, HoldsLease, Written
<1>2. IF call[g].final THEN call[g].count >= head[g].count ELSE call[g].count > head[g].count
  BY <1>1 DEF Doubts, Longer
<1>3. call[g] \in Calls /\ head[g] \in Heads
  BY DEF ActorTypeOK
<1>4. enriched \in Nat
  BY <1>3 DEF Heads
<1>5. head' = [head EXCEPT ![g] = new]
  BY DEF Committed
<1>6. /\ head'[g] = new /\ new \in Heads
      /\ new.count = call[g].count /\ new.final = call[g].final /\ new.shard = lastId + 1
  BY <1>3, <1>4, <1>5 DEF ActorTypeOK, StoreTypeOK, Calls, Heads
<1>7. /\ credit' = [committed |-> credit.committed + (call[g].count - head[g].count),
                    enriched |-> credit.enriched + enriched]
  BY DEF Committed, NewSamples
<1>8. call[g].count - head[g].count \in Nat
  BY <1>2, <1>3 DEF Calls, Heads
<1>9. credit.committed \in Nat /\ credit.enriched \in Nat
  BY DEF ActorTypeOK
<1>10. /\ credit' \in [committed : Nat, enriched : Nat]
       /\ credit'.committed - credit.committed = call[g].count - head[g].count
  BY <1>4, <1>7, <1>8, <1>9
<1> HIDE DEF enriched, new
<1> QED BY <1>1, <1>2, <1>5, <1>6, <1>10

LEMMA RetiredKeeps ==
  ASSUME StoreTypeOK, NEW g \in Games, NEW s \in shards
  PROVE  /\ Retired(g, s) \in Rows /\ SameShard(Retired(g, s), s) /\ Retired(g, s).game = s.game
         /\ Retired(g, s).state \in {s.state, "superseded"}
         /\ Retired(g, s).state = "ready" => s.id # head[g].shard
BY DEF Retired, StoreTypeOK, Rows, SameShard

LEMMA CommitRows ==
  ASSUME ReplayInv, NEW g \in Games, Committed(g), UNCHANGED <<files, lost>>
  PROVE  /\ shards' \subseteq Rows /\ Identities' /\ RowsReadable'
         /\ \A w : (\E s \in shards : SameShard(s, w)) => \E s \in shards' : SameShard(s, w)
         /\ \A s \in shards' : s.file = call[g].file \/ \E t \in shards : t.file = s.file
<1> USE DEF ReplayInv, ReplayTypeOK
<1>1. /\ lastId' = lastId + 1 /\ g \in Written
      /\ shards' = {Retired(g, s) : s \in shards} \cup {NewShard(g)}
  BY DEF Committed
<1>2. /\ NewShard(g) \in Rows /\ NewShard(g).id = lastId + 1 /\ NewShard(g).game = g
      /\ NewShard(g).file = call[g].file /\ NewShard(g).state = "ready"
  BY <1>1, ReplayConstants DEF NewShard, Rows, StoreTypeOK, ActorTypeOK, Calls, Drafts
<1>3. \A s \in shards :
         /\ Retired(g, s) \in Rows /\ SameShard(Retired(g, s), s) /\ Retired(g, s).game = s.game
         /\ Retired(g, s).state \in {s.state, "superseded"}
         /\ Retired(g, s).state = "ready" => s.id # head[g].shard
  BY RetiredKeeps
<1>4. call[g].file \in files \cup lost /\ \A s \in shards : s.file # call[g].file
  BY <1>1 DEF Drafts
<1>5. shards' \subseteq Rows /\ Identities'
  <2>1. shards' \subseteq Rows
    BY <1>1, <1>2, <1>3
  <2>2. \A s \in shards' : s.id =< lastId'
    BY <1>1, <1>2, <1>3 DEF Identities, SameShard, StoreTypeOK, Rows
  <2>3. \A s, t \in shards : Retired(g, s).id = Retired(g, t).id
                              \/ Retired(g, s).file = Retired(g, t).file => s = t
    BY <1>3 DEF Identities, SameShard
  <2>4. \A s \in shards : Retired(g, s).id # NewShard(g).id /\ Retired(g, s).file # NewShard(g).file
    BY <1>2, <1>3, <1>4 DEF Identities, SameShard, StoreTypeOK, Rows
  <2>5. \A s \in shards' : s = NewShard(g) \/ \E t \in shards : s = Retired(g, t)
    BY <1>1
  <2>6. \A s, t \in shards' : s.id = t.id \/ s.file = t.file => s = t
    BY <2>3, <2>4, <2>5
  <2> QED BY <2>1, <2>2, <2>6 DEF Identities
<1>6. RowsReadable'
  <2>1. \A s \in Ready : head[s.game].shard = s.id
    BY DEF RowsReadable
  <2>2. \A h \in Games : head'[h].shard = IF h = g THEN lastId + 1 ELSE head[h].shard
    BY CommitGrows DEF ActorTypeOK
  <2> QED BY <1>1, <1>2, <1>3, <1>4, <2>1, <2>2 DEF RowsReadable, Ready, SameShard, Rows, StoreTypeOK
<1>7. \A w : (\E s \in shards : SameShard(s, w)) => \E s \in shards' : SameShard(s, w)
  BY <1>1, <1>3 DEF SameShard
<1>8. \A s \in shards' : s.file = call[g].file \/ \E t \in shards : t.file = s.file
  BY <1>1, <1>2, <1>3 DEF SameShard
<1> QED BY <1>5, <1>6, <1>7, <1>8

LEMMA CommitStep ==
  ASSUME ReplayInv, NEW g \in Games, Publish(g) \/ PublishUnacknowledged(g)
  PROVE  ReplayInv'
<1> USE DEF ReplayInv, ReplayTypeOK
<1>1. Committed(g) /\ g \in Written /\ g \in writers /\ UNCHANGED <<lease, files, lost, learnerVars>>
  BY DEF Publish, PublishUnacknowledged, Committed, Written
<1>2. \E c \in Calls, n \in Nat : CallMoves(g, c, n) /\ (g \in writers' => Agrees(c, n, head'[g]))
  <2>1. head'[g].count = call[g].count /\ head'[g].final = call[g].final
    BY <1>1, CommitGrows
  <2>2. CASE Publish(g)
    <3>1. PICK c \in Calls, n \in Nat :
           /\ CallMoves(g, c, n)
           /\ g \in writers' => n = call[g].count /\ ~c.uncertain /\ c.stage # "writing"
      BY <1>1, <2>2, ReceiptMoves DEF Publish, ActorTypeOK, Heads
    <3> QED BY <2>1, <3>1 DEF Agrees
  <2>3. CASE PublishUnacknowledged(g)
    <3>1. PICK c \in Calls :
           /\ CallMoves(g, c, prefix[g])
           /\ g \in writers' => /\ c.uncertain /\ c.stage = "writing"
                                /\ c.count = call[g].count /\ c.final = call[g].final
      BY <1>1, <2>3, AgainMoves DEF PublishUnacknowledged, Written
    <3>2. Longer(call[g], prefix[g])
      BY <1>1 DEF Doubts, Written
    <3> QED BY <2>1, <3>1, <3>2 DEF Agrees, Longer, ActorTypeOK
  <2> QED BY <2>2, <2>3
<1>3. PICK c \in Calls, n \in Nat :
        CallMoves(g, c, n) /\ (g \in writers' => Agrees(c, n, head'[g]))
  BY <1>2
<1>4. /\ writers' \subseteq Games /\ prefix' \in [Games -> Nat] /\ call' \in [Games -> Calls]
      /\ Written' = Written \ {g}
      /\ \A h \in Games \ {g} : call'[h] = call[h] /\ prefix'[h] = prefix[h]
      /\ \A h \in Games \ {g} : h \in writers' <=> h \in writers
      /\ call'[g] = c /\ prefix'[g] = n
      /\ g =< lease
      /\ \A h \in Games \ writers' : call'[h] = NoCall
      /\ \A h \in Games : call'[h].stage # "written" => call'[h].file = 0
  BY <1>1, <1>3, MovesStep
<1>5. /\ shards' \subseteq Rows /\ Identities' /\ RowsReadable'
      /\ \A w : (\E s \in shards : SameShard(s, w)) => \E s \in shards' : SameShard(s, w)
      /\ \A s \in shards' : s.file = call[g].file \/ \E t \in shards : t.file = s.file
  BY <1>1, CommitRows
<1>6. /\ head' = [head EXCEPT ![g] = head'[g]] /\ head'[g] \in Heads
      /\ credit' \in [committed : Nat, enriched : Nat] /\ lastId' = lastId + 1
  BY <1>1, CommitGrows DEF Committed
<1>7. ActorTypeOK' /\ StoreTypeOK' /\ LearnerTypeOK'
  BY <1>1, <1>4, <1>5, <1>6 DEF ActorTypeOK, StoreTypeOK, LearnerTypeOK, learnerVars, windowVars,
                                gcVars
<1>8. \A h \in Games \ {g} : head'[h] = head[h]
  BY <1>6 DEF ActorTypeOK
<1>9. Doubts'
  <2>1. ASSUME NEW h \in writers', h # g
        PROVE  /\ head[h].count = prefix[h] \/ (call[h].uncertain /\ Replayed(h))
               /\ IF call[h].stage \in {"writing", "written"}
                  THEN Longer(call[h], prefix[h]) ELSE ~call[h].uncertain
    BY <1>4, <2>1 DEF Doubts
  <2>2. c.stage # "written"
    BY <1>3 DEF CallMoves
  <2> QED BY <1>3, <1>4, <1>8, <2>1, <2>2 DEF Doubts, Replayed, Agrees
<1>10. Leases'
  BY <1>1, <1>4, <1>8 DEF Leases, ActorTypeOK, Games
<1>11. Drafts'
  BY <1>1, <1>4, <1>5 DEF Drafts, learnerVars, gcVars, Written
<1>12. Garbage' /\ Windows'
  <2>1. call[g].file \notin doomed
    BY <1>1 DEF Drafts
  <2> QED BY <1>1, <1>5, <2>1 DEF Garbage, Windows, Pinned, learnerVars, windowVars, gcVars
<1> QED BY <1>5, <1>7, <1>9, <1>10, <1>11, <1>12

-----------------------------------------------------------------------------
LEMMA ReplayInvariant == ReplaySpec => []ReplayInv
<1>1. ReplayInit => ReplayInv
  BY ReplayConstants
  DEF ReplayInit, ReplayInv, ReplayTypeOK, ActorTypeOK, StoreTypeOK, LearnerTypeOK, Doubts, Leases,
      Identities, Drafts, Garbage, Windows, RowsReadable, Ready, Written, NoCall, NoHead, NoPin,
      Calls, Heads
<1>2. ASSUME ReplayInv, [ReplayNext]_replayVars PROVE ReplayInv'
  <2>1. CASE LeaseGeneration
    BY <1>2, <2>1, LeaseStep
  <2>2. ASSUME NEW g \in Games,
               \/ \E n \in 1 .. MaxSamples, final \in BOOLEAN : BeginRevision(g, n, final)
               \/ StaleLease(g) \/ PublishFails(g) \/ PublishReplayed(g) \/ ActorDies(g)
        PROVE  ReplayInv'
    BY <1>2, <2>2, CallEnds, CallStep
  <2>3. ASSUME NEW g \in Games, WriteShard(g) \/ Publish(g) \/ PublishUnacknowledged(g)
        PROVE  ReplayInv'
    BY <1>2, <2>3, WriteStep, CommitStep
  <2>4. CASE LearnerStep
    <3>1. 1 .. lastId \subseteq Nat /\ doomed \subseteq FileNames
      BY <1>2 DEF ReplayInv, ReplayTypeOK, StoreTypeOK, LearnerTypeOK
    <3>2. 0 \in Nat /\ \E k \in Ranks : TRUE
      BY ReplayConstants
    <3> QED
      BY <1>2, <2>4, <3>1, <3>2, WindowStep, PlanStep, DeleteStep, RemoveStep DEF LearnerStep
  <2>5. CASE \E f \in files : CleanOrphan(f) \/ LoseFile(f)
    <3>1. files \subseteq FileNames
      BY <1>2 DEF ReplayInv, ReplayTypeOK, StoreTypeOK
    <3> QED BY <1>2, <2>5, <3>1, RemoveStep
  <2>6. CASE \E s \in shards : RepairRow(s)
    BY <1>2, <2>6, RepairStep
  <2>7. CASE UNCHANGED replayVars
    BY <1>2, <2>7
    DEF replayVars, actorVars, manifestVars, learnerVars, windowVars, gcVars, ReplayInv,
        ReplayTypeOK, ActorTypeOK, StoreTypeOK, LearnerTypeOK, Doubts, Longer, Leases, Identities,
        Drafts, Garbage, Windows, RowsReadable, Ready, Written, Replayed, SameShard, Pinned
  <2> QED
    BY <1>2, <2>1, <2>2, <2>3, <2>4, <2>5, <2>6, <2>7 DEF ReplayNext, Publication
<1> QED BY <1>1, <1>2, PTL DEF ReplaySpec

(* Every row of the manifest names a file that is there, unless the disk     *)
(* lost it; no row is given up for another reason; ready rows are heads.     *)
THEOREM RowsStayReadable == ReplaySpec => []RowsReadable
BY ReplayInvariant, PTL DEF ReplayInv

(* What a learner pinned stays on disk while it reads it, whoever collects   *)
(* garbage, cleans orphans or supersedes a shard meanwhile.                  *)
THEOREM WindowStaysReadable == ReplaySpec => []WindowReadable
<1>1. ReplayInv => WindowReadable
  BY DEF ReplayInv, WindowReadable, Windows, RowsReadable, SameShard
<1> QED BY <1>1, ReplayInvariant, PTL

(* Only a publication's transaction changes the heads and the credit.        *)
LEMMA CreditSteps ==
  ASSUME [ReplayNext]_replayVars
  PROVE  \/ \E g \in Games : Publish(g) \/ PublishUnacknowledged(g)
         \/ UNCHANGED <<head, credit>>
BY DEF ReplayNext, Publication, LearnerStep, replayVars, manifestVars, LeaseGeneration,
       BeginRevision, WriteShard, StaleLease, PublishFails, PublishReplayed, ActorDies,
       SelectWindow, PlanGarbage, OpenLoader, CloseLoader, UnlinkFile, NoBatches, LoaderFails,
       ClearWatermark, LearnerDies, DeleteRows, CollectorDies, CleanOrphan, LoseFile, RepairRow

(* A revision is published by the holder of the lease, extends the one       *)
(* before it, and adds to the credit just what it adds to the game.          *)
THEOREM PublicationsGrow == ReplaySpec => RevisionsGrow
<1> DEFINE Grow ==
      /\ \A g \in Games : head'[g] # head[g] =>
           /\ g = lease /\ ~head[g].final /\ head'[g].count >= head[g].count
           /\ head'[g].final \/ head'[g].count > head[g].count
           /\ credit'.committed - credit.committed = head'[g].count - head[g].count
      /\ head' = head => credit' = credit
<1>1. ASSUME ReplayInv, [ReplayNext]_replayVars PROVE [Grow]_replayVars
  <2>1. ASSUME NEW g \in Games, Publish(g) \/ PublishUnacknowledged(g)
        PROVE  Grow
    <3>1. Committed(g)
      BY <2>1 DEF Publish, PublishUnacknowledged
    <3>2. /\ g = lease /\ ~head[g].final
          /\ IF call[g].final THEN call[g].count >= head[g].count ELSE call[g].count > head[g].count
          /\ head' = [head EXCEPT ![g] = head'[g]]
          /\ head'[g].count = call[g].count /\ head'[g].final = call[g].final
          /\ credit'.committed - credit.committed = head'[g].count - head[g].count
      BY <1>1, <3>1, CommitGrows
    <3>3. /\ \A h \in Games \ {g} : head'[h] = head[h]
          /\ head[g].count \in Nat /\ head'[g].count \in Nat
      BY <1>1, <3>1, <3>2, CommitGrows DEF ReplayInv, ReplayTypeOK, ActorTypeOK, Heads
    <3>4. head' # head
      BY <3>1, <3>2 DEF Committed, Replayed
    <3> QED BY <3>2, <3>3, <3>4
  <2>2. CASE UNCHANGED <<head, credit>>
    BY <2>2
  <2>3. \/ \E g \in Games : Publish(g) \/ PublishUnacknowledged(g)
        \/ UNCHANGED <<head, credit>>
    BY <1>1, CreditSteps
  <2> QED BY <2>1, <2>2, <2>3
<1> QED BY <1>1, ReplayInvariant, PTL DEF ReplaySpec, RevisionsGrow

-----------------------------------------------------------------------------
(* What the credit counts                                                    *)

(* A game that grows from n[g] to k samples adds k - n[g] of them, none of   *)
(* which was there.                                                          *)
LEMMA SamplesGrow ==
  ASSUME NEW n \in [Games -> Nat], NEW g \in Games, NEW k \in Nat, k >= n[g],
         IsFiniteSet(Samples(n)), NEW m, m = [n EXCEPT ![g] = k]
  PROVE  /\ IsFiniteSet(Samples(m))
         /\ Cardinality(Samples(m)) = Cardinality(Samples(n)) + (k - n[g])
<1> DEFINE new == {g} \X ((n[g] + 1) .. k)
<1>0. n[g] \in Nat
  OBVIOUS
<1>1. IsFiniteSet(new) /\ Cardinality(new) = k - n[g]
  <2>1. IsFiniteSet({g}) /\ Cardinality({g}) = 1
    BY FS_Singleton
  <2>2. IsFiniteSet((n[g] + 1) .. k) /\ Cardinality((n[g] + 1) .. k) = k - n[g]
    <3>1. ASSUME NEW a \in Nat, NEW b \in Nat, b + 1 >= a
          PROVE  IsFiniteSet(a .. b) /\ Cardinality(a .. b) = b + 1 - a
      <4>1. a \in Int /\ b \in Int
        OBVIOUS
      <4>2. IsFiniteSet(a .. b) /\ Cardinality(a .. b) = IF a > b THEN 0 ELSE b - a + 1
        BY <4>1, FS_Interval, Zenon
      <4> QED BY <3>1, <4>2
    <3>2. n[g] + 1 \in Nat /\ k + 1 >= n[g] + 1 /\ k + 1 - (n[g] + 1) = k - n[g]
      BY <1>0
    <3> QED BY <3>1, <3>2
  <2>3. /\ IsFiniteSet(new)
        /\ Cardinality(new) = Cardinality({g}) * Cardinality((n[g] + 1) .. k)
    BY <2>1, <2>2, FS_Product, Zenon
  <2>4. k - n[g] \in Nat
    BY <1>0
  <2> QED BY <2>1, <2>2, <2>3, <2>4
<1>2. \A x : x \in Samples(m) <=> x \in Samples(n) \/ x \in new
  <2>1. \A h \in Games : m[h] = IF h = g THEN k ELSE n[h]
    OBVIOUS
  <2>2. 1 .. k = (1 .. n[g]) \cup ((n[g] + 1) .. k)
    BY <1>0
  <2>3. {g} \X (1 .. k) = ({g} \X (1 .. n[g])) \cup new
    BY <2>2
  <2> HIDE DEF new
  <2>4. \A x : x \in Samples(m) <=> \E h \in Games : x \in {h} \X (1 .. m[h])
    BY DEF Samples
  <2>5. \A x : x \in Samples(n) <=> \E h \in Games : x \in {h} \X (1 .. n[h])
    BY DEF Samples
  <2> QED BY <2>1, <2>3, <2>4, <2>5
<1>3. Samples(n) \cap new = {}
  <2>1. ASSUME NEW x \in Samples(n), x \in new PROVE FALSE
    <3>1. PICK h \in Games : x \in {h} \X (1 .. n[h])
      BY <2>1 DEF Samples
    <3>2. x[1] = h /\ x[2] \in 1 .. n[h]
      BY <3>1
    <3>3. x[1] = g /\ x[2] \in (n[g] + 1) .. k
      BY <2>1
    <3> QED BY <1>0, <3>2, <3>3
  <2> QED BY <2>1
<1> HIDE DEF new
<1>4. Samples(m) = Samples(n) \cup new
  BY <1>2
<1>5. /\ IsFiniteSet(Samples(n) \cup new)
      /\ Cardinality(Samples(n) \cup new)
           = Cardinality(Samples(n)) + Cardinality(new) - Cardinality(Samples(n) \cap new)
  BY <1>1, FS_Union
<1>6. Cardinality(Samples(n) \cap new) = 0 /\ Cardinality(Samples(n)) \in Nat
  BY <1>3, FS_EmptySet, FS_CardinalityType
<1>7. Cardinality(Samples(n) \cup new) = Cardinality(Samples(n)) + (k - n[g])
  <2>1. \A x, y, z, u \in Int : u = x + y - z /\ z = 0 => u = x + y
    OBVIOUS
  <2>2. k - n[g] \in Int /\ Cardinality(Samples(n)) \in Int
    BY <1>0, <1>6
  <2> QED BY <1>1, <1>5, <1>6, <2>2
<1> QED BY <1>4, <1>5, <1>7

(* A game is enriched only by its final revision, after which it has no      *)
(* other.                                                                    *)
Counted ==
    /\ IsFiniteSet(Published) /\ credit.committed = Cardinality(Published)
    /\ IsFiniteSet(Enriched) /\ credit.enriched = Cardinality(Enriched)
    /\ \A g \in Games : ~head[g].final => head[g].enriched = 0

LEMMA CountedKept ==
  ASSUME ReplayInv, Counted, NEW g \in Games, Committed(g)
  PROVE  Counted'
<1> DEFINE committed == [h \in Games |-> head[h].count]
           enriched == [h \in Games |-> head[h].enriched]
           more == IF call[g].final THEN head[g].count ELSE 0
           new == [count |-> call[g].count, final |-> call[g].final, shard |-> lastId + 1,
                   enriched |-> more]
<1>1. /\ head \in [Games -> Heads] /\ call[g] \in Calls
      /\ credit \in [committed : Nat, enriched : Nat]
  BY DEF ReplayInv, ReplayTypeOK, ActorTypeOK
<1>2. committed \in [Games -> Nat] /\ enriched \in [Games -> Nat]
  BY <1>1 DEF Heads
<1>3. ~head[g].final /\ call[g].count >= head[g].count /\ call[g].count \in Nat
  BY <1>1, CommitGrows DEF Calls, Heads
<1>4. /\ head' = [head EXCEPT ![g] = new]
      /\ credit' = [committed |-> credit.committed + (call[g].count - head[g].count),
                    enriched |-> credit.enriched + more]
  BY DEF Committed, NewSamples
<1>5. more \in Nat /\ enriched[g] = 0 /\ head[g].enriched = 0 /\ committed[g] = head[g].count
  BY <1>1, <1>3 DEF Heads, Counted
<1>6. /\ [h \in Games |-> head'[h].count] = [committed EXCEPT ![g] = call[g].count]
      /\ [h \in Games |-> head'[h].enriched] = [enriched EXCEPT ![g] = more]
      /\ \A h \in Games : ~head'[h].final => head'[h].enriched = 0
  <2>1. \A h \in Games : head'[h] = IF h = g THEN new ELSE head[h]
    BY <1>1, <1>4
  <2>2. new.count = call[g].count /\ new.enriched = more /\ new.final = call[g].final
    OBVIOUS
  <2>3. ~call[g].final => more = 0
    OBVIOUS
  <2> HIDE DEF new, more
  <2>4. \A h \in Games : ~head'[h].final => head'[h].enriched = 0
    BY <2>1, <2>2, <2>3 DEF Counted
  <2> QED BY <2>1, <2>2, <2>4
<1> HIDE DEF more, new
<1>7. /\ IsFiniteSet(Samples(committed)) /\ credit.committed = Cardinality(Samples(committed))
      /\ IsFiniteSet(Samples(enriched)) /\ credit.enriched = Cardinality(Samples(enriched))
  BY DEF Counted, Published, Enriched
<1>8. /\ IsFiniteSet(Published')
      /\ Cardinality(Published') = credit.committed + (call[g].count - head[g].count)
  <2>1. Published' = Samples([committed EXCEPT ![g] = call[g].count])
    BY <1>6 DEF Published, Samples
  <2> HIDE DEF committed, enriched
  <2>2. call[g].count >= committed[g]
    BY <1>3, <1>5
  <2>3. /\ IsFiniteSet(Published')
        /\ Cardinality(Published')
             = Cardinality(Samples(committed)) + (call[g].count - committed[g])
    BY <1>2, <1>3, <1>7, <2>1, <2>2, SamplesGrow, Zenon
  <2> QED BY <1>5, <1>7, <2>3
<1>9. IsFiniteSet(Enriched') /\ Cardinality(Enriched') = credit.enriched + more
  <2>1. Enriched' = Samples([enriched EXCEPT ![g] = more])
    BY <1>6 DEF Enriched, Samples
  <2> HIDE DEF committed, enriched
  <2>2. more >= enriched[g]
    BY <1>5
  <2>3. /\ IsFiniteSet(Enriched')
        /\ Cardinality(Enriched') = Cardinality(Samples(enriched)) + (more - enriched[g])
    BY <1>2, <1>5, <1>7, <2>1, <2>2, SamplesGrow, Zenon
  <2>4. credit.enriched \in Nat
    BY <1>1
  <2> QED BY <1>5, <1>7, <2>3, <2>4
<1> QED BY <1>4, <1>6, <1>8, <1>9 DEF Counted

(* The credit counts the published samples, each once, across retries, lost  *)
(* acknowledgements, deaths and stale leases; and an actor that is not in    *)
(* doubt knows what it has published.                                        *)
THEOREM CreditCounts == ReplaySpec => []CreditExact
<1>1. ReplayInit => Counted
  <2> SUFFICES ASSUME ReplayInit PROVE Counted
    OBVIOUS
  <2>1. Published = {} /\ Enriched = {}
    BY DEF ReplayInit, Published, Enriched, Samples, NoHead
  <2> QED BY <2>1, FS_EmptySet DEF ReplayInit, Counted, NoHead
<1>2. ReplayInv /\ Counted /\ [ReplayNext]_replayVars => Counted'
  <2> SUFFICES ASSUME ReplayInv, Counted, [ReplayNext]_replayVars PROVE Counted'
    OBVIOUS
  <2>1. CASE \E g \in Games : Publish(g) \/ PublishUnacknowledged(g)
    BY <2>1, CountedKept DEF Publish, PublishUnacknowledged
  <2>2. CASE UNCHANGED <<head, credit>>
    BY <2>2 DEF Counted, Published, Enriched, Samples
  <2> QED BY <2>1, <2>2, CreditSteps
<1>3. ReplayInv /\ Counted => CreditExact
  BY DEF ReplayInv, Doubts, Counted, CreditExact
<1> QED BY <1>1, <1>2, <1>3, ReplayInvariant, PTL DEF ReplaySpec
=============================================================================
