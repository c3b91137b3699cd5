------------------------------- MODULE MCTraining -------------------------------
(***************************************************************************)
(* The broker, the replay store, the learner and the arena's decisions,    *)
(* checked side by side: a behaviour plays one part, chosen at the start,  *)
(* and the other components stay as they were.  They share no variable.    *)
(***************************************************************************)
EXTENDS InferenceBroker, ReplayStore, LearnerLoop, Promotion, TLC

CONSTANTS a, b, c, e

(* Two requests that may share a batch, one of another model, an empty one.  *)
MCRows == a :> 1 @@ b :> 1 @@ c :> 2 @@ e :> 0
MCModel == a :> "m" @@ b :> "m" @@ c :> "n" @@ e :> "m"

VARIABLE part
allVars == <<brokerVars, replayVars, learnVars, promotionVars, part>>

Only(callers) == \A r \in Requests \ callers : producer'[r] = "outside"

(* Publication without a reader, with every failure; and readers of games of *)
(* one-sample revisions, from actors that live as long as their lease and    *)
(* whose first call is not left in doubt.                                    *)
Unread == UNCHANGED learnerVars
Plain ==
    /\ lost' = {} /\ lease' \notin writers \ writers'
    /\ \A g \in Games : call'[g].count =< 1 /\ ~call'[g].uncertain

MCInit ==
    /\ part \in {"calls", "empty", "publish", "window", "learn", "arena"}
    /\ BrokerInit /\ ReplayInit /\ LearnInit /\ PromotionInit

Calls == BrokerNext /\ UNCHANGED <<replayVars, learnVars, promotionVars>>
Store == ReplayNext /\ UNCHANGED <<brokerVars, learnVars, promotionVars>>

Play ==
    \/ part = "calls" /\ Calls /\ Only({a, b, c})
    \/ part = "empty" /\ Calls /\ Only({a, c, e})
    \/ part = "publish" /\ Store /\ Unread
    \/ part = "window" /\ Store /\ Plain
    \/ part = "learn" /\ LearnNext /\ UNCHANGED <<brokerVars, replayVars, promotionVars>>
    \/ part = "arena" /\ PromotionNext /\ UNCHANGED <<brokerVars, replayVars, learnVars>>

MCSpec ==
    /\ MCInit /\ [][Play /\ UNCHANGED part]_allVars
    /\ BrokerFairness /\ PromotionFairness
=============================================================================
