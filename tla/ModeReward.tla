----------------------------- MODULE ModeReward -----------------------------
(***************************************************************************)
(* hybrid_reward_function_batch: the reward of a batch of responses.  Text *)
(* answers are scored by the Skywork reward model in micro-batches; the    *)
(* distinctiveness of a response among those with the same batch prompt is *)
(* computed in a thread pool, whose futures complete in any order; then    *)
(* the items are combined one after the other.  What fails on its way is   *)
(* made a zero, for one item or for the batch.                             *)
(*                                                                         *)
(* A number is named by the response it was computed from: 0 is the number *)
(* zero.  The penalties depend on the response alone and are left out,     *)
(* except that computing them may raise.                                   *)
(***************************************************************************)
EXTENDS Integers, Sequences, FiniteSets

CONSTANTS
    BatchPrompts,       \* the prompt that each item responds to
    micro_batch_size

ASSUME ModeRewardAssumption ==
    /\ BatchPrompts \in Seq(Nat \ {0}) /\ Len(BatchPrompts) > 1
    /\ micro_batch_size \in Nat \ {0}

VARIABLES
    items,              \* items[i]: its data source, and whether its response is empty
    extra_infos,        \* is there a list of them
    prompted,           \* the items whose info has a prompt, or a question
    progress,           \* what the call has come to
    raw_scores,         \* of the Skywork model so far
    skyreward_by_idx,   \* the score of each item that has one
    tasks,              \* the items whose future has not completed
    distinct_by_index,  \* the distinctiveness of each item that has one
    rewards

givenVars == <<items, extra_infos, prompted>>
rewardVars == <<givenVars, progress, raw_scores, skyreward_by_idx, tasks, distinct_by_index, rewards>>

Items == 1..Len(BatchPrompts)
Sources == {"text", "math", "other"}
Nobody == [i \in {} |-> i]

RewardInit ==
    /\ items \in [Items -> [source : Sources, empty : BOOLEAN]]
    /\ extra_infos \in BOOLEAN
    /\ prompted \in IF extra_infos THEN SUBSET Items ELSE {{}}
    /\ progress = "scoring"
    /\ raw_scores = <<>> /\ skyreward_by_idx = Nobody
    /\ tasks = {} /\ distinct_by_index = Nobody
    /\ rewards = <<>>

\* An info may have neither, and then the item's prompt is the empty text; without a
\* list of infos all prompts are.
EmptyText == 0
batch_prompts(i) == IF i \in prompted THEN BatchPrompts[i] ELSE EmptyText

Zero == [quality |-> 0, math |-> 0, distinct |-> 0, among |-> {}]

\* The outermost except: zero for the whole batch.
CriticalError ==
    /\ progress' = "returned"
    /\ rewards' = [i \in Items |-> Zero]
    /\ UNCHANGED <<givenVars, raw_scores, skyreward_by_idx, tasks, distinct_by_index>>

-----------------------------------------------------------------------------
(* The Skywork scores, and the groups.                                      *)

\* The text answers in their order.
skyreward_indices ==
    LET scored == {i \in Items : items[i].source = "text" /\ ~items[i].empty}
    IN  [j \in 1..Cardinality(scored) |->
            CHOOSE i \in scored : Cardinality({k \in scored : k < i}) = j - 1]

\* prompt_to_indices
Group(i) == {j \in Items : batch_prompts(j) = batch_prompts(i)}

\* A future for each item whose prompt has other responses.
Submitted == tasks' = {i \in Items : Cardinality(Group(i)) > 1} /\ progress' = "distinct"

\* The next micro-batch, unless all have been scored.
ScoreMicroBatch ==
    /\ progress = "scoring" /\ Len(raw_scores) < Len(skyreward_indices)
    /\ raw_scores' = raw_scores \o SubSeq(skyreward_indices, Len(raw_scores) + 1,
                        IF Len(raw_scores) + micro_batch_size < Len(skyreward_indices)
                        THEN Len(raw_scores) + micro_batch_size ELSE Len(skyreward_indices))
    /\ UNCHANGED <<givenVars, progress, skyreward_by_idx, tasks, distinct_by_index, rewards>>

\* The model raises, or, without extra_infos, the list of scores is never bound and
\* is returned all the same; either way the exception is raised again.
ScoringFails == progress = "scoring" /\ skyreward_indices # <<>> /\ CriticalError

IndexOf(j) == skyreward_indices[j]

ScoresIn ==
    /\ progress = "scoring" /\ skyreward_indices # <<>>
    /\ Len(raw_scores) = Len(skyreward_indices)
    /\ extra_infos
    /\ skyreward_by_idx' = [i \in {IndexOf(j) : j \in DOMAIN raw_scores} |->
                              raw_scores[CHOOSE j \in DOMAIN raw_scores : IndexOf(j) = i]]
    /\ Submitted
    /\ UNCHANGED <<givenVars, raw_scores, distinct_by_index, rewards>>

\* There is nothing to score, or the model could not be loaded.
NoScores ==
    /\ progress = "scoring" /\ raw_scores = <<>>
    /\ Submitted
    /\ UNCHANGED <<givenVars, raw_scores, skyreward_by_idx, distinct_by_index, rewards>>

-----------------------------------------------------------------------------
(* as_completed: the futures in the order in which they complete.           *)

\* Mutant of FutureToIdx: the position in the group instead of the item.
PositionInGroup(i) == Cardinality({j \in Group(i) : j <= i})
FutureToIdx(i) == i

With(f, i, v) == [j \in DOMAIN f \union {i} |-> IF j = i THEN v ELSE f[j]]

FutureDone(i) ==
    /\ progress = "distinct" /\ i \in tasks
    /\ tasks' = tasks \ {i}
    /\ \E result \in {[distinct |-> i, among |-> Group(i)], [distinct |-> 0, among |-> {}]} :
         distinct_by_index' = With(distinct_by_index, FutureToIdx(i), result)
    /\ UNCHANGED <<givenVars, progress, raw_scores, skyreward_by_idx, rewards>>

PoolDone ==
    /\ progress = "distinct" /\ tasks = {}
    /\ progress' = "combining"
    /\ UNCHANGED <<givenVars, raw_scores, skyreward_by_idx, tasks, distinct_by_index, rewards>>

-----------------------------------------------------------------------------
(* The loop over the items.                                                 *)

\* combine_reward_components in batch mode: the quality, and the gate times the
\* distinctiveness.  An item without a Skywork score has gate 0.  The math reward
\* is computed and reported, and is no part of the score.
Combined(i) ==
    IF i \in DOMAIN skyreward_by_idx
    THEN [quality |-> skyreward_by_idx[i], math |-> 0,
          distinct |-> IF i \in DOMAIN distinct_by_index THEN distinct_by_index[i].distinct ELSE 0,
          among |-> IF i \in DOMAIN distinct_by_index THEN distinct_by_index[i].among ELSE {}]
    ELSE [Zero EXCEPT !.math = IF items[i].source = "math" THEN i ELSE 0]

NextItem == Len(rewards) + 1

\* An item whose computation raises gets zero, like an empty response.
Combine ==
    /\ progress = "combining" /\ NextItem \in Items
    /\ \/ rewards' = Append(rewards, IF items[NextItem].empty THEN Zero ELSE Combined(NextItem))
       \/ rewards' = Append(rewards, Zero)
    /\ UNCHANGED <<givenVars, progress, raw_scores, skyreward_by_idx, tasks, distinct_by_index>>

Return ==
    /\ progress = "combining" /\ NextItem \notin Items
    /\ progress' = "returned"
    /\ UNCHANGED <<givenVars, raw_scores, skyreward_by_idx, tasks, distinct_by_index, rewards>>

RewardOver == progress = "returned" /\ UNCHANGED rewardVars

RewardStep ==
    \/ ScoreMicroBatch \/ ScoringFails \/ ScoresIn \/ NoScores
    \/ \E i \in Items : FutureDone(i)
    \/ PoolDone \/ Combine \/ Return

RewardNext == RewardStep \/ RewardOver
RewardSpec == RewardInit /\ [][RewardNext]_rewardVars

-----------------------------------------------------------------------------

Infos == [quality : Items \union {0}, math : Items \union {0},
          distinct : Items \union {0}, among : SUBSET Items]

RewardTypeOK ==
    /\ items \in [Items -> [source : Sources, empty : BOOLEAN]]
    /\ extra_infos \in BOOLEAN /\ prompted \subseteq Items
    /\ progress \in {"scoring", "distinct", "combining", "returned"}
    /\ raw_scores \in Seq(Items) /\ tasks \subseteq Items
    /\ DOMAIN skyreward_by_idx \subseteq Items /\ DOMAIN distinct_by_index \subseteq Items
    /\ rewards \in Seq(Infos)

\* Every item gets one reward, at its place, made of numbers computed from itself, in
\* whatever order the futures complete and whichever of them fail.  Distinctiveness
\* is rewarded only where its quality was scored, and only among responses to the
\* item's own prompt when its info names it.  The items whose infos name none are
\* compared with one another, whatever they respond to; a batch without a list of
\* infos gets nothing for distinctiveness.
RewardIsOwn ==
    /\ progress = "returned" => Len(rewards) = Len(BatchPrompts)
    /\ \A i \in DOMAIN rewards :
         /\ {rewards[i].quality, rewards[i].math, rewards[i].distinct} \subseteq {0, i}
         /\ rewards[i].distinct # 0 =>
              /\ extra_infos /\ rewards[i].quality = i
              /\ rewards[i].among = IF i \in prompted
                                    THEN {j \in prompted : BatchPrompts[j] = BatchPrompts[i]}
                                    ELSE Items \ prompted
=============================================================================
