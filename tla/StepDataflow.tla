---------------------------- MODULE StepDataflow ----------------------------
(***************************************************************************)
(* The order of the rows of a training batch, from the generation to the   *)
(* advantages.  The prompts are repeated n times, _balance_batch reorders  *)
(* the rows so that the ranks get similar work (the largest differencing   *)
(* method of Karmarkar and Karp on chunks of equal size), and the rewards, *)
(* computed before or after that, come back as a column by position.  A    *)
(* row is the number it had when it was generated; the reward and the      *)
(* advantage of a row are named by what they were computed from.           *)
(***************************************************************************)
EXTENDS Integers, Sequences, FiniteSets, SequencesExt

CONSTANTS
    BatchSize,     \* responses in the batch
    n,             \* rollout.n: responses to each prompt
    world_size,    \* ranks the batch is dispatched to
    SeqLens        \* the sequence lengths a row may have

ASSUME StepDataflowAssumption ==
    /\ BatchSize \in Nat \ {0} /\ n \in Nat \ {0} /\ world_size \in Nat \ {0}
    /\ BatchSize % n = 0 /\ BatchSize % world_size = 0
    /\ SeqLens \subseteq Nat

VARIABLES
    setting,             \* the trainer, launch_reward_fn_async, balance_batch
    stage,               \* what the step has come to
    workload,            \* workload[r]: of row r
    states_pq,           \* the heap of karmarkar_karp
    order,               \* order[i]: the row at position i of the batch
    reward_tensor,       \* the rows the rewards were computed from, by position
    token_level_scores   \* the column of the batch

dataflowVars == <<setting, stage, workload, states_pq, order, reward_tensor, token_level_scores>>

Rows == 1..BatchSize
Settings == [pipelined : BOOLEAN, launch_reward_fn_async : BOOLEAN, balance_batch : BOOLEAN]

calculate_workload(seqlen) == 24576 * seqlen + seqlen * seqlen

DataflowInit ==
    /\ setting \in Settings
    /\ stage = "generated"
    /\ \E seqlen \in [Rows -> SeqLens] : workload = [r \in Rows |-> calculate_workload(seqlen[r])]
    /\ states_pq = {}
    /\ order = [i \in Rows |-> i]
    /\ reward_tensor = <<>> /\ token_level_scores = <<>>

\* batch.repeat and gen_batch.repeat, both interleaved: the prompt of a row.
repeat(r) == (r - 1) \div n

\* Mutant of LaunchedEarly: the synchronous trainer launches them early, too.
EarlyIfAsync == setting.launch_reward_fn_async
\* _launch_individual_rewards is started with the generation.
LaunchedEarly == setting.launch_reward_fn_async /\ setting.pipelined

\* The generation is back.  Rewards launched with it are computed on its order.
Generated ==
    /\ stage = "generated"
    /\ reward_tensor' = IF LaunchedEarly THEN order ELSE reward_tensor
    /\ stage' = IF setting.balance_batch THEN "balancing" ELSE "rewarding"
    /\ UNCHANGED <<setting, workload, states_pq, order, token_level_scores>>

-----------------------------------------------------------------------------
(* _balance_batch.  A State of the heap is a sequence of world_size sets of *)
(* rows, in decreasing order of their sums.  Python orders equal sums and   *)
(* equal spreads by the members; here any order will do.                    *)

SumOf(rows) == SumFunctionOnSet(workload, rows)
Spread(s) == SumOf(s[1]) - SumOf(s[world_size])
LargestSpread(S) == {s \in S : \A t \in S : Spread(t) <= Spread(s)}

Decreasing(s) == \A i, j \in 1..world_size : i < j => SumOf(s[i]) >= SumOf(s[j])
Orderings(sets) ==
    {s \in {[i \in 1..world_size |-> sets[p[i]]] : p \in Bijection(1..world_size, 1..world_size)} : Decreasing(s)}

Before(q, r) == workload[q] < workload[r] \/ (workload[q] = workload[r] /\ q < r)
SortedRows(rows) ==
    [i \in 1..Cardinality(rows) |->
        CHOOSE r \in rows : Cardinality({q \in rows : Before(q, r)}) = i - 1]

\* world_size rows at a time, from the lightest to the heaviest, each chunk from
\* its heaviest row to its lightest.
Chunks ==
    LET sorted == SortedRows(Rows)
    IN  {[i \in 1..world_size |-> {sorted[c * world_size + 1 - i]}] : c \in 1..BatchSize \div world_size}

StartBalance ==
    /\ stage = "balancing" /\ states_pq = {}
    /\ states_pq' = Chunks
    /\ UNCHANGED <<setting, stage, workload, order, reward_tensor, token_level_scores>>

\* Mutant of Partner: the largest set is merged with the largest.
SamePlace(i) == i
Partner(i) == world_size + 1 - i

\* The two states of largest spread become one.
Merge ==
    /\ stage = "balancing" /\ Cardinality(states_pq) > 1
    /\ \E state0 \in LargestSpread(states_pq) :
       \E state1 \in LargestSpread(states_pq \ {state0}) :
       \E merged \in Orderings([i \in 1..world_size |-> state0[i] \union state1[Partner(i)]]) :
          states_pq' = (states_pq \ {state0, state1}) \union {merged}
    /\ UNCHANGED <<setting, stage, workload, order, reward_tensor, token_level_scores>>

\* partition[::2] + partition[1::2][::-1]
Zigzag(p) ==
    [i \in 1..(Len(p) + 1) \div 2 |-> p[2 * i - 1]] \o Reverse([i \in 1..Len(p) \div 2 |-> p[2 * i]])

\* The partitions, one after the other, are of equal size.
Reorder ==
    /\ stage = "balancing" /\ Cardinality(states_pq) = 1
    /\ \E partitions \in states_pq :
         LET size == BatchSize \div world_size
         IN  order' = [i \in Rows |->
                 Zigzag(SortedRows(partitions[(i - 1) \div size + 1]))[((i - 1) % size) + 1]]
    /\ stage' = "rewarding" /\ states_pq' = {}
    /\ UNCHANGED <<setting, workload, reward_tensor, token_level_scores>>

-----------------------------------------------------------------------------

\* compute_reward, now or by the actor that is given a copy of the batch.
ComputeReward ==
    /\ stage = "rewarding"
    /\ reward_tensor' = IF LaunchedEarly THEN reward_tensor ELSE order
    /\ stage' = "adv"
    /\ UNCHANGED <<setting, workload, states_pq, order, token_level_scores>>

SetScores ==
    /\ stage = "adv"
    /\ token_level_scores' = reward_tensor
    /\ stage' = "done"
    /\ UNCHANGED <<setting, workload, states_pq, order, reward_tensor>>

StepOver == stage = "done" /\ UNCHANGED dataflowVars

DataflowStep == Generated \/ StartBalance \/ Merge \/ Reorder \/ ComputeReward \/ SetScores
DataflowNext == DataflowStep \/ StepOver
DataflowSpec == DataflowInit /\ [][DataflowNext]_dataflowVars

\* compute_grpo_outcome_advantage at position i: the score there, and the scores
\* where the uid is the same, from which mean and deviation are taken.
Advantage(i) ==
    [score |-> token_level_scores[i],
     group |-> {token_level_scores[j] : j \in {k \in Rows : repeat(order[k]) = repeat(order[i])}}]

-----------------------------------------------------------------------------

DataflowTypeOK ==
    /\ setting \in Settings
    /\ stage \in {"generated", "balancing", "rewarding", "adv", "done"}
    /\ workload \in [Rows -> Nat]
    /\ \A s \in states_pq : s \in Seq(SUBSET Rows) /\ Len(s) = world_size
    /\ order \in Seq(Rows) /\ Len(order) = BatchSize
    /\ reward_tensor \in Seq(Rows) /\ token_level_scores \in Seq(Rows)

RowsOfRank(k) == {order[i] : i \in (k - 1) * (BatchSize \div world_size) + 1..k * (BatchSize \div world_size)}
WidestChunk == CHOOSE d \in {Spread(chunk) : chunk \in Chunks} : \A chunk \in Chunks : Spread(chunk) <= d

\* Balancing loses and repeats no row, and however many rows the ranks get, their
\* work differs by no more than that of single rows which are neighbours in length:
\* those of one chunk.
RanksBalanced ==
    stage = "rewarding" /\ setting.balance_batch =>
        /\ {order[i] : i \in Rows} = Rows
        /\ \A k, l \in 1..world_size : SumOf(RowsOfRank(k)) - SumOf(RowsOfRank(l)) <= WidestChunk

\* Reordering does not affect the advantages: each row is trained with its own
\* reward, compared with the rewards of the responses to the same prompt.
AdvantagesKept ==
    stage = "done" =>
        \A i \in Rows : Advantage(i) = [score |-> order[i],
                                        group |-> {r \in Rows : repeat(r) = repeat(order[i])}]

\* The advantages are kept in every setting but one: rewards launched with the
\* generation while the batch is balanced before they arrive.
AdvantagesKeptUnlessEarly ==
    ~(setting.pipelined /\ setting.launch_reward_fn_async /\ setting.balance_batch) => AdvantagesKept
=============================================================================
