------------------------- MODULE TrainingRecovery -------------------------
(***************************************************************************)
(* The training loop with its checkpoints, crashes and restarts:           *)
(* RayPPOTrainer.fit, which generates and trains one batch at a time, and  *)
(* OneStepOffRayTrainer.fit, which generates the next batch while it       *)
(* trains (pipelined); _save_checkpoint and _load_checkpoint; the FSDP     *)
(* checkpoint manager, which writes one file per rank and removes old      *)
(* checkpoints; and the tracker file that names the latest one.            *)
(*                                                                         *)
(* The weights are the sequence of batches they were trained on.  Batches  *)
(* are numbered on through the epochs: batch b is the one the data loader  *)
(* hands out b-th when nobody restarts it.  A crash ends the job at any    *)
(* point, also within a save; a restart keeps nothing but the files.       *)
(***************************************************************************)
EXTENDS Integers, Sequences, FiniteSets

CONSTANTS
    EpochLength,       \* len(train_dataloader)
    total_epochs,
    save_freq,
    Keeps,             \* the values max_actor_ckpt_to_keep and max_critic_ckpt_to_keep
                       \* may have; 0: None
    Ranks,
    Groups,            \* the worker groups that save, in their order: actor, critic
    MaxCrashes         \* bound: crashes, and restarts of a finished job

ASSUME RecoveryAssumption ==
    /\ EpochLength \in Nat \ {0} /\ total_epochs \in Nat \ {0}
    /\ save_freq \in Nat \ {0}
    /\ Keeps \subseteq Nat
    /\ Ranks # {}
    /\ Groups \in {<<"actor">>, <<"actor", "critic">>}
    /\ MaxCrashes \in Nat

VARIABLES
    pipelined, keep,           \* which trainer; how many checkpoints it keeps
    tracker,                   \* latest_checkpointed_iteration.txt
    shard,                     \* shard[g][n][r]: the file of rank r in global_step_n/g
    data,                      \* data[n]: the position in global_step_n/data.pt
    job,                       \* "down", "up", "done" or "load_failed"
    at,                        \* where fit() stands
    group, written,            \* the group that saves, and its ranks that have saved
    global_steps, weights,
    position, data_end,        \* batches handed out, and where this run's epochs end
    pending,                   \* batch_data_future
    taken,                     \* the batch the pipelined trainer trains on
    previous_saved_paths,      \* of each group's manager, as step numbers
    crashes, resumed           \* bound counter; history: restarts from a checkpoint

fileVars == <<tracker, shard, data>>
saveVars == <<group, written>>
loopVars == <<global_steps, weights, position, data_end, pending, taken>>
recoveryVars == <<pipelined, keep, fileVars, job, at, saveVars, loopVars, previous_saved_paths, crashes, resumed>>

total_training_steps == EpochLength * total_epochs
Steps == 1..total_training_steps + MaxCrashes

\* The tracker before there is one, and when a crash has caught it truncated.
Missing == 0
Empty == -1
\* A rank's file that is not there, and one that is not written to its end.
NoFile == <<0>>
Partial == <<-1>>
NoBatch == [batch |-> 0, ready |-> FALSE]
Managers == {Groups[i] : i \in 1..Len(Groups)}

RecoveryInit ==
    /\ pipelined \in BOOLEAN /\ keep \in Keeps
    /\ tracker = Missing
    /\ shard = [g \in Managers |-> [n \in Steps |-> [r \in Ranks |-> NoFile]]]
    /\ data = [n \in Steps |-> 0]
    /\ job = "down" /\ at = "top" /\ group = 1 /\ written = {}
    /\ global_steps = 0 /\ weights = <<>> /\ position = 0 /\ data_end = 0
    /\ pending = NoBatch /\ taken = NoBatch
    /\ previous_saved_paths = [g \in Managers |-> <<>>]
    /\ crashes = 0 /\ resumed = 0

-----------------------------------------------------------------------------
(* _load_checkpoint with resume_mode = "auto", and the start of fit().      *)

\* The end of the last of total_epochs passes over the loader: the first one goes
\* on where the loader was, and a loader saved at the end of a pass has an empty one.
EndOfData(p) ==
    LET passes == IF p = 0 THEN 1 ELSE (p + EpochLength - 1) \div EpochLength
    IN  (passes + total_epochs - 1) * EpochLength

\* _async_gen_next_batch: the rollout gets the weights and starts on the next batch.
NextBatch(p, end) == IF p < end THEN [batch |-> p + 1, ready |-> FALSE] ELSE NoBatch

StartFit(n, w, p) ==
    /\ job' = "up" /\ at' = "top"
    /\ global_steps' = n + 1 /\ weights' = w /\ data_end' = EndOfData(p)
    /\ IF pipelined
       THEN /\ pending' = NextBatch(p, EndOfData(p))
            /\ position' = IF pending' = NoBatch THEN p ELSE p + 1
       ELSE pending' = NoBatch /\ position' = p
    /\ taken' = NoBatch
    /\ previous_saved_paths' = [g \in Managers |-> <<>>]

FromScratch ==
    /\ job = "down" /\ tracker = Missing
    /\ StartFit(0, <<>>, 0)
    /\ UNCHANGED <<pipelined, keep, fileVars, saveVars, crashes, resumed>>

Complete(n) == \A g \in Managers, r \in Ranks : shard[g][n][r] \notin {NoFile, Partial}

Resume ==
    /\ job = "down" /\ tracker \in Steps /\ Complete(tracker)
    /\ \E r \in Ranks : StartFit(tracker, shard["actor"][tracker][r], data[tracker])
    /\ resumed' = resumed + 1
    /\ UNCHANGED <<pipelined, keep, fileVars, saveVars, crashes>>

\* int("") raises, or a file cannot be loaded.
LoadFails ==
    /\ job = "down"
    /\ \/ tracker = Empty
       \/ tracker \in Steps /\ ~Complete(tracker)
    /\ job' = "load_failed"
    /\ UNCHANGED <<pipelined, keep, fileVars, at, saveVars, loopVars, previous_saved_paths, crashes, resumed>>

-----------------------------------------------------------------------------
(* fit().                                                                   *)

\* Mutant of is_last_step: a step too early.
LastStepEarly == global_steps + 1 >= total_training_steps
is_last_step == global_steps >= total_training_steps

\* The job saves on the last step, every save_freq steps and, in the synchronous
\* trainer, when the machines are about to expire.
AfterTraining ==
    LET due == is_last_step \/ global_steps % save_freq = 0 IN
    \/ (due \/ ~pipelined) /\ at' = "rotate" /\ group' = 1
    \/ ~due /\ at' = "next" /\ UNCHANGED group

\* The synchronous trainer takes a batch, generates, and trains on it.
TrainBatch ==
    /\ job = "up" /\ at = "top" /\ ~pipelined /\ position < data_end
    /\ position' = position + 1
    /\ weights' = Append(weights, position + 1)
    /\ AfterTraining
    /\ UNCHANGED <<pipelined, keep, fileVars, job, written, global_steps, data_end, pending, taken,
                   previous_saved_paths, crashes, resumed>>

GenerationEnds ==
    /\ job = "up" /\ pending.batch > 0 /\ ~pending.ready
    /\ pending' = [pending EXCEPT !.ready = TRUE]
    /\ UNCHANGED <<pipelined, keep, fileVars, job, at, saveVars, global_steps, weights, position, data_end, taken,
                   previous_saved_paths, crashes, resumed>>

\* The pipelined trainer waits for the generation and starts the next one before
\* it trains on this one.
TakeBatch ==
    /\ job = "up" /\ at = "top" /\ pipelined /\ pending.ready
    /\ at' = "train" /\ taken' = pending
    /\ IF is_last_step THEN UNCHANGED <<pending, position>>
       ELSE /\ pending' = NextBatch(position, data_end)
            /\ position' = IF pending' = NoBatch THEN position ELSE position + 1
    /\ UNCHANGED <<pipelined, keep, fileVars, job, saveVars, global_steps, weights, data_end,
                   previous_saved_paths, crashes, resumed>>

TrainTaken ==
    /\ job = "up" /\ at = "train"
    /\ weights' = Append(weights, taken.batch)
    /\ AfterTraining
    /\ UNCHANGED <<pipelined, keep, fileVars, job, written, global_steps, position, data_end, pending, taken,
                   previous_saved_paths, crashes, resumed>>

\* The loop ends when the loader has no more batches, without a last step.
OutOfData ==
    /\ job = "up" /\ at = "top"
    /\ IF pipelined THEN pending = NoBatch ELSE position = data_end
    /\ job' = "done"
    /\ UNCHANGED <<pipelined, keep, fileVars, at, saveVars, loopVars, previous_saved_paths, crashes, resumed>>

EndStep ==
    /\ job = "up" /\ at = "next"
    /\ global_steps' = global_steps + 1
    /\ job' = IF is_last_step THEN "done" ELSE "up"
    /\ at' = "top"
    /\ UNCHANGED <<pipelined, keep, fileVars, saveVars, weights, position, data_end, pending, taken,
                   previous_saved_paths, crashes, resumed>>

-----------------------------------------------------------------------------
(* _save_checkpoint: each worker group in turn, then data.pt, then the      *)
(* tracker, which is truncated when it is opened.                           *)

OnlySaves == UNCHANGED <<pipelined, keep, job, loopVars, crashes, resumed>>

\* Mutant of Removed: one checkpoint too many is removed.
OneTooMany(paths) ==
    IF keep > 0 /\ Len(paths) + 1 >= keep THEN Len(paths) ELSE 0
\* How many of the saved paths rank 0 removes before a save.
Removed(paths) ==
    IF keep > 0 /\ Len(paths) >= keep THEN Len(paths) - keep + 1 ELSE 0

\* Rank 0 removes old checkpoints of its group; then the barrier.  A directory
\* half removed cannot be loaded either.
Rotate ==
    /\ job = "up" /\ at = "rotate"
    /\ LET g == Groups[group]
           paths == previous_saved_paths[g]
           k == Removed(paths)
           gone == {paths[i] : i \in 1..k}
       IN  /\ shard' = [shard EXCEPT ![g] = [n \in Steps |->
                          IF n \in gone THEN [r \in Ranks |-> NoFile] ELSE @[n]]]
           /\ previous_saved_paths' = [previous_saved_paths EXCEPT ![g] = SubSeq(@, k + 1, Len(@))]
    /\ at' = "write" /\ written' = {}
    /\ UNCHANGED <<tracker, data, group>> /\ OnlySaves

\* A rank begins to write its file, and has written it.
BeginShard(r) ==
    /\ job = "up" /\ at = "write" /\ r \notin written
    /\ shard[Groups[group]][global_steps][r] # Partial
    /\ shard' = [shard EXCEPT ![Groups[group]][global_steps][r] = Partial]
    /\ UNCHANGED <<tracker, data, at, saveVars, previous_saved_paths>> /\ OnlySaves

EndShard(r) ==
    /\ job = "up" /\ at = "write" /\ r \notin written
    /\ shard[Groups[group]][global_steps][r] = Partial
    /\ shard' = [shard EXCEPT ![Groups[group]][global_steps][r] = weights]
    /\ written' = written \union {r}
    /\ UNCHANGED <<tracker, data, at, group, previous_saved_paths>> /\ OnlySaves

\* The barrier behind the writes; the path is remembered.
EndGroup ==
    /\ job = "up" /\ at = "write" /\ written = Ranks
    /\ previous_saved_paths' = [previous_saved_paths EXCEPT ![Groups[group]] = Append(@, global_steps)]
    /\ IF group < Len(Groups) THEN at' = "rotate" /\ group' = group + 1
                              ELSE at' = "data" /\ UNCHANGED group
    /\ UNCHANGED <<fileVars, written>> /\ OnlySaves

\* Mutant of Position: the position is counted a batch too far.
PositionAhead == position + 1
Position == position

SaveData ==
    /\ job = "up" /\ at = "data"
    /\ data' = [data EXCEPT ![global_steps] = Position]
    /\ at' = "open"
    /\ UNCHANGED <<tracker, shard, saveVars, previous_saved_paths>> /\ OnlySaves

OpenTracker ==
    /\ job = "up" /\ at = "open"
    /\ tracker' = Empty /\ at' = "track"
    /\ UNCHANGED <<shard, data, saveVars, previous_saved_paths>> /\ OnlySaves

WriteTracker ==
    /\ job = "up" /\ at = "track"
    /\ tracker' = global_steps /\ at' = "next"
    /\ UNCHANGED <<shard, data, saveVars, previous_saved_paths>> /\ OnlySaves

\* The job is killed, or has ended and is started again.
Crash ==
    /\ job \in {"up", "done"} /\ crashes < MaxCrashes
    /\ crashes' = crashes + 1
    /\ job' = "down" /\ at' = "top" /\ group' = 1 /\ written' = {}
    /\ global_steps' = 0 /\ weights' = <<>> /\ position' = 0 /\ data_end' = 0
    /\ pending' = NoBatch /\ taken' = NoBatch
    /\ previous_saved_paths' = [g \in Managers |-> <<>>]
    /\ UNCHANGED <<pipelined, keep, fileVars, resumed>>

JobOver ==
    /\ job = "load_failed" \/ (job = "done" /\ crashes = MaxCrashes)
    /\ UNCHANGED recoveryVars

SaveStep ==
    \/ Rotate \/ EndGroup \/ SaveData \/ OpenTracker \/ WriteTracker
    \/ \E r \in Ranks : BeginShard(r) \/ EndShard(r)

RecoveryStep ==
    \/ FromScratch \/ Resume \/ LoadFails
    \/ TrainBatch \/ GenerationEnds \/ TakeBatch \/ TrainTaken \/ OutOfData \/ EndStep
    \/ SaveStep \/ Crash

RecoveryNext == RecoveryStep \/ JobOver
RecoverySpec == RecoveryInit /\ [][RecoveryNext]_recoveryVars

-----------------------------------------------------------------------------

Increasing(w) == \A i \in 1..Len(w) - 1 : w[i] < w[i + 1]

RecoveryTypeOK ==
    /\ pipelined \in BOOLEAN /\ keep \in Keeps
    /\ tracker \in Steps \union {Missing, Empty}
    /\ shard \in [Managers -> [Steps -> [Ranks -> Seq(Int)]]]
    /\ data \in [Steps -> Nat]
    /\ job \in {"down", "up", "done", "load_failed"}
    /\ at \in {"top", "train", "rotate", "write", "data", "open", "track", "next"}
    /\ group \in 1..Len(Groups) /\ written \subseteq Ranks
    /\ global_steps \in Nat /\ weights \in Seq(Nat) /\ position \in Nat /\ data_end \in Nat
    /\ {pending, taken} \subseteq [batch : Nat, ready : BOOLEAN]
    /\ previous_saved_paths \in [Managers -> Seq(Steps)]
    /\ crashes \in 0..MaxCrashes /\ resumed \in 0..MaxCrashes

\* Wherever the job is killed, the checkpoint the tracker names is complete, from
\* one save and for its step, unless only one checkpoint is kept: then the actor's
\* files go before their successors are written.
TrackedIsComplete ==
    tracker \in Steps /\ keep # 1 =>
        /\ Complete(tracker)
        /\ Cardinality({shard[g][tracker][r] : g \in Managers, r \in Ranks}) = 1
        /\ \A r \in Ranks : Len(shard["actor"][tracker][r]) = tracker

\* What the weights have seen, through all restarts: the synchronous trainer trains
\* on the batches in their order, each once, and goes on exactly where the
\* checkpoint was; the pipelined one never sees a batch twice, and loses at most
\* the one batch that was being generated for each restart.
EachBatchOnce ==
    /\ Increasing(weights)
    /\ weights # <<>> =>
         weights[Len(weights)] <= Len(weights) + (IF pipelined THEN resumed ELSE 0)

\* A job that ends has made total_training_steps updates: the pipelined trainer
\* one less for each batch that restarts made it lose, for want of data, and a
\* finished job that is started again one more.
EndsOnLastStep ==
    job = "done" =>
        /\ Len(weights) >= total_training_steps - (IF pipelined THEN resumed ELSE 0)
        /\ Len(weights) <= total_training_steps + resumed
=============================================================================
