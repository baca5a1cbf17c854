----------------------- MODULE TrainingRecoveryProofs -----------------------
(***************************************************************************)
(* Checkpoints and crashes for any number of ranks, steps, crashes and     *)
(* kept checkpoints.  TrackedIsComplete: the checkpoint that the tracker   *)
(* names can be loaded (CheckpointInv).  EachBatchOnce, EndsOnLastStep:    *)
(* what the weights have seen, and how many updates a job makes            *)
(* (BatchInv).                                                             *)
(***************************************************************************)
EXTENDS TrainingRecovery, FiniteSetTheorems, SequenceTheorems, TLAPS

USE RecoveryAssumption

Models == Seq(Nat \ {0})
Files == {NoFile, Partial} \union Models
Batches == [batch : Nat, ready : BOOLEAN]

LEMMA TotalIsNat == total_training_steps \in Nat \ {0}
BY DEF total_training_steps

LEMMA GroupFacts ==
    /\ Len(Groups) \in Nat /\ Len(Groups) >= 1
    /\ \A i \in 1..Len(Groups) : Groups[i] \in Managers
    /\ \A i, j \in 1..Len(Groups) : Groups[i] = Groups[j] => i = j
    /\ \A g \in Managers : \E i \in 1..Len(Groups) : g = Groups[i]
    /\ "actor" \in Managers
<1>1. CASE Groups = <<"actor">>
  BY <1>1 DEF Managers
<1>2. CASE Groups = <<"actor", "critic">>
  BY <1>2 DEF Managers
<1> QED  BY <1>1, <1>2 DEF RecoveryAssumption

LEMMA FilesDiffer == \A w \in Models : w # NoFile /\ w # Partial
<1> SUFFICES ASSUME NEW w \in Models PROVE w # NoFile /\ w # Partial
  OBVIOUS
<1>1. Len(w) >= 1 => w[1] # 0 /\ w[1] # -1
  BY DEF Models
<1>2. Len(NoFile) = 1 /\ NoFile[1] = 0 /\ Len(Partial) = 1 /\ Partial[1] = -1
  BY DEF NoFile, Partial
<1> QED  BY <1>1, <1>2

-----------------------------------------------------------------------------
(* Types.                                                                   *)

FileType ==
    /\ tracker \in Steps \union {Missing, Empty}
    /\ shard \in [Managers -> [Steps -> [Ranks -> Files]]]
    /\ data \in [Steps -> Nat]
SaveType ==
    /\ group \in 1..Len(Groups) /\ written \subseteq Ranks
    /\ previous_saved_paths \in [Managers -> Seq(Steps)]
LoopType ==
    /\ keep \in Nat
    /\ job \in {"down", "up", "done", "load_failed"}
    /\ at \in {"top", "train", "rotate", "write", "data", "open", "track", "next"}
    /\ global_steps \in Nat /\ weights \in Models /\ position \in Nat
    /\ pending \in Batches /\ (pending.ready => pending.batch > 0)
    /\ taken \in Batches /\ (at = "train" => taken.batch > 0)
\* A restart of a finished job makes one step more than total_training_steps, so
\* that each crash allows the steps to go one further.
CountInv ==
    /\ crashes \in 0..MaxCrashes
    /\ job = "up" => global_steps \in 1..total_training_steps + crashes
    /\ job \in {"up", "done"} => tracker <= total_training_steps + crashes
    /\ job = "down" => tracker <= 0 \/ tracker < total_training_steps + crashes

Types == FileType /\ SaveType /\ LoopType /\ CountInv

LEMMA TypesInit == RecoveryInit => Types
<1> SUFFICES ASSUME RecoveryInit PROVE Types
  OBVIOUS
<1> USE DEF RecoveryInit
<1>1. FileType
  BY DEF FileType, Files
<1>2. SaveType
  BY GroupFacts DEF SaveType
<1>3. LoopType
  BY DEF LoopType, Models, Batches, NoBatch
<1>4. CountInv
  BY DEF CountInv, Missing
<1> QED  BY <1>1, <1>2, <1>3, <1>4 DEF Types

LEMMA StepInRange == Types /\ job = "up" => global_steps \in Steps
<1> SUFFICES ASSUME Types, job = "up" PROVE global_steps \in Steps
  OBVIOUS
<1>1. /\ global_steps \in 1..total_training_steps + crashes /\ crashes \in 0..MaxCrashes
      /\ total_training_steps \in Nat /\ MaxCrashes \in Nat
  BY TotalIsNat DEF Types, CountInv
<1> QED  BY <1>1 DEF Steps

LEMMA NextBatchType ==
    ASSUME NEW p \in Nat, NEW end
    PROVE  NextBatch(p, end) \in Batches /\ ~NextBatch(p, end).ready
BY DEF NextBatch, NoBatch, Batches

\* fit() starts with the weights w behind step n, and the loader at p.
LEMMA TypesStartFit ==
    ASSUME Types, NEW m \in Nat, NEW w \in Models, NEW p \in Nat, StartFit(m, w, p),
           m <= 0 \/ m < total_training_steps + crashes,
           tracker <= total_training_steps + crashes,
           UNCHANGED <<pipelined, keep, fileVars, saveVars, crashes>>
    PROVE  Types'
<1>1. FileType'
  BY DEF Types, FileType, fileVars
<1>2. SaveType'
  BY DEF Types, SaveType, StartFit, saveVars
<1>3. LoopType'
  <2>1. /\ keep' \in Nat /\ job' = "up" /\ at' = "top" /\ global_steps' = m + 1 /\ weights' = w
        /\ taken' = NoBatch /\ NoBatch \in Batches /\ ~NoBatch.ready
    BY DEF Types, LoopType, StartFit, NoBatch, Batches
  <2>2. /\ pending' \in Batches /\ ~pending'.ready
        /\ position' \in {p, p + 1}
    <3>1. CASE pipelined
      BY <3>1, NextBatchType DEF StartFit
    <3>2. CASE ~pipelined
      BY <3>2, <2>1 DEF StartFit
    <3> QED  BY <3>1, <3>2
  <2> QED  BY <2>1, <2>2 DEF LoopType
<1>4. CountInv'
  BY TotalIsNat DEF Types, CountInv, StartFit, fileVars
<1> QED  BY <1>1, <1>2, <1>3, <1>4 DEF Types

LEMMA TypesFromScratch == Types /\ FromScratch => Types'
<1> SUFFICES ASSUME Types, FromScratch PROVE Types'
  OBVIOUS
<1>1. <<>> \in Models
  BY DEF Models
<1>2. /\ StartFit(0, <<>>, 0) /\ tracker = 0
      /\ UNCHANGED <<pipelined, keep, fileVars, saveVars, crashes>>
  BY DEF FromScratch, Missing
<1>3. 0 <= total_training_steps + crashes
  BY TotalIsNat DEF Types, CountInv
<1> QED  BY <1>1, <1>2, <1>3, TypesStartFit

LEMMA TypesResume == Types /\ Resume => Types'
<1> SUFFICES ASSUME Types, Resume PROVE Types'
  OBVIOUS
<1>1. PICK r \in Ranks : StartFit(tracker, shard["actor"][tracker][r], data[tracker])
  BY DEF Resume
<1>2. tracker \in Steps /\ tracker \in Nat /\ tracker > 0 /\ data[tracker] \in Nat
  <2>1. tracker \in Steps
    BY DEF Resume
  <2> QED  BY <2>1 DEF Steps, Types, FileType
<1>3. shard["actor"][tracker][r] \in Models
  <2>1. "actor" \in Managers
    BY GroupFacts
  <2>2. shard["actor"][tracker][r] \in Files /\ shard["actor"][tracker][r] \notin {NoFile, Partial}
    BY <1>2, <2>1 DEF Types, FileType, Resume, Complete
  <2> QED  BY <2>2 DEF Files
<1>4. tracker < total_training_steps + crashes
  BY <1>2 DEF Types, CountInv, Resume
<1>5. tracker <= total_training_steps + crashes
  BY <1>2, <1>4, TotalIsNat DEF Types, CountInv
<1>6. UNCHANGED <<pipelined, keep, fileVars, saveVars, crashes>>
  BY DEF Resume
<1> QED  BY <1>1, <1>2, <1>3, <1>4, <1>5, <1>6, TypesStartFit

LEMMA ModelAppended == ASSUME NEW w \in Models, NEW b \in Nat, b > 0
                       PROVE  Append(w, b) \in Models /\ Len(Append(w, b)) = Len(w) + 1
<1>1. b \in Nat \ {0}
  OBVIOUS
<1> QED  BY <1>1 DEF Models

\* A step of fit() writes no file.
LEMMA TypesLoop ==
    ASSUME Types, TrainBatch \/ GenerationEnds \/ TakeBatch \/ TrainTaken \/ OutOfData \/ EndStep
    PROVE  Types'
<1>1. /\ UNCHANGED <<keep, fileVars, written, previous_saved_paths, crashes>> /\ group' \in {group, 1}
      /\ job = "up" /\ job' \in {"up", "done"}
      /\ at' \in {"top", "train", "rotate", "write", "data", "open", "track", "next"}
  BY DEF TrainBatch, GenerationEnds, TakeBatch, TrainTaken, OutOfData, EndStep, AfterTraining, saveVars, loopVars,
         Types, LoopType
<1>2. FileType' /\ SaveType'
  BY <1>1, GroupFacts DEF Types, FileType, SaveType, fileVars
<1>3. /\ global_steps' = global_steps \/ (~is_last_step /\ global_steps' = global_steps + 1)
         \/ (job' = "done" /\ global_steps' = global_steps + 1)
  BY DEF TrainBatch, GenerationEnds, TakeBatch, TrainTaken, OutOfData, EndStep, loopVars
<1>4. CountInv'
  BY <1>1, <1>3, TotalIsNat DEF Types, CountInv, LoopType, fileVars, is_last_step
<1>5. weights' \in Models
  <2>1. CASE TrainBatch
    <3>1. weights' = Append(weights, position + 1) /\ position + 1 \in Nat /\ position + 1 > 0
      BY <2>1 DEF TrainBatch, Types, LoopType
    <3> QED  BY <3>1, ModelAppended DEF Types, LoopType
  <2>2. CASE TrainTaken
    <3>1. weights' = Append(weights, taken.batch) /\ taken.batch \in Nat /\ taken.batch > 0
      BY <2>2 DEF TrainTaken, Types, LoopType, Batches
    <3> QED  BY <3>1, ModelAppended DEF Types, LoopType
  <2>3. CASE weights' = weights
    BY <2>3 DEF Types, LoopType
  <2> QED  BY <2>1, <2>2, <2>3 DEF GenerationEnds, TakeBatch, OutOfData, EndStep, loopVars
<1>6. /\ position' \in Nat /\ pending' \in Batches /\ (pending'.ready => pending'.batch > 0)
      /\ taken' \in Batches /\ (at' = "train" => taken'.batch > 0)
  <2>1. CASE TakeBatch
    <3>1. taken' = pending /\ pending.ready /\ position \in Nat /\ pending \in Batches /\ pending.batch > 0
      BY <2>1 DEF TakeBatch, Types, LoopType
    <3>2. CASE is_last_step
      BY <2>1, <3>1, <3>2 DEF TakeBatch
    <3>3. CASE ~is_last_step
      <4>1. pending' = NextBatch(position, data_end) /\ position' \in {position, position + 1}
        BY <2>1, <3>3 DEF TakeBatch
      <4> QED  BY <3>1, <4>1, NextBatchType
    <3> QED  BY <3>2, <3>3
  <2>2. CASE GenerationEnds
    <3>1. /\ pending' = [pending EXCEPT !.ready = TRUE] /\ pending.batch > 0 /\ pending \in Batches
          /\ UNCHANGED <<position, taken, at>>
      BY <2>2 DEF GenerationEnds, Types, LoopType
    <3> QED  BY <3>1 DEF Batches, Types, LoopType
  <2>3. CASE TrainBatch
    BY <2>3 DEF TrainBatch, AfterTraining, Types, LoopType
  <2>4. CASE TrainTaken \/ OutOfData \/ EndStep
    BY <2>4 DEF TrainTaken, AfterTraining, OutOfData, EndStep, loopVars, Types, LoopType
  <2> QED  BY <2>1, <2>2, <2>3, <2>4
<1>7. global_steps' \in Nat
  BY <1>3 DEF Types, LoopType
<1>8. LoopType'
  BY <1>1, <1>5, <1>6, <1>7 DEF Types, LoopType
<1> QED  BY <1>2, <1>4, <1>8 DEF Types

\* What a save leaves alone.
LEMMA SaveKeeps ==
    ASSUME SaveStep
    PROVE  /\ job = "up" /\ UNCHANGED <<pipelined, keep, job, loopVars, crashes, resumed>>
           /\ at' \in {"write", "rotate", "data", "open", "track", "next"}
BY DEF SaveStep, Rotate, EndGroup, SaveData, OpenTracker, WriteTracker, BeginShard, EndShard, OnlySaves, saveVars

\* What rank 0 removes are the first of the saved paths, and never the last of
\* them when more than one is kept.
LEMMA RemovedBounds ==
    ASSUME NEW paths \in Seq(Steps), keep \in Nat
    PROVE  /\ Removed(paths) \in 0..Len(paths) + 1
           /\ keep # 1 => Removed(paths) = 0 \/ Removed(paths) < Len(paths)
           /\ keep = 1 => Removed(paths) <= Len(paths)
BY DEF Removed

LEMMA TypesRotate == Types /\ Rotate => Types'
<1> SUFFICES ASSUME Types, Rotate PROVE Types'
  OBVIOUS
<1> DEFINE g == Groups[group]
           paths == previous_saved_paths[g]
           k == Removed(paths)
<1>1. g \in Managers /\ paths \in Seq(Steps) /\ keep \in Nat
  BY GroupFacts DEF Types, SaveType, LoopType
<1>2. k \in 0..Len(paths)
  BY <1>1, RemovedBounds
<1>3. PICK gone : shard' = [shard EXCEPT ![g] = [m \in Steps |->
                              IF m \in gone THEN [r \in Ranks |-> NoFile] ELSE @[m]]]
  BY DEF Rotate
<1>4. previous_saved_paths' = [previous_saved_paths EXCEPT ![g] = SubSeq(paths, k + 1, Len(paths))]
  BY DEF Rotate
<1> HIDE DEF k, paths
<1>5. SubSeq(paths, k + 1, Len(paths)) \in Seq(Steps)
  BY <1>1, <1>2, SubSeqProperties
<1> HIDE DEF g
<1>6. SaveType'
  BY <1>1, <1>4, <1>5 DEF Types, SaveType, Rotate
<1>7. FileType'
  <2>1. NoFile \in Files
    BY DEF Files
  <2>2. shard[g] \in [Steps -> [Ranks -> Files]]
    BY <1>1 DEF Types, FileType
  <2>3. [m \in Steps |-> IF m \in gone THEN [r \in Ranks |-> NoFile] ELSE shard[g][m]]
           \in [Steps -> [Ranks -> Files]]
    BY <2>1, <2>2
  <2>4. shard' \in [Managers -> [Steps -> [Ranks -> Files]]]
    BY <1>3, <2>3 DEF Types, FileType
  <2> QED  BY <2>4 DEF Types, FileType, Rotate
<1>8. LoopType' /\ CountInv'
  BY DEF Types, LoopType, CountInv, Rotate, OnlySaves, loopVars
<1> QED  BY <1>6, <1>7, <1>8 DEF Types

\* A rank's file changes, and no other.
LEMMA ShardWritten ==
    ASSUME Types, job = "up", NEW r \in Ranks, NEW file \in Files,
           shard' = [shard EXCEPT ![Groups[group]][global_steps][r] = file]
    PROVE  /\ shard' \in [Managers -> [Steps -> [Ranks -> Files]]]
           /\ shard'[Groups[group]][global_steps][r] = file
           /\ \A g \in Managers, m \in Steps, q \in Ranks :
                g # Groups[group] \/ m # global_steps \/ q # r => shard'[g][m][q] = shard[g][m][q]
<1> DEFINE G == Groups[group]
           S == global_steps
<1>1. G \in Managers /\ S \in Steps /\ shard \in [Managers -> [Steps -> [Ranks -> Files]]]
  BY GroupFacts, StepInRange DEF Types, SaveType, FileType
<1>2. shard' = [shard EXCEPT ![G] = [shard[G] EXCEPT ![S] = [shard[G][S] EXCEPT ![r] = file]]]
  OBVIOUS
<1> HIDE DEF G, S
<1>3. [shard[G][S] EXCEPT ![r] = file] \in [Ranks -> Files]
  BY <1>1
<1>4. [shard[G] EXCEPT ![S] = [shard[G][S] EXCEPT ![r] = file]] \in [Steps -> [Ranks -> Files]]
  BY <1>1, <1>3
<1>5. shard' \in [Managers -> [Steps -> [Ranks -> Files]]]
  BY <1>1, <1>2, <1>4
<1>6. shard'[G][S][r] = file
  BY <1>1, <1>2
<1>7. \A g \in Managers, m \in Steps, q \in Ranks : g # G \/ m # S \/ q # r => shard'[g][m][q] = shard[g][m][q]
  BY <1>1, <1>2
<1> QED  BY <1>5, <1>6, <1>7 DEF G, S

LEMMA TypesShard == ASSUME Types, NEW r \in Ranks, BeginShard(r) \/ EndShard(r) PROVE Types'
<1>1. Partial \in Files /\ weights \in Files
  BY DEF Files, Types, LoopType
<1>2. FileType'
  BY <1>1, ShardWritten DEF BeginShard, EndShard, Types, FileType
<1>3. SaveType' /\ LoopType' /\ CountInv'
  BY DEF Types, SaveType, LoopType, CountInv, BeginShard, EndShard, saveVars, OnlySaves, loopVars
<1> QED  BY <1>2, <1>3 DEF Types

LEMMA TypesSave ==
    ASSUME Types, EndGroup \/ SaveData \/ OpenTracker \/ WriteTracker
    PROVE  Types'
<1>1. job = "up" /\ global_steps \in Steps
  BY StepInRange DEF EndGroup, SaveData, OpenTracker, WriteTracker
<1>2. LoopType'
  BY DEF Types, LoopType, EndGroup, SaveData, OpenTracker, WriteTracker, saveVars, OnlySaves, loopVars
<1>3. FileType'
  BY <1>1 DEF Types, FileType, LoopType, EndGroup, SaveData, Position, OpenTracker, WriteTracker, fileVars
<1>4. SaveType'
  <2>1. CASE EndGroup
    <3>1. Groups[group] \in Managers /\ previous_saved_paths[Groups[group]] \in Seq(Steps)
      BY GroupFacts DEF Types, SaveType
    <3>2. previous_saved_paths' = [previous_saved_paths EXCEPT
             ![Groups[group]] = Append(previous_saved_paths[Groups[group]], global_steps)]
      BY <2>1 DEF EndGroup
    <3>3. Append(previous_saved_paths[Groups[group]], global_steps) \in Seq(Steps)
      BY <1>1, <3>1
    <3>4. previous_saved_paths' \in [Managers -> Seq(Steps)]
      BY <3>1, <3>2, <3>3 DEF Types, SaveType
    <3>5. group' \in 1..Len(Groups) /\ written' \subseteq Ranks
      BY <2>1, GroupFacts DEF Types, SaveType, EndGroup
    <3> QED  BY <3>4, <3>5 DEF SaveType
  <2>2. CASE SaveData \/ OpenTracker \/ WriteTracker
    BY <2>2 DEF Types, SaveType, SaveData, OpenTracker, WriteTracker, saveVars
  <2> QED  BY <2>1, <2>2
<1>5. CountInv'
  <2>1. UNCHANGED <<crashes, job, global_steps>> /\ tracker' \in {tracker, Empty, global_steps}
    BY DEF EndGroup, SaveData, OpenTracker, WriteTracker, fileVars, OnlySaves, loopVars
  <2> QED  BY <1>1, <2>1, TotalIsNat DEF Types, CountInv, Empty
<1> QED  BY <1>2, <1>3, <1>4, <1>5 DEF Types

LEMMA TypesCrash == Types /\ (Crash \/ LoadFails) => Types'
<1> SUFFICES ASSUME Types, Crash \/ LoadFails PROVE Types'
  OBVIOUS
<1>1. FileType'
  BY DEF Types, FileType, Crash, LoadFails, fileVars
<1>2. SaveType'
  <2>1. CASE Crash
    <3>1. <<>> \in Seq(Steps) /\ 1 \in 1..Len(Groups)
      BY GroupFacts
    <3> QED  BY <2>1, <3>1 DEF Crash, SaveType
  <2>2. CASE LoadFails
    BY <2>2 DEF Types, SaveType, LoadFails, saveVars
  <2> QED  BY <2>1, <2>2
<1>3. LoopType'
  <2>1. CASE Crash
    <3>1. <<>> \in Models /\ NoBatch \in Batches /\ ~NoBatch.ready
      BY DEF Models, NoBatch, Batches
    <3> QED  BY <2>1, <3>1 DEF Crash, Types, LoopType
  <2>2. CASE LoadFails
    BY <2>2 DEF Types, LoopType, LoadFails, loopVars
  <2> QED  BY <2>1, <2>2
<1>4. CountInv'
  <2>1. CASE Crash
    <3>1. /\ crashes' = crashes + 1 /\ crashes < MaxCrashes /\ job' = "down" /\ tracker' = tracker
          /\ tracker <= total_training_steps + crashes /\ crashes \in 0..MaxCrashes
      BY <2>1 DEF Crash, fileVars, Types, CountInv
    <3>2. tracker \in Int
      BY DEF Types, FileType, Steps, Missing, Empty
    <3> QED  BY <3>1, <3>2, TotalIsNat DEF CountInv
  <2>2. CASE LoadFails
    BY <2>2 DEF LoadFails, Types, CountInv, fileVars, loopVars
  <2> QED  BY <2>1, <2>2
<1> QED  BY <1>1, <1>2, <1>3, <1>4 DEF Types

LEMMA TypesNext == Types /\ [RecoveryNext]_recoveryVars => Types'
<1> SUFFICES ASSUME Types, [RecoveryNext]_recoveryVars PROVE Types'
  OBVIOUS
<1>1. CASE UNCHANGED recoveryVars
  BY <1>1 DEF recoveryVars, fileVars, saveVars, loopVars, Types, FileType, SaveType, LoopType, CountInv
<1>2. CASE RecoveryStep
  BY <1>2, TypesFromScratch, TypesResume, TypesLoop, TypesRotate, TypesShard, TypesSave, TypesCrash
  DEF RecoveryStep, SaveStep
<1> QED  BY <1>1, <1>2 DEF RecoveryNext, JobOver

-----------------------------------------------------------------------------
(* The checkpoints.                                                         *)

\* All files of step m hold the weights w.
Holds(m, w) == \A g \in Managers, r \in Ranks : shard[g][m][r] = w

\* Has worker group g saved the present step?
SavedNow(g) ==
    \/ at \in {"data", "open", "track"}
    \/ at \in {"rotate", "write"} /\ \E i \in 1..group - 1 : g = Groups[i]

\* The tracked checkpoint is complete and of its own step.
Tracked == tracker \in Steps => \E w \in Models : Len(w) = tracker /\ Holds(tracker, w)

\* The step that is trained or saved is not the tracked one, until it is.
Ahead ==
    /\ Len(weights) = IF at \in {"top", "train"} THEN global_steps - 1 ELSE global_steps
    /\ tracker <= global_steps /\ (at # "next" => tracker < global_steps)

\* What this save has written holds the weights.
SavedSoFar ==
    /\ at = "write" => \A r \in written : shard[Groups[group]][global_steps][r] = weights
    /\ \A g \in Managers, r \in Ranks : SavedNow(g) => shard[g][global_steps][r] = weights

\* A group's paths are the steps it has saved in this run, in their order, the
\* tracked one last until it saves the present one.
Paths(g) ==
    LET p == previous_saved_paths[g] IN
    /\ \A i, j \in 1..Len(p) : i < j => p[i] < p[j]
    /\ Len(p) > 0 => p[Len(p)] = IF SavedNow(g) THEN global_steps ELSE tracker

RunInv == Ahead /\ SavedSoFar /\ \A g \in Managers : Paths(g)

\* With one checkpoint kept none of this is so.
CheckpointInv == Types /\ (keep # 1 => Tracked /\ (job = "up" => RunInv))

LEMMA CheckpointInit == RecoveryInit => CheckpointInv
<1> SUFFICES ASSUME RecoveryInit PROVE CheckpointInv
  OBVIOUS
<1>1. tracker \notin Steps /\ job = "down"
  BY DEF RecoveryInit, Missing, Steps
<1> QED  BY <1>1, TypesInit DEF CheckpointInv, Tracked

LEMMA TrackedKept ==
    ASSUME Tracked, tracker' = tracker, shard' = shard
    PROVE  Tracked'
BY DEF Tracked, Holds

\* A run begins one step behind the tracked one.
LEMMA CheckpointStart ==
    ASSUME CheckpointInv, Types', keep # 1, NEW m \in Nat, NEW w \in Models, NEW p, StartFit(m, w, p),
           tracker = m, Len(w) = m, UNCHANGED fileVars
    PROVE  Tracked' /\ RunInv'
<1>1. /\ at' = "top" /\ global_steps' = m + 1 /\ weights' = w /\ tracker' = m /\ shard' = shard
      /\ previous_saved_paths' = [g \in Managers |-> <<>>]
  BY DEF StartFit, fileVars
<1>2. Tracked'
  BY <1>1, TrackedKept DEF CheckpointInv, fileVars
<1>3. Ahead'
  BY <1>1 DEF Ahead
<1>4. SavedSoFar'
  BY <1>1 DEF SavedSoFar, SavedNow
<1>5. ASSUME NEW g \in Managers PROVE Paths(g)'
  <2>1. previous_saved_paths'[g] = <<>>
    BY <1>1
  <2> QED  BY <2>1 DEF Paths
<1> QED  BY <1>2, <1>3, <1>4, <1>5 DEF RunInv

LEMMA CheckpointFromScratch == CheckpointInv /\ FromScratch => CheckpointInv'
<1> SUFFICES ASSUME CheckpointInv, FromScratch PROVE CheckpointInv'
  OBVIOUS
<1>1. Types' /\ keep' = keep
  BY TypesFromScratch DEF CheckpointInv, FromScratch
<1>2. StartFit(0, <<>>, 0) /\ tracker = 0 /\ UNCHANGED fileVars /\ <<>> \in Models /\ Len(<<>>) = 0
  BY DEF FromScratch, Missing, Models
<1>3. keep # 1 => Tracked' /\ RunInv'
  BY <1>1, <1>2, CheckpointStart
<1> QED  BY <1>1, <1>3 DEF CheckpointInv

LEMMA CheckpointResume == CheckpointInv /\ Resume => CheckpointInv'
<1> SUFFICES ASSUME CheckpointInv, Resume PROVE CheckpointInv'
  OBVIOUS
<1>1. Types' /\ keep' = keep
  BY TypesResume DEF CheckpointInv, Resume
<1>2. PICK r \in Ranks : StartFit(tracker, shard["actor"][tracker][r], data[tracker])
  BY DEF Resume
<1>3. tracker \in Steps /\ tracker \in Nat /\ UNCHANGED fileVars
  BY DEF Resume, Steps
<1>4. ASSUME keep # 1 PROVE Tracked' /\ RunInv'
  <2>1. PICK w \in Models : Len(w) = tracker /\ Holds(tracker, w)
    BY <1>3, <1>4 DEF CheckpointInv, Tracked
  <2>2. shard["actor"][tracker][r] = w
    BY <2>1, GroupFacts DEF Holds
  <2> QED  BY <1>1, <1>2, <1>3, <1>4, <2>1, <2>2, CheckpointStart
<1> QED  BY <1>1, <1>4 DEF CheckpointInv

\* The length of the weights follows the steps: the steps of fit().
LEMMA AheadLoop ==
    ASSUME Types, Ahead, TrainBatch \/ TakeBatch \/ TrainTaken \/ EndStep
    PROVE  Ahead'
<1>1. tracker' = tracker /\ at \in {"top", "train", "next"} /\ at' \in {"top", "train", "next", "rotate"}
  BY DEF TrainBatch, TakeBatch, TrainTaken, EndStep, AfterTraining, fileVars
<1>2. tracker \in Int /\ global_steps \in Nat /\ weights \in Models /\ position \in Nat /\ taken \in Batches
  BY DEF Types, FileType, LoopType, Steps, Missing, Empty
<1>3. CASE TrainBatch
  <2>1. at = "top" /\ at' \in {"rotate", "next"} /\ weights' = Append(weights, position + 1)
        /\ global_steps' = global_steps
    BY <1>3 DEF TrainBatch, AfterTraining
  <2>2. Len(weights') = Len(weights) + 1
    BY <1>2, <2>1 DEF Models
  <2> QED  BY <1>1, <1>2, <2>1, <2>2 DEF Ahead
<1>4. CASE TrainTaken
  <2>1. at = "train" /\ at' \in {"rotate", "next"} /\ weights' = Append(weights, taken.batch)
        /\ global_steps' = global_steps
    BY <1>4 DEF TrainTaken, AfterTraining
  <2>2. Len(weights') = Len(weights) + 1
    <3>1. taken.batch > 0 /\ taken.batch \in Nat
      BY <1>2, <2>1 DEF Types, LoopType, Batches
    <3> QED  BY <1>2, <2>1, <3>1, ModelAppended
  <2> QED  BY <1>1, <1>2, <2>1, <2>2 DEF Ahead
<1>5. CASE TakeBatch
  BY <1>1, <1>2, <1>5 DEF TakeBatch, Ahead
<1>6. CASE EndStep
  BY <1>1, <1>2, <1>6 DEF EndStep, Ahead
<1> QED  BY <1>3, <1>4, <1>5, <1>6

\* fit() between two saves.
LEMMA CheckpointLoop ==
    ASSUME CheckpointInv, Types', TrainBatch \/ TakeBatch \/ TrainTaken \/ EndStep
    PROVE  CheckpointInv'
<1>1. /\ UNCHANGED <<keep, tracker, shard, previous_saved_paths>> /\ job = "up"
      /\ at \in {"top", "train", "next"} /\ at' \in {"top", "train", "next", "rotate"}
      /\ at' = "rotate" => group' = 1
  BY DEF TrainBatch, TakeBatch, TrainTaken, EndStep, AfterTraining, fileVars
<1>2. SUFFICES ASSUME keep # 1 PROVE Tracked' /\ RunInv'
  BY <1>1 DEF CheckpointInv
<1>3. Tracked /\ Ahead /\ \A g \in Managers : Paths(g)
  BY <1>1, <1>2 DEF CheckpointInv, RunInv
<1>4. \A g \in Managers : ~SavedNow(g) /\ ~SavedNow(g)'
  BY <1>1 DEF SavedNow
<1>5. Tracked'
  BY <1>1, <1>3, TrackedKept
<1>6. Ahead'
  BY <1>3, AheadLoop DEF CheckpointInv
<1>7. SavedSoFar'
  BY <1>1, <1>4 DEF SavedSoFar
<1>8. \A g \in Managers : Paths(g)'
  BY <1>1, <1>3, <1>4 DEF Paths
<1> QED  BY <1>5, <1>6, <1>7, <1>8 DEF RunInv

\* What neither saves nor moves the loop.
LEMMA CheckpointOthers ==
    ASSUME CheckpointInv, Types', GenerationEnds \/ OutOfData \/ LoadFails \/ Crash
    PROVE  CheckpointInv'
<1>1. UNCHANGED <<keep, tracker, shard>>
  BY DEF GenerationEnds, OutOfData, LoadFails, Crash, fileVars
<1>2. keep # 1 => Tracked'
  BY <1>1, TrackedKept DEF CheckpointInv
<1>3. \/ job' # "up"
      \/ job = "up" /\ UNCHANGED <<at, group, written, global_steps, weights, previous_saved_paths>>
  BY DEF GenerationEnds, OutOfData, LoadFails, Crash, saveVars
<1>4. ASSUME keep # 1, job' = "up" PROVE RunInv'
  BY <1>1, <1>3, <1>4 DEF CheckpointInv, RunInv, Ahead, SavedSoFar, SavedNow, Paths
<1> QED  BY <1>1, <1>2, <1>4 DEF CheckpointInv

\* While a group is saved it has not been saved yet.
LEMMA NotSavedYet == SaveType /\ at \in {"rotate", "write"} => ~SavedNow(Groups[group])
<1> SUFFICES ASSUME SaveType, at \in {"rotate", "write"}, NEW i \in 1..group - 1, Groups[group] = Groups[i]
             PROVE  FALSE
  BY DEF SavedNow
<1>1. i \in 1..Len(Groups) /\ group \in 1..Len(Groups) /\ i # group
  BY GroupFacts DEF SaveType
<1> QED  BY <1>1, GroupFacts

\* The tracked checkpoint is not among those that are removed.
LEMMA CheckpointRotate == CheckpointInv /\ Rotate => CheckpointInv'
<1> SUFFICES ASSUME CheckpointInv, Rotate PROVE CheckpointInv'
  OBVIOUS
<1> DEFINE G == Groups[group]
           paths == previous_saved_paths[G]
           k == Removed(paths)
           gone == {paths[i] : i \in 1..k}
<1>1. /\ Types /\ Types' /\ job = "up" /\ at = "rotate" /\ at' = "write" /\ written' = {}
      /\ UNCHANGED <<keep, tracker, group, global_steps, weights>>
  BY TypesRotate DEF CheckpointInv, Rotate, OnlySaves, loopVars
<1>2. SUFFICES ASSUME keep # 1 PROVE Tracked' /\ RunInv'
  BY <1>1 DEF CheckpointInv
<1>3. Tracked /\ Ahead /\ SavedSoFar /\ \A g \in Managers : Paths(g)
  BY <1>1, <1>2 DEF CheckpointInv, RunInv
<1>4. /\ G \in Managers /\ paths \in Seq(Steps) /\ Len(paths) \in Nat
      /\ k \in 0..Len(paths) + 1 /\ (k = 0 \/ k < Len(paths))
  <2>1. G \in Managers /\ paths \in Seq(Steps) /\ keep \in Nat
    BY <1>1, GroupFacts DEF Types, SaveType, LoopType
  <2> HIDE DEF G, paths
  <2>2. k \in 0..Len(paths) + 1 /\ (k = 0 \/ k < Len(paths))
    BY <1>2, <2>1, RemovedBounds
  <2> QED  BY <2>1, <2>2
<1>5. ~SavedNow(G) /\ \A g \in Managers : SavedNow(g)' = SavedNow(g)
  BY <1>1, NotSavedYet DEF SavedNow, Types
<1>6. /\ \A i, j \in 1..Len(paths) : i < j => paths[i] < paths[j]
      /\ Len(paths) > 0 => paths[Len(paths)] = tracker
  BY <1>3, <1>4, <1>5 DEF Paths
<1>7. tracker \notin gone
  <2> SUFFICES ASSUME NEW i \in 1..k PROVE paths[i] # tracker
    OBVIOUS
  <2>1. i \in 1..Len(paths) /\ i < Len(paths) /\ Len(paths) \in 1..Len(paths)
    BY <1>4
  <2>2. paths[i] < paths[Len(paths)] /\ paths[Len(paths)] = tracker
    BY <2>1, <1>4, <1>6
  <2>3. paths[i] \in Int /\ paths[Len(paths)] \in Int
    <3>1. \A q \in Steps : q \in Int
      BY DEF Steps
    <3> QED  BY <2>1, <3>1, <1>4
  <2> HIDE DEF paths
  <2> QED  BY <2>2, <2>3
<1>8. shard' = [shard EXCEPT ![G] = [m \in Steps |-> IF m \in gone THEN [r \in Ranks |-> NoFile] ELSE shard[G][m]]]
  BY DEF Rotate
<1>9. previous_saved_paths' = [previous_saved_paths EXCEPT ![G] = SubSeq(paths, k + 1, Len(paths))]
  BY DEF Rotate
<1> HIDE DEF G, paths, k, gone
<1>10. /\ \A g \in Managers : g # G => shard'[g] = shard[g]
       /\ \A m \in Steps : m \notin gone => shard'[G][m] = shard[G][m]
  BY <1>1, <1>4, <1>8 DEF Types, FileType
<1>11. Tracked'
  <2> SUFFICES ASSUME tracker \in Steps PROVE \E w \in Models : Len(w) = tracker /\ Holds(tracker, w)'
    BY <1>1 DEF Tracked, Holds
  <2>1. PICK w \in Models : Len(w) = tracker /\ Holds(tracker, w)
    BY <1>3 DEF Tracked
  <2>2. \A g \in Managers : shard'[g][tracker] = shard[g][tracker]
    BY <1>7, <1>10
  <2> QED  BY <2>1, <2>2, <1>1 DEF Holds
<1>12. Ahead'
  BY <1>1, <1>3 DEF Ahead
<1>13. SavedSoFar'
  BY <1>1, <1>3, <1>5, <1>10 DEF SavedSoFar
<1>14. ASSUME NEW g \in Managers PROVE Paths(g)'
  <2>1. CASE g # G
    <3>1. previous_saved_paths'[g] = previous_saved_paths[g]
      BY <2>1, <1>9, <1>1 DEF Types, SaveType
    <3> QED  BY <3>1, <1>1, <1>3, <1>5 DEF Paths
  <2>2. CASE g = G
    <3> DEFINE p == SubSeq(paths, k + 1, Len(paths))
    <3>1. previous_saved_paths'[g] = p
      BY <2>2, <1>4, <1>9, <1>1 DEF Types, SaveType
    <3>2. /\ Len(p) = Len(paths) - k
          /\ \A i \in 1..Len(paths) - k : p[i] = paths[k + i]
      <4>1. k \in Nat /\ k <= Len(paths)
        BY <1>4
      <4> QED  BY <4>1, <1>4
    <3> HIDE DEF p
    <3>3. \A i \in 1..Len(p) : k + i \in 1..Len(paths) /\ p[i] = paths[k + i]
      BY <3>2, <1>4
    <3>4. ASSUME NEW i \in 1..Len(p), NEW j \in 1..Len(p), i < j PROVE p[i] < p[j]
      <4>1. k + i < k + j
        BY <3>2, <3>4, <1>4
      <4> QED  BY <4>1, <3>3, <1>6
    <3>5. Len(p) > 0 => p[Len(p)] = tracker
      <4> SUFFICES ASSUME Len(p) > 0 PROVE p[Len(p)] = tracker
        OBVIOUS
      <4>1. Len(p) \in 1..Len(p) /\ k + Len(p) = Len(paths) /\ Len(paths) > 0
        BY <3>2, <1>4
      <4> QED  BY <4>1, <3>3, <1>6
    <3>6. ~SavedNow(g)' /\ tracker' = tracker
      BY <2>2, <1>1, <1>4, <1>5
    <3> QED  BY <3>1, <3>4, <3>5, <3>6 DEF Paths
  <2> QED  BY <2>1, <2>2
<1> QED  BY <1>11, <1>12, <1>13, <1>14 DEF RunInv

\* A rank writes the file of the present step, which nobody tracks yet.
LEMMA CheckpointShard ==
    ASSUME CheckpointInv, NEW r \in Ranks, BeginShard(r) \/ EndShard(r)
    PROVE  CheckpointInv'
<1>1. /\ Types /\ Types' /\ job = "up" /\ at = "write" /\ r \notin written
      /\ UNCHANGED <<keep, tracker, at, group, global_steps, weights, previous_saved_paths>>
  BY TypesShard DEF CheckpointInv, BeginShard, EndShard, OnlySaves, saveVars, loopVars
<1>2. SUFFICES ASSUME keep # 1 PROVE Tracked' /\ RunInv'
  BY <1>1 DEF CheckpointInv
<1>3. Tracked /\ Ahead /\ SavedSoFar /\ \A g \in Managers : Paths(g)
  BY <1>1, <1>2 DEF CheckpointInv, RunInv
<1>4. PICK file \in Files :
        /\ shard' = [shard EXCEPT ![Groups[group]][global_steps][r] = file]
        /\ written' = written \/ (written' = written \union {r} /\ file = weights)
  BY <1>1 DEF BeginShard, EndShard, saveVars, Files, Types, LoopType
<1>5. /\ written' = written \/ (written' = written \union {r} /\ file = weights)
      /\ shard'[Groups[group]][global_steps][r] = file
      /\ \A g \in Managers, m \in Steps, q \in Ranks :
           g # Groups[group] \/ m # global_steps \/ q # r => shard'[g][m][q] = shard[g][m][q]
  BY <1>1, <1>4, ShardWritten
<1>6. global_steps \in Steps /\ Groups[group] \in Managers
  BY <1>1, StepInRange, GroupFacts DEF Types, SaveType
<1>7. Tracked'
  <2> SUFFICES ASSUME tracker \in Steps PROVE \E w \in Models : Len(w) = tracker /\ Holds(tracker, w)'
    BY <1>1 DEF Tracked, Holds
  <2>1. PICK w \in Models : Len(w) = tracker /\ Holds(tracker, w)
    BY <1>3 DEF Tracked
  <2>2. tracker # global_steps
    BY <1>1, <1>3 DEF Ahead, Types, LoopType
  <2> QED  BY <2>1, <2>2, <1>1, <1>5 DEF Holds
<1>8. \A g \in Managers : SavedNow(g)' = SavedNow(g) /\ (SavedNow(g) => g # Groups[group])
  BY <1>1, NotSavedYet DEF SavedNow, Types
<1>9. SavedSoFar'
  <2>1. ASSUME NEW q \in written' PROVE shard'[Groups[group]][global_steps][q] = weights
    <3>1. CASE q = r
      BY <3>1, <2>1, <1>1, <1>5
    <3>2. CASE q # r
      <4>1. q \in written /\ q \in Ranks
        BY <3>2, <2>1, <1>1, <1>5 DEF Types, SaveType
      <4> QED  BY <3>2, <4>1, <1>1, <1>3, <1>5, <1>6 DEF SavedSoFar
    <3> QED  BY <3>1, <3>2
  <2>2. ASSUME NEW g \in Managers, NEW q \in Ranks, SavedNow(g) PROVE shard'[g][global_steps][q] = weights
    BY <2>2, <1>3, <1>5, <1>6, <1>8 DEF SavedSoFar
  <2> QED  BY <2>1, <2>2, <1>1, <1>8 DEF SavedSoFar
<1>10. Ahead' /\ \A g \in Managers : Paths(g)'
  BY <1>1, <1>3, <1>8 DEF Ahead, Paths
<1> QED  BY <1>7, <1>9, <1>10 DEF RunInv

\* A group has saved: its path is the last, and the next group's turn comes.
LEMMA CheckpointEndGroup == CheckpointInv /\ EndGroup => CheckpointInv'
<1> SUFFICES ASSUME CheckpointInv, EndGroup PROVE CheckpointInv'
  OBVIOUS
<1> DEFINE G == Groups[group]
           p == previous_saved_paths[G]
<1>1. /\ Types /\ Types' /\ job = "up" /\ at = "write" /\ written = Ranks
      /\ UNCHANGED <<keep, tracker, shard, global_steps, weights>>
      /\ \/ group < Len(Groups) /\ at' = "rotate" /\ group' = group + 1
         \/ group >= Len(Groups) /\ at' = "data"
      /\ previous_saved_paths' = [previous_saved_paths EXCEPT ![G] = Append(p, global_steps)]
  BY TypesSave, GroupFacts DEF CheckpointInv, EndGroup, OnlySaves, loopVars, fileVars, Types, SaveType
<1>2. SUFFICES ASSUME keep # 1 PROVE Tracked' /\ RunInv'
  BY <1>1 DEF CheckpointInv
<1>3. Tracked /\ Ahead /\ SavedSoFar /\ \A g \in Managers : Paths(g)
  BY <1>1, <1>2 DEF CheckpointInv, RunInv
<1>4. G \in Managers /\ p \in Seq(Steps) /\ group \in 1..Len(Groups) /\ Len(Groups) \in Nat
  BY <1>1, GroupFacts DEF Types, SaveType
<1>5. ~SavedNow(G)
  BY <1>1, NotSavedYet DEF Types
<1>6. ASSUME NEW g \in Managers PROVE SavedNow(g)' <=> SavedNow(g) \/ g = G
  <2>1. PICK i \in 1..Len(Groups) : g = Groups[i]
    BY GroupFacts
  <2>2. SavedNow(g) <=> \E j \in 1..group - 1 : g = Groups[j]
    BY <1>1 DEF SavedNow
  <2>3. CASE group < Len(Groups)
    <3>1. SavedNow(g)' <=> \E j \in 1..group : g = Groups[j]
      <4>1. at' = "rotate" /\ group' = group + 1 /\ group' - 1 = group
        BY <1>1, <1>4, <2>3
      <4> QED  BY <4>1 DEF SavedNow
    <3>2. 1..group = (1..group - 1) \union {group}
      BY <1>4
    <3> QED  BY <2>2, <3>1, <3>2
  <2>4. CASE group >= Len(Groups)
    <3>1. SavedNow(g)'
      BY <1>1, <1>4, <2>4 DEF SavedNow
    <3>2. i \in 1..group - 1 \/ i = group
      BY <1>4, <2>4
    <3> QED  BY <2>1, <2>2, <3>1, <3>2
  <2> QED  BY <1>4, <2>3, <2>4
<1> HIDE DEF G, p
<1>7. Tracked'
  BY <1>1, <1>3, TrackedKept
<1>8. Ahead'
  BY <1>1, <1>3 DEF Ahead
<1>9. SavedSoFar'
  <2>1. at' # "write"
    BY <1>1
  <2>2. ASSUME NEW g \in Managers, NEW r \in Ranks, SavedNow(g)' PROVE shard'[g][global_steps'][r] = weights'
    BY <2>2, <1>1, <1>3, <1>6 DEF SavedSoFar, G
  <2> QED  BY <2>1, <2>2 DEF SavedSoFar
<1>10. ASSUME NEW g \in Managers PROVE Paths(g)'
  <2>1. CASE g # G
    <3>1. previous_saved_paths'[g] = previous_saved_paths[g] /\ (SavedNow(g)' <=> SavedNow(g))
      BY <2>1, <1>1, <1>6 DEF Types, SaveType
    <3> QED  BY <3>1, <1>1, <1>3 DEF Paths
  <2>2. CASE g = G
    <3> DEFINE new == Append(p, global_steps)
    <3>1. previous_saved_paths'[g] = new /\ SavedNow(g)'
      BY <2>2, <1>1, <1>4, <1>6 DEF Types, SaveType
    <3>2. /\ Len(p) \in Nat /\ Len(new) = Len(p) + 1 /\ new[Len(p) + 1] = global_steps
          /\ \A i \in 1..Len(p) : new[i] = p[i] /\ p[i] \in Int
      <4>1. global_steps \in Steps /\ \A q \in Steps : q \in Int
        BY <1>1, StepInRange DEF Steps
      <4>2. Len(p) \in Nat /\ \A i \in 1..Len(p) : p[i] \in Steps
        BY <1>4
      <4>3. /\ Len(new) = Len(p) + 1 /\ new[Len(p) + 1] = global_steps
            /\ \A i \in 1..Len(p) : new[i] = p[i]
        BY <1>4, <4>1, AppendProperties
      <4> QED  BY <4>1, <4>2, <4>3
    <3>3. ASSUME NEW i \in 1..Len(p) PROVE p[i] < global_steps
      <4>1. Len(p) \in 1..Len(p) /\ p[Len(p)] = tracker
        BY <1>3, <1>4, <1>5, <3>2 DEF Paths, p
      <4>2. tracker < global_steps /\ global_steps \in Int
        BY <1>1, <1>3 DEF Ahead, Types, LoopType
      <4>3. i = Len(p) \/ p[i] < p[Len(p)]
        BY <1>3, <1>4, <3>2, <4>1 DEF Paths, p
      <4>4. p[i] \in Int /\ p[Len(p)] \in Int
        BY <3>2, <4>1
      <4> QED  BY <4>1, <4>2, <4>3, <4>4
    <3>4. \A i, j \in 1..Len(p) : i < j => p[i] < p[j]
      BY <1>3, <1>4 DEF Paths, p
    <3> HIDE DEF new
    <3>5. ASSUME NEW i \in 1..Len(new), NEW j \in 1..Len(new), i < j PROVE new[i] < new[j]
      <4>1. i \in 1..Len(p) /\ (j \in 1..Len(p) \/ j = Len(p) + 1)
        BY <3>2, <3>5
      <4> QED  BY <4>1, <3>2, <3>3, <3>4, <3>5
    <3>6. new[Len(new)] = global_steps' 
      BY <3>2, <1>1
    <3> QED  BY <3>1, <3>5, <3>6 DEF Paths
  <2> QED  BY <2>1, <2>2
<1> QED  BY <1>7, <1>8, <1>9, <1>10 DEF RunInv

\* The tracker names the step once every group has saved it.
LEMMA CheckpointTracker ==
    ASSUME CheckpointInv, SaveData \/ OpenTracker \/ WriteTracker
    PROVE  CheckpointInv'
<1>1. /\ Types /\ Types' /\ job = "up" /\ at \in {"data", "open", "track"}
      /\ UNCHANGED <<keep, shard, group, global_steps, weights, previous_saved_paths>>
      /\ \/ at' \in {"open", "track"} /\ tracker' \in {tracker, Empty}
         \/ at' = "next" /\ tracker' = global_steps
  BY TypesSave DEF CheckpointInv, SaveData, OpenTracker, WriteTracker, OnlySaves, saveVars, loopVars
<1>2. SUFFICES ASSUME keep # 1 PROVE Tracked' /\ RunInv'
  BY <1>1 DEF CheckpointInv
<1>3. Tracked /\ Ahead /\ SavedSoFar /\ \A g \in Managers : Paths(g)
  BY <1>1, <1>2 DEF CheckpointInv, RunInv
<1>4. \A g \in Managers : SavedNow(g)
  BY <1>1 DEF SavedNow
<1>5. Holds(global_steps, weights) /\ Len(weights) = global_steps /\ weights \in Models /\ global_steps \in Nat
  BY <1>1, <1>3, <1>4 DEF SavedSoFar, Ahead, Holds, Types, LoopType
<1>6. CASE at' \in {"open", "track"} /\ tracker' \in {tracker, Empty}
  <2>1. \A g \in Managers : SavedNow(g)'
    BY <1>6 DEF SavedNow
  <2>2. Tracked'
    <3>1. Empty \notin Steps
      BY DEF Empty, Steps
    <3> QED  BY <3>1, <1>1, <1>3, <1>6, TrackedKept DEF Tracked
  <2>3. Ahead'
    BY <1>1, <1>3, <1>5, <1>6 DEF Ahead, Empty
  <2>4. SavedSoFar' /\ \A g \in Managers : Paths(g)'
    BY <1>1, <1>3, <1>4, <1>6, <2>1 DEF SavedSoFar, Paths
  <2> QED  BY <2>2, <2>3, <2>4 DEF RunInv
<1>7. CASE at' = "next" /\ tracker' = global_steps
  <2>1. \A g \in Managers : ~SavedNow(g)'
    BY <1>7 DEF SavedNow
  <2>2. Tracked'
    BY <1>1, <1>5, <1>7 DEF Tracked, Holds
  <2>3. Ahead'
    BY <1>1, <1>5, <1>7 DEF Ahead
  <2>4. SavedSoFar' /\ \A g \in Managers : Paths(g)'
    BY <1>1, <1>3, <1>4, <1>7, <2>1 DEF SavedSoFar, Paths
  <2> QED  BY <2>2, <2>3, <2>4 DEF RunInv
<1> QED  BY <1>1, <1>6, <1>7

LEMMA CheckpointNext == CheckpointInv /\ [RecoveryNext]_recoveryVars => CheckpointInv'
<1> SUFFICES ASSUME CheckpointInv, [RecoveryNext]_recoveryVars PROVE CheckpointInv'
  OBVIOUS
<1>1. Types'
  BY TypesNext DEF CheckpointInv
<1>2. CASE UNCHANGED recoveryVars
  BY <1>1, <1>2, TrackedKept DEF recoveryVars, fileVars, saveVars, loopVars, CheckpointInv, RunInv, Ahead,
     SavedSoFar, SavedNow, Paths
<1>3. CASE RecoveryStep
  BY <1>1, <1>3, CheckpointFromScratch, CheckpointResume, CheckpointLoop, CheckpointOthers, CheckpointRotate,
     CheckpointShard, CheckpointEndGroup, CheckpointTracker DEF RecoveryStep, SaveStep
<1> QED  BY <1>2, <1>3 DEF RecoveryNext, JobOver

\* _save_checkpoint, its managers and the tracker: wherever the job is killed, the
\* checkpoint the tracker names is complete, from one save and for its step, for
\* any number of ranks, saves and crashes, unless only one checkpoint is kept.
THEOREM TrackedIsCompleteCorrect == RecoverySpec => []TrackedIsComplete
<1>1. CheckpointInv => TrackedIsComplete
  <2> SUFFICES ASSUME CheckpointInv, tracker \in Steps, keep # 1
               PROVE  /\ Complete(tracker)
                      /\ Cardinality({shard[g][tracker][r] : g \in Managers, r \in Ranks}) = 1
                      /\ \A r \in Ranks : Len(shard["actor"][tracker][r]) = tracker
    BY DEF TrackedIsComplete
  <2>1. PICK w \in Models : Len(w) = tracker /\ Holds(tracker, w)
    BY DEF CheckpointInv, Tracked
  <2>2. Complete(tracker)
    BY <2>1, FilesDiffer DEF Complete, Holds
  <2>3. {shard[g][tracker][r] : g \in Managers, r \in Ranks} = {w}
    <3>1. PICK r \in Ranks : TRUE
      BY RecoveryAssumption
    <3> QED  BY <2>1, <3>1, GroupFacts DEF Holds
  <2>4. Cardinality({shard[g][tracker][r] : g \in Managers, r \in Ranks}) = 1
    <3> DEFINE held == {shard[g][tracker][r] : g \in Managers, r \in Ranks}
    <3>0. Cardinality({w}) = 1
      BY FS_Singleton
    <3>1. held = {w}
      BY <2>3
    <3> HIDE DEF held
    <3>2. Cardinality(held) = 1
      BY <3>0, <3>1
    <3> QED  BY <3>2 DEF held
  <2>5. \A r \in Ranks : Len(shard["actor"][tracker][r]) = tracker
    BY <2>1, GroupFacts DEF Holds
  <2> QED  BY <2>2, <2>4, <2>5
<1> QED  BY CheckpointInit, CheckpointNext, <1>1, PTL DEF RecoverySpec

-----------------------------------------------------------------------------
(* The batches.                                                             *)

\* The last batch that w has seen.
LastOf(w) == IF w = <<>> THEN 0 ELSE w[Len(w)]

\* What the weights w and the position p of one checkpoint have to do with each
\* other: the pipelined trainer may have lost a batch for each restart, and may be
\* generating one.
Good(w, p) ==
    /\ Increasing(w) /\ LastOf(w) <= p
    /\ IF pipelined THEN LastOf(w) <= Len(w) + resumed /\ p <= Len(w) + resumed + 1
                    ELSE LastOf(w) = Len(w) /\ p = Len(w)

\* The updates made or in the making, and the batch of the last one.
Updates == IF at = "train" THEN Len(weights) + 1 ELSE Len(weights)
LastBatch == IF at = "train" THEN taken.batch ELSE LastOf(weights)

\* The pipelined trainer hands out every batch after the last one, and as many
\* as it makes updates, but for those that restarts made it lose.
Handed ==
    /\ at = "train" => taken.batch > LastOf(weights)
    /\ LastBatch <= position /\ LastBatch <= Updates + resumed
    /\ position <= Updates + resumed + 1
    /\ at = "top" \/ ~is_last_step =>
          IF pending = NoBatch THEN position <= Updates + resumed /\ position >= data_end
                               ELSE pending.batch = position /\ LastBatch < position

\* The actor's files of the present step, once they are written.
ActorSaved ==
    /\ at = "write" /\ group = 1 =>
          \A r \in written : shard["actor"][global_steps][r] = weights
    /\ at \in {"data", "open", "track"} \/ (at \in {"rotate", "write"} /\ group > 1) =>
          \A r \in Ranks : shard["actor"][global_steps][r] = weights
    /\ at \in {"open", "track"} => data[global_steps] = position

BatchRun ==
    /\ Ahead /\ ActorSaved
    /\ global_steps <= total_training_steps + resumed
    /\ data_end \in Nat /\ data_end >= total_training_steps
    /\ Increasing(weights)
    /\ IF pipelined THEN Handed ELSE at # "train" /\ Good(weights, position)

\* What the tracked checkpoint still has of the actor belongs together.
TrackedGood ==
    tracker \in Steps =>
        /\ tracker <= total_training_steps + resumed
        /\ \A r \in Ranks : shard["actor"][tracker][r] \in Models =>
              /\ Len(shard["actor"][tracker][r]) = tracker
              /\ Good(shard["actor"][tracker][r], data[tracker])

BatchInv ==
    /\ Types /\ pipelined \in BOOLEAN /\ resumed \in Nat
    /\ TrackedGood
    /\ job = "up" => BatchRun
    /\ job \in {"down", "load_failed"} => weights = <<>>
    /\ job = "done" => EachBatchOnce /\ EndsOnLastStep
-----------------------------------------------------------------------------
\* One more batch behind the last one.
LEMMA OneMore ==
    ASSUME NEW w \in Models, NEW b \in Nat, Increasing(w), LastOf(w) < b
    PROVE  /\ Append(w, b) \in Models /\ Len(Append(w, b)) = Len(w) + 1
           /\ Increasing(Append(w, b)) /\ LastOf(Append(w, b)) = b
<1>1. LastOf(w) \in Nat /\ Len(w) \in Nat
  BY DEF LastOf, Models
<1>2. b \in Nat \ {0} /\ b > 0
  BY <1>1
<1>3. Append(w, b) \in Models /\ Len(Append(w, b)) = Len(w) + 1
  BY <1>2, ModelAppended
<1>4. /\ Append(w, b)[Len(w) + 1] = b
      /\ \A i \in 1..Len(w) : Append(w, b)[i] = w[i]
  BY <1>2 DEF Models
<1>5. LastOf(Append(w, b)) = b
  <2> DEFINE v == Append(w, b)
  <2>1. Len(v) = Len(w) + 1 /\ v[Len(w) + 1] = b /\ Len(<<>>) = 0
    BY <1>3, <1>4
  <2> HIDE DEF v
  <2>2. v # <<>> /\ v[Len(v)] = b
    BY <1>1, <2>1
  <2>3. LastOf(v) = b
    BY <2>2 DEF LastOf
  <2> QED BY <2>3 DEF v
<1>6. ASSUME NEW i \in 1..Len(Append(w, b)) - 1 PROVE Append(w, b)[i] < Append(w, b)[i + 1]
  <2>1. CASE i = Len(w)
    <3>1. w # <<>> /\ LastOf(w) = w[i]
      BY <2>1 DEF LastOf
    <3> QED BY <1>1, <1>4, <2>1, <3>1
  <2>2. CASE i # Len(w)
    <3>1. i \in 1..Len(w) - 1 /\ i \in 1..Len(w) /\ i + 1 \in 1..Len(w)
      BY <1>1, <1>3, <2>2
    <3> QED BY <1>4, <3>1 DEF Increasing
  <2> QED BY <2>1, <2>2
<1> QED BY <1>3, <1>5, <1>6 DEF Increasing

\* What LastOf is of.
LEMMA LastOfType == ASSUME NEW w \in Models PROVE LastOf(w) \in Nat /\ Len(w) \in Nat
BY DEF LastOf, Models

\* The loader has a whole number of epochs left to hand out, counted from its start.
LEMMA EndOfDataBound ==
    ASSUME NEW p \in Nat
    PROVE  EndOfData(p) \in Nat /\ EndOfData(p) >= total_training_steps
<1> DEFINE passes == IF p = 0 THEN 1 ELSE (p + EpochLength - 1) \div EpochLength
<1>1. EpochLength \in Nat \ {0} /\ total_epochs \in Nat \ {0}
  OBVIOUS
<1>2. passes \in Nat /\ passes >= 1
  <2>1. CASE p # 0
    <3> DEFINE q == (p + EpochLength - 1) \div EpochLength
               m == (p + EpochLength - 1) % EpochLength
    <3>1. /\ q \in Int /\ m \in 0..EpochLength - 1
          /\ p + EpochLength - 1 = EpochLength * q + m
      BY <1>1, <2>1
    <3>2. EpochLength * q > 0
      BY <1>1, <2>1, <3>1
    <3> HIDE DEF q, m
    <3>3. q > 0
      BY <1>1, <3>1, <3>2
    <3> QED BY <2>1, <3>1, <3>3 DEF q
  <2>2. CASE p = 0
    BY <2>2
  <2> QED BY <2>1, <2>2
<1>3. EndOfData(p) = (passes + total_epochs - 1) * EpochLength
  BY DEF EndOfData
<1> HIDE DEF passes
<1>4. PICK d \in Nat : d = passes - 1
  BY <1>2
<1>5. EndOfData(p) = (d + total_epochs) * EpochLength
  BY <1>1, <1>2, <1>3, <1>4
<1>6. (d + total_epochs) * EpochLength = d * EpochLength + EpochLength * total_epochs
      /\ d * EpochLength \in Nat /\ EpochLength * total_epochs \in Nat
  BY <1>1, <1>4
<1> QED BY <1>5, <1>6 DEF total_training_steps

\* A run begins with what the checkpoint holds.
LEMMA BatchStart ==
    ASSUME Types, Types', pipelined \in BOOLEAN, pipelined' = pipelined, resumed' \in Nat,
           NEW w \in Models, NEW p \in Nat, StartFit(Len(w), w, p),
           Len(w) + 1 <= total_training_steps + resumed', tracker' <= Len(w),
           Increasing(w), LastOf(w) <= p,
           IF pipelined THEN LastOf(w) <= Len(w) + resumed' /\ p <= Len(w) + resumed'
                        ELSE LastOf(w) = Len(w) /\ p = Len(w)
    PROVE  BatchRun'
<1>1. /\ at' = "top" /\ global_steps' = Len(w) + 1 /\ weights' = w /\ data_end' = EndOfData(p)
      /\ Len(w) \in Nat /\ LastOf(w) \in Nat
  BY LastOfType DEF StartFit
<1>2. data_end' \in Nat /\ data_end' >= total_training_steps
  BY <1>1, EndOfDataBound
<1>3. tracker' \in Int
  BY DEF Types, FileType, Steps, Missing, Empty
<1>4. Ahead' /\ ActorSaved'
  BY <1>1, <1>3 DEF Ahead, ActorSaved
<1>5. CASE pipelined
  <2>1. pending' = NextBatch(p, data_end') /\ position' = IF pending' = NoBatch THEN p ELSE p + 1
    BY <1>1, <1>5 DEF StartFit
  <2>2. CASE p < data_end'
    <3>1. pending' = [batch |-> p + 1, ready |-> FALSE]
      BY <2>1, <2>2 DEF NextBatch
    <3>2. pending'.batch = p + 1 /\ pending' # NoBatch
      BY <3>1 DEF NoBatch
    <3>3. Handed'
      BY <1>1, <1>5, <2>1, <3>2 DEF Handed, LastBatch, Updates
    <3> QED BY <1>1, <1>2, <1>4, <1>5, <3>3 DEF BatchRun
  <2>3. CASE ~(p < data_end')
    <3>1. pending' = NoBatch /\ position' = p
      BY <2>1, <2>3 DEF NextBatch
    <3>2. Handed'
      BY <1>1, <1>2, <1>5, <2>3, <3>1 DEF Handed, LastBatch, Updates
    <3> QED BY <1>1, <1>2, <1>4, <1>5, <3>2 DEF BatchRun
  <2> QED BY <2>2, <2>3
<1>6. CASE ~pipelined
  <2>1. position' = p
    BY <1>6 DEF StartFit
  <2>2. Good(w, p)'
    BY <1>1, <1>6, <2>1 DEF Good
  <2> QED BY <1>1, <1>2, <1>4, <1>6, <2>1, <2>2 DEF BatchRun
<1> QED BY <1>5, <1>6

LEMMA WeakerBound ==
    ASSUME NEW t \in Nat, NEW m \in Nat, NEW a \in Nat, NEW b \in Nat, t <= m + a, a <= b
    PROVE  t <= m + b
OBVIOUS

\* Of the tracked checkpoint, what matters stays.
LEMMA TrackedGoodKept ==
    ASSUME TrackedGood, Types, tracker' = tracker, pipelined' = pipelined,
           resumed \in Nat, resumed' \in Nat, resumed <= resumed',
           tracker \in Steps =>
             /\ data'[tracker] = data[tracker]
             /\ \A r \in Ranks : shard'["actor"][tracker][r] \in Models =>
                   shard'["actor"][tracker][r] = shard["actor"][tracker][r]
    PROVE  TrackedGood'
<1> SUFFICES ASSUME tracker \in Steps
             PROVE  /\ tracker <= total_training_steps + resumed'
                    /\ \A r \in Ranks : shard'["actor"][tracker][r] \in Models =>
                          /\ Len(shard'["actor"][tracker][r]) = tracker
                          /\ Good(shard["actor"][tracker][r], data[tracker])'
  BY DEF TrackedGood, Good
<1>1. tracker \in Nat /\ total_training_steps \in Nat
  BY TotalIsNat DEF Steps
<1>2. tracker <= total_training_steps + resumed'
  <2>1. tracker <= total_training_steps + resumed
    BY DEF TrackedGood
  <2> QED BY <1>1, <2>1, WeakerBound
<1>3. ASSUME NEW r \in Ranks, shard'["actor"][tracker][r] \in Models
      PROVE  /\ Len(shard'["actor"][tracker][r]) = tracker
             /\ Good(shard["actor"][tracker][r], data[tracker])'
  <2>1. PICK w \in Models, p \in Nat : w = shard["actor"][tracker][r] /\ p = data[tracker]
    BY <1>3 DEF Types, FileType
  <2>2. /\ Len(w) = tracker /\ Good(w, p)
        /\ shard'["actor"][tracker][r] = w /\ data'[tracker] = p
    BY <1>3, <2>1 DEF TrackedGood
  <2>3. LastOf(w) \in Nat /\ Len(w) \in Nat
    BY LastOfType
  <2>4. Good(w, p)'
    BY <2>2, <2>3 DEF Good
  <2> QED BY <2>2, <2>4, <1>3
<1> QED BY <1>2, <1>3

\* A rank's file that can be loaded is one that was written to its end.
LEMMA ActorIsFirst ==
    /\ "actor" = Groups[1] /\ "actor" \in Managers
    /\ \A i \in 1..Len(Groups) : i > 1 => Groups[i] # "actor"
BY DEF RecoveryAssumption, Managers

\* In the middle of a run, the properties follow.
LEMMA BatchRunEnds ==
    ASSUME Types, pipelined \in BOOLEAN, resumed \in Nat, BatchRun
    PROVE  /\ EachBatchOnce
           /\ LastOf(weights) <= Len(weights) + (IF pipelined THEN resumed ELSE 0)
<1>1. weights \in Models /\ Len(weights) \in Nat /\ LastOf(weights) \in Nat /\ taken.batch \in Nat
  BY LastOfType DEF Types, LoopType, Batches
<1>2. Increasing(weights)
  BY DEF BatchRun
<1>3. LastOf(weights) <= Len(weights) + (IF pipelined THEN resumed ELSE 0)
  <2>1. CASE pipelined
    <3>1. /\ at = "train" => taken.batch > LastOf(weights)
          /\ LastBatch <= Updates + resumed
      BY <2>1 DEF BatchRun, Handed
    <3>2. CASE at = "train"
      BY <1>1, <2>1, <3>1, <3>2 DEF LastBatch, Updates
    <3>3. CASE at # "train"
      BY <1>1, <2>1, <3>1, <3>3 DEF LastBatch, Updates
    <3> QED BY <3>2, <3>3
  <2>2. CASE ~pipelined
    BY <1>1, <2>2 DEF BatchRun, Good
  <2> QED BY <2>1, <2>2
<1> QED BY <1>2, <1>3 DEF EachBatchOnce, LastOf

LEMMA BatchFromScratch == BatchInv /\ FromScratch => BatchInv'
<1> SUFFICES ASSUME BatchInv, FromScratch PROVE BatchInv'
  OBVIOUS
<1>1. /\ Types /\ Types' /\ pipelined \in BOOLEAN /\ pipelined' = pipelined /\ TrackedGood
      /\ resumed \in Nat /\ resumed' = resumed
  BY TypesFromScratch DEF BatchInv, FromScratch
<1>2. StartFit(0, <<>>, 0) /\ tracker = 0 /\ UNCHANGED <<tracker, shard, data>> /\ job' = "up"
  BY DEF FromScratch, Missing, StartFit, fileVars
<1>3. TrackedGood'
  BY <1>1, <1>2, TrackedGoodKept
<1>4. /\ <<>> \in Models /\ Len(<<>>) = 0 /\ Increasing(<<>>) /\ LastOf(<<>>) = 0
  BY DEF Models, Increasing, LastOf
<1>5. BatchRun'
  <2>1. Len(<<>>) + 1 <= total_training_steps + resumed' /\ tracker' <= Len(<<>>)
    BY <1>1, <1>2, <1>4, TotalIsNat
  <2>2. IF pipelined THEN LastOf(<<>>) <= Len(<<>>) + resumed' /\ 0 <= Len(<<>>) + resumed'
                     ELSE LastOf(<<>>) = Len(<<>>) /\ 0 = Len(<<>>)
    BY <1>1, <1>4
  <2>3. StartFit(Len(<<>>), <<>>, 0) /\ LastOf(<<>>) <= 0
    BY <1>2, <1>4
  <2>4. PICK w \in Models : w = <<>>
    BY <1>4
  <2>5. /\ StartFit(Len(w), w, 0) /\ LastOf(w) <= 0 /\ Increasing(w)
        /\ Len(w) + 1 <= total_training_steps + resumed' /\ tracker' <= Len(w)
        /\ IF pipelined THEN LastOf(w) <= Len(w) + resumed' /\ 0 <= Len(w) + resumed'
                        ELSE LastOf(w) = Len(w) /\ 0 = Len(w)
    BY <1>4, <2>1, <2>2, <2>3, <2>4
  <2> QED BY <1>1, <2>5, BatchStart
<1> QED BY <1>1, <1>2, <1>3, <1>5 DEF BatchInv

LEMMA BatchResume == BatchInv /\ Resume => BatchInv'
<1> SUFFICES ASSUME BatchInv, Resume PROVE BatchInv'
  OBVIOUS
<1>1. /\ Types /\ Types' /\ pipelined \in BOOLEAN /\ pipelined' = pipelined /\ TrackedGood
      /\ resumed \in Nat /\ resumed' = resumed + 1
  BY TypesResume DEF BatchInv, Resume
<1>2. /\ tracker \in Steps /\ tracker \in Nat /\ UNCHANGED <<tracker, shard, data>>
      /\ data[tracker] \in Nat
  BY <1>1 DEF Resume, Steps, fileVars, Types, FileType
<1>3. PICK r \in Ranks : StartFit(tracker, shard["actor"][tracker][r], data[tracker])
  BY DEF Resume
<1>4. TrackedGood'
  BY <1>1, <1>2, TrackedGoodKept
<1>5. PICK w \in Models, p \in Nat : w = shard["actor"][tracker][r] /\ p = data[tracker]
  <2>1. "actor" \in Managers
    BY GroupFacts
  <2>2. shard["actor"][tracker][r] \in Files /\ shard["actor"][tracker][r] \notin {NoFile, Partial}
    BY <1>1, <1>2, <2>1 DEF Types, FileType, Resume, Complete
  <2> QED BY <1>2, <2>2 DEF Files
<1>6. Len(w) = tracker /\ Good(w, p) /\ tracker <= total_training_steps + resumed
  <2>1. tracker <= total_training_steps + resumed
    BY <1>1, <1>2 DEF TrackedGood
  <2>2. shard["actor"][tracker][r] \in Models
    BY <1>5
  <2>3. Len(shard["actor"][tracker][r]) = tracker /\ Good(shard["actor"][tracker][r], data[tracker])
    BY <1>1, <1>2, <2>2 DEF TrackedGood
  <2> QED BY <1>5, <2>1, <2>3
<1>7. LastOf(w) \in Nat /\ Len(w) \in Nat
  BY LastOfType
<1>8. BatchRun'
  <2>1. StartFit(Len(w), w, p) /\ Increasing(w) /\ LastOf(w) <= p
    BY <1>3, <1>5, <1>6 DEF Good
  <2>2. Len(w) + 1 <= total_training_steps + resumed' /\ tracker' <= Len(w)
    BY <1>1, <1>2, <1>6, TotalIsNat
  <2>3. IF pipelined THEN LastOf(w) <= Len(w) + resumed' /\ p <= Len(w) + resumed'
                     ELSE LastOf(w) = Len(w) /\ p = Len(w)
    BY <1>1, <1>6, <1>7 DEF Good
  <2> QED BY <1>1, <2>1, <2>2, <2>3, BatchStart
<1>9. job' = "up"
  BY <1>3 DEF StartFit
<1> QED BY <1>1, <1>4, <1>8, <1>9 DEF BatchInv

\* The synchronous trainer trains on the next batch.
LEMMA BatchTrain == BatchInv /\ TrainBatch => BatchInv'
<1> SUFFICES ASSUME BatchInv, TrainBatch PROVE BatchInv'
  OBVIOUS
<1>1. /\ Types /\ Types' /\ ~pipelined /\ pipelined \in BOOLEAN /\ pipelined' = pipelined /\ TrackedGood
      /\ resumed \in Nat /\ resumed' = resumed /\ job = "up" /\ job' = "up"
      /\ UNCHANGED <<tracker, shard, data, global_steps, data_end>>
  BY TypesLoop DEF BatchInv, TrainBatch, fileVars
<1>2. BatchRun /\ Ahead /\ Good(weights, position)
  BY <1>1 DEF BatchInv, BatchRun
<1>3. /\ weights' = Append(weights, position + 1) /\ position' = position + 1
      /\ (at' = "rotate" /\ group' = 1) \/ at' = "next"
  BY DEF TrainBatch, AfterTraining
<1>4. TrackedGood'
  BY <1>1, TrackedGoodKept
<1>5. weights \in Models /\ position \in Nat /\ Increasing(weights) /\ LastOf(weights) = Len(weights) /\ position = Len(weights)
  BY <1>1, <1>2 DEF Good, Types, LoopType
<1>6. PICK w \in Models, b \in Nat : w = weights /\ b = position + 1
  BY <1>5
<1>7. Increasing(w) /\ LastOf(w) < b /\ b = Len(w) + 1
  BY <1>5, <1>6
<1>8. /\ Append(w, b) \in Models /\ Len(Append(w, b)) = Len(w) + 1
      /\ Increasing(Append(w, b)) /\ LastOf(Append(w, b)) = b
  BY <1>7, OneMore
<1>9. weights' = Append(w, b) /\ position' = b
  BY <1>3, <1>6
<1>10. Good(Append(w, b), b)'
  BY <1>1, <1>7, <1>8 DEF Good
<1>11. Good(weights, position)' /\ Increasing(weights')
  BY <1>8, <1>9, <1>10
<1>12. Ahead'
  BY <1>1, <1>2, AheadLoop
<1>13. ActorSaved'
  BY <1>3 DEF ActorSaved
<1>14. BatchRun'
  BY <1>1, <1>2, <1>3, <1>11, <1>12, <1>13 DEF BatchRun
<1> QED BY <1>1, <1>4, <1>14 DEF BatchInv

\* The pipelined trainer's generation is done.
LEMMA BatchGeneration == BatchInv /\ GenerationEnds => BatchInv'
<1> SUFFICES ASSUME BatchInv, GenerationEnds PROVE BatchInv'
  OBVIOUS
<1>1. /\ Types /\ Types' /\ pipelined \in BOOLEAN /\ pipelined' = pipelined /\ TrackedGood
      /\ resumed \in Nat /\ resumed' = resumed /\ job = "up" /\ job' = "up"
      /\ UNCHANGED <<tracker, shard, data, at, group, written, global_steps, weights, position, data_end, taken>>
  BY TypesLoop DEF BatchInv, GenerationEnds, fileVars, saveVars
<1>2. BatchRun
  BY <1>1 DEF BatchInv
<1>3. TrackedGood'
  BY <1>1, TrackedGoodKept
<1>4. pending # NoBatch /\ pending' # NoBatch /\ pending'.batch = pending.batch
  <2>1. pending.batch > 0 /\ pending' = [pending EXCEPT !.ready = TRUE] /\ pending \in Batches
    BY <1>1 DEF GenerationEnds, Types, LoopType
  <2>2. pending'.batch = pending.batch
    BY <2>1 DEF Batches
  <2> QED BY <2>1, <2>2 DEF NoBatch
<1>5. Ahead' /\ ActorSaved'
  BY <1>1, <1>2 DEF BatchRun, Ahead, ActorSaved
<1>6. CASE pipelined
  <2>1. Handed'
    BY <1>1, <1>2, <1>4, <1>6 DEF BatchRun, Handed, LastBatch, Updates, is_last_step
  <2> QED BY <1>1, <1>2, <1>3, <1>5, <1>6, <2>1 DEF BatchInv, BatchRun
<1>7. CASE ~pipelined
  <2>1. Good(weights, position)'
    BY <1>1, <1>2, <1>7 DEF BatchRun, Good
  <2> QED BY <1>1, <1>2, <1>3, <1>5, <1>7, <2>1 DEF BatchInv, BatchRun
<1> QED BY <1>6, <1>7

\* It takes the batch that is generated, and starts on the one behind it.
LEMMA BatchTaken == BatchInv /\ TakeBatch => BatchInv'
<1> SUFFICES ASSUME BatchInv, TakeBatch PROVE BatchInv'
  OBVIOUS
<1>1. /\ Types /\ Types' /\ pipelined /\ pipelined' = pipelined /\ TrackedGood
      /\ pipelined \in BOOLEAN /\ resumed \in Nat /\ resumed' = resumed /\ job = "up" /\ job' = "up"
      /\ at = "top" /\ at' = "train" /\ taken' = pending
      /\ UNCHANGED <<tracker, shard, data, group, written, global_steps, weights, data_end>>
  BY TypesLoop DEF BatchInv, TakeBatch, fileVars, saveVars
<1>2. BatchRun /\ Ahead /\ Handed
  BY <1>1 DEF BatchInv, BatchRun
<1>3. TrackedGood'
  BY <1>1, TrackedGoodKept
<1>4. Ahead'
  BY <1>1, <1>2, AheadLoop
<1>5. ActorSaved'
  BY <1>1 DEF ActorSaved
<1>6. pending # NoBatch /\ pending.batch \in Nat /\ weights \in Models /\ position \in Nat
  BY <1>1 DEF TakeBatch, Types, LoopType, NoBatch, Batches
<1>7. LastOf(weights) \in Nat /\ Len(weights) \in Nat
  BY <1>6, LastOfType
<1>8. /\ pending.batch = position /\ LastOf(weights) < position
      /\ position <= Len(weights) + resumed + 1
  BY <1>1, <1>2, <1>6 DEF Handed, LastBatch, Updates
<1>9. /\ LastBatch' = position /\ Updates' = Len(weights) + 1
      /\ at' = "train" => taken'.batch > LastOf(weights')
  BY <1>1, <1>8 DEF LastBatch, Updates
<1>10. CASE is_last_step
  <2>1. UNCHANGED <<pending, position>> /\ is_last_step'
    BY <1>1, <1>10 DEF TakeBatch, is_last_step
  <2>2. Handed'
    BY <1>1, <1>6, <1>7, <1>8, <1>9, <2>1 DEF Handed
  <2> QED BY <1>1, <1>2, <1>3, <1>4, <1>5, <2>2 DEF BatchInv, BatchRun
<1>11. CASE ~is_last_step
  <2>1. /\ pending' = NextBatch(position, data_end)
        /\ position' = IF pending' = NoBatch THEN position ELSE position + 1
    BY <1>11 DEF TakeBatch
  <2>2. data_end \in Nat
    BY <1>2 DEF BatchRun
  <2>3. CASE position < data_end
    <3>1. pending' = [batch |-> position + 1, ready |-> FALSE]
      BY <2>1, <2>3 DEF NextBatch
    <3>2. pending'.batch = position + 1 /\ pending' # NoBatch
      BY <1>6, <3>1 DEF NoBatch
    <3>3. Handed'
      BY <1>1, <1>6, <1>7, <1>8, <1>9, <2>1, <3>2 DEF Handed
    <3> QED BY <1>1, <1>2, <1>3, <1>4, <1>5, <3>3 DEF BatchInv, BatchRun
  <2>4. CASE ~(position < data_end)
    <3>1. pending' = NoBatch /\ position' = position
      BY <2>1, <2>4 DEF NextBatch
    <3>2. Handed'
      BY <1>1, <1>6, <1>7, <1>8, <1>9, <2>2, <2>4, <3>1 DEF Handed
    <3> QED BY <1>1, <1>2, <1>3, <1>4, <1>5, <3>2 DEF BatchInv, BatchRun
  <2> QED BY <2>3, <2>4
<1> QED BY <1>10, <1>11

\* It trains on the batch it has taken.
LEMMA BatchTrainTaken == BatchInv /\ TrainTaken => BatchInv'
<1> SUFFICES ASSUME BatchInv, TrainTaken PROVE BatchInv'
  OBVIOUS
<1>1. /\ Types /\ Types' /\ pipelined \in BOOLEAN /\ pipelined' = pipelined /\ TrackedGood
      /\ resumed \in Nat /\ resumed' = resumed /\ job = "up" /\ job' = "up" /\ at = "train"
      /\ UNCHANGED <<tracker, shard, data, global_steps, position, data_end, pending, taken>>
  BY TypesLoop DEF BatchInv, TrainTaken, fileVars
<1>2. BatchRun /\ Ahead /\ pipelined /\ Handed
  BY <1>1 DEF BatchInv, BatchRun
<1>3. TrackedGood'
  BY <1>1, TrackedGoodKept
<1>4. weights' = Append(weights, taken.batch) /\ ((at' = "rotate" /\ group' = 1) \/ at' = "next")
  BY DEF TrainTaken, AfterTraining
<1>5. Ahead'
  BY <1>1, <1>2, AheadLoop
<1>6. ActorSaved'
  BY <1>4 DEF ActorSaved
<1>7. PICK w \in Models, b \in Nat : w = weights /\ b = taken.batch
  BY <1>1 DEF Types, LoopType, Batches
<1>8. Increasing(w) /\ LastOf(w) < b
  <2>1. Increasing(w)
    BY <1>2, <1>7 DEF BatchRun
  <2>2. taken.batch > LastOf(weights)
    BY <1>1, <1>2 DEF Handed
  <2> QED BY <1>7, <2>1, <2>2, LastOfType
<1>9. /\ Append(w, b) \in Models /\ Len(Append(w, b)) = Len(w) + 1
      /\ Increasing(Append(w, b)) /\ LastOf(Append(w, b)) = b
  BY <1>8, OneMore
<1>10. weights' = Append(w, b)
  BY <1>4, <1>7
<1>11. /\ Increasing(weights') /\ LastBatch' = LastBatch /\ Updates' = Updates
  BY <1>1, <1>4, <1>7, <1>9, <1>10 DEF LastBatch, Updates
<1>12. Handed'
  BY <1>1, <1>2, <1>4, <1>11 DEF Handed, is_last_step
<1>13. BatchRun'
  BY <1>1, <1>2, <1>5, <1>6, <1>11, <1>12 DEF BatchRun
<1> QED BY <1>1, <1>3, <1>13 DEF BatchInv

\* The loader has no more batches: the job ends, and as late as it should.
LEMMA BatchOutOfData == BatchInv /\ OutOfData => BatchInv'
<1> SUFFICES ASSUME BatchInv, OutOfData PROVE BatchInv'
  OBVIOUS
<1>1. /\ Types /\ Types' /\ pipelined \in BOOLEAN /\ pipelined' = pipelined /\ TrackedGood
      /\ resumed \in Nat /\ resumed' = resumed /\ job = "up" /\ job' = "done" /\ at = "top"
      /\ UNCHANGED <<tracker, shard, data, weights>>
  BY TypesLoop DEF BatchInv, OutOfData, fileVars, loopVars
<1>2. BatchRun /\ Ahead
  BY <1>1 DEF BatchInv, BatchRun
<1>3. TrackedGood'
  BY <1>1, TrackedGoodKept
<1>4. EachBatchOnce'
  BY <1>1, <1>2, BatchRunEnds DEF EachBatchOnce
<1>5. /\ Len(weights) = global_steps - 1 /\ global_steps <= total_training_steps + resumed
      /\ data_end \in Nat /\ data_end >= total_training_steps /\ position \in Nat /\ global_steps \in Nat
      /\ Len(weights) \in Nat
  BY <1>1, <1>2 DEF BatchRun, Ahead, Types, LoopType, Models
<1>6. Len(weights) <= total_training_steps + resumed
  BY <1>1, <1>5, TotalIsNat
<1>7. Len(weights) >= total_training_steps - (IF pipelined THEN resumed ELSE 0)
  <2>1. CASE pipelined
    <3>1. pending = NoBatch /\ position <= Updates + resumed /\ position >= data_end /\ Updates = Len(weights)
      BY <1>1, <1>2, <2>1 DEF OutOfData, BatchRun, Handed, Updates
    <3> QED BY <1>1, <1>5, <2>1, <3>1, TotalIsNat
  <2>2. CASE ~pipelined
    <3>1. position = data_end /\ position = Len(weights)
      BY <1>2, <2>2 DEF OutOfData, BatchRun, Good
    <3> QED BY <1>1, <1>5, <2>2, <3>1, TotalIsNat
  <2> QED BY <1>1, <2>1, <2>2
<1>8. EndsOnLastStep'
  BY <1>1, <1>6, <1>7, TotalIsNat DEF EndsOnLastStep
<1> QED BY <1>1, <1>3, <1>4, <1>8 DEF BatchInv

\* The end of a step, which may be the last one.
LEMMA BatchEndStep == BatchInv /\ EndStep => BatchInv'
<1> SUFFICES ASSUME BatchInv, EndStep PROVE BatchInv'
  OBVIOUS
<1>1. /\ Types /\ Types' /\ pipelined \in BOOLEAN /\ pipelined' = pipelined /\ TrackedGood
      /\ resumed \in Nat /\ resumed' = resumed /\ job = "up" /\ at = "next" /\ at' = "top"
      /\ global_steps' = global_steps + 1 /\ job' = (IF is_last_step THEN "done" ELSE "up")
      /\ UNCHANGED <<tracker, shard, data, weights, position, data_end, pending, taken>>
  BY TypesLoop DEF BatchInv, EndStep, fileVars
<1>2. BatchRun /\ Ahead
  BY <1>1 DEF BatchInv, BatchRun
<1>3. TrackedGood'
  BY <1>1, TrackedGoodKept
<1>4. /\ Len(weights) = global_steps /\ global_steps <= total_training_steps + resumed
      /\ global_steps \in Nat /\ total_training_steps \in Nat
  BY <1>1, <1>2, TotalIsNat DEF BatchRun, Ahead, Types, LoopType
<1>5. CASE is_last_step
  <2>1. EachBatchOnce'
    BY <1>1, <1>2, BatchRunEnds DEF EachBatchOnce
  <2>2. Len(weights) >= total_training_steps - (IF pipelined THEN resumed ELSE 0)
    BY <1>1, <1>4, <1>5 DEF is_last_step
  <2>3. EndsOnLastStep'
    BY <1>1, <1>4, <2>2 DEF EndsOnLastStep
  <2> QED BY <1>1, <1>3, <1>5, <2>1, <2>3 DEF BatchInv
<1>6. CASE ~is_last_step
  <2>1. Ahead'
    BY <1>1, <1>2, AheadLoop
  <2>2. ActorSaved'
    BY <1>1 DEF ActorSaved
  <2>3. job' = "up" /\ global_steps' <= total_training_steps + resumed'
    BY <1>1, <1>4, <1>6 DEF is_last_step
  <2>4. pipelined => Handed'
    BY <1>1, <1>2, <1>6 DEF BatchRun, Handed, LastBatch, Updates
  <2>5. ~pipelined => Good(weights, position)'
    BY <1>1, <1>2 DEF BatchRun, Good
  <2>6. BatchRun'
    BY <1>1, <1>2, <2>1, <2>2, <2>3, <2>4, <2>5 DEF BatchRun
  <2> QED BY <1>1, <1>3, <2>3, <2>6 DEF BatchInv
<1> QED BY <1>5, <1>6

\* A save leaves alone what the batches are about.
LEMMA BatchSaveKeeps ==
    ASSUME BatchInv, SaveStep, Types', Ahead', ActorSaved'
    PROVE  BatchRun' /\ job' = "up"
<1>1. /\ Types /\ pipelined \in BOOLEAN /\ pipelined' = pipelined /\ resumed' = resumed /\ job = "up" /\ job' = "up"
      /\ UNCHANGED <<global_steps, weights, position, data_end, pending, taken>>
      /\ at \notin {"top", "train"} /\ at' \notin {"top", "train"}
  BY SaveKeeps DEF BatchInv, loopVars, SaveStep, Rotate, EndGroup, SaveData, OpenTracker, WriteTracker,
     BeginShard, EndShard
<1>2. BatchRun
  BY <1>1 DEF BatchInv
<1>3. pipelined => Handed'
  BY <1>1, <1>2 DEF BatchRun, Handed, LastBatch, Updates, is_last_step
<1>4. ~pipelined => Good(weights, position)'
  BY <1>1, <1>2 DEF BatchRun, Good
<1> QED BY <1>1, <1>2, <1>3, <1>4 DEF BatchRun

\* What rank 0 removes can no longer be loaded, and what the actor has just
\* saved is not among it.
LEMMA BatchRotate == BatchInv /\ Rotate => BatchInv'
<1> SUFFICES ASSUME BatchInv, Rotate PROVE BatchInv'
  OBVIOUS
<1>1. /\ Types /\ Types' /\ pipelined \in BOOLEAN /\ pipelined' = pipelined /\ TrackedGood
      /\ resumed \in Nat /\ resumed' = resumed /\ job = "up"
      /\ at = "rotate" /\ at' = "write" /\ written' = {}
      /\ UNCHANGED <<tracker, data, group, global_steps, weights, position>>
  BY TypesRotate DEF BatchInv, Rotate, OnlySaves, loopVars
<1>2. BatchRun /\ Ahead /\ ActorSaved
  BY <1>1 DEF BatchInv, BatchRun
<1>3. PICK g \in Managers : g = Groups[group]
  BY <1>1, GroupFacts DEF Types, SaveType
<1>4. PICK gone : shard' = [shard EXCEPT ![g] = [m \in Steps |->
                    IF m \in gone THEN [r \in Ranks |-> NoFile] ELSE @[m]]]
  BY <1>3 DEF Rotate
<1>5. /\ g # "actor" => shard'["actor"] = shard["actor"]
      /\ \A m \in Steps, r \in Ranks :
           shard'["actor"][m][r] = NoFile \/ shard'["actor"][m][r] = shard["actor"][m][r]
  <2>1. CASE g # "actor"
    <3>1. shard'["actor"] = shard["actor"]
      BY <1>1, <1>4, <2>1, ActorIsFirst DEF Types, FileType
    <3> QED BY <2>1, <3>1
  <2>2. CASE g = "actor"
    <3>1. shard'["actor"] = [m \in Steps |-> IF m \in gone THEN [r \in Ranks |-> NoFile] ELSE shard["actor"][m]]
      BY <1>1, <1>4, <2>2, ActorIsFirst DEF Types, FileType
    <3> QED BY <2>2, <3>1
  <2> QED BY <2>1, <2>2
<1>6. NoFile \notin Models
  BY FilesDiffer
<1>7. TrackedGood'
  <2>1. ASSUME tracker \in Steps, NEW r \in Ranks, shard'["actor"][tracker][r] \in Models
        PROVE  shard'["actor"][tracker][r] = shard["actor"][tracker][r]
    BY <2>1, <1>5, <1>6
  <2> QED BY <1>1, <2>1, TrackedGoodKept
<1>8. Ahead'
  BY <1>1, <1>2 DEF Ahead
<1>9. ActorSaved'
  <2>1. CASE group > 1
    <3>1. g # "actor"
      BY <1>1, <1>3, <2>1, ActorIsFirst DEF Types, SaveType
    <3>2. \A r \in Ranks : shard["actor"][global_steps][r] = weights
      BY <1>1, <1>2, <2>1 DEF ActorSaved
    <3> QED BY <1>1, <1>5, <3>1, <3>2 DEF ActorSaved
  <2>2. CASE ~(group > 1)
    BY <1>1, <2>2 DEF ActorSaved
  <2> QED BY <2>1, <2>2
<1>10. BatchRun' /\ job' = "up"
  BY <1>1, <1>8, <1>9, BatchSaveKeeps DEF SaveStep
<1> QED BY <1>1, <1>7, <1>10 DEF BatchInv

\* A rank writes the file of the present step, which the tracker does not name.
LEMMA BatchShard ==
    ASSUME BatchInv, NEW r \in Ranks, BeginShard(r) \/ EndShard(r)
    PROVE  BatchInv'
<1>1. /\ Types /\ Types' /\ pipelined \in BOOLEAN /\ pipelined' = pipelined /\ TrackedGood
      /\ resumed \in Nat /\ resumed' = resumed /\ job = "up" /\ at = "write" /\ r \notin written
      /\ UNCHANGED <<tracker, data, at, group, global_steps, weights, position>>
  BY TypesShard DEF BatchInv, BeginShard, EndShard, OnlySaves, loopVars, saveVars
<1>2. BatchRun /\ Ahead /\ ActorSaved
  BY <1>1 DEF BatchInv, BatchRun
<1>3. PICK file \in Files :
        /\ shard' = [shard EXCEPT ![Groups[group]][global_steps][r] = file]
        /\ written' = written \/ (written' = written \union {r} /\ file = weights)
  BY <1>1 DEF BeginShard, EndShard, saveVars, Files, Types, LoopType
<1>4. /\ shard'[Groups[group]][global_steps][r] = file
      /\ \A g \in Managers, m \in Steps, q \in Ranks :
           g # Groups[group] \/ m # global_steps \/ q # r => shard'[g][m][q] = shard[g][m][q]
  BY <1>1, <1>3, ShardWritten
<1>5. global_steps \in Steps
  BY <1>1, StepInRange
<1>6. TrackedGood'
  <2>1. tracker # global_steps
    BY <1>1, <1>2 DEF Ahead, Types, LoopType
  <2>2. ASSUME tracker \in Steps, NEW q \in Ranks
        PROVE  shard'["actor"][tracker][q] = shard["actor"][tracker][q]
    BY <2>1, <2>2, <1>4, ActorIsFirst
  <2> QED BY <1>1, <2>2, TrackedGoodKept
<1>7. Ahead'
  BY <1>1, <1>2 DEF Ahead
<1>8. ActorSaved'
  <2>1. CASE group = 1
    <3>1. Groups[group] = "actor"
      BY <2>1, ActorIsFirst
    <3>2. ASSUME NEW q \in written' PROVE shard'["actor"][global_steps][q] = weights
      <4>1. CASE q = r
        BY <4>1, <3>1, <3>2, <1>1, <1>3, <1>4
      <4>2. CASE q # r
        <5>1. q \in written /\ q \in Ranks
          BY <4>2, <3>2, <1>1, <1>3 DEF Types, SaveType
        <5>2. shard["actor"][global_steps][q] = weights
          BY <5>1, <2>1, <1>1, <1>2 DEF ActorSaved
        <5>3. shard'["actor"][global_steps][q] = shard["actor"][global_steps][q]
          BY <4>2, <5>1, <1>4, <1>5, ActorIsFirst
        <5> QED BY <5>2, <5>3
      <4> QED BY <4>1, <4>2
    <3> QED BY <1>1, <2>1, <3>2 DEF ActorSaved
  <2>2. CASE group # 1
    <3>1. group > 1 /\ Groups[group] # "actor"
      BY <1>1, <2>2, ActorIsFirst, GroupFacts DEF Types, SaveType
    <3>2. \A q \in Ranks : shard["actor"][global_steps][q] = weights
      BY <1>1, <1>2, <3>1 DEF ActorSaved
    <3>3. \A q \in Ranks : shard'["actor"][global_steps][q] = weights
      BY <3>1, <3>2, <1>4, <1>5, ActorIsFirst
    <3> QED BY <1>1, <2>2, <3>3 DEF ActorSaved
  <2> QED BY <2>1, <2>2
<1>9. BatchRun' /\ job' = "up"
  BY <1>1, <1>7, <1>8, BatchSaveKeeps DEF SaveStep
<1> QED BY <1>1, <1>6, <1>9 DEF BatchInv

\* Every rank of the group has written its file.
LEMMA BatchEndGroup == BatchInv /\ EndGroup => BatchInv'
<1> SUFFICES ASSUME BatchInv, EndGroup PROVE BatchInv'
  OBVIOUS
<1>1. /\ Types /\ Types' /\ pipelined \in BOOLEAN /\ pipelined' = pipelined /\ TrackedGood
      /\ resumed \in Nat /\ resumed' = resumed /\ job = "up"
      /\ at = "write" /\ at' \in {"rotate", "data"} /\ written = Ranks
      /\ UNCHANGED <<tracker, shard, data, global_steps, weights, position>>
  BY TypesSave DEF BatchInv, EndGroup, OnlySaves, loopVars, fileVars
<1>2. BatchRun /\ Ahead /\ ActorSaved
  BY <1>1 DEF BatchInv, BatchRun
<1>3. TrackedGood'
  BY <1>1, TrackedGoodKept
<1>4. Ahead'
  BY <1>1, <1>2 DEF Ahead
<1>5. \A r \in Ranks : shard["actor"][global_steps][r] = weights
  <2>1. group = 1 \/ group > 1
    BY <1>1, GroupFacts DEF Types, SaveType
  <2> QED BY <1>1, <1>2, <2>1 DEF ActorSaved
<1>6. ActorSaved'
  BY <1>1, <1>5 DEF ActorSaved
<1>7. BatchRun' /\ job' = "up"
  BY <1>1, <1>4, <1>6, BatchSaveKeeps DEF SaveStep
<1> QED BY <1>1, <1>3, <1>7 DEF BatchInv

\* The loader's state is saved with the weights' step, and then the tracker
\* names both.
LEMMA BatchSaveData == BatchInv /\ SaveData => BatchInv'
<1> SUFFICES ASSUME BatchInv, SaveData PROVE BatchInv'
  OBVIOUS
<1>1. /\ Types /\ Types' /\ pipelined \in BOOLEAN /\ pipelined' = pipelined /\ TrackedGood
      /\ resumed \in Nat /\ resumed' = resumed /\ job = "up"
      /\ at = "data" /\ at' = "open" /\ data' = [data EXCEPT ![global_steps] = position]
      /\ UNCHANGED <<tracker, shard, group, global_steps, weights, position>>
  BY TypesSave DEF BatchInv, SaveData, Position, OnlySaves, loopVars, saveVars
<1>2. BatchRun /\ Ahead /\ ActorSaved
  BY <1>1 DEF BatchInv, BatchRun
<1>3. global_steps \in Steps /\ global_steps \in Nat /\ data \in [Steps -> Nat]
  BY <1>1, StepInRange DEF Types, FileType, LoopType
<1>4. TrackedGood'
  <2>1. tracker # global_steps
    BY <1>1, <1>2, <1>3 DEF Ahead
  <2>2. tracker \in Steps => data'[tracker] = data[tracker]
    BY <1>1, <1>3, <2>1
  <2> QED BY <1>1, <2>2, TrackedGoodKept
<1>5. Ahead'
  BY <1>1, <1>2 DEF Ahead
<1>6. data'[global_steps] = position
  BY <1>1, <1>3
<1>7. ActorSaved'
  BY <1>1, <1>2, <1>6 DEF ActorSaved
<1>8. BatchRun' /\ job' = "up"
  BY <1>1, <1>5, <1>7, BatchSaveKeeps DEF SaveStep
<1> QED BY <1>1, <1>4, <1>8 DEF BatchInv

LEMMA BatchTracker == BatchInv /\ (OpenTracker \/ WriteTracker) => BatchInv'
<1> SUFFICES ASSUME BatchInv, OpenTracker \/ WriteTracker PROVE BatchInv'
  OBVIOUS
<1>1. /\ Types /\ Types' /\ pipelined \in BOOLEAN /\ pipelined' = pipelined /\ TrackedGood
      /\ resumed \in Nat /\ resumed' = resumed /\ job = "up"
      /\ \/ at = "open" /\ at' = "track" /\ tracker' = Empty
         \/ at = "track" /\ at' = "next" /\ tracker' = global_steps
      /\ UNCHANGED <<shard, data, group, global_steps, weights, position>>
  BY TypesSave DEF BatchInv, OpenTracker, WriteTracker, OnlySaves, loopVars, saveVars
<1>2. BatchRun /\ Ahead /\ ActorSaved
  BY <1>1 DEF BatchInv, BatchRun
<1>3. /\ global_steps \in Steps /\ global_steps \in Nat /\ Len(weights) = global_steps
      /\ \A r \in Ranks : shard["actor"][global_steps][r] = weights
      /\ data[global_steps] = position
  BY <1>1, <1>2, StepInRange DEF Ahead, ActorSaved, Types, LoopType
<1>4. Good(weights, position)
  <2>1. weights \in Models /\ LastOf(weights) \in Nat /\ Len(weights) \in Nat /\ position \in Nat
    BY <1>1, LastOfType DEF Types, LoopType
  <2>2. CASE pipelined
    <3>1. /\ LastOf(weights) <= position /\ LastOf(weights) <= Len(weights) + resumed
          /\ position <= Len(weights) + resumed + 1
      BY <1>1, <1>2, <2>2 DEF BatchRun, Handed, LastBatch, Updates
    <3> QED BY <1>2, <2>1, <2>2, <3>1 DEF Good, BatchRun
  <2>3. CASE ~pipelined
    BY <1>2, <2>3 DEF BatchRun
  <2> QED BY <2>2, <2>3
<1>5. CASE at' = "track" /\ tracker' = Empty
  <2>1. tracker' \notin Steps /\ tracker' < global_steps
    BY <1>3, <1>5 DEF Empty, Steps
  <2>2. TrackedGood' /\ Ahead' /\ ActorSaved'
    <3>1. TrackedGood'
      BY <2>1 DEF TrackedGood
    <3>2. Ahead'
      BY <1>1, <1>2, <1>3, <1>5, <2>1 DEF Ahead, Empty
    <3>3. ActorSaved'
      BY <1>1, <1>3, <1>5 DEF ActorSaved
    <3> QED BY <3>1, <3>2, <3>3
  <2>3. BatchRun' /\ job' = "up"
    BY <1>1, <2>2, BatchSaveKeeps DEF SaveStep
  <2> QED BY <1>1, <2>2, <2>3 DEF BatchInv
<1>6. CASE at' = "next" /\ tracker' = global_steps
  <2>1. Good(weights, position)'
    BY <1>1, <1>4 DEF Good
  <2>2. PICK w \in Models, p \in Nat, n \in Nat : w = weights /\ p = position /\ n = global_steps
    BY <1>1 DEF Types, LoopType
  <2>3. /\ Good(w, p)' /\ Len(w) = n /\ tracker' = n /\ data'[n] = p /\ n <= total_training_steps + resumed'
        /\ \A r \in Ranks : shard'["actor"][n][r] = w
    BY <1>1, <1>2, <1>3, <1>4, <1>6, <2>1, <2>2 DEF BatchRun, Good
  <2>4. TrackedGood'
    BY <2>3 DEF TrackedGood
  <2>5. Ahead' /\ ActorSaved'
    BY <1>1, <1>2, <1>3, <1>6 DEF Ahead, ActorSaved
  <2>6. BatchRun' /\ job' = "up"
    BY <1>1, <2>5, BatchSaveKeeps DEF SaveStep
  <2> QED BY <1>1, <2>4, <2>6 DEF BatchInv
<1> QED BY <1>1, <1>5, <1>6

\* A crash keeps nothing but the files.
LEMMA BatchCrash == BatchInv /\ (Crash \/ LoadFails) => BatchInv'
<1> SUFFICES ASSUME BatchInv, Crash \/ LoadFails PROVE BatchInv'
  OBVIOUS
<1>1. /\ Types /\ Types' /\ pipelined \in BOOLEAN /\ pipelined' = pipelined /\ TrackedGood
      /\ resumed \in Nat /\ resumed' = resumed /\ job' \in {"down", "load_failed"} /\ weights' = <<>>
      /\ UNCHANGED <<tracker, shard, data>>
  BY TypesCrash DEF BatchInv, Crash, LoadFails, fileVars, loopVars
<1>2. TrackedGood'
  BY <1>1, TrackedGoodKept
<1> QED BY <1>1, <1>2 DEF BatchInv

LEMMA BatchInit == RecoveryInit => BatchInv
<1> SUFFICES ASSUME RecoveryInit PROVE BatchInv
  OBVIOUS
<1>1. tracker \notin Steps /\ job = "down" /\ weights = <<>> /\ pipelined \in BOOLEAN /\ resumed \in Nat
  BY DEF RecoveryInit, Missing, Steps
<1> QED BY <1>1, TypesInit DEF BatchInv, TrackedGood

LEMMA BatchNext == BatchInv /\ [RecoveryNext]_recoveryVars => BatchInv'
<1> SUFFICES ASSUME BatchInv, [RecoveryNext]_recoveryVars PROVE BatchInv'
  OBVIOUS
<1>1. CASE UNCHANGED recoveryVars
  <2>1. Types'
    BY TypesNext DEF BatchInv
  <2>2. UNCHANGED <<pipelined, tracker, shard, data, job, at, group, written, global_steps, weights, position,
                    data_end, pending, taken, resumed>>
    BY <1>1 DEF recoveryVars, fileVars, saveVars, loopVars
  <2>3. TrackedGood'
    BY <2>2, TrackedGoodKept DEF BatchInv
  <2>4. job = "up" => BatchRun'
    BY <2>2 DEF BatchInv, BatchRun, Ahead, ActorSaved, Handed, LastBatch, Updates, is_last_step, Good
  <2>5. job = "done" => EachBatchOnce' /\ EndsOnLastStep'
    BY <2>2 DEF BatchInv, EachBatchOnce, EndsOnLastStep
  <2> QED BY <2>1, <2>2, <2>3, <2>4, <2>5 DEF BatchInv
<1>2. CASE RecoveryStep
  BY <1>2, BatchFromScratch, BatchResume, BatchTrain, BatchGeneration, BatchTaken, BatchTrainTaken, BatchOutOfData,
     BatchEndStep, BatchRotate, BatchShard, BatchEndGroup, BatchSaveData, BatchTracker, BatchCrash
  DEF RecoveryStep, SaveStep
<1> QED BY <1>1, <1>2 DEF RecoveryNext, JobOver

\* fit() with its restarts: the synchronous trainer trains on the batches in
\* their order, each once; the pipelined one never sees a batch twice and loses
\* at most one for each restart, wherever the job is killed and with however many
\* checkpoints kept.
THEOREM EachBatchOnceCorrect == RecoverySpec => []EachBatchOnce
<1>1. BatchInv => EachBatchOnce
  <2> SUFFICES ASSUME BatchInv PROVE EachBatchOnce
    OBVIOUS
  <2>1. CASE job = "up"
    BY <2>1, BatchRunEnds DEF BatchInv
  <2>2. CASE job # "up"
    <3>1. job \in {"down", "load_failed"} => weights = <<>>
      BY DEF BatchInv
    <3>2. weights = <<>> => EachBatchOnce
      BY DEF EachBatchOnce, Increasing
    <3> QED BY <2>2, <3>1, <3>2 DEF BatchInv, Types, LoopType
  <2> QED BY <2>1, <2>2
<1> QED BY BatchInit, BatchNext, <1>1, PTL DEF RecoverySpec

\* EndStep and the end of the data: a job that ends has made all its updates, but
\* for the batches that restarts of the pipelined trainer lost, and at most one more
\* for each restart.
THEOREM EndsOnLastStepCorrect == RecoverySpec => []EndsOnLastStep
<1>1. BatchInv => EndsOnLastStep
  BY DEF BatchInv, EndsOnLastStep
<1> QED BY BatchInit, BatchNext, <1>1, PTL DEF RecoverySpec
-----------------------------------------------------------------------------
(* The types of everything else.  A job is restarted from a checkpoint at   *)
(* most once for each crash, for it makes the first checkpoint itself.      *)

RestartInv ==
    /\ resumed \in Nat /\ resumed <= crashes
    /\ job = "down" => tracker = Missing \/ resumed < crashes

RecoveryTypes ==
    /\ Types /\ RestartInv
    /\ pipelined \in BOOLEAN /\ keep \in Keeps
    /\ data_end \in Nat

LEMMA RecoveryTypesInit == RecoveryInit => RecoveryTypes
<1> SUFFICES ASSUME RecoveryInit PROVE RecoveryTypes
  OBVIOUS
<1>1. Types
  BY TypesInit
<1>2. RestartInv
  BY DEF RecoveryInit, RestartInv
<1>3. pipelined \in BOOLEAN /\ keep \in Keeps /\ data_end \in Nat
  BY DEF RecoveryInit
<1> QED BY <1>1, <1>2, <1>3 DEF RecoveryTypes

LEMMA RestartsCounted == ASSUME RecoveryTypes, RecoveryStep PROVE RestartInv'
<1>1. /\ crashes \in Nat /\ resumed \in Nat /\ resumed <= crashes
      /\ job = "down" => tracker = Missing \/ resumed < crashes
  BY DEF RecoveryTypes, RestartInv, Types, CountInv
<1>2. CASE Crash
  <2>1. crashes' = crashes + 1 /\ resumed' = resumed
    BY <1>2 DEF Crash
  <2> QED BY <1>1, <2>1 DEF RestartInv
<1>3. CASE Resume
  <2>1. /\ resumed' = resumed + 1 /\ crashes' = crashes /\ job' = "up" /\ job = "down"
        /\ tracker \in Steps
    BY <1>3 DEF Resume, StartFit
  <2>2. tracker # Missing
    BY <2>1 DEF Steps, Missing
  <2> QED BY <1>1, <2>1, <2>2 DEF RestartInv
<1>4. CASE FromScratch
  <2>1. resumed' = resumed /\ crashes' = crashes /\ job' = "up"
    BY <1>4 DEF FromScratch, StartFit
  <2> QED BY <1>1, <2>1 DEF RestartInv
<1>5. CASE LoadFails
  <2>1. resumed' = resumed /\ crashes' = crashes /\ job' = "load_failed"
    BY <1>5 DEF LoadFails
  <2> QED BY <1>1, <2>1 DEF RestartInv
<1>6. CASE TrainBatch \/ GenerationEnds \/ TakeBatch \/ TrainTaken \/ OutOfData \/ EndStep
  <2>1. resumed' = resumed /\ crashes' = crashes /\ job' # "down"
    BY <1>6 DEF TrainBatch, GenerationEnds, TakeBatch, TrainTaken, OutOfData, EndStep
  <2> QED BY <1>1, <2>1 DEF RestartInv
<1>7. CASE SaveStep
  <2>1. resumed' = resumed /\ crashes' = crashes /\ job' # "down"
    BY <1>7, SaveKeeps
  <2> QED BY <1>1, <2>1 DEF RestartInv
<1> QED BY <1>2, <1>3, <1>4, <1>5, <1>6, <1>7 DEF RecoveryStep

LEMMA SetupKept ==
    ASSUME Types, RecoveryStep
    PROVE  /\ pipelined' = pipelined /\ keep' = keep
           /\ data_end' \in {data_end, 0} \/ \E p \in Nat : data_end' = EndOfData(p)
<1>1. CASE FromScratch
  BY <1>1 DEF FromScratch, StartFit
<1>2. CASE Resume
  <2>1. tracker \in Steps /\ data[tracker] \in Nat
    BY <1>2 DEF Resume, Types, FileType
  <2>2. data_end' = EndOfData(data[tracker]) /\ pipelined' = pipelined /\ keep' = keep
    BY <1>2 DEF Resume, StartFit
  <2> QED BY <2>1, <2>2
<1>3. CASE SaveStep
  <2>1. UNCHANGED <<pipelined, keep, loopVars>>
    BY <1>3, SaveKeeps
  <2> QED BY <2>1 DEF loopVars
<1>4. CASE Crash \/ LoadFails
  BY <1>4 DEF Crash, LoadFails, loopVars
<1>5. CASE TrainBatch \/ GenerationEnds \/ TakeBatch \/ TrainTaken \/ OutOfData \/ EndStep
  BY <1>5 DEF TrainBatch, GenerationEnds, TakeBatch, TrainTaken, OutOfData, EndStep, loopVars
<1> QED BY <1>1, <1>2, <1>3, <1>4, <1>5 DEF RecoveryStep

LEMMA RecoveryTypesNext == RecoveryTypes /\ [RecoveryNext]_recoveryVars => RecoveryTypes'
<1> SUFFICES ASSUME RecoveryTypes, [RecoveryNext]_recoveryVars PROVE RecoveryTypes'
  OBVIOUS
<1>1. Types'
  BY TypesNext DEF RecoveryTypes
<1>2. CASE UNCHANGED recoveryVars
  BY <1>1, <1>2 DEF recoveryVars, fileVars, loopVars, RecoveryTypes, RestartInv
<1>3. CASE RecoveryStep
  <2>1. RestartInv'
    BY <1>3, RestartsCounted
  <2>2. data_end' \in Nat
    BY <1>3, SetupKept, EndOfDataBound DEF RecoveryTypes
  <2>3. pipelined' \in BOOLEAN /\ keep' \in Keeps
    BY <1>3, SetupKept DEF RecoveryTypes
  <2> QED BY <1>1, <2>1, <2>2, <2>3 DEF RecoveryTypes
<1> QED BY <1>2, <1>3 DEF RecoveryNext, JobOver

\* The trainer, its checkpoints and its restarts keep their types; a save is of a
\* step there can be, and a job is resumed at most once for each crash.
THEOREM RecoveryTypeCorrect == RecoverySpec => []RecoveryTypeOK
<1>1. RecoveryTypes => RecoveryTypeOK
  <2> SUFFICES ASSUME RecoveryTypes PROVE RecoveryTypeOK
    OBVIOUS
  <2>1. Files \subseteq Seq(Int) /\ Models \subseteq Seq(Nat)
    <3>1. NoFile \in Seq(Int)
      BY DEF NoFile
    <3>2. Partial \in Seq(Int)
      BY DEF Partial
    <3>3. ASSUME NEW w \in Models PROVE w \in Seq(Nat) /\ w \in Seq(Int)
      <4>1. Len(w) \in Nat /\ w = [i \in 1..Len(w) |-> w[i]] /\ \A i \in 1..Len(w) : w[i] \in Nat
        BY DEF Models
      <4> QED BY <4>1
    <3> QED BY <3>1, <3>2, <3>3 DEF Files
  <2>2. shard \in [Managers -> [Steps -> [Ranks -> Seq(Int)]]]
    <3>1. shard \in [Managers -> [Steps -> [Ranks -> Files]]]
      BY DEF RecoveryTypes, Types, FileType
    <3> QED BY <2>1, <3>1
  <2>3. tracker \in Steps \union {Missing, Empty} /\ data \in [Steps -> Nat]
    BY DEF RecoveryTypes, Types, FileType
  <2>4. crashes \in 0..MaxCrashes /\ resumed \in 0..MaxCrashes
    BY DEF RecoveryTypes, Types, CountInv, RestartInv
  <2>5. weights \in Seq(Nat)
    BY <2>1 DEF RecoveryTypes, Types, LoopType
  <2>6. {pending, taken} \subseteq [batch : Nat, ready : BOOLEAN]
    BY DEF RecoveryTypes, Types, LoopType, Batches
  <2>7. SaveType /\ LoopType
    BY DEF RecoveryTypes, Types
  <2> QED BY <2>2, <2>3, <2>4, <2>5, <2>6, <2>7 DEF RecoveryTypeOK, RecoveryTypes, SaveType, LoopType
<1> QED BY RecoveryTypesInit, RecoveryTypesNext, <1>1, PTL DEF RecoverySpec
=============================================================================
