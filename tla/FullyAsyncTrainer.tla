------------------------- MODULE FullyAsyncTrainer -------------------------
(***************************************************************************)
(* The Ray actor FullyAsyncTrainer with the ParameterSynchronizer it calls *)
(* and waits for: fit() collects required_samples samples, trains on them, *)
(* and after trigger_parameter_sync_step batches synchronises the weights. *)
(*                                                                         *)
(* The trainer is one thread that blocks in every remote call, so its      *)
(* state is one label and the values it keeps between calls.  What a call  *)
(* returns is a parameter of the action that receives it; FullyAsyncPolicy *)
(* supplies it.                                                            *)
(***************************************************************************)
EXTENDS Integers, FiniteSets

CONSTANTS
    RequiredSamples,   \* ppo_mini_batch_size * require_batches
    TriggerStep        \* trigger_parameter_sync_step

ASSUME TrainerAssumption ==
    RequiredSamples \in Nat \ {0} /\ TriggerStep \in Nat \ {0}

VARIABLES
    trainer,            \* the label of the trainer's thread
    collected,          \* len(queue_samples) of the batch being collected
    received,           \* history: every sample a get_sample call returned
    local_trigger_step,
    trainer_version,    \* the trainer's current_param_version
    weights_version,    \* the version of the weights in the rollout workers
    validate,           \* the last synchronisation begun is the final one
    val_data            \* the last answer of get_validate_sync()

trainerVars == <<trainer, collected, received, local_trigger_step,
                 trainer_version, weights_version, validate, val_data>>

\* val_data is None: nothing to log, like a ValidateMetrics without metrics.
NoValData == [version |-> -1, metrics |-> FALSE]

\* After the initial synchronisation of version 0 (fully_async_main.py).
TrainerInit ==
    /\ trainer = "start"
    /\ collected = 0 /\ received = {}
    /\ local_trigger_step = 1
    /\ trainer_version = 0 /\ weights_version = 0
    /\ validate = FALSE
    /\ val_data = NoValData

-----------------------------------------------------------------------------
\* get_validate_sync() before training, after each training step, and at the end.
ReadFirst(answer) ==
    /\ trainer = "start"
    /\ val_data' = answer
    /\ trainer' = "collect"
    /\ UNCHANGED <<collected, received, local_trigger_step, trainer_version,
                   weights_version, validate>>

ReadAfterStep(answer) ==
    /\ trainer = "read"
    /\ val_data' = answer
    /\ trainer' = "collect"
    /\ UNCHANGED <<collected, received, local_trigger_step, trainer_version,
                   weights_version, validate>>

ReadFinal(answer) ==
    /\ trainer = "last_read"
    /\ val_data' = answer
    /\ trainer' = "finished"
    /\ UNCHANGED <<collected, received, local_trigger_step, trainer_version,
                   weights_version, validate>>

\* _get_samples_from_queue: the next sample of the batch, or the end signal,
\* on which an incomplete batch is given up.
Receive(s) ==
    /\ trainer = "collect"
    /\ received' = received \cup {s}
    /\ collected' = (collected + 1) % RequiredSamples
    /\ trainer' = IF collected + 1 = RequiredSamples THEN "train" ELSE "collect"
    /\ UNCHANGED <<local_trigger_step, trainer_version, weights_version, validate, val_data>>

ReceiveEnd ==
    /\ trainer = "collect"
    /\ trainer' = "ending"
    /\ UNCHANGED <<collected, received, local_trigger_step, trainer_version,
                   weights_version, validate, val_data>>

\* The part of _trigger_parameter_sync_after_step that decides on a new version.
NewVersion(label) ==
    /\ trainer_version' = trainer_version + 1
    /\ local_trigger_step' = 1
    /\ trainer' = label

\* Train on the batch; every trigger_parameter_sync_step batches synchronise.
TrainBatch ==
    /\ trainer = "train"
    /\ IF local_trigger_step < TriggerStep
       THEN /\ local_trigger_step' = local_trigger_step + 1
            /\ trainer' = "read"
            /\ UNCHANGED trainer_version
       ELSE NewVersion("wait_last")
    /\ UNCHANGED <<collected, received, weights_version, validate, val_data>>

\* No more samples: synchronise and validate once more, unless the last
\* get_validate_sync() happened to return metrics.
EndTraining ==
    /\ trainer = "ending"
    /\ IF val_data.metrics
       THEN trainer' = "finished"
            /\ UNCHANGED <<local_trigger_step, trainer_version>>
       ELSE NewVersion("wait_final")
    /\ UNCHANGED <<collected, received, weights_version, validate, val_data>>

\* Mutant of Returned: nobody waits.
NotAwaited(update_pending, resume_pending) == TRUE

Returned(update_pending, resume_pending) == ~update_pending /\ ~resume_pending

\* wait_last_valid(): the update and the resume of the last synchronisation
\* have both returned.
LastSyncDone(update_pending, resume_pending) ==
    /\ Returned(update_pending, resume_pending)
    /\ \/ trainer \in {"wait_last", "wait_final"} /\ trainer' = "pausing"
       \/ trainer = "wait_end" /\ trainer' = "last_read"
    /\ validate' = (validate \/ trainer = "wait_final")
    /\ UNCHANGED <<collected, received, local_trigger_step, trainer_version,
                   weights_version, val_data>>

\* sync_weights: pause() has returned, the message queue learns the version.
RollouterPaused(pause_pending) ==
    /\ trainer = "pausing" /\ ~pause_pending
    /\ trainer' = "weights"
    /\ UNCHANGED <<collected, received, local_trigger_step, trainer_version,
                   weights_version, validate, val_data>>

\* ... then the weights are broadcast, and update_param_version and resume are
\* sent off without waiting for them.
WeightsSynced ==
    /\ trainer = "weights"
    /\ weights_version' = trainer_version
    /\ trainer' = IF validate THEN "wait_end" ELSE "read"
    /\ UNCHANGED <<collected, received, local_trigger_step, trainer_version,
                   validate, val_data>>

TrainerTypeOK ==
    /\ trainer \in {"start", "collect", "train", "read", "wait_last", "wait_final",
                    "pausing", "weights", "ending", "wait_end", "last_read", "finished"}
    /\ collected \in 0..RequiredSamples - 1
    /\ local_trigger_step \in 1..TriggerStep
    /\ trainer_version \in Nat /\ weights_version \in Nat
    /\ validate \in BOOLEAN
    /\ val_data \in [version : Nat \cup {-1}, metrics : BOOLEAN]
=============================================================================
