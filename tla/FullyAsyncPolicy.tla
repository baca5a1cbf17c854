-------------------------- MODULE FullyAsyncPolicy --------------------------
(***************************************************************************)
(* The fully asynchronous training pipeline: FullyAsyncRollouter,          *)
(* MessageQueue, and FullyAsyncTrainer with its ParameterSynchronizer, run *)
(* side by side by FullyAsyncTaskRunner._run_training_loop from the moment *)
(* the initial synchronisation (version 0) is over.                        *)
(***************************************************************************)
EXTENDS FullyAsyncRollouter, FullyAsyncTrainer

CONSTANTS
    ValBeforeTrain,   \* trainer.val_before_train
    NoSample          \* None as the answer of get_sample (queue shut down)

ASSUME PolicyAssumption ==
    /\ MaxRequiredSamples >= RequiredSamples * TriggerStep  \* staleness_threshold >= 0
    /\ ValBeforeTrain \in BOOLEAN

VARIABLES mq_queue, val_queue, mq_running, mq_version,
          total_produced, total_consumed, dropped_samples, cleared, getter, reply

MQ == INSTANCE MessageQueue WITH
        Getters <- {"trainer"}, MaxQueueSize <- MaxRequiredSamples,
        MaxPuts <- TotalRolloutSteps + 1, MaxValidates <- TotalRolloutSteps,
        MaxVersion <- TotalRolloutSteps, queue <- mq_queue,
        running <- mq_running, current_param_version <- mq_version

mqVars == <<mq_queue, val_queue, mq_running, mq_version, total_produced,
            total_consumed, dropped_samples, cleared, getter, reply>>
vars == <<rollouterVars, trainerVars, mqVars>>

EndSignal == 0                    \* the sample None that ends the stream
queue_size == Len(mq_queue)

Init ==
    /\ RollouterInit
    /\ TrainerInit
    /\ MQ!InitWith(<<[version |-> 0, metrics |-> ValidationDue(0, ValBeforeTrain)]>>)

-----------------------------------------------------------------------------
(* Steps of the rollouter alone.  Coroutine steps are named apart because   *)
(* asyncio's fairness is per coroutine.                                     *)

Alone == UNCHANGED <<trainerVars, mqVars>>

ProcessorStep ==
    /\ \/ ProcessorTop(queue_size) \/ GetPending \/ SetPaused \/ AwaitTasks
       \/ Reap \/ Idle \/ Woken \/ Submit
    /\ Alone
FeederStep == Feed /\ Alone
TaskStep(s) == (StartTask(s) \/ EndTask(s)) /\ Alone
ServerStep(s) == ServerAdmit(s) /\ Alone
ConsumerStep == ConsumerTake /\ Alone
MainStep == (MainJoined \/ StopRunning) /\ Alone
MonitorStep ==
    /\ MonitorTurn(queue_size) \/ MonitorResume
    /\ Alone
PauseStep ==
    /\ \/ CallArrives("pause") \/ PauseBegin \/ ServerCancel
       \/ PauseGathered \/ PauseEnd
    /\ Alone
UpdateStep ==
    /\ CallArrives("update") \/ UpdateCount(weights_version) \/ UpdateSized(queue_size)
    /\ Alone
ResumeStep ==
    /\ CallArrives("resume") \/ ResumeBegin \/ ServerResume
    /\ Alone

-----------------------------------------------------------------------------
(* Steps of the message queue on behalf of the rollouter.                   *)

PutSample ==
    /\ PutDelivered
    /\ MQ!PutSample(putting)
    /\ UNCHANGED trainerVars

PutEndSignal ==
    /\ EndSignalDelivered
    /\ MQ!PutSample(EndSignal)
    /\ UNCHANGED trainerVars

PutValidate ==
    /\ UpdateReported
    /\ MQ!PutValidate([version |-> current_param_version,
                       metrics |-> ValidationDue(current_param_version, validate)])
    /\ UNCHANGED trainerVars

-----------------------------------------------------------------------------
(* Steps of the trainer and its synchroniser.                               *)

\* get_sample_sync(): the call, its wakings, and the sample it returns.
GetSample ==
    /\ trainer = "collect"
    /\ MQ!GetSample("trainer") \/ MQ!Wake("trainer")
    /\ IF getter'["trainer"] # "idle" THEN UNCHANGED trainerVars
       ELSE IF reply'["trainer"] = EndSignal THEN ReceiveEnd
       ELSE Receive(reply'["trainer"])
    /\ UNCHANGED rollouterVars

ReadValidate ==
    /\ MQ!GetValidate
    /\ LET answer == MQ!ValidateAnswer(NoValData)
       IN  ReadFirst(answer) \/ ReadAfterStep(answer) \/ ReadFinal(answer)
    /\ UNCHANGED rollouterVars

Train ==
    /\ TrainBatch \/ EndTraining
    /\ UNCHANGED <<rollouterVars, mqVars>>

\* wait_last_valid(), then the call of pause() unless this was the last wait.
WaitLastValid ==
    /\ LastSyncDone(pc.update # "none", pc.resume # "none")
    /\ pc' = IF trainer' = "pausing" THEN [pc EXCEPT !.pause = "called"] ELSE pc
    /\ UNCHANGED <<lock, mqVars>> /\ OnlyControl

PauseReturned ==
    /\ RollouterPaused(pc.pause # "none")
    /\ MQ!UpdateParamVersion(trainer_version)
    /\ UNCHANGED rollouterVars

\* weights_version and validate are the arguments of the call until it has
\* returned: the next synchronisation waits for that.
SyncWeights ==
    /\ WeightsSynced
    /\ pc' = [pc EXCEPT !.update = "called", !.resume = "called"]
    /\ UNCHANGED <<lock, mqVars>> /\ OnlyControl

TrainerStep ==
    GetSample \/ ReadValidate \/ Train \/ WaitLastValid \/ PauseReturned \/ SyncWeights

\* Both fit() calls have returned.
Terminated ==
    /\ trainer = "finished" /\ pc.main = "done" /\ pc.monitor = "done"
    /\ UNCHANGED vars

Next ==
    \/ ProcessorStep \/ FeederStep \/ ConsumerStep \/ MainStep
    \/ MonitorStep \/ PauseStep \/ UpdateStep \/ ResumeStep
    \/ \E s \in Samples : TaskStep(s) \/ ServerStep(s)
    \/ PutSample \/ PutEndSignal \/ PutValidate
    \/ TrainerStep
    \/ Terminated

Spec == Init /\ [][Next]_vars

\* asyncio serves its ready coroutines in turn, so one that is ready again and
\* again runs (the event loop is often busy, hence SF); the servers, the queue
\* and the trainer are processes of their own.  The monitor only looks every
\* check_interval: it is sure to act on what stays so.
Fairness ==
    /\ SF_vars(ProcessorStep) /\ SF_vars(FeederStep) /\ SF_vars(ConsumerStep)
    /\ SF_vars(MainStep) /\ SF_vars(PutEndSignal)
    /\ SF_vars(PauseStep) /\ SF_vars(UpdateStep) /\ SF_vars(PutValidate) /\ SF_vars(ResumeStep)
    /\ \A s \in Samples : SF_vars(TaskStep(s)) /\ WF_vars(ServerStep(s))
    /\ WF_vars(MonitorStep) /\ WF_vars(PutSample) /\ WF_vars(TrainerStep)

FairSpec == Spec /\ Fairness

-----------------------------------------------------------------------------
(* What the pipeline promises. *)

\* Every variable of the rollouter and the trainer has its type.
TypeOK == RollouterTypeOK /\ TrainerTypeOK

InQueue(s, q) == \E i \in DOMAIN q : q[i] = s

\* How many of the places hold sample s: the processor's hands, a task, the
\* queues, the consumer's hands, the trainer's batches.
One(holds) == IF holds THEN 1 ELSE 0
InRollouter(s) ==
    One(held = s) + One(task[s] # "none") + One(InQueue(s, cancel_queue))
    + One(InQueue(s, result_queue)) + One(putting = s)
Undelivered(s) == InRollouter(s) + One(InQueue(s, mq_queue))
Copies(s) == Undelivered(s) + One(s \in received)

Taken == {s \in Samples : s <= taken}
Outstanding == {s \in Samples : Undelivered(s) > 0}

\* A sample the processor has taken is in exactly one place: its hands, a task,
\* one of the queues, or the trainer's batches.  The only samples that vanish
\* are those the full message queue dropped and those whose generation raised,
\* and the counters know each of them.
SampleAccounting ==
    /\ \A s \in Samples : Copies(s) <= One(s \in Taken)
    /\ Cardinality({s \in Taken : Copies(s) = 0}) = dropped_samples + failures

\* When the trainer has returned, no sample is left in the rollouter or in the
\* message queue: an interrupted sample, for one, was generated to its end.
AllDelivered == trainer = "finished" => Outstanding = {}

\* No more tasks than max_concurrent_samples, whoever empties active_tasks.
ConcurrencyBound == ActiveTasks <= MaxConcurrentSamples

\* The samples taken that the trainer does not have yet.  max_required_samples
\* is meant to bound them, but update_param_version overlooks the sample in the
\* processor's hands and the one the consumer is putting.  The next version
\* counts them again: the excess stays below three.
BudgetSlack == Cardinality(Outstanding) <= MaxRequiredSamples + 2

\* The rollouter never claims a version newer than the weights it runs, and
\* when a synchronisation begins the previous one has been applied.
VersionSkew ==
    /\ current_param_version <= weights_version
    /\ trainer \in {"pausing", "weights"} =>
          current_param_version = weights_version /\ trainer_version = weights_version + 1

\* staleness_threshold = 0: a sample is trained on by the version that began it.
OnPolicy ==
    [][\A s \in received' \ received : version_start[s] = trainer_version]_vars

\* staleness_threshold = 0: between two updates the rollouter generates exactly
\* what the trainer consumes; when the weights are synchronised nothing is left.
FixedRolloutNumber == trainer \in {"pausing", "weights"} => Outstanding = {}

\* staleness_threshold = 0: partial_rollout never interrupts a sample.
PartialHasNoEffect == cancel_queue = <<>>

\* The processor sleeps on the condition only while the rollout is paused.
NoLostWakeup == pc.processor \in {"idle_cond", "submit_cond"} => paused

\* While weights are loaded, no server generates: pause() has interrupted what
\* ran, and a paused server answers new requests at once.
NoGenerationDuringSync == trainer = "weights" => \A s \in Samples : task[s] # "generating"

\* While weights are loaded, the rollouter runs no task and adds none.
PauseDrains == trainer = "weights" => Live = {}

\* When a paused rollout has nothing left to deliver, the trainer waits for a
\* sample and no synchronisation is under way, nothing may call for the pause
\* any more, or the monitor will never lift it.
RolloutRecovers ==
    (/\ trainer = "collect" /\ paused /\ pc.processor # "failed"
     /\ \A c \in {"pause", "update", "resume"} : pc[c] = "none"
     /\ unreaped = 0 /\ \A s \in Outstanding : held = s \/ InQueue(s, cancel_queue))
    => ~ShouldPause(queue_size)

\* Nothing but a failed generation ends the processor with an exception.
ProcessorSurvives == pc.processor = "failed" => failures > 0

\* The metrics the trainer ends with are those of its final version.
FinalMetricsAreFinal == trainer = "finished" => val_data.version = trainer_version

\* A synchronisation once begun is completed: the calls that need self.lock are
\* not kept out by the processor, which waits for tasks with the lock in its hands.
SyncCompletes ==
    trainer \in {"wait_last", "wait_final"} ~> trainer \in {"read", "wait_end"}

\* Both fit() calls return.
Termination == <>(trainer = "finished" /\ pc.main = "done" /\ pc.monitor = "done")

\* However the processor ends, the trainer gets its end signal.
FinishSignal == (pc.processor = "failed") ~> (trainer = "finished")
=============================================================================
