----------------------- MODULE FullyAsyncSampleProofs -----------------------
(***************************************************************************)
(* Theorems about the samples of the pipeline of FullyAsyncPolicy, for     *)
(* every number of samples and failures, batch size and limit:             *)
(*                                                                         *)
(*   ProcessorSurvivesCorrect   ConcurrencyInv, Served, SurvivesInv        *)
(*   SampleAccountingCorrect    Served, AccountingInv; FlowInv for a queue *)
(*                              of one sample                              *)
(*   AllDeliveredCorrect        ConcurrencyInv, Served, SurvivesInv,       *)
(*                              DeliveredInv                               *)
(*                                                                         *)
(* and, with staleness_threshold = 0,                                      *)
(*                                                                         *)
(*   OnPolicyCorrect            FlowInv, VersionInv, BegunInv              *)
(*   FixedRolloutNumberCorrect  EmptyInv                                   *)
(*   PartialHasNoEffectCorrect  EmptyInv                                   *)
(*                                                                         *)
(* On the right the inductive invariant, together with TypeInv.            *)
(***************************************************************************)
EXTENDS FullyAsyncProofs

\* What the modules assume of the constants holds in every proof below.
USE RollouterAssumption, TrainerAssumption

-----------------------------------------------------------------------------
(* The processor never dies of done_tasks having no value.                 *)

CapacityAssumption == PendingCapacity > MaxConcurrentSamples

WaitLabels == {"drain_wait", "limit_wait", "done_wait"}

\* The queue is never shut down, and its only getter is the trainer.
Served ==
    /\ mq_running = TRUE
    /\ getter \in [{"trainer"} -> {"idle", "waiting", "notified"}]
    /\ reply \in [{"trainer"} -> 0..TotalRolloutSteps \cup {NoSample}]

\* The first uninterrupted run of the processor.
FirstRun ==
    /\ pc.main = "wait" /\ pc.monitor = "sleep"
    /\ pc.pause = "none" /\ pc.update = "none" /\ pc.resume = "none"
    /\ lock.waiters = <<>>
    /\ IF pc.processor = "top" THEN lock.owner = Nobody
                               ELSE lock.owner = "processor" /\ lock.kept
    /\ trainer \in {"start", "collect"}
    /\ mq_queue = <<>>
    /\ putting = 0 /\ cancel_queue = <<>> /\ unreaped = 0
    /\ fed \in {Done, PendingCapacity}
    /\ staleness_samples = taken
    /\ \A s \in Samples : task[s] = IF s <= taken /\ s # held THEN "created" ELSE "none"
    /\ pc.processor \in DOMAIN WaitOf => ActiveTasks > 0
    /\ \/ /\ pc.processor = "top"
          /\ held = 0 /\ taken < Done /\ ~paused
       \/ /\ pc.processor \in {"limit_in", "submit_in"}
          /\ held = taken /\ taken \in Samples /\ ~paused
       \/ /\ pc.processor \in {"pause_in", "drain_in"}
          /\ held = 0 /\ taken \in Samples
       \/ pc.processor = "done_in"

SurvivesInv ==
    /\ failed_unreaped => failures > 0
    /\ ProcessorSurvives
    /\ done_tasks_bound \/ FirstRun
         \/ pc.processor \in WaitLabels \cup {"finished", "failed"}

\* At the start the first run begins with nothing taken.
LEMMA SurvivesInit ==
    ASSUME CapacityAssumption, Init
    PROVE  SurvivesInv
<1>1. RollouterInit /\ TrainerInit /\ mq_queue = <<>>
  BY DEF Init, MQ!InitWith
<1>2. FirstRun
  <2>1. \A s \in Samples : task[s] = "none" /\ ~(s <= taken)
    BY <1>1 DEF RollouterInit, Samples
  <2>2. pc.processor = "top" /\ taken = 0 /\ held = 0 /\ ~paused
    BY <1>1 DEF RollouterInit
  <2>6. taken < Done
    BY <2>2 DEF Done
  <2>3. /\ pc.main = "wait" /\ pc.monitor = "sleep"
        /\ pc.pause = "none" /\ pc.update = "none" /\ pc.resume = "none"
    BY <1>1 DEF RollouterInit
  <2>7. /\ lock.waiters = <<>> /\ lock.owner = Nobody
        /\ putting = 0 /\ cancel_queue = <<>> /\ unreaped = 0 /\ staleness_samples = taken
    BY <1>1 DEF RollouterInit
  <2>4. trainer \in {"start", "collect"} /\ fed \in {Done, PendingCapacity}
    BY <1>1 DEF RollouterInit, TrainerInit
  <2>5. pc.processor \notin DOMAIN WaitOf
    BY <2>2 DEF WaitOf
  <2> QED BY <1>1, <2>1, <2>2, <2>3, <2>4, <2>5, <2>6, <2>7 DEF FirstRun
<1> QED BY <1>1, <1>2 DEF RollouterInit, SurvivesInv, ProcessorSurvives

\* What FirstRun depends on besides the trainer's label.
firstVars == <<pc, lock, mq_queue, putting, cancel_queue, fed, taken, held, task,
               unreaped, staleness_samples, paused>>

\* Nothing but the trainer runs beside the first run: its reads of an empty queue.
LEMMA FirstRunAlone ==
    ASSUME TypeInv, Served, FirstRun, [Next]_vars, ~ProcessorStep
    PROVE  FirstRun' /\ UNCHANGED <<failed_unreaped, failures, done_tasks_bound, pc>>
<1>1. /\ ~LoopIsFree
      /\ \A c \in Coroutines \ {"processor"} : lock.owner # c
      /\ \A s \in Samples : task[s] \notin {"sent", "generating"}
  BY DEF FirstRun, LoopIsFree, Coroutines, Nobody
<1>2. /\ pc.pause = "none" /\ pc.main = "wait" /\ pc.update = "none" /\ putting = 0
      /\ trainer \in {"start", "collect"} /\ mq_queue = <<>>
  BY DEF FirstRun
<1>3. ASSUME UNCHANGED firstVars, trainer' \in {"start", "collect"} PROVE FirstRun'
  BY <1>3 DEF FirstRun, firstVars, ActiveTasks, Live
<1>4. CASE GetSample
  <2>1. getter'["trainer"] = "waiting" /\ UNCHANGED <<mq_queue, mq_running>>
    <3>1. MQ!GetLoop("trainer")
      BY <1>4 DEF GetSample, MQ!GetSample, MQ!Wake
    <3>2. ~MQ!ReturnNone("trainer") /\ ~MQ!TakeOldest("trainer")
      <4>1. ~MQ!ReturnNone("trainer")
        BY DEF Served, MQ!ReturnNone
      <4>2. ~MQ!TakeOldest("trainer")
        BY <1>2 DEF MQ!TakeOldest
      <4> QED BY <4>1, <4>2
    <3>3. MQ!WaitForSample("trainer") /\ UNCHANGED mq_running
      BY <3>1, <3>2 DEF MQ!GetLoop
    <3> QED BY <3>3 DEF Served, MQ!WaitForSample
  <2> QED
    BY <1>2, <1>3, <1>4, <2>1 DEF GetSample, trainerVars, rollouterVars, control, intakeVars,
       outputVars, taskVars, reapVars, flagVars, countVars, serverVars, firstVars
<1>5. CASE ReadValidate
  BY <1>2, <1>3, <1>5 DEF ReadValidate, MQ!GetValidate, ReadFirst, ReadAfterStep, ReadFinal,
     rollouterVars, control, intakeVars, outputVars, taskVars, reapVars, flagVars, countVars,
     serverVars, firstVars
<1>6. ~Train /\ ~WaitLastValid /\ ~PauseReturned /\ ~SyncWeights /\ ~Terminated
  BY <1>2 DEF Train, TrainBatch, EndTraining, WaitLastValid, LastSyncDone, PauseReturned,
     RollouterPaused, SyncWeights, WeightsSynced, Terminated
<1>7. ~FeederStep /\ ~ConsumerStep /\ ~PutSample /\ ~PutEndSignal /\ ~PutValidate
  BY <1>1, <1>2 DEF FeederStep, Feed, ConsumerStep, ConsumerTake, PutSample, PutDelivered,
     PutEndSignal, EndSignalDelivered, PutValidate, UpdateReported
<1>8. ~MainStep /\ ~MonitorStep /\ ~PauseStep /\ ~UpdateStep /\ ~ResumeStep
  BY <1>1, <1>2 DEF MainStep, MainJoined, StopRunning, MonitorStep, MonitorTurn, MonitorResume,
     PauseStep, CallArrives, PauseBegin, ServerCancel, PauseGathered, PauseEnd, UpdateStep,
     UpdateCount, UpdateSized, ResumeStep, ResumeBegin, ServerResume, InLock, Coroutines
<1>9. ~\E s \in Samples : TaskStep(s) \/ ServerStep(s)
  BY <1>1 DEF TaskStep, StartTask, EndTask, ServerStep, ServerAdmit
<1>10. CASE UNCHANGED vars
  BY <1>2, <1>3, <1>10 DEF vars, mqVars, trainerVars, rollouterVars, control, intakeVars,
       outputVars, taskVars, reapVars, flagVars, countVars, serverVars, firstVars
<1> QED
  BY <1>4, <1>5, <1>6, <1>7, <1>8, <1>9, <1>10 DEF Next, TrainerStep

\* In the first run every sample taken and not in the processor's hands has a task.
LEMMA FirstTasks ==
    ASSUME TypeInv, FirstRun, held = 0, taken < Done
    PROVE  Live = 1..taken /\ ActiveTasks = taken
<1>1. taken \in Nat /\ taken <= TotalRolloutSteps
  <2>1. taken \in 0..Done /\ Done = TotalRolloutSteps + 1
    BY DEF TypeInv, IntakeTyped, Done
  <2> QED BY <2>1
<1>2. Live = 1..taken
  BY <1>1 DEF Live, FirstRun, Samples
<1>3. Cardinality(1..taken) = taken
  BY <1>1, FS_Interval
<1> QED BY <1>1, <1>2, <1>3 DEF ActiveTasks, FirstRun

\* The queue is open at the start, and nobody asks it for a sample.
LEMMA ServedInit == Init => Served
BY DEF Init, MQ!InitWith, Served

\* The queue stays open, and get_sample() is in one of its three states.
LEMMA ServedStep == TypeInv /\ Served /\ [Next]_vars => Served'
<1> SUFFICES ASSUME TypeInv, Served, [Next]_vars PROVE Served'
  OBVIOUS
<1>1. CASE UNCHANGED <<mq_running, getter, reply>>
  BY <1>1 DEF Served
<1>2. CASE UNCHANGED mqVars
  BY <1>1, <1>2 DEF mqVars
<1>3. ASSUME NEW s, MQ!PutSample(s) PROVE Served'
  BY <1>3 DEF MQ!PutSample, MQ!NotifyAll, Served
<1>4. CASE GetSample
  <2>1. MQ!GetLoop("trainer")
    BY <1>4 DEF GetSample, MQ!GetSample, MQ!Wake
  <2>2. mq_running' = TRUE
    BY <2>1 DEF MQ!GetLoop, Served
  <2>3. CASE MQ!WaitForSample("trainer")
    BY <2>2, <2>3 DEF MQ!WaitForSample, Served
  <2>4. CASE MQ!ReturnNone("trainer")
    BY <2>4 DEF MQ!ReturnNone, Served
  <2>5. CASE MQ!TakeOldest("trainer")
    <3>1. Head(mq_queue) \in 0..TotalRolloutSteps
      BY <2>5 DEF MQ!TakeOldest, TypeInv, QueueTyped
    <3> QED BY <2>2, <2>5, <3>1 DEF MQ!TakeOldest, Served
  <2> QED BY <2>1, <2>3, <2>4, <2>5 DEF MQ!GetLoop
<1>5. CASE ReadValidate \/ PauseReturned \/ PutValidate
  BY <1>1, <1>5 DEF ReadValidate, MQ!GetValidate, PauseReturned, MQ!UpdateParamVersion,
     PutValidate, MQ!PutValidate
<1>6. CASE PutSample \/ PutEndSignal
  BY <1>3, <1>6 DEF PutSample, PutEndSignal
<1>7. CASE Train \/ WaitLastValid \/ SyncWeights \/ Terminated \/ UNCHANGED vars
  BY <1>2, <1>7 DEF Train, WaitLastValid, SyncWeights, Terminated, vars
<1>8. CASE \/ ProcessorStep \/ FeederStep \/ ConsumerStep \/ MainStep
           \/ MonitorStep \/ PauseStep \/ UpdateStep \/ ResumeStep
           \/ \E s \in Samples : TaskStep(s) \/ ServerStep(s)
  BY <1>2, <1>8 DEF ProcessorStep, FeederStep, ConsumerStep, MainStep, MonitorStep, PauseStep,
     UpdateStep, ResumeStep, TaskStep, ServerStep, Alone
<1> QED BY <1>4, <1>5, <1>6, <1>7, <1>8 DEF Next, TrainerStep

\* notify_all() finds the processor asleep or leaves it where it is.
LEMMA NotifiedSleeper ==
    ASSUME NEW p \in [Coroutines -> Labels]
    PROVE  \/ Notified(p).processor = p.processor
           \/ p.processor = "idle_cond" /\ Notified(p).processor = "idle_woken"
           \/ p.processor = "submit_cond" /\ Notified(p).processor = "submit_woken"
BY DEF Notified, WokenFrom, Coroutines, Asleep, Labels

\* Nobody but the processor moves the processor, except out of its sleep.
LEMMA ProcessorMovedByNobody ==
    ASSUME PcTyped, [Next]_vars, ~ProcessorStep
    PROVE  \/ pc'.processor = pc.processor
           \/ pc.processor = "idle_cond" /\ pc'.processor = "idle_woken"
           \/ pc.processor = "submit_cond" /\ pc'.processor = "submit_woken"
<1> DEFINE Goal == \/ pc'.processor = pc.processor
                   \/ pc.processor = "idle_cond" /\ pc'.processor = "idle_woken"
                   \/ pc.processor = "submit_cond" /\ pc'.processor = "submit_woken"
<1>1. ASSUME NEW c \in Coroutines \ {"processor"}, NEW label \in Labels,
             pc' = Notified([pc EXCEPT ![c] = label])
      PROVE  Goal
  <2> DEFINE p == [pc EXCEPT ![c] = label]
  <2>1. p \in [Coroutines -> Labels] /\ p.processor = pc.processor
    BY DEF PcTyped, Coroutines
  <2> HIDE DEF p
  <2> QED BY <1>1, <2>1, NotifiedSleeper DEF p
<1>2. ASSUME NEW c \in Coroutines \ {"processor"}, Moves(c) PROVE Goal
  BY <1>2 DEF Moves, Coroutines
<1>3. CASE MonitorStep
  <2>1. CASE MonitorResume
    <3>1. pc' = Notified([pc EXCEPT !["monitor"] = IF running THEN "sleep" ELSE "done"])
      BY <2>1 DEF MonitorResume
    <3> QED BY <1>1, <3>1 DEF Coroutines, Labels
  <2>2. CASE MonitorTurn(queue_size)
    <3>1. ASSUME NEW label \in Labels, Goto("monitor", label) PROVE Goal
      BY <1>2, <3>1, GotoLabel DEF Coroutines
    <3> QED BY <2>2, <3>1 DEF MonitorTurn, AskLock, Labels
  <2> QED BY <1>3, <2>1, <2>2 DEF MonitorStep
<1>4. CASE ResumeStep
  <2>1. CASE ResumeBegin
    <3>1. pc' = Notified([pc EXCEPT !["resume"] = IF PartialRollout THEN "server" ELSE "none"])
      BY <2>1 DEF ResumeBegin
    <3> QED BY <1>1, <3>1 DEF Coroutines, Labels
  <2>2. CASE CallArrives("resume") \/ ServerResume
    <3>1. ASSUME NEW label \in Labels, Goto("resume", label) PROVE Goal
      BY <1>2, <3>1, GotoLabel DEF Coroutines
    <3> QED BY <2>2, <3>1 DEF CallArrives, ServerResume, AskLock, LeaveLock, Labels
  <2> QED BY <1>4, <2>1, <2>2 DEF ResumeStep
<1>5. CASE MainStep \/ PutEndSignal \/ PauseStep \/ UpdateStep \/ PutValidate
  BY <1>2, <1>5, MainMoves, PauseMoves, UpdateMoves DEF Coroutines
<1>6. CASE TrainerStep
  BY <1>6, TrainerMoves
<1>7. CASE \/ FeederStep \/ ConsumerStep \/ PutSample \/ Terminated \/ UNCHANGED vars
           \/ \E s \in Samples : TaskStep(s) \/ ServerStep(s)
  BY <1>7, OthersDoNotMove
<1> QED BY <1>3, <1>4, <1>5, <1>6, <1>7 DEF Next

\* Nor does anybody else bind done_tasks, and an exception that waits in a task
\* is a failure that was counted.
LEMMA FailuresCounted ==
    ASSUME TypeInv, [Next]_vars, ~ProcessorStep
    PROVE  /\ done_tasks_bound' = done_tasks_bound
           /\ failures' \in Nat /\ failures' >= failures
           /\ failed_unreaped' => failed_unreaped \/ failures' > 0
<1>0. failures \in Nat /\ failed_unreaped \in BOOLEAN
  BY DEF TypeInv, ServerTyped, ReapTyped
<1>1. CASE UNCHANGED <<done_tasks_bound, failed_unreaped, failures>>
  BY <1>0, <1>1
<1>2. CASE UNCHANGED reapVars /\ UNCHANGED failures
  BY <1>1, <1>2 DEF reapVars
<1>3. CASE MainStep \/ PutEndSignal \/ MonitorStep \/ UpdateStep \/ PutValidate
  BY <1>2, <1>3 DEF MainStep, MainJoined, StopRunning, PutEndSignal, EndSignalDelivered,
     MonitorStep, MonitorTurn, MonitorResume, UpdateStep, CallArrives, UpdateCount, UpdateSized,
     PutValidate, UpdateReported, OnlyControl, OnlyFlags, taskVars, serverVars
<1>4. CASE PauseGathered
  BY <1>0, <1>4 DEF PauseGathered, OnlyReaps, serverVars
<1>5. CASE ResumeStep \/ (PauseStep /\ ~PauseGathered)
  BY <1>2, <1>5 DEF ResumeStep, PauseStep, CallArrives, PauseBegin, ServerCancel, PauseEnd,
     ResumeBegin, ServerResume, OnlyControl, OnlyFlags, taskVars, serverVars
<1>6. CASE TrainerStep
  BY <1>2, <1>6 DEF TrainerStep, GetSample, ReadValidate, Train, WaitLastValid, PauseReturned,
     SyncWeights, OnlyControl, rollouterVars, taskVars, serverVars
<1>7. CASE FeederStep \/ ConsumerStep \/ PutSample \/ Terminated \/ UNCHANGED vars
  BY <1>2, <1>7 DEF FeederStep, Feed, ConsumerStep, ConsumerTake, PutSample, PutDelivered,
     Terminated, OnlyIntake, OnlyOutput, vars, rollouterVars, taskVars, serverVars
<1>8. CASE \E s \in Samples : TaskStep(s) \/ ServerStep(s)
  <2>1. PICK s \in Samples : TaskStep(s) \/ ServerStep(s)
    BY <1>8
  <2>2. CASE StartTask(s) \/ ServerAdmit(s)
    BY <1>2, <2>2 DEF StartTask, ServerAdmit, serverVars
  <2>3. CASE EndTask(s)
    <3>1. PICK answer \in Answers(s) :
            /\ failed_unreaped' = (failed_unreaped \/ answer = "raised")
            /\ failures' = IF answer = "raised" THEN failures + 1 ELSE failures
      BY <2>3 DEF EndTask
    <3>2. done_tasks_bound' = done_tasks_bound
      BY <2>3 DEF EndTask
    <3>3. CASE answer = "raised"
      BY <1>0, <3>1, <3>2, <3>3
    <3>4. CASE answer # "raised"
      BY <1>0, <3>1, <3>2, <3>4
    <3> QED BY <3>3, <3>4
  <2> QED BY <2>1, <2>2, <2>3 DEF TaskStep, ServerStep
<1> QED BY <1>3, <1>4, <1>5, <1>6, <1>7, <1>8 DEF Next, PauseStep

\* What the lock looks like in the first run: nobody but the processor wants it.
LEMMA FirstLock ==
    ASSUME lock \in Lock, lock.waiters = <<>>
    PROVE  /\ Released(lock) \in Lock /\ Released(lock).waiters = <<>>
           /\ Released(lock).owner = Nobody
           /\ \A l \in Lock : l.owner = Nobody /\ l.waiters = <<>> =>
                 /\ Requested(l, "processor").owner = "processor"
                 /\ Requested(l, "processor").waiters = <<>>
                 /\ Requested(l, "processor").kept
BY DEF Lock, Released, Requested

\* The first run takes one prompt after another, each into a task of its own,
\* and there are more prompts than tasks: it ends at the wait for a task.
LEMMA FirstRunStep ==
    ASSUME CapacityAssumption, TypeInv, TypeInv', ConcurrencyBound, FirstRun, ProcessorStep,
           ~done_tasks_bound
    PROVE  /\ FirstRun' \/ pc'.processor \in WaitLabels
           /\ UNCHANGED <<failed_unreaped, failures, done_tasks_bound>>
<1>0. PcTyped /\ lock \in Lock /\ lock' \in Lock /\ taken \in Nat /\ Done = TotalRolloutSteps + 1
      /\ task \in [Samples -> {"none", "created", "sent", "generating"}]
  BY DEF TypeInv, IntakeTyped, Done, TaskTyped
<1>1. ASSUME NEW label \in Labels, Goto("processor", label)
      PROVE  /\ pc'.processor = label
             /\ \A c \in {"main", "monitor", "pause", "update", "resume"} : pc'[c] = pc[c]
  BY <1>0, <1>1, GotoLabel DEF Moves, Coroutines
<1>2. ASSUME NEW l \in Lock, l.owner = Nobody, l.waiters = <<>>,
             NEW loop \in Loops, NEW n \in Nat, EnterLoop(l, loop, n), loop # "limit" => n > 0
      PROVE  /\ pc'.processor = CASE loop = "drain" -> "drain_in"
                                  [] loop = "done" -> "done_in"
                                  [] OTHER -> IF AtLimit(n) THEN "limit_in" ELSE "submit_in"
             /\ \A c \in {"main", "monitor", "pause", "update", "resume"} : pc'[c] = pc[c]
             /\ lock'.owner = "processor" /\ lock'.waiters = <<>> /\ lock'.kept
  <2>1. AtHead(loop, n) = CASE loop = "drain" -> "drain_in"
                            [] loop = "done" -> "done_in"
                            [] OTHER -> IF AtLimit(n) THEN "limit_in" ELSE "submit_in"
    BY <1>2 DEF AtHead, BusyHead, FreeHead, Loops
  <2>2. AtHead(loop, n) \in Labels /\ AtHead(loop, n) # "finished"
    BY <2>1 DEF Labels
  <2>3. lock' = Requested(l, "processor")
    BY <1>2, <2>2 DEF EnterLoop
  <2>4. lock'.owner = "processor" /\ lock'.waiters = <<>> /\ lock'.kept
    BY <1>2, <2>3 DEF Requested, Lock
  <2> QED BY <1>1, <1>2, <2>1, <2>2, <2>4 DEF EnterLoop
<1>3. /\ pc.processor \in {"top", "pause_in", "drain_in", "limit_in", "done_in", "submit_in"}
      /\ pc.processor \in {"drain_in", "limit_in", "done_in"} => ActiveTasks > 0
  BY DEF FirstRun, WaitOf
<1>4. CASE ProcessorTop(queue_size)
  <2>1. /\ pc.processor = "top" /\ held = 0 /\ taken < Done /\ ~paused
        /\ lock.owner = Nobody /\ lock.waiters = <<>> /\ cancel_queue = <<>>
        /\ UNCHANGED <<fed, task, unreaped, paused, mq_queue, putting, trainer>>
        /\ UNCHANGED <<failed_unreaped, failures, done_tasks_bound>>
    BY <1>4 DEF ProcessorStep, ProcessorTop, FirstRun, OnlyIntake, taskVars, reapVars, flagVars,
       serverVars, outputVars, Alone, mqVars, trainerVars
  <2>2. Live = 1..taken /\ ActiveTasks = taken /\ ActiveTasks' = ActiveTasks
    BY <2>1, FirstTasks, ActiveTasksKept
  <2>3. taken < fed
    BY <1>0, <2>1, <2>2 DEF FirstRun, ConcurrencyBound, CapacityAssumption
  <2>4. CASE paused \/ ShouldPause(queue_size)
    <3>1. taken \in Samples
      <4>1. queue_size = 0 /\ staleness_samples = taken
        BY DEF FirstRun, queue_size
      <4> QED BY <1>0, <2>1, <2>4, <4>1 DEF ShouldPause, Samples
    <3>2. AskLock("processor", "pause_in")
          /\ UNCHANGED <<taken, cancel_queue, held, staleness_samples>>
      BY <1>4, <2>4 DEF ProcessorTop
    <3>3. /\ pc'.processor = "pause_in"
          /\ \A c \in {"main", "monitor", "pause", "update", "resume"} : pc'[c] = pc[c]
      BY <1>1, <3>2 DEF AskLock, Labels
    <3>4. lock'.owner = "processor" /\ lock'.waiters = <<>> /\ lock'.kept
      BY <1>0, <2>1, <3>2, FirstLock DEF AskLock
    <3>5. FirstRun'
      BY <2>1, <3>1, <3>2, <3>3, <3>4 DEF FirstRun, WaitOf
    <3> QED BY <2>1, <3>5
  <2>5. CASE ~(paused \/ ShouldPause(queue_size))
    <3>1. TakePending /\ UNCHANGED cancel_queue
      BY <1>4, <2>1, <2>5 DEF ProcessorTop
    <3>2. /\ taken' = taken + 1 /\ held' = SampleOf(taken + 1)
          /\ staleness_samples' = staleness_samples + 1
          /\ EnterLoop(lock, IF held' = 0 THEN "done" ELSE "limit", ActiveTasks)
      <4>1. ~PendingIsEmpty
        BY <1>0, <2>3 DEF PendingIsEmpty, TypeInv, IntakeTyped
      <4> QED BY <3>1, <4>1 DEF TakePending, CountSample
    <3>3. held' = IF taken + 1 = Done THEN 0 ELSE taken + 1
      BY <3>2 DEF SampleOf
    <3>4. \A s \in Samples : task'[s] = IF s <= taken' /\ s # held' THEN "created" ELSE "none"
      <4> SUFFICES ASSUME NEW s \in Samples
                   PROVE  (s <= taken' /\ s # held') <=> (s <= taken /\ s # held)
        BY <2>1 DEF FirstRun
      <4> QED BY <1>0, <2>1, <3>2, <3>3 DEF Samples
    <3>5. /\ staleness_samples' = taken' /\ cancel_queue' = <<>>
          /\ taken' \in Nat /\ (taken' # Done => taken' \in Samples)
      BY <1>0, <2>1, <3>1, <3>2 DEF FirstRun, Samples
    <3>6. CASE held' = 0
      <4>1. taken > 0
        BY <1>0, <3>3, <3>6
      <4>2. EnterLoop(lock, "done", taken)
        BY <2>2, <3>2, <3>6
      <4>3. /\ pc'.processor = "done_in"
            /\ \A c \in {"main", "monitor", "pause", "update", "resume"} : pc'[c] = pc[c]
            /\ lock'.owner = "processor" /\ lock'.waiters = <<>> /\ lock'.kept
        BY <1>0, <1>2, <2>1, <4>1, <4>2 DEF Loops
      <4>4. ActiveTasks' > 0
        BY <2>2, <4>1
      <4>5. FirstRun'
        BY <2>1, <3>4, <3>5, <4>3, <4>4 DEF FirstRun
      <4> QED BY <2>1, <4>5
    <3>7. CASE held' # 0
      <4>1. EnterLoop(lock, "limit", taken)
        BY <2>2, <3>2, <3>7
      <4>2. /\ pc'.processor = IF AtLimit(taken) THEN "limit_in" ELSE "submit_in"
            /\ \A c \in {"main", "monitor", "pause", "update", "resume"} : pc'[c] = pc[c]
            /\ lock'.owner = "processor" /\ lock'.waiters = <<>> /\ lock'.kept
        BY <1>0, <1>2, <2>1, <4>1 DEF Loops
      <4>3. pc'.processor = "limit_in" => ActiveTasks' > 0
        BY <1>0, <2>2, <4>2 DEF AtLimit
      <4>4. held' = taken' /\ taken' \in Samples
        BY <3>2, <3>3, <3>5, <3>7
      <4>5. FirstRun'
        BY <2>1, <3>4, <3>5, <4>2, <4>3, <4>4 DEF FirstRun, WaitOf
      <4> QED BY <2>1, <4>5
    <3> QED BY <3>6, <3>7
  <2> QED BY <2>4, <2>5
<1>5. CASE SetPaused
  <2>1. /\ pc.processor = "pause_in" /\ held = 0 /\ taken \in Samples /\ lock.waiters = <<>>
        /\ EnterLoop(Released(lock), "drain", ActiveTasks)
        /\ UNCHANGED <<task, unreaped, mq_queue, putting, trainer, fed, taken, held, cancel_queue,
                       staleness_samples>>
        /\ UNCHANGED <<failed_unreaped, failures, done_tasks_bound>>
    BY <1>5 DEF ProcessorStep, SetPaused, InLock, FirstRun, OnlyFlags, taskVars, reapVars,
       intakeVars, countVars, serverVars, outputVars, Alone, mqVars, trainerVars
  <2>2. ActiveTasks = taken /\ ActiveTasks' = ActiveTasks
    <3>1. taken < Done
      BY <1>0, <2>1 DEF Samples
    <3> QED BY <2>1, <3>1, FirstTasks, ActiveTasksKept
  <2>3. taken > 0
    BY <2>1 DEF Samples
  <2>4. /\ pc'.processor = "drain_in"
        /\ \A c \in {"main", "monitor", "pause", "update", "resume"} : pc'[c] = pc[c]
        /\ lock'.owner = "processor" /\ lock'.waiters = <<>> /\ lock'.kept
    <3>1. Released(lock) \in Lock /\ Released(lock).owner = Nobody
          /\ Released(lock).waiters = <<>>
      BY <1>0, <2>1, FirstLock
    <3> QED BY <1>0, <1>2, <2>1, <2>2, <2>3, <3>1 DEF Loops
  <2>5. FirstRun'
    BY <2>1, <2>2, <2>3, <2>4 DEF FirstRun
  <2> QED BY <2>1, <2>5
<1>6. CASE AwaitTasks
  <2>1. KeepLock("processor", WaitOf[pc.processor])
        /\ WaitOf[pc.processor] \in WaitLabels
    BY <1>3, <1>6 DEF AwaitTasks, WaitOf, WaitLabels
  <2>2. pc'.processor \in WaitLabels
    BY <1>1, <2>1 DEF KeepLock, WaitLabels, Labels
  <2>3. UNCHANGED <<failed_unreaped, failures, done_tasks_bound>>
    BY <1>6 DEF AwaitTasks, OnlyControl, taskVars, reapVars, serverVars
  <2> QED BY <2>2, <2>3
<1>7. CASE Submit
  <2>1. /\ pc.processor = "submit_in" /\ held = taken /\ taken \in Samples /\ ~paused
        /\ lock.waiters = <<>>
    BY <1>7 DEF Submit, InLock, FirstRun
  <2>2. /\ LeaveLock("processor", "top")
        /\ task' = [task EXCEPT ![held] = "created"] /\ held' = 0
        /\ UNCHANGED <<unreaped, mq_queue, putting, trainer, fed, taken, cancel_queue,
                       staleness_samples, paused>>
        /\ UNCHANGED <<failed_unreaped, failures, done_tasks_bound>>
    BY <1>7, <2>1 DEF ProcessorStep, Submit, taskVars, reapVars, flagVars,
       intakeVars, countVars, serverVars, outputVars, Alone, mqVars, trainerVars
  <2>3. /\ pc'.processor = "top"
        /\ \A c \in {"main", "monitor", "pause", "update", "resume"} : pc'[c] = pc[c]
    BY <1>1, <2>2 DEF LeaveLock, Labels
  <2>4. lock'.owner = Nobody /\ lock'.waiters = <<>>
    BY <1>0, <2>1, <2>2, FirstLock DEF LeaveLock
  <2>5. \A s \in Samples : task'[s] = IF s <= taken' /\ s # held' THEN "created" ELSE "none"
    BY <1>0, <2>1, <2>2 DEF FirstRun, Samples
  <2>6. taken < Done
    BY <1>0, <2>1 DEF Samples
  <2>7. FirstRun'
    BY <2>1, <2>2, <2>3, <2>4, <2>5, <2>6 DEF FirstRun, WaitOf
  <2> QED BY <2>2, <2>7
<1>8. ~GetPending /\ ~Reap /\ ~Idle /\ ~Woken
  BY <1>3 DEF GetPending, Reap, Idle, InLock, Woken
<1> QED BY <1>4, <1>5, <1>6, <1>7, <1>8 DEF ProcessorStep

\* Whatever the processor does afterwards, only a failure ends it.
LEMMA SurvivesProcessor ==
    ASSUME CapacityAssumption, TypeInv, TypeInv', ConcurrencyBound, SurvivesInv, ProcessorStep
    PROVE  SurvivesInv'
<1>0. PcTyped
  BY DEF TypeInv
<1>1. CASE FirstRun /\ ~done_tasks_bound
  <2>1. pc'.processor # "failed"
    <3>1. FirstRun' => pc'.processor # "failed"
      BY DEF FirstRun
    <3> QED BY <1>1, <3>1, FirstRunStep DEF WaitLabels
  <2> QED BY <1>1, <2>1, FirstRunStep DEF SurvivesInv, ProcessorSurvives
<1>2. ASSUME NEW label \in Labels, Goto("processor", label) PROVE pc'.processor = label
  BY <1>0, <1>2, GotoLabel DEF Coroutines
<1>3. ASSUME NEW l, NEW loop \in Loops, NEW n, EnterLoop(l, loop, n)
      PROVE  pc'.processor # "failed"
  <2>1. AtHead(loop, n) \in Labels /\ AtHead(loop, n) # "failed"
    BY DEF AtHead, Loops, BusyHead, FreeHead, Labels
  <2> QED BY <1>2, <1>3, <2>1 DEF EnterLoop
<1>4. ASSUME UNCHANGED <<failed_unreaped, failures, done_tasks_bound>>, done_tasks_bound,
             pc'.processor # "failed"
      PROVE  SurvivesInv'
  BY <1>4 DEF SurvivesInv, ProcessorSurvives
<1>5. CASE Reap
  <2>1. /\ failed_unreaped' = FALSE /\ done_tasks_bound' = TRUE /\ failures' = failures
        /\ LoopOf[pc.processor] \in Loops
    BY <1>5 DEF Reap, OnlyReaps, serverVars, LoopOf, Loops
  <2>2. pc'.processor = "failed" => failed_unreaped
    BY <1>3, <1>5, <2>1 DEF Reap
  <2> QED BY <2>1, <2>2 DEF SurvivesInv, ProcessorSurvives
<1>6. CASE ~Reap /\ done_tasks_bound
  <2>1. UNCHANGED <<failed_unreaped, failures, done_tasks_bound>>
    BY <1>6 DEF ProcessorStep, ProcessorTop, GetPending, SetPaused, AwaitTasks, Idle, Woken,
       Submit, OnlyControl, OnlyFlags, OnlyIntake, taskVars, reapVars, serverVars
  <2>2. CASE AwaitTasks
    <3>1. /\ WaitOf[pc.processor] \in Labels \ {"failed"} /\ LoopOf[pc.processor] \in Loops
      BY <2>2 DEF AwaitTasks, WaitOf, LoopOf, Labels, Loops
    <3>2. pc'.processor # "failed"
      BY <1>2, <1>3, <1>6, <2>2, <3>1 DEF AwaitTasks, KeepLock
    <3> QED BY <1>4, <1>6, <2>1, <3>2
  <2>3. CASE ~AwaitTasks
    <3>1. pc'.processor # "failed"
      BY <1>2, <1>3, <1>6, <2>3 DEF ProcessorStep, ProcessorTop, GetPending, SetPaused, Idle,
         Woken, Submit, AskLock, LeaveLock, TakePending, TakeCancelled, Labels, Loops
    <3> QED BY <1>4, <1>6, <2>1, <3>1
  <2> QED BY <2>2, <2>3
<1>7. CASE pc.processor \in {"finished", "failed"}
  BY <1>7 DEF ProcessorStep, ProcessorTop, GetPending, SetPaused, AwaitTasks, Idle, Woken, WaitOf,
     Reap, Submit, InLock
<1>8. CASE pc.processor \in WaitLabels
  <2>1. Reap
    BY <1>8 DEF ProcessorStep, ProcessorTop, GetPending, SetPaused, AwaitTasks, Idle, Woken,
       WaitOf, Submit, InLock, WaitLabels
  <2> QED BY <1>5, <2>1
<1> QED BY <1>1, <1>5, <1>6, <1>7, <1>8 DEF SurvivesInv

\* Nobody else brings it down, and nobody disturbs its first run.
LEMMA SurvivesStep ==
    ASSUME CapacityAssumption, TypeInv, TypeInv', Served, ConcurrencyBound, SurvivesInv,
           [Next]_vars
    PROVE  SurvivesInv'
<1>1. CASE ProcessorStep
  BY <1>1, SurvivesProcessor
<1>2. CASE ~ProcessorStep
  <2>0. PcTyped /\ failures \in Nat
    BY DEF TypeInv, ServerTyped
  <2>1. /\ done_tasks_bound' = done_tasks_bound
        /\ failures' \in Nat /\ failures' >= failures
        /\ failed_unreaped' => failed_unreaped \/ failures' > 0
    BY <1>2, FailuresCounted
  <2>2. \/ pc'.processor = pc.processor
        \/ pc.processor \in Asleep /\ pc'.processor \in {"idle_woken", "submit_woken"}
    BY <1>2, <2>0, ProcessorMovedByNobody DEF Asleep
  <2>3. (failed_unreaped' => failures' > 0) /\ ProcessorSurvives'
    BY <2>0, <2>1, <2>2 DEF SurvivesInv, ProcessorSurvives
  <2>4. CASE FirstRun
    BY <1>2, <2>1, <2>3, <2>4, FirstRunAlone DEF SurvivesInv
  <2>5. CASE ~FirstRun
    BY <2>1, <2>2, <2>3, <2>5 DEF SurvivesInv, WaitLabels, Asleep
  <2> QED BY <2>4, <2>5
<1> QED BY <1>1, <1>2

\* Nothing but a failed generation ends the processor with an exception.
THEOREM ProcessorSurvivesCorrect == CapacityAssumption => (Spec => []ProcessorSurvives)
<1> SUFFICES ASSUME CapacityAssumption PROVE Spec => []ProcessorSurvives
  OBVIOUS
<1> DEFINE I == TypeInv /\ ConcurrencyInv /\ Served /\ SurvivesInv
<1>1. Init => I
  BY TypeInit, ConcurrencyInit, ServedInit, SurvivesInit
<1>2. I /\ [Next]_vars => I'
  <2> SUFFICES ASSUME I, [Next]_vars PROVE I'
    OBVIOUS
  <2>1. TypeInv'
    BY TypeStep
  <2>2. ConcurrencyInv'
    BY ConcurrencyStep
  <2>3. Served'
    BY ServedStep
  <2>4. SurvivesInv'
    BY <2>1, SurvivesStep DEF ConcurrencyInv
  <2> QED BY <2>1, <2>2, <2>3, <2>4
<1>3. I => ProcessorSurvives
  BY DEF SurvivesInv
<1> QED BY <1>1, <1>2, <1>3, PTL DEF Spec

-----------------------------------------------------------------------------
(* Where the samples are.                                                  *)

\* No sample is twice in a queue.
NoRepeats(q) == \A i, j \in DOMAIN q : q[i] = q[j] => i = j

Vanished == {s \in Taken : Copies(s) = 0}

\* The processor has no sample in its hands but between taking and submitting it.
EmptyHanded ==
    pc.processor \notin Submitting \cup {"limit_in", "limit_wait", "failed"} => held = 0

\* The end signal is put once, when the consumer takes no more samples: the one it
\* may still be putting is all that can come after it.
EndSignalLast ==
    \A i \in DOMAIN mq_queue : mq_queue[i] = EndSignal =>
        /\ pc.main \in {"stop_in", "done"}
        /\ i # Len(mq_queue) => i = Len(mq_queue) - 1 /\ putting = 0

AccountingInv ==
    /\ SampleAccounting
    /\ NoRepeats(cancel_queue) /\ NoRepeats(result_queue) /\ NoRepeats(mq_queue)
    /\ EmptyHanded
    /\ EndSignalLast
    /\ dropped_samples \in Nat

\* No late sample pushes the end signal out of the message queue: there is room for two,
\* or nothing is put behind the signal.
SignalSafe == MaxRequiredSamples > 1 \/ (InQueue(EndSignal, mq_queue) => putting = 0)

-----------------------------------------------------------------------------
\* What Append does to the members of a queue without repetitions.
LEMMA AppendMembers ==
    ASSUME NEW T, NEW q \in Seq(T), NEW e \in T
    PROVE  /\ \A s : InQueue(s, Append(q, e)) <=> InQueue(s, q) \/ s = e
           /\ NoRepeats(q) /\ ~InQueue(e, q) => NoRepeats(Append(q, e))
<1>1. /\ Len(Append(q, e)) = Len(q) + 1 /\ Len(q) \in Nat /\ DOMAIN q = 1..Len(q)
      /\ DOMAIN Append(q, e) = 1..(Len(q) + 1)
      /\ \A i \in 1..Len(q) : Append(q, e)[i] = q[i]
      /\ Append(q, e)[Len(q) + 1] = e
  OBVIOUS
<1>2. \A s : InQueue(s, Append(q, e)) <=> InQueue(s, q) \/ s = e
  BY <1>1 DEF InQueue
<1>3. ASSUME NoRepeats(q), ~InQueue(e, q) PROVE NoRepeats(Append(q, e))
  BY <1>1, <1>3 DEF InQueue, NoRepeats
<1> QED BY <1>2, <1>3

\* What the removal of the head does.
LEMMA TailMembers ==
    ASSUME NEW T, NEW q \in Seq(T), q # <<>>
    PROVE  /\ Head(q) \in T /\ InQueue(Head(q), q) /\ Tail(q) \in Seq(T)
           /\ NoRepeats(q) => /\ \A s : InQueue(s, Tail(q)) <=> InQueue(s, q) /\ s # Head(q)
                              /\ NoRepeats(Tail(q))
<1>1. /\ Len(q) \in Nat \ {0} /\ DOMAIN q = 1..Len(q) /\ Head(q) = q[1]
      /\ DOMAIN Tail(q) = 1..(Len(q) - 1) /\ Tail(q) \in Seq(T)
      /\ \A i \in 1..(Len(q) - 1) : Tail(q)[i] = q[i + 1]
      /\ 1 \in DOMAIN q /\ q[1] \in T
  OBVIOUS
<1>2. InQueue(Head(q), q)
  BY <1>1 DEF InQueue
<1>3. ASSUME NoRepeats(q) PROVE NoRepeats(Tail(q))
  BY <1>1, <1>3 DEF NoRepeats
<1>4. ASSUME NoRepeats(q), NEW s, InQueue(s, Tail(q)) PROVE InQueue(s, q) /\ s # Head(q)
  <2>1. PICK i \in 1..(Len(q) - 1) : q[i + 1] = s
    BY <1>1, <1>4 DEF InQueue
  <2>2. i + 1 \in DOMAIN q /\ i + 1 # 1
    BY <1>1
  <2> QED BY <1>1, <1>4, <2>1, <2>2 DEF InQueue, NoRepeats
<1>5. ASSUME NEW s, InQueue(s, q), s # Head(q) PROVE InQueue(s, Tail(q))
  <2>1. PICK i \in DOMAIN q : q[i] = s
    BY <1>5 DEF InQueue
  <2>2. i - 1 \in DOMAIN Tail(q) /\ Tail(q)[i - 1] = s
    BY <1>1, <1>5, <2>1
  <2> QED BY <2>2 DEF InQueue
<1> QED BY <1>1, <1>2, <1>3, <1>4, <1>5

\* The samples that vanished are finitely many.
LEMMA VanishedIsFinite == IsFiniteSet(Vanished) /\ Cardinality(Vanished) \in Nat
<1>1. IsFiniteSet(Samples)
  BY FS_Interval DEF Samples
<1>2. Vanished \subseteq Samples
  BY DEF Vanished, Taken
<1> QED BY <1>1, <1>2, FS_Subset, FS_CardinalityType

\* The number of copies is a number.
LEMMA CopiesType == \A s : Copies(s) \in Nat /\ Copies(s)' \in Nat
BY DEF Copies, Undelivered, InRollouter, One

\* A step that moves samples from place to place keeps the accounts.
LEMMA AccountsKept ==
    ASSUME SampleAccounting, \A s \in Samples : Copies(s)' = Copies(s), taken' = taken,
           dropped_samples' = dropped_samples, failures' = failures
    PROVE  SampleAccounting'
<1>1. Vanished' = Vanished
  BY DEF Vanished, Taken
<1>2. \A s \in Samples : Copies(s)' <= One(s \in Taken')
  BY DEF SampleAccounting, Taken, One
<1> QED BY <1>1, <1>2 DEF SampleAccounting, Vanished, Taken

\* A sample that is lost is counted as dropped or failed.
LEMMA AccountsLost ==
    ASSUME TypeInv, dropped_samples \in Nat, SampleAccounting,
           NEW x \in Samples, Copies(x) = 1, Copies(x)' = 0,
           \A s \in Samples \ {x} : Copies(s)' = Copies(s), taken' = taken,
           dropped_samples' + failures' = dropped_samples + failures + 1
    PROVE  SampleAccounting'
<1>1. Vanished' = Vanished \cup {x} /\ x \notin Vanished
  BY DEF Vanished, Taken, SampleAccounting, One
<1>2. Cardinality(Vanished') = Cardinality(Vanished) + 1
  BY <1>1, VanishedIsFinite, FS_AddElement
<1>3. \A s \in Samples : Copies(s)' <= One(s \in Taken')
  BY DEF SampleAccounting, Taken, One
<1>4. Cardinality(Vanished) = dropped_samples + failures
  BY DEF SampleAccounting, Vanished
<1> QED BY <1>2, <1>3, <1>4 DEF SampleAccounting, Vanished, Taken

\* The next prompt is a new sample, or the end marker, which is none.
LEMMA AccountsTaken ==
    ASSUME TypeInv, SampleAccounting, NEW x, x = taken + 1, taken' = x,
           x \in Samples => Copies(x)' = Copies(x) + 1,
           \A s \in Samples \ {x} : Copies(s)' = Copies(s),
           dropped_samples' = dropped_samples, failures' = failures
    PROVE  SampleAccounting'
<1>1. taken \in Nat
  BY DEF TypeInv, IntakeTyped
<1>2. x \in Samples => Copies(x) = 0 /\ x \notin Taken /\ x \in Taken'
  BY <1>1, CopiesType DEF SampleAccounting, Taken, One
<1>3. \A s \in Samples \ {x} : s \in Taken' <=> s \in Taken
  BY <1>1 DEF Taken, Samples
<1>4. Vanished' = Vanished
  <2>1. ASSUME NEW s \in Samples PROVE s \in Vanished' <=> s \in Vanished
    BY <1>2, <1>3 DEF Vanished
  <2> QED BY <2>1 DEF Vanished, Taken
<1>5. ASSUME NEW s \in Samples PROVE Copies(s)' <= One(s \in Taken')
  <2>1. CASE s = x
    BY <1>2, <2>1 DEF One
  <2>2. CASE s # x
    BY <1>3, <2>2 DEF SampleAccounting, One
  <2> QED BY <2>1, <2>2
<1> QED BY <1>4, <1>5 DEF SampleAccounting, Vanished, Taken

-----------------------------------------------------------------------------
\* The samples stay where they are when a task only goes on.
LEMMA CopiesKept ==
    ASSUME UNCHANGED <<held, putting, cancel_queue, result_queue, mq_queue, received>>,
           \A s \in Samples : task'[s] = "none" <=> task[s] = "none"
    PROVE  \A s \in Samples : Copies(s)' = Copies(s)
BY DEF Copies, Undelivered, InRollouter, One, InQueue

\* Where each of the processor's loops begins.
LEMMA LoopHeads ==
    ASSUME PcTyped, NEW l, NEW loop \in Loops, NEW n, EnterLoop(l, loop, n)
    PROVE  pc'.processor \in CASE loop = "drain" -> {"drain_in", "idle_in"}
                               [] loop = "limit" -> {"limit_in", "submit_in"}
                               [] loop = "done" -> {"done_in", "finished"}
<1>1. AtHead(loop, n) \in CASE loop = "drain" -> {"drain_in", "idle_in"}
                            [] loop = "limit" -> {"limit_in", "submit_in"}
                            [] loop = "done" -> {"done_in", "finished"}
  BY DEF AtHead, BusyHead, FreeHead, Loops
<1>2. pc'.processor = AtHead(loop, n)
  BY HeadLabel, GotoLabel DEF EnterLoop, Coroutines
<1> QED BY <1>1, <1>2

\* Of the accounts the processor can change but these.
LEMMA ProcessorLeaves ==
    ASSUME TypeInv, AccountingInv, ProcessorStep
    PROVE  /\ UNCHANGED <<putting, result_queue, mq_queue, received, dropped_samples, failures>>
           /\ NoRepeats(result_queue') /\ NoRepeats(mq_queue')
           /\ EndSignalLast' /\ dropped_samples' \in Nat
<1>1. UNCHANGED <<putting, result_queue, failures>>
  BY DEF ProcessorStep, ProcessorTop, GetPending, SetPaused, AwaitTasks, Reap, Idle, Woken,
     Submit, OnlyControl, OnlyFlags, OnlyReaps, OnlyIntake, outputVars, serverVars
<1>2. UNCHANGED <<mq_queue, received, dropped_samples>>
  BY DEF ProcessorStep, Alone, mqVars, trainerVars
<1>3. pc'.main = pc.main
  BY ProcessorMoves DEF TypeInv, Moves, Coroutines
<1> QED BY <1>1, <1>2, <1>3 DEF AccountingInv, EndSignalLast, NoRepeats

\* The processor takes a sample only with empty hands, and hands it on as a task.
LEMMA AccountingProcessor ==
    ASSUME TypeInv, AccountingInv, ProcessorStep
    PROVE  AccountingInv'
<1>0. /\ PcTyped /\ taken \in Nat
      /\ cancel_queue \in Seq(Samples) /\ held \in 0..TotalRolloutSteps
      /\ task \in [Samples -> {"none", "created", "sent", "generating"}]
      /\ SampleAccounting /\ NoRepeats(cancel_queue) /\ EmptyHanded
  BY DEF TypeInv, IntakeTyped, TaskTyped, AccountingInv
<1>1. /\ UNCHANGED <<putting, result_queue, mq_queue, received, dropped_samples, failures>>
      /\ NoRepeats(result_queue') /\ NoRepeats(mq_queue')
      /\ EndSignalLast' /\ dropped_samples' \in Nat
  BY ProcessorLeaves
<1>2. ASSUME SampleAccounting', NoRepeats(cancel_queue'), EmptyHanded' PROVE AccountingInv'
  BY <1>1, <1>2 DEF AccountingInv
<1>3. ASSUME NEW label \in Labels, Goto("processor", label) PROVE pc'.processor = label
  BY <1>0, <1>3, GotoLabel DEF Coroutines
<1>4. ASSUME UNCHANGED <<held, cancel_queue, task, taken>>, EmptyHanded' PROVE AccountingInv'
  <2>1. \A s \in Samples : Copies(s)' = Copies(s)
    BY <1>1, <1>4, CopiesKept
  <2>2. SampleAccounting'
    BY <1>0, <1>1, <1>4, <2>1, AccountsKept
  <2> QED BY <1>0, <1>2, <1>4, <2>2
<1>5. CASE pc.processor \in {"top", "get"} /\ TakePending
            /\ UNCHANGED <<cancel_queue, task>>
  <2>1. held = 0
    BY <1>0, <1>5 DEF EmptyHanded, Submitting
  <2>2. CASE PendingIsEmpty
    BY <1>3, <1>4, <1>5, <2>1, <2>2 DEF TakePending, EmptyHanded, Labels
  <2>3. CASE ~PendingIsEmpty
    <3>1. PICK x : x = taken + 1
      OBVIOUS
    <3>2. /\ taken' = x /\ held' = SampleOf(x)
          /\ EnterLoop(lock, IF held' = 0 THEN "done" ELSE "limit", ActiveTasks)
      BY <1>5, <2>3, <3>1 DEF TakePending
    <3>3. held' = x \/ (held' = 0 /\ x \notin Samples)
      BY <3>2 DEF SampleOf, Done, Samples
    <3>4. ASSUME NEW s \in Samples
          PROVE  Copies(s)' = Copies(s) + One(s = x)
      <4>1. (held' = s) <=> (s = x)
        BY <3>3 DEF Samples
      <4>2. held # s
        BY <2>1 DEF Samples
      <4> QED BY <1>1, <1>5, <4>1, <4>2 DEF Copies, Undelivered, InRollouter, One, InQueue
    <3>5. x \in Samples => Copies(x)' = Copies(x) + 1
      BY <3>4 DEF One
    <3>6. \A s \in Samples \ {x} : Copies(s)' = Copies(s)
      BY <3>4, CopiesType DEF One
    <3>7. SampleAccounting'
      BY <1>0, <1>1, <3>1, <3>2, <3>5, <3>6, AccountsTaken
    <3>8. EmptyHanded'
      BY <1>0, <3>2, LoopHeads DEF EmptyHanded, Submitting, Loops
    <3> QED BY <1>0, <1>2, <1>5, <3>7, <3>8
  <2> QED BY <2>2, <2>3
<1>6. CASE ProcessorTop(queue_size)
  <2>1. pc.processor = "top" /\ task' = task /\ held = 0
    BY <1>0, <1>6 DEF ProcessorTop, OnlyIntake, taskVars, EmptyHanded, Submitting
  <2>2. CASE AskLock("processor", "pause_in") /\ UNCHANGED <<taken, cancel_queue, held>>
    BY <1>3, <1>4, <2>1, <2>2 DEF AskLock, EmptyHanded, Labels
  <2>3. CASE TakeCancelled /\ cancel_queue # <<>>
    <3>1. PICK x : x = Head(cancel_queue)
      OBVIOUS
    <3>2. /\ held' = x /\ cancel_queue' = Tail(cancel_queue) /\ taken' = taken
          /\ EnterLoop(lock, "limit", ActiveTasks)
      BY <2>3, <3>1 DEF TakeCancelled
    <3>3. /\ x \in Samples /\ InQueue(x, cancel_queue) /\ NoRepeats(cancel_queue')
          /\ \A s : InQueue(s, cancel_queue') <=> InQueue(s, cancel_queue) /\ s # x
      BY <1>0, <2>3, <3>1, <3>2, TailMembers
    <3>4. ASSUME NEW s \in Samples PROVE Copies(s)' = Copies(s)
      <4>1. held # s /\ (held' = s <=> s = x)
        BY <2>1, <3>2 DEF Samples
      <4> QED BY <1>1, <2>1, <3>3, <4>1 DEF Copies, Undelivered, InRollouter, One, InQueue
    <3>5. SampleAccounting'
      BY <1>0, <1>1, <3>2, <3>4, AccountsKept
    <3>6. EmptyHanded'
      BY <1>0, <3>2, LoopHeads DEF EmptyHanded, Submitting, Loops
    <3> QED BY <1>2, <3>3, <3>5, <3>6
  <2>4. CASE TakePending /\ UNCHANGED cancel_queue
    BY <1>5, <2>1, <2>4
  <2> QED BY <1>6, <2>2, <2>3, <2>4 DEF ProcessorTop
<1>7. CASE GetPending
  BY <1>5, <1>7 DEF GetPending, OnlyIntake, taskVars
<1>8. CASE Submit
  <2>1. pc.processor = "submit_in" /\ UNCHANGED <<taken, cancel_queue>>
    BY <1>8 DEF Submit, InLock
  <2>2. CASE paused
    <3>1. UNCHANGED <<held, task>> /\ pc'.processor = "submit_cond"
      BY <1>3, <1>8, <2>2 DEF Submit, LeaveLock, Labels
    <3> QED BY <1>4, <2>1, <3>1 DEF EmptyHanded, Submitting
  <2>3. CASE ~paused
    <3>1. held' = 0 /\ task' = [task EXCEPT ![held] = "created"]
      BY <1>8, <2>3 DEF Submit
    <3>2. ASSUME NEW s \in Samples PROVE Copies(s)' = Copies(s)
      <4>1. CASE s = held
        <5>1. task[s] = "none"
          BY <1>0, <4>1 DEF SampleAccounting, Copies, Undelivered, InRollouter, One
        <5>2. task'[s] = "created" /\ held' # s
          BY <1>0, <3>1, <4>1 DEF Samples
        <5> QED BY <1>1, <2>1, <4>1, <5>1, <5>2 DEF Copies, Undelivered, InRollouter, One, InQueue
      <4>2. CASE s # held
        <5>1. task'[s] = task[s] /\ held' # s
          BY <1>0, <3>1, <4>2 DEF Samples
        <5> QED BY <1>1, <2>1, <4>2, <5>1 DEF Copies, Undelivered, InRollouter, One, InQueue
      <4> QED BY <4>1, <4>2
    <3>3. SampleAccounting'
      BY <1>0, <1>1, <2>1, <3>2, AccountsKept
    <3> QED BY <1>0, <1>2, <2>1, <3>1, <3>3 DEF EmptyHanded
  <2> QED BY <2>2, <2>3
<1>9. CASE SetPaused \/ AwaitTasks \/ Reap \/ Idle \/ Woken
  <2>1. UNCHANGED <<held, cancel_queue, task, taken>>
    BY <1>9 DEF SetPaused, AwaitTasks, Reap, Idle, Woken, OnlyControl, OnlyFlags, OnlyReaps,
       intakeVars, taskVars
  <2>2. CASE SetPaused
    <3>1. held = 0
      BY <1>0, <2>2 DEF SetPaused, InLock, EmptyHanded, Submitting
    <3> QED BY <1>4, <2>1, <3>1 DEF EmptyHanded
  <2>3. CASE AwaitTasks \/ Reap
    <3>1. CASE pc.processor \in {"limit_in", "limit_wait"}
      <4>1. pc'.processor \in {"limit_wait", "failed", "limit_in", "submit_in"}
        <5>1. LoopOf[pc.processor] = "limit"
              /\ (pc.processor = "limit_in" => WaitOf[pc.processor] = "limit_wait")
          BY <3>1 DEF LoopOf, WaitOf
        <5>2. ASSUME NEW l, NEW n, EnterLoop(l, "limit", n)
              PROVE  pc'.processor \in {"limit_in", "submit_in"}
          BY <1>0, <5>2, LoopHeads DEF Loops
        <5>3. CASE AwaitTasks
          <6>1. pc.processor = "limit_in"
            BY <3>1, <5>3 DEF AwaitTasks, WaitOf
          <6> QED BY <1>3, <5>1, <5>2, <5>3, <6>1 DEF AwaitTasks, KeepLock, LeaveLock, Labels
        <5>4. CASE Reap
          BY <1>3, <5>1, <5>2, <5>4 DEF Reap, LeaveLock, Labels
        <5> QED BY <2>3, <5>3, <5>4
      <4> QED BY <1>4, <2>1, <4>1 DEF EmptyHanded, Submitting
    <3>2. CASE pc.processor \notin {"limit_in", "limit_wait"}
      <4>1. held = 0
        BY <1>0, <2>3, <3>2 DEF AwaitTasks, Reap, WaitOf, EmptyHanded, Submitting
      <4> QED BY <1>4, <2>1, <4>1 DEF EmptyHanded
    <3> QED BY <3>1, <3>2
  <2>4. CASE Idle \/ Woken
    <3>1. CASE pc.processor = "submit_woken"
      <4>1. pc'.processor = "submit_in"
        BY <1>3, <2>4, <3>1 DEF Idle, InLock, Woken, AskLock, Labels
      <4> QED BY <1>4, <2>1, <4>1 DEF EmptyHanded, Submitting
    <3>2. CASE pc.processor # "submit_woken"
      <4>1. held = 0
        BY <1>0, <2>4, <3>2 DEF Idle, InLock, Woken, EmptyHanded, Submitting
      <4> QED BY <1>4, <2>1, <4>1 DEF EmptyHanded
    <3> QED BY <3>1, <3>2
  <2> QED BY <1>9, <2>2, <2>3, <2>4
<1> QED BY <1>6, <1>7, <1>8, <1>9 DEF ProcessorStep

\* Nobody else empties or fills the processor's hands.
LEMMA HandsKept ==
    ASSUME PcTyped, EmptyHanded, [Next]_vars, ~ProcessorStep, held' = held
    PROVE  EmptyHanded'
BY ProcessorMovedByNobody DEF EmptyHanded, Submitting

\* Only the wait for the other coroutines and the end signal move main.
LEMMA MainStays ==
    ASSUME PcTyped, [Next]_vars, ~MainStep, ~PutEndSignal
    PROVE  pc'.main = pc.main
<1>1. CASE ProcessorStep
  BY <1>1, ProcessorMoves DEF Moves, Coroutines
<1>2. CASE MonitorStep \/ ResumeStep
  BY <1>2, MonitorMoves, ResumeMoves DEF Moves, Notifies, Coroutines
<1>3. CASE PauseStep \/ UpdateStep \/ PutValidate
  BY <1>3, PauseMoves, UpdateMoves DEF Moves, Coroutines
<1>4. CASE TrainerStep
  BY <1>4, TrainerMoves
<1>5. CASE \/ FeederStep \/ ConsumerStep \/ PutSample \/ Terminated \/ UNCHANGED vars
           \/ \E s \in Samples : TaskStep(s) \/ ServerStep(s)
  BY <1>5, OthersDoNotMove
<1> QED BY <1>1, <1>2, <1>3, <1>4, <1>5 DEF Next

\* main gets past its signal only by sending it.
LEMMA MainAdvances ==
    ASSUME PcTyped, [Next]_vars, ~PutEndSignal
    PROVE  \/ pc'.main = pc.main
           \/ pc.main = "wait" /\ pc'.main = "signal"
           \/ pc.main = "stop_in" /\ pc'.main = "done"
<1>1. ASSUME NEW label \in Labels, Goto("main", label) PROVE pc'.main = label
  BY <1>1, GotoLabel DEF Coroutines
<1>2. CASE MainStep
  BY <1>1, <1>2 DEF MainStep, MainJoined, StopRunning, InLock, LeaveLock, Labels
<1> QED BY <1>2, MainStays

\* A step that moves no sample and leaves the consumer alone keeps the accounts.
LEMMA AccountingAside ==
    ASSUME TypeInv, AccountingInv, [Next]_vars, ~ProcessorStep, ~PutEndSignal,
           UNCHANGED placeVars, UNCHANGED <<received, taken, dropped_samples, failures>>
    PROVE  AccountingInv'
<1>1. PcTyped
  BY DEF TypeInv
<1>2. EmptyHanded'
  BY <1>1, HandsKept DEF AccountingInv, placeVars
<1>3. pc.main \in {"stop_in", "done"} => pc'.main \in {"stop_in", "done"}
  BY <1>1, MainAdvances
<1>4. EndSignalLast'
  BY <1>3 DEF AccountingInv, EndSignalLast, placeVars
<1>5. SampleAccounting'
  <2>1. \A s \in Samples : Copies(s)' = Copies(s)
    BY CopiesKept DEF placeVars
  <2> QED BY <2>1, AccountsKept DEF AccountingInv
<1> QED BY <1>2, <1>4, <1>5 DEF AccountingInv, NoRepeats, placeVars

\* A task that starts or reaches the server is still the task of its sample.
LEMMA AccountingTask ==
    ASSUME TypeInv, AccountingInv, [Next]_vars, ~ProcessorStep, ~PutEndSignal,
           NEW s \in Samples, (StartTask(s) \/ ServerAdmit(s)) /\ Alone
    PROVE  AccountingInv'
<1>1. /\ PcTyped /\ task \in [Samples -> {"none", "created", "sent", "generating"}]
  BY DEF TypeInv, TaskTyped
<1>2. /\ UNCHANGED <<held, putting, cancel_queue, result_queue, mq_queue, received>>
      /\ UNCHANGED <<taken, dropped_samples, failures, pc>>
  BY DEF StartTask, ServerAdmit, Alone, intakeVars, outputVars, mqVars, trainerVars, serverVars,
     control
<1>3. \A t \in Samples : task'[t] = "none" <=> task[t] = "none"
  BY <1>1 DEF StartTask, ServerAdmit
<1>4. \A t \in Samples : Copies(t)' = Copies(t)
  BY <1>2, <1>3, CopiesKept
<1>5. SampleAccounting'
  BY <1>2, <1>4, AccountsKept DEF AccountingInv
<1> QED BY <1>2, <1>5 DEF AccountingInv, EmptyHanded, EndSignalLast, NoRepeats

\* A task that ends gives its sample to one queue, or loses it to an exception.
LEMMA AccountingEnd ==
    ASSUME TypeInv, AccountingInv, NEW s \in Samples, EndTask(s), Alone
    PROVE  AccountingInv'
<1>0. /\ task \in [Samples -> {"none", "created", "sent", "generating"}]
      /\ cancel_queue \in Seq(Samples) /\ result_queue \in Seq(Samples)
      /\ failures \in Nat /\ dropped_samples \in Nat
      /\ NoRepeats(cancel_queue) /\ NoRepeats(result_queue) /\ SampleAccounting
  BY DEF TypeInv, IntakeTyped, OutputTyped, TaskTyped, ServerTyped, AccountingInv
<1>1. UNCHANGED <<held, putting, mq_queue, received, taken, dropped_samples, pc>>
  BY DEF EndTask, Alone, mqVars, trainerVars, control
<1>2. task[s] # "none" /\ task'[s] = "none" /\ \A t \in Samples \ {s} : task'[t] = task[t]
  BY <1>0 DEF EndTask, Answers
<1>3. /\ Copies(s) = 1
      /\ held # s /\ putting # s /\ ~InQueue(s, cancel_queue) /\ ~InQueue(s, result_queue)
      /\ ~InQueue(s, mq_queue) /\ s \notin received
  BY <1>0, <1>2 DEF SampleAccounting, Copies, Undelivered, InRollouter, One
<1>4. EmptyHanded' /\ EndSignalLast' /\ NoRepeats(mq_queue')
  BY <1>1 DEF AccountingInv, EmptyHanded, EndSignalLast, NoRepeats
<1>5. PICK answer \in Answers(s) :
        /\ cancel_queue' = IF answer = "cancelled" THEN Append(cancel_queue, s) ELSE cancel_queue
        /\ result_queue' = IF IsResult(answer) THEN Append(result_queue, s) ELSE result_queue
        /\ failures' = IF answer = "raised" THEN failures + 1 ELSE failures
  BY DEF EndTask
<1>6. ASSUME NEW q \in Seq(Samples), NoRepeats(q), ~InQueue(s, q)
      PROVE  /\ NoRepeats(Append(q, s)) /\ InQueue(s, Append(q, s))
             /\ \A t : t # s => (InQueue(t, Append(q, s)) <=> InQueue(t, q))
  BY <1>6, AppendMembers
<1>7. CASE answer = "cancelled"
  <2>1. cancel_queue' = Append(cancel_queue, s) /\ UNCHANGED <<result_queue, failures>>
    BY <1>5, <1>7 DEF IsResult
  <2>2. /\ NoRepeats(cancel_queue') /\ NoRepeats(result_queue') /\ InQueue(s, cancel_queue')
        /\ \A t : t # s => (InQueue(t, cancel_queue') <=> InQueue(t, cancel_queue))
    BY <1>0, <1>3, <1>6, <2>1
  <2>3. ASSUME NEW t \in Samples PROVE Copies(t)' = Copies(t)
    <3>1. CASE t = s
      BY <1>1, <1>2, <1>3, <2>1, <2>2, <3>1 DEF Copies, Undelivered, InRollouter, One, InQueue
    <3>2. CASE t # s
      BY <1>1, <1>2, <2>1, <2>2, <3>2 DEF Copies, Undelivered, InRollouter, One, InQueue
    <3> QED BY <3>1, <3>2
  <2>4. SampleAccounting'
    BY <1>0, <1>1, <2>1, <2>3, AccountsKept
  <2> QED BY <1>0, <1>1, <1>4, <2>2, <2>4 DEF AccountingInv
<1>8. CASE answer = "complete"
  <2>1. result_queue' = Append(result_queue, s) /\ UNCHANGED <<cancel_queue, failures>>
    BY <1>5, <1>8 DEF IsResult
  <2>2. /\ NoRepeats(cancel_queue') /\ NoRepeats(result_queue') /\ InQueue(s, result_queue')
        /\ \A t : t # s => (InQueue(t, result_queue') <=> InQueue(t, result_queue))
    BY <1>0, <1>3, <1>6, <2>1
  <2>3. ASSUME NEW t \in Samples PROVE Copies(t)' = Copies(t)
    <3>1. CASE t = s
      BY <1>1, <1>2, <1>3, <2>1, <2>2, <3>1 DEF Copies, Undelivered, InRollouter, One, InQueue
    <3>2. CASE t # s
      BY <1>1, <1>2, <2>1, <2>2, <3>2 DEF Copies, Undelivered, InRollouter, One, InQueue
    <3> QED BY <3>1, <3>2
  <2>4. SampleAccounting'
    BY <1>0, <1>1, <2>1, <2>3, AccountsKept
  <2> QED BY <1>0, <1>1, <1>4, <2>2, <2>4 DEF AccountingInv
<1>9. CASE answer = "raised"
  <2>1. UNCHANGED <<cancel_queue, result_queue>> /\ failures' = failures + 1
    BY <1>5, <1>9 DEF IsResult
  <2>2. Copies(s)' = 0
    BY <1>1, <1>2, <1>3, <2>1 DEF Copies, Undelivered, InRollouter, One, InQueue
  <2>3. \A t \in Samples \ {s} : Copies(t)' = Copies(t)
    BY <1>1, <1>2, <2>1 DEF Copies, Undelivered, InRollouter, One, InQueue
  <2>4. dropped_samples' + failures' = dropped_samples + failures + 1
    BY <1>0, <1>1, <2>1
  <2>5. SampleAccounting'
    BY <1>0, <1>1, <1>3, <2>2, <2>3, <2>4, AccountsLost
  <2> QED BY <1>0, <1>1, <1>4, <2>1, <2>5 DEF AccountingInv
<1> QED BY <1>7, <1>8, <1>9 DEF Answers

\* The consumer has one sample less in front of it and one in its hands.
LEMMA AccountingConsumer ==
    ASSUME TypeInv, AccountingInv, ConsumerStep
    PROVE  AccountingInv'
<1>0. /\ result_queue \in Seq(Samples) /\ putting = 0 /\ pc.main = "wait"
      /\ result_queue # <<>> /\ NoRepeats(result_queue) /\ SampleAccounting
  BY DEF TypeInv, OutputTyped, AccountingInv, ConsumerStep, ConsumerTake
<1>1. /\ UNCHANGED <<held, task, cancel_queue, mq_queue, received, taken, dropped_samples>>
      /\ UNCHANGED <<failures, pc>>
  BY DEF ConsumerStep, ConsumerTake, OnlyOutput, Alone, mqVars, trainerVars, intakeVars,
     taskVars, serverVars, control
<1>2. PICK x : x = Head(result_queue)
  OBVIOUS
<1>3. putting' = x /\ result_queue' = Tail(result_queue)
  BY <1>2 DEF ConsumerStep, ConsumerTake
<1>4. /\ x \in Samples /\ InQueue(x, result_queue) /\ NoRepeats(result_queue')
      /\ \A s : InQueue(s, result_queue') <=> InQueue(s, result_queue) /\ s # x
  BY <1>0, <1>2, <1>3, TailMembers
<1>5. ASSUME NEW s \in Samples PROVE Copies(s)' = Copies(s)
  <2>1. putting # s /\ (putting' = s <=> s = x)
    BY <1>0, <1>3 DEF Samples
  <2> QED BY <1>1, <1>4, <2>1 DEF Copies, Undelivered, InRollouter, One, InQueue
<1>6. SampleAccounting'
  BY <1>0, <1>1, <1>5, AccountsKept
<1>7. EndSignalLast'
  BY <1>0, <1>1 DEF AccountingInv, EndSignalLast
<1> QED BY <1>1, <1>4, <1>6, <1>7 DEF AccountingInv, EmptyHanded, NoRepeats

\* What put_sample does to the members of the message queue.
LEMMA PutMembers ==
    ASSUME TypeInv, NoRepeats(mq_queue), NEW e \in 0..TotalRolloutSteps,
           ~InQueue(e, mq_queue), MQ!PutSample(e)
    PROVE  /\ NoRepeats(mq_queue')
           /\ \/ /\ mq_queue' = Append(mq_queue, e)
                 /\ dropped_samples' = dropped_samples
                 /\ \A s : InQueue(s, mq_queue') <=> InQueue(s, mq_queue) \/ s = e
              \/ /\ Len(mq_queue) >= MaxRequiredSamples /\ mq_queue # <<>>
                 /\ mq_queue' = Append(Tail(mq_queue), e)
                 /\ dropped_samples' = dropped_samples + 1
                 /\ \A s : InQueue(s, mq_queue') <=>
                              (InQueue(s, mq_queue) /\ s # Head(mq_queue)) \/ s = e
<1> DEFINE T == 0..TotalRolloutSteps
<1>1. mq_queue \in Seq(T) /\ e \in T
  BY DEF TypeInv, QueueTyped
<1>2. mq_queue' = Append(IF Len(mq_queue) >= MaxRequiredSamples THEN Tail(mq_queue)
                                                               ELSE mq_queue, e)
      /\ dropped_samples' = IF Len(mq_queue) >= MaxRequiredSamples
                            THEN dropped_samples + 1 ELSE dropped_samples
  BY DEF MQ!PutSample, MQ!Appended, MQ!IsFull
<1> HIDE DEF T
<1>3. CASE Len(mq_queue) >= MaxRequiredSamples
  <2>1. mq_queue # <<>>
    BY <1>1, <1>3
  <2>2. PICK q : q = Tail(mq_queue)
    OBVIOUS
  <2>3. /\ q \in Seq(T) /\ NoRepeats(q)
        /\ \A s : InQueue(s, q) <=> InQueue(s, mq_queue) /\ s # Head(mq_queue)
    BY <1>1, <2>1, <2>2, TailMembers
  <2>4. ~InQueue(e, q)
    BY <2>3
  <2>5. /\ NoRepeats(Append(q, e))
        /\ \A s : InQueue(s, Append(q, e)) <=> InQueue(s, q) \/ s = e
    BY <1>1, <2>3, <2>4, AppendMembers
  <2>6. mq_queue' = Append(q, e) /\ dropped_samples' = dropped_samples + 1
    BY <1>2, <1>3, <2>2
  <2>7. NoRepeats(mq_queue') /\ \A s : InQueue(s, mq_queue') <=> InQueue(s, q) \/ s = e
    BY <2>5, <2>6
  <2>8. \A s : InQueue(s, mq_queue') <=> (InQueue(s, mq_queue) /\ s # Head(mq_queue)) \/ s = e
    BY <2>3, <2>7
  <2> QED BY <1>3, <2>1, <2>2, <2>6, <2>7, <2>8
<1>4. CASE ~(Len(mq_queue) >= MaxRequiredSamples)
  <2>1. mq_queue' = Append(mq_queue, e) /\ dropped_samples' = dropped_samples
    BY <1>2, <1>4
  <2>2. /\ NoRepeats(Append(mq_queue, e))
        /\ \A s : InQueue(s, Append(mq_queue, e)) <=> InQueue(s, mq_queue) \/ s = e
    BY <1>1, AppendMembers
  <2> QED BY <2>1, <2>2
<1> QED BY <1>3, <1>4

\* The sample in the consumer's hands goes into the message queue, which may drop its
\* oldest sample for it, but not the end signal.
LEMMA AccountingPut ==
    ASSUME TypeInv, AccountingInv, SignalSafe, [Next]_vars, ~ProcessorStep, PutSample
    PROVE  AccountingInv'
<1>0. /\ mq_queue \in Seq(0..TotalRolloutSteps) /\ putting \in Samples
      /\ dropped_samples \in Nat /\ failures \in Nat
      /\ NoRepeats(mq_queue) /\ SampleAccounting /\ EndSignalLast
  BY DEF TypeInv, OutputTyped, QueueTyped, ServerTyped, AccountingInv, PutSample, PutDelivered,
     Samples
<1>1. /\ UNCHANGED <<held, task, cancel_queue, result_queue, received, taken, failures, pc>>
      /\ putting' = 0
  BY DEF PutSample, PutDelivered, OnlyOutput, trainerVars, intakeVars, taskVars, serverVars, control
<1>2. PICK e \in Samples : e = putting
  BY <1>0
<1>3. e \in 0..TotalRolloutSteps /\ MQ!PutSample(e)
  BY <1>2 DEF PutSample, Samples
<1>4. ~InQueue(e, mq_queue)
  BY <1>0, <1>2 DEF SampleAccounting, Copies, Undelivered, InRollouter, One
<1>5. EmptyHanded' /\ NoRepeats(cancel_queue') /\ NoRepeats(result_queue') /\ NoRepeats(mq_queue')
  BY <1>0, <1>1, <1>3, <1>4, PutMembers DEF AccountingInv, EmptyHanded, NoRepeats
<1>6. CASE /\ mq_queue' = Append(mq_queue, e)
           /\ dropped_samples' = dropped_samples
           /\ \A s : InQueue(s, mq_queue') <=> InQueue(s, mq_queue) \/ s = e
  <2>1. ASSUME NEW s \in Samples PROVE Copies(s)' = Copies(s)
    <3>1. putting' # s /\ (putting = s <=> s = e)
      BY <1>1, <1>2 DEF Samples
    <3> QED BY <1>1, <1>4, <1>6, <3>1 DEF Copies, Undelivered, InRollouter, One, InQueue
  <2>2. SampleAccounting'
    BY <1>0, <1>1, <1>6, <2>1, AccountsKept
  <2>3. EndSignalLast'
    <3>1. SUFFICES ASSUME NEW i \in DOMAIN mq_queue', mq_queue'[i] = 0
                   PROVE  /\ pc.main \in {"stop_in", "done"}
                          /\ i # Len(mq_queue') => i = Len(mq_queue') - 1
      BY <1>1 DEF EndSignalLast, EndSignal
    <3>2. /\ Len(mq_queue') = Len(mq_queue) + 1 /\ Len(mq_queue) \in Nat
          /\ DOMAIN mq_queue = 1..Len(mq_queue) /\ DOMAIN mq_queue' = 1..(Len(mq_queue) + 1)
          /\ mq_queue'[Len(mq_queue) + 1] = e
          /\ \A j \in 1..Len(mq_queue) : mq_queue'[j] = mq_queue[j]
      BY <1>0, <1>6
    <3>3. i \in DOMAIN mq_queue /\ mq_queue[i] = 0
      BY <3>1, <3>2 DEF Samples
    <3> QED BY <1>0, <3>2, <3>3 DEF EndSignalLast, EndSignal, Samples
  <2> QED BY <1>0, <1>5, <1>6, <2>2, <2>3 DEF AccountingInv
<1>7. CASE /\ Len(mq_queue) >= MaxRequiredSamples /\ mq_queue # <<>>
           /\ mq_queue' = Append(Tail(mq_queue), e)
           /\ dropped_samples' = dropped_samples + 1
           /\ \A s : InQueue(s, mq_queue') <=>
                        (InQueue(s, mq_queue) /\ s # Head(mq_queue)) \/ s = e
  <2>0. /\ Len(mq_queue') = Len(mq_queue) /\ Len(mq_queue) \in Nat \ {0}
        /\ DOMAIN mq_queue = 1..Len(mq_queue) /\ DOMAIN mq_queue' = 1..Len(mq_queue)
        /\ mq_queue'[Len(mq_queue)] = e
        /\ \A j \in 1..(Len(mq_queue) - 1) : mq_queue'[j] = mq_queue[j + 1]
        /\ Head(mq_queue) = mq_queue[1] /\ mq_queue[1] \in 0..TotalRolloutSteps
    BY <1>0, <1>7
  <2>1. PICK x : x = Head(mq_queue)
    OBVIOUS
  <2>2. x \in Samples /\ InQueue(x, mq_queue)
    <3>1. x # 0
      <4>1. SUFFICES ASSUME mq_queue[1] = EndSignal PROVE FALSE
        BY <2>0, <2>1 DEF EndSignal
      <4>2. putting # 0 /\ 1 \in DOMAIN mq_queue
        BY <1>0, <2>0 DEF Samples
      <4>3. Len(mq_queue) = 1
        BY <1>0, <2>0, <4>1, <4>2 DEF EndSignalLast
      <4>4. MaxRequiredSamples = 1
        BY <1>7, <4>3
      <4> QED BY <4>1, <4>2, <4>4 DEF SignalSafe, InQueue
    <3> QED BY <2>0, <2>1, <3>1 DEF Samples, InQueue
  <2>3. Copies(x) = 1 /\ Copies(x)' = 0
    <3>1. /\ held # x /\ task[x] = "none" /\ ~InQueue(x, cancel_queue)
          /\ ~InQueue(x, result_queue) /\ putting # x /\ x \notin received /\ Copies(x) = 1
      BY <1>0, <2>2 DEF SampleAccounting, Copies, Undelivered, InRollouter, One
    <3>2. ~InQueue(x, mq_queue')
      BY <1>2, <1>7, <2>1, <3>1
    <3>3. putting' # x
      BY <1>1, <2>2 DEF Samples
    <3> QED BY <1>1, <3>1, <3>2, <3>3 DEF Copies, Undelivered, InRollouter, One, InQueue
  <2>4. ASSUME NEW s \in Samples \ {x} PROVE Copies(s)' = Copies(s)
    <3>1. putting' # s /\ (putting = s <=> s = e)
      BY <1>1, <1>2 DEF Samples
    <3>2. InQueue(s, mq_queue') <=> InQueue(s, mq_queue) \/ s = e
      BY <1>7, <2>1
    <3> QED BY <1>1, <1>4, <3>1, <3>2 DEF Copies, Undelivered, InRollouter, One, InQueue
  <2>5. dropped_samples' + failures' = dropped_samples + failures + 1
    BY <1>0, <1>1, <1>7
  <2>6. SampleAccounting'
    BY <1>0, <1>1, <2>2, <2>3, <2>4, <2>5, AccountsLost
  <2>7. EndSignalLast'
    <3>1. SUFFICES ASSUME NEW i \in DOMAIN mq_queue', mq_queue'[i] = 0
                   PROVE  /\ pc.main \in {"stop_in", "done"}
                          /\ i # Len(mq_queue') => i = Len(mq_queue') - 1
      BY <1>1 DEF EndSignalLast, EndSignal
    <3>2. i \in 1..(Len(mq_queue) - 1)
      BY <2>0, <3>1 DEF Samples
    <3>3. i + 1 \in DOMAIN mq_queue /\ mq_queue[i + 1] = 0
      BY <2>0, <3>1, <3>2
    <3>4. pc.main \in {"stop_in", "done"} /\ (i + 1 # Len(mq_queue) => putting = 0)
      BY <1>0, <3>3 DEF EndSignalLast, EndSignal
    <3> QED BY <1>0, <2>0, <3>2, <3>4 DEF Samples
  <2> QED BY <1>0, <1>5, <1>7, <2>6, <2>7 DEF AccountingInv
<1> QED BY <1>0, <1>3, <1>4, <1>6, <1>7, PutMembers

\* The end signal goes into the message queue, which may drop its oldest sample for it.
LEMMA AccountingSignal ==
    ASSUME TypeInv, AccountingInv, [Next]_vars, ~ProcessorStep, PutEndSignal
    PROVE  AccountingInv'
<1>0. /\ mq_queue \in Seq(0..TotalRolloutSteps) /\ pc.main = "signal"
      /\ dropped_samples \in Nat /\ failures \in Nat /\ PcTyped
      /\ NoRepeats(mq_queue) /\ SampleAccounting /\ EndSignalLast
  BY DEF TypeInv, QueueTyped, ServerTyped, AccountingInv, PutEndSignal, EndSignalDelivered
<1>1. /\ UNCHANGED <<held, task, cancel_queue, result_queue, received, taken, failures, putting>>
  BY DEF PutEndSignal, EndSignalDelivered, OnlyControl, trainerVars, intakeVars, outputVars,
     taskVars, serverVars
<1>2. pc'.main = "stop_in"
  BY <1>0, GotoLabel DEF PutEndSignal, EndSignalDelivered, AskLock, Coroutines, Labels
<1>3. 0 \in 0..TotalRolloutSteps /\ MQ!PutSample(0)
  BY DEF PutEndSignal, EndSignal
<1>4. ~InQueue(0, mq_queue)
  BY <1>0 DEF InQueue, EndSignalLast, EndSignal
<1>5. EmptyHanded' /\ NoRepeats(cancel_queue') /\ NoRepeats(result_queue') /\ NoRepeats(mq_queue')
  BY <1>0, <1>1, <1>3, <1>4, PutMembers, HandsKept DEF AccountingInv, NoRepeats
<1>6. ASSUME Len(mq_queue') \in Nat, DOMAIN mq_queue' = 1..Len(mq_queue'),
             \A i \in 1..(Len(mq_queue') - 1) : mq_queue'[i] # 0
      PROVE  EndSignalLast'
  <2>1. \A i \in DOMAIN mq_queue' : mq_queue'[i] = 0 => i = Len(mq_queue')
    BY <1>6
  <2> QED BY <1>2, <2>1 DEF EndSignalLast, EndSignal
<1>7. \A i \in DOMAIN mq_queue : mq_queue[i] # 0
  BY <1>4 DEF InQueue
<1>8. CASE /\ mq_queue' = Append(mq_queue, 0)
           /\ dropped_samples' = dropped_samples
           /\ \A s : InQueue(s, mq_queue') <=> InQueue(s, mq_queue) \/ s = 0
  <2>1. ASSUME NEW s \in Samples PROVE Copies(s)' = Copies(s)
    BY <1>1, <1>8 DEF Copies, Undelivered, InRollouter, One, InQueue, Samples
  <2>2. SampleAccounting'
    BY <1>0, <1>1, <1>8, <2>1, AccountsKept
  <2>3. EndSignalLast'
    <3>1. /\ Len(mq_queue') = Len(mq_queue) + 1 /\ Len(mq_queue) \in Nat
          /\ DOMAIN mq_queue = 1..Len(mq_queue) /\ DOMAIN mq_queue' = 1..(Len(mq_queue) + 1)
          /\ \A j \in 1..Len(mq_queue) : mq_queue'[j] = mq_queue[j]
      BY <1>0, <1>8
    <3> QED BY <1>6, <1>7, <3>1
  <2> QED BY <1>0, <1>5, <1>8, <2>2, <2>3 DEF AccountingInv
<1>9. CASE /\ Len(mq_queue) >= MaxRequiredSamples /\ mq_queue # <<>>
           /\ mq_queue' = Append(Tail(mq_queue), 0)
           /\ dropped_samples' = dropped_samples + 1
           /\ \A s : InQueue(s, mq_queue') <=>
                        (InQueue(s, mq_queue) /\ s # Head(mq_queue)) \/ s = 0
  <2>0. /\ Len(mq_queue') = Len(mq_queue) /\ Len(mq_queue) \in Nat \ {0}
        /\ DOMAIN mq_queue = 1..Len(mq_queue) /\ DOMAIN mq_queue' = 1..Len(mq_queue)
        /\ \A j \in 1..(Len(mq_queue) - 1) : mq_queue'[j] = mq_queue[j + 1]
        /\ Head(mq_queue) = mq_queue[1] /\ mq_queue[1] \in 0..TotalRolloutSteps
    BY <1>0, <1>9
  <2>1. PICK x : x = Head(mq_queue)
    OBVIOUS
  <2>2. x \in Samples /\ InQueue(x, mq_queue)
    BY <1>7, <2>0, <2>1 DEF Samples, InQueue
  <2>3. Copies(x) = 1 /\ Copies(x)' = 0
    <3>1. /\ held # x /\ task[x] = "none" /\ ~InQueue(x, cancel_queue)
          /\ ~InQueue(x, result_queue) /\ putting # x /\ x \notin received /\ Copies(x) = 1
      BY <1>0, <2>2 DEF SampleAccounting, Copies, Undelivered, InRollouter, One
    <3>2. ~InQueue(x, mq_queue')
      BY <1>9, <2>1, <2>2 DEF Samples
    <3> QED BY <1>1, <3>1, <3>2 DEF Copies, Undelivered, InRollouter, One, InQueue
  <2>4. ASSUME NEW s \in Samples \ {x} PROVE Copies(s)' = Copies(s)
    <3>1. InQueue(s, mq_queue') <=> InQueue(s, mq_queue)
      BY <1>9, <2>1 DEF Samples
    <3> QED BY <1>1, <3>1 DEF Copies, Undelivered, InRollouter, One, InQueue
  <2>5. dropped_samples' + failures' = dropped_samples + failures + 1
    BY <1>0, <1>1, <1>9
  <2>6. SampleAccounting'
    BY <1>0, <1>1, <2>2, <2>3, <2>4, <2>5, AccountsLost
  <2>7. EndSignalLast'
    BY <1>6, <1>7, <2>0
  <2> QED BY <1>0, <1>5, <1>9, <2>6, <2>7 DEF AccountingInv
<1> QED BY <1>0, <1>3, <1>4, <1>8, <1>9, PutMembers

\* get_sample() waits, or returns the oldest sample, or the end signal.
LEMMA GetSampleDoes ==
    ASSUME TypeInv, Served, GetSample
    PROVE  \/ UNCHANGED <<mq_queue, trainerVars>>
           \/ /\ mq_queue # <<>> /\ mq_queue' = Tail(mq_queue)
              /\ \/ Head(mq_queue) = EndSignal /\ ReceiveEnd
                 \/ Head(mq_queue) \in Samples /\ Receive(Head(mq_queue))
<1>1. /\ MQ!GetLoop("trainer") /\ getter \in [{"trainer"} -> {"idle", "waiting", "notified"}]
      /\ reply \in [{"trainer"} -> 0..TotalRolloutSteps \cup {NoSample}]
  BY DEF GetSample, MQ!GetSample, MQ!Wake, Served
<1>2. CASE MQ!WaitForSample("trainer")
  <2>1. getter'["trainer"] = "waiting" /\ mq_queue' = mq_queue
    BY <1>1, <1>2 DEF MQ!WaitForSample
  <2> QED BY <2>1 DEF GetSample
<1>3. ~MQ!ReturnNone("trainer")
  BY DEF MQ!ReturnNone, Served
<1>4. CASE MQ!TakeOldest("trainer")
  <2>1. /\ getter'["trainer"] = "idle" /\ reply'["trainer"] = Head(mq_queue)
        /\ mq_queue # <<>> /\ mq_queue' = Tail(mq_queue)
    BY <1>1, <1>4 DEF MQ!TakeOldest
  <2>2. Head(mq_queue) \in 0..TotalRolloutSteps
    BY <2>1 DEF TypeInv, QueueTyped
  <2>3. IF Head(mq_queue) = EndSignal THEN ReceiveEnd ELSE Receive(Head(mq_queue))
    BY <2>1 DEF GetSample
  <2> QED BY <2>1, <2>2, <2>3 DEF EndSignal, Samples
<1> QED BY <1>1, <1>2, <1>3, <1>4 DEF MQ!GetLoop

\* The trainer gets the oldest sample of the message queue.
LEMMA AccountingGet ==
    ASSUME TypeInv, Served, AccountingInv, [Next]_vars, ~ProcessorStep, ~PutEndSignal, GetSample
    PROVE  AccountingInv'
<1>0. /\ mq_queue \in Seq(0..TotalRolloutSteps) /\ NoRepeats(mq_queue) /\ SampleAccounting
      /\ EndSignalLast /\ dropped_samples \in Nat
  BY DEF TypeInv, QueueTyped, AccountingInv
<1>1. /\ UNCHANGED <<held, task, cancel_queue, result_queue, putting, taken, failures, pc>>
      /\ dropped_samples' = dropped_samples
  BY DEF GetSample, MQ!GetSample, MQ!Wake, MQ!GetLoop, rollouterVars, control, intakeVars,
     outputVars, taskVars, serverVars
<1>2. CASE UNCHANGED <<mq_queue, trainerVars>>
  BY <1>1, <1>2, AccountingAside DEF trainerVars, placeVars
<1>3. CASE mq_queue # <<>> /\ mq_queue' = Tail(mq_queue)
  <2>1. PICK x : x = Head(mq_queue)
    OBVIOUS
  <2>2. 0 \in 0..TotalRolloutSteps
    OBVIOUS
  <2>3. /\ x \in 0..TotalRolloutSteps /\ InQueue(x, mq_queue) /\ NoRepeats(mq_queue')
        /\ \A s : InQueue(s, mq_queue') <=> InQueue(s, mq_queue) /\ s # x
    <3> DEFINE T == 0..TotalRolloutSteps
    <3>1. mq_queue \in Seq(T)
      BY <1>0
    <3> HIDE DEF T
    <3>2. /\ x \in T /\ InQueue(x, mq_queue) /\ NoRepeats(Tail(mq_queue))
          /\ \A s : InQueue(s, Tail(mq_queue)) <=> InQueue(s, mq_queue) /\ s # x
      BY <1>0, <1>3, <2>1, <3>1, TailMembers
    <3> QED BY <1>3, <3>2 DEF T
  <2>4. EndSignalLast'
    <3>1. SUFFICES ASSUME NEW i \in DOMAIN mq_queue', mq_queue'[i] = 0
                   PROVE  /\ pc.main \in {"stop_in", "done"}
                          /\ i # Len(mq_queue') => i = Len(mq_queue') - 1 /\ putting = 0
      BY <1>1 DEF EndSignalLast, EndSignal
    <3>2. /\ Len(mq_queue') = Len(mq_queue) - 1 /\ Len(mq_queue) \in Nat \ {0}
          /\ DOMAIN mq_queue = 1..Len(mq_queue) /\ DOMAIN mq_queue' = 1..(Len(mq_queue) - 1)
          /\ \A j \in 1..(Len(mq_queue) - 1) : mq_queue'[j] = mq_queue[j + 1]
      BY <1>0, <1>3
    <3>3. i + 1 \in DOMAIN mq_queue /\ mq_queue[i + 1] = 0
      BY <3>1, <3>2
    <3>4. /\ pc.main \in {"stop_in", "done"}
          /\ i + 1 # Len(mq_queue) => i + 1 = Len(mq_queue) - 1 /\ putting = 0
      BY <1>0, <3>3 DEF EndSignalLast, EndSignal
    <3> QED BY <3>1, <3>2, <3>4
  <2>5. CASE x = EndSignal /\ ReceiveEnd
    <3>1. received' = received
      BY <2>5 DEF ReceiveEnd
    <3>2. ASSUME NEW s \in Samples PROVE Copies(s)' = Copies(s)
      <4>1. InQueue(s, mq_queue') <=> InQueue(s, mq_queue)
        BY <2>3, <2>5 DEF EndSignal, Samples
      <4> QED BY <1>1, <3>1, <4>1 DEF Copies, Undelivered, InRollouter, One, InQueue
    <3>3. SampleAccounting'
      BY <1>0, <1>1, <3>2, AccountsKept
    <3> QED BY <1>0, <1>1, <2>3, <2>4, <3>3 DEF AccountingInv, EmptyHanded, NoRepeats
  <2>6. CASE x \in Samples /\ Receive(x)
    <3>1. received' = received \cup {x}
      BY <2>6 DEF Receive
    <3>2. ASSUME NEW s \in Samples PROVE Copies(s)' = Copies(s)
      <4>1. CASE s = x
        <5>1. s \notin received
          BY <1>0, <2>3, <4>1 DEF SampleAccounting, Copies, Undelivered, InRollouter, One
        <5>2. ~InQueue(s, mq_queue') /\ InQueue(s, mq_queue)
          BY <2>3, <4>1
        <5> QED BY <1>1, <3>1, <4>1, <5>1, <5>2
                DEF Copies, Undelivered, InRollouter, One, InQueue
      <4>2. CASE s # x
        <5>1. InQueue(s, mq_queue') <=> InQueue(s, mq_queue)
          BY <2>3, <4>2
        <5> QED BY <1>1, <3>1, <4>2, <5>1 DEF Copies, Undelivered, InRollouter, One, InQueue
      <4> QED BY <4>1, <4>2
    <3>3. SampleAccounting'
      BY <1>0, <1>1, <3>2, AccountsKept
    <3> QED BY <1>0, <1>1, <2>3, <2>4, <3>3 DEF AccountingInv, EmptyHanded, NoRepeats
  <2> QED BY <1>3, <2>1, <2>3, <2>5, <2>6, GetSampleDoes DEF EndSignal, Samples,
             trainerVars, GetSample, Receive, ReceiveEnd
<1> QED BY <1>2, <1>3, GetSampleDoes

\* At the start no sample is taken and all places are empty.
LEMMA AccountingInit == Init => AccountingInv
<1> SUFFICES ASSUME Init PROVE AccountingInv
  OBVIOUS
<1>1. /\ taken = 0 /\ held = 0 /\ putting = 0 /\ failures = 0 /\ dropped_samples = 0
      /\ cancel_queue = <<>> /\ result_queue = <<>> /\ mq_queue = <<>> /\ received = {}
      /\ task = [s \in Samples |-> "none"]
  BY DEF Init, RollouterInit, TrainerInit, MQ!InitWith
<1>2. \A s \in Samples : ~(s <= taken)
  BY <1>1 DEF Samples
<1>3. \A s \in Samples : Copies(s) = 0
  BY <1>1 DEF Copies, Undelivered, InRollouter, One, InQueue, Samples
<1>4. {s \in Taken : Copies(s) = 0} = {}
  BY <1>2 DEF Taken
<1>5. SampleAccounting
  <2>1. \A s \in Samples : Copies(s) <= One(s \in Taken)
    BY <1>3 DEF One
  <2>2. Cardinality({s \in Taken : Copies(s) = 0}) = 0
    BY <1>4, FS_EmptySet
  <2> QED BY <1>1, <2>1, <2>2 DEF SampleAccounting
<1>6. NoRepeats(cancel_queue) /\ NoRepeats(result_queue) /\ NoRepeats(mq_queue)
  BY <1>1 DEF NoRepeats
<1>7. EmptyHanded /\ EndSignalLast
  BY <1>1 DEF EmptyHanded, EndSignalLast
<1> QED BY <1>1, <1>5, <1>6, <1>7 DEF AccountingInv

\* Every step keeps the accounts.
LEMMA AccountingStep ==
    ASSUME TypeInv, Served, AccountingInv, SignalSafe, [Next]_vars
    PROVE  AccountingInv'
<1>1. CASE ProcessorStep
  BY <1>1, AccountingProcessor
<1>2. CASE ConsumerStep
  BY <1>2, AccountingConsumer
<1>3. SUFFICES ASSUME ~ProcessorStep, ~ConsumerStep PROVE AccountingInv'
  BY <1>1, <1>2
<1>4. CASE PutEndSignal
  BY <1>3, <1>4, AccountingSignal
<1>5. CASE PutSample
  BY <1>3, <1>5, AccountingPut
<1>6. SUFFICES ASSUME ~PutEndSignal PROVE AccountingInv'
  BY <1>4
<1>7. CASE \E s \in Samples : TaskStep(s) \/ ServerStep(s)
  <2>1. PICK s \in Samples : TaskStep(s) \/ ServerStep(s)
    BY <1>7
  <2>2. CASE (StartTask(s) \/ ServerAdmit(s)) /\ Alone
    BY <1>3, <1>6, <2>2, AccountingTask
  <2>3. CASE EndTask(s) /\ Alone
    BY <2>3, AccountingEnd
  <2> QED BY <2>1, <2>2, <2>3 DEF TaskStep, ServerStep
<1>8. CASE GetSample
  BY <1>3, <1>6, <1>8, AccountingGet
<1>9. ASSUME UNCHANGED placeVars, UNCHANGED <<received, taken, dropped_samples, failures>>
      PROVE  AccountingInv'
  BY <1>3, <1>6, <1>9, AccountingAside
<1>10. CASE TrainerStep /\ ~GetSample
  <2>1. UNCHANGED placeVars /\ UNCHANGED <<taken, failures>>
    BY <1>10 DEF TrainerStep, ReadValidate, Train, WaitLastValid, PauseReturned, SyncWeights,
       MQ!GetValidate, MQ!UpdateParamVersion, mqVars, OnlyControl, rollouterVars, intakeVars,
       outputVars, taskVars, serverVars, placeVars
  <2>2. received' = received
    BY <1>10 DEF TrainerStep, ReadValidate, ReadFirst, ReadAfterStep, ReadFinal, Train, TrainBatch,
       EndTraining, WaitLastValid, LastSyncDone, PauseReturned, RollouterPaused, SyncWeights,
       WeightsSynced
  <2>3. dropped_samples' = dropped_samples
    BY <1>10 DEF TrainerStep, ReadValidate, Train, WaitLastValid, PauseReturned, SyncWeights,
       MQ!GetValidate, MQ!UpdateParamVersion, mqVars, MQ!counters
  <2> QED BY <1>9, <2>1, <2>2, <2>3
<1>11. CASE MainStep \/ MonitorStep \/ PauseStep \/ ResumeStep \/ PutValidate \/ FeederStep
            \/ UpdateStep \/ Terminated \/ UNCHANGED vars
  <2>1. UNCHANGED placeVars
    <3>1. CASE UpdateStep
      BY <3>1 DEF UpdateStep, CallArrives, UpdateCount, UpdateSized, Alone, mqVars, OnlyControl,
         intakeVars, outputVars, taskVars, placeVars
    <3> QED BY <1>11, <3>1, ControlKeepsSamples
  <2>2. UNCHANGED <<received, dropped_samples>>
    BY <1>11 DEF MainStep, MonitorStep, PauseStep, ResumeStep, PutValidate, FeederStep, UpdateStep,
       Terminated, vars, Alone, mqVars, trainerVars, MQ!PutValidate, MQ!counters
  <2>3. UNCHANGED <<taken, failures>>
    <3> USE DEF OnlyControl, OnlyFlags, OnlyReaps, OnlyIntake, intakeVars, serverVars
    <3>1. CASE MainStep \/ MonitorStep \/ PutValidate \/ FeederStep \/ UpdateStep
      BY <3>1 DEF MainStep, MainJoined, StopRunning, MonitorStep, MonitorTurn, MonitorResume,
         PutValidate, UpdateReported, FeederStep, Feed, UpdateStep, CallArrives, UpdateCount,
         UpdateSized
    <3>2. CASE PauseStep \/ ResumeStep
      BY <3>2 DEF PauseStep, CallArrives, PauseBegin, ServerCancel, PauseGathered, PauseEnd,
         ResumeStep, ResumeBegin, ServerResume
    <3>3. CASE Terminated \/ UNCHANGED vars
      BY <3>3 DEF Terminated, vars, rollouterVars
    <3> QED BY <1>11, <3>1, <3>2, <3>3
  <2> QED BY <1>9, <2>1, <2>2, <2>3
<1> QED BY <1>3, <1>5, <1>6, <1>7, <1>8, <1>10, <1>11 DEF Next

-----------------------------------------------------------------------------
(* What is delivered when the trainer has returned.                        *)

\* main has waited for everything, or the trainer has its end signal.
Signalled == pc.main \in {"signal", "stop_in", "done"}
Ended == validate \/ trainer \in {"ending", "wait_final", "wait_end", "last_read", "finished"}

NoneCancelled == cancel_queue = <<>> /\ ~server_paused /\ pc.pause # "cancel"

EndInv ==
    /\ pc.processor \in {"done_in", "done_wait", "finished"} => held = 0
    /\ pc.processor = "finished" => Live = {}
    /\ Signalled => pc.processor = "finished" /\ result_queue = <<>> /\ putting = 0
    /\ \A i \in DOMAIN mq_queue : mq_queue[i] = EndSignal =>
          i = Len(mq_queue) /\ pc.main \in {"stop_in", "done"}
    /\ Ended => mq_queue = <<>> /\ pc.main \in {"stop_in", "done"}

DeliveredInv == NoneCancelled /\ EndInv

-----------------------------------------------------------------------------
\* The processor finishes at the head of its last loop, when it has no task left.
LEMMA FinishedHead ==
    ASSUME PcTyped, NEW l, NEW loop \in Loops, NEW n, EnterLoop(l, loop, n),
           pc'.processor = "finished"
    PROVE  loop = "done" /\ ~(n > 0)
<1>1. pc'.processor = AtHead(loop, n)
  BY HeadLabel, GotoLabel DEF EnterLoop, Coroutines
<1> QED BY <1>1 DEF AtHead, BusyHead, FreeHead, Loops

\* Without active tasks nothing is live.
LEMMA NoneActive ==
    ASSUME TypeInv, ~(ActiveTasks > 0) \/ ~(Cardinality(Live) > 0)
    PROVE  Live = {}
<1>1. IsFiniteSet(Live) /\ Cardinality(Live) \in Nat /\ unreaped \in Nat
  BY LiveIsFinite, FS_CardinalityType DEF TypeInv, ReapTyped
<1>2. Cardinality(Live) = 0
  BY <1>1 DEF ActiveTasks
<1> QED BY <1>1, <1>2, FS_EmptySet

\* A finished processor takes no step.
LEMMA FinishedIsEnd ==
    ASSUME ProcessorStep
    PROVE  pc.processor # "finished"
BY DEF ProcessorStep, ProcessorTop, GetPending, SetPaused, AwaitTasks, Reap, Idle, Woken, Submit,
   InLock, WaitOf

\* The processor finishes with empty hands and without tasks.
LEMMA FinishesEmpty ==
    ASSUME TypeInv, ProcessorStep, cancel_queue = <<>>,
           pc.processor \in {"done_in", "done_wait", "finished"} => held = 0
    PROVE  /\ pc'.processor \in {"done_in", "done_wait", "finished"} => held' = 0
           /\ pc'.processor = "finished" => Live' = {}
           /\ cancel_queue' = <<>>
<1> DEFINE Last == {"done_in", "done_wait", "finished"}
           Goal == /\ pc'.processor \in Last => held' = 0
                   /\ pc'.processor = "finished" => Live' = {}
                   /\ cancel_queue' = <<>>
<1>0. PcTyped
  BY DEF TypeInv
<1>1. ASSUME NEW label \in Labels, Goto("processor", label) PROVE pc'.processor = label
  BY <1>0, <1>1, GotoLabel DEF Coroutines
<1>2. ASSUME NEW l, NEW loop \in Loops, NEW n, EnterLoop(l, loop, n)
      PROVE  pc'.processor \in Last => loop = "done"
  BY <1>0, <1>2, LoopHeads DEF Loops
<1>3. CASE pc'.processor \notin Last /\ cancel_queue' = cancel_queue
  BY <1>3
<1>4. CASE TakePending /\ UNCHANGED <<task, cancel_queue>>
  <2>1. CASE PendingIsEmpty
    BY <1>1, <1>3, <1>4, <2>1 DEF TakePending, Labels
  <2>2. CASE ~PendingIsEmpty /\ held' = 0
    <3>1. EnterLoop(lock, "done", ActiveTasks)
      BY <1>4, <2>2 DEF TakePending
    <3>2. ASSUME pc'.processor = "finished" PROVE Live' = {}
      <4>1. Live = {}
        BY <1>0, <3>1, <3>2, FinishedHead, NoneActive DEF Loops
      <4> QED BY <1>4, <4>1 DEF Live
    <3> QED BY <1>4, <2>2, <3>2
  <2>3. CASE ~PendingIsEmpty /\ held' # 0
    <3>1. EnterLoop(lock, "limit", ActiveTasks)
      BY <1>4, <2>3 DEF TakePending
    <3> QED BY <1>2, <1>3, <1>4, <3>1 DEF Loops
  <2> QED BY <2>1, <2>2, <2>3
<1>5. CASE ProcessorTop(queue_size)
  <2>1. CASE AskLock("processor", "pause_in") /\ UNCHANGED cancel_queue
    BY <1>1, <1>3, <2>1 DEF AskLock, Labels
  <2>2. CASE TakePending /\ UNCHANGED <<task, cancel_queue>>
    BY <1>4, <2>2
  <2> QED BY <1>5, <2>1, <2>2 DEF ProcessorTop, OnlyIntake, taskVars
<1>6. CASE GetPending
  BY <1>4, <1>6 DEF GetPending, OnlyIntake, taskVars
<1>7. CASE SetPaused
  BY <1>2, <1>3, <1>7 DEF SetPaused, OnlyFlags, intakeVars, Loops
<1>8. CASE AwaitTasks \/ Reap
  <2>1. UNCHANGED <<held, task, cancel_queue>>
    BY <1>8 DEF AwaitTasks, Reap, OnlyControl, OnlyReaps, intakeVars, taskVars
  <2>2. LoopOf[pc.processor] \in Loops
        /\ (LoopOf[pc.processor] = "done" <=> pc.processor \in {"done_in", "done_wait"})
    BY <1>8 DEF AwaitTasks, Reap, LoopOf, WaitOf, Loops
  <2>3. ASSUME NEW l, NEW n, EnterLoop(l, LoopOf[pc.processor], n),
               n = 0 \/ ~(n > 0) => Live = {}
        PROVE  Goal
    <3>1. pc'.processor \in Last => held' = 0
      BY <1>2, <2>1, <2>2, <2>3
    <3>2. ASSUME pc'.processor = "finished" PROVE Live' = {}
      <4>1. Live = {}
        BY <1>0, <2>2, <2>3, <3>2, FinishedHead
      <4> QED BY <2>1, <4>1 DEF Live
    <3> QED BY <2>1, <3>1, <3>2
  <2>4. CASE AwaitTasks
    <3>1. CASE ActiveTasks > 0
      <4>1. pc'.processor = WaitOf[pc.processor]
            /\ (pc'.processor \in Last => pc.processor = "done_in")
            /\ pc'.processor # "finished"
        BY <1>1, <2>4, <3>1 DEF AwaitTasks, KeepLock, WaitOf, Labels
      <4> QED BY <2>1, <4>1
    <3>2. CASE ~(ActiveTasks > 0) /\ done_tasks_bound
      BY <2>3, <2>4, <3>2, NoneActive DEF AwaitTasks
    <3>3. CASE ~(ActiveTasks > 0) /\ ~done_tasks_bound
      BY <1>1, <1>3, <2>1, <2>4, <3>3 DEF AwaitTasks, LeaveLock, Labels
    <3> QED BY <3>1, <3>2, <3>3
  <2>5. CASE Reap
    <3>1. CASE failed_unreaped
      BY <1>1, <1>3, <2>1, <2>5, <3>1 DEF Reap, LeaveLock, Labels
    <3>2. CASE ~failed_unreaped
      <4>1. Cardinality(Live) = 0 \/ ~(Cardinality(Live) > 0) => Live = {}
        BY NoneActive
      <4> QED BY <2>3, <2>5, <3>2, <4>1 DEF Reap
    <3> QED BY <3>1, <3>2
  <2> QED BY <1>8, <2>4, <2>5
<1>9. CASE Idle \/ Woken
  BY <1>1, <1>3, <1>9 DEF Idle, Woken, LeaveLock, AskLock, OnlyControl, intakeVars, Labels
<1>10. CASE Submit
  BY <1>1, <1>3, <1>10 DEF Submit, LeaveLock, Labels
<1> QED BY <1>5, <1>6, <1>7, <1>8, <1>9, <1>10 DEF ProcessorStep

\* Without partial rollout no sample is interrupted.
LEMMA NothingCancelled ==
    ASSUME TypeInv, ~PartialRollout, cancel_queue = <<>>, ~server_paused, pc.pause # "cancel",
           [Next]_vars, ~ProcessorStep
    PROVE  cancel_queue' = <<>> /\ ~server_paused' /\ pc'.pause # "cancel"
<1>0. PcTyped
  BY DEF TypeInv
<1>1. ASSUME NEW label \in Labels, Goto("pause", label) PROVE pc'.pause = label
  BY <1>0, <1>1, GotoLabel DEF Coroutines
<1> USE DEF intakeVars, serverVars
<1>2. CASE PauseStep
  <2>1. ~ServerCancel
    BY DEF ServerCancel
  <2>2. UNCHANGED <<cancel_queue, server_paused>>
    BY <1>2, <2>1 DEF PauseStep, CallArrives, PauseBegin, PauseGathered, PauseEnd, OnlyControl,
       OnlyFlags, OnlyReaps
  <2>3. pc'.pause # "cancel"
    BY <1>1, <1>2, <2>1 DEF PauseStep, CallArrives, PauseBegin, PauseGathered, PauseEnd, AskLock,
       KeepLock, LeaveLock, Labels
  <2> QED BY <2>2, <2>3
<1>3. CASE MainStep \/ PutEndSignal \/ MonitorStep \/ UpdateStep \/ PutValidate
  <2>1. UNCHANGED <<cancel_queue, server_paused>>
    BY <1>3 DEF MainStep, MainJoined, StopRunning, PutEndSignal, EndSignalDelivered, MonitorStep,
       MonitorTurn, MonitorResume, UpdateStep, CallArrives, UpdateCount, UpdateSized, PutValidate,
       UpdateReported, OnlyControl, OnlyFlags
  <2>2. pc'.pause = pc.pause
    BY <1>0, <1>3, MainMoves, MonitorMoves, UpdateMoves DEF Moves, Notifies, Coroutines
  <2> QED BY <2>1, <2>2
<1>4. CASE ResumeStep
  <2>1. cancel_queue' = cancel_queue /\ ~server_paused'
    BY <1>4 DEF ResumeStep, CallArrives, ResumeBegin, ServerResume, OnlyControl, OnlyFlags
  <2>2. pc'.pause = pc.pause
    BY <1>0, <1>4, ResumeMoves DEF Moves, Notifies, Coroutines
  <2> QED BY <2>1, <2>2
<1>5. CASE TrainerStep
  <2>1. UNCHANGED <<cancel_queue, server_paused>>
    BY <1>5 DEF TrainerStep, GetSample, ReadValidate, Train, WaitLastValid, PauseReturned,
       SyncWeights, OnlyControl, rollouterVars
  <2>2. pc'.pause \in {pc.pause, "called"}
    BY <1>0, <1>5, TrainerMoves
  <2> QED BY <2>1, <2>2
<1>6. CASE FeederStep \/ ConsumerStep \/ PutSample \/ Terminated \/ UNCHANGED vars
  <2>1. UNCHANGED <<cancel_queue, server_paused>>
    BY <1>6 DEF FeederStep, Feed, ConsumerStep, ConsumerTake, PutSample, PutDelivered, OnlyIntake,
       OnlyOutput, Terminated, vars, rollouterVars
  <2> QED BY <1>6, <2>1, OthersDoNotMove
<1>7. CASE \E s \in Samples : TaskStep(s) \/ ServerStep(s)
  <2>1. PICK s \in Samples : TaskStep(s) \/ ServerStep(s)
    BY <1>7
  <2>2. UNCHANGED <<cancel_queue, server_paused>>
    <3>1. CASE StartTask(s) \/ ServerAdmit(s)
      BY <3>1 DEF StartTask, ServerAdmit
    <3>2. CASE EndTask(s)
      <4>1. "cancelled" \notin Answers(s)
        BY DEF Answers
      <4> QED BY <3>2, <4>1 DEF EndTask
    <3> QED BY <2>1, <3>1, <3>2 DEF TaskStep, ServerStep
  <2> QED BY <1>7, <2>2, OthersDoNotMove
<1> QED BY <1>2, <1>3, <1>4, <1>5, <1>6, <1>7 DEF Next

\* Only the processor creates tasks and holds samples.
LEMMA TasksOnlyEnd ==
    ASSUME TypeInv, [Next]_vars, ~ProcessorStep
    PROVE  held' = held /\ Live' \subseteq Live
<1>1. CASE UNCHANGED placeVars
  BY <1>1 DEF placeVars, Live
<1>2. CASE MainStep \/ MonitorStep \/ PauseStep \/ ResumeStep \/ PutValidate \/ FeederStep
           \/ Terminated \/ UNCHANGED vars
  BY <1>1, <1>2, ControlKeepsSamples
<1>3. CASE UpdateStep \/ PutEndSignal \/ PutSample \/ ConsumerStep \/ TrainerStep
  <2>1. UNCHANGED <<held, task>>
    <3> USE DEF OnlyControl, OnlyOutput, intakeVars, taskVars
    <3>1. CASE UpdateStep
      BY <3>1 DEF UpdateStep, CallArrives, UpdateCount, UpdateSized
    <3>2. CASE PutEndSignal \/ PutSample \/ ConsumerStep
      BY <3>2 DEF PutEndSignal, EndSignalDelivered, PutSample, PutDelivered, ConsumerStep,
         ConsumerTake
    <3>3. CASE TrainerStep
      BY <3>3 DEF TrainerStep, GetSample, ReadValidate, Train, WaitLastValid, PauseReturned,
         SyncWeights, rollouterVars
    <3> QED BY <1>3, <3>1, <3>2, <3>3
  <2> QED BY <2>1 DEF Live
<1>4. CASE \E s \in Samples : TaskStep(s) \/ ServerStep(s)
  <2>1. PICK s \in Samples : StartTask(s) \/ EndTask(s) \/ ServerAdmit(s)
    BY <1>4 DEF TaskStep, ServerStep
  <2>2. held' = held
    BY <2>1 DEF StartTask, EndTask, ServerAdmit, intakeVars
  <2>3. task[s] # "none"
    BY <2>1 DEF StartTask, EndTask, ServerAdmit, Answers
  <2>4. \A t \in Samples \ {s} : task'[t] = task[t]
    BY <2>1 DEF StartTask, EndTask, ServerAdmit, TypeInv, TaskTyped
  <2> QED BY <2>2, <2>3, <2>4 DEF Live
<1> QED BY <1>2, <1>3, <1>4 DEF Next

\* The trainer comes to its end by the end signal.
LEMMA EndsBySignal ==
    ASSUME TypeInv, Served, [Next]_vars, Ended', ~Ended
    PROVE  /\ GetSample /\ mq_queue # <<>> /\ mq_queue' = Tail(mq_queue)
           /\ Head(mq_queue) = EndSignal
<1>0. ~validate
      /\ trainer \notin {"ending", "wait_final", "wait_end", "last_read", "finished"}
  BY DEF Ended, TypeInv, TrainerTypeOK
<1>1. ~UNCHANGED trainerVars
  BY DEF Ended, trainerVars
<1>2. CASE GetSample
  <2>1. ~(Receive(Head(mq_queue)))
    BY <1>0 DEF Receive, Ended
  <2> QED BY <1>1, <1>2, <2>1, GetSampleDoes
<1>3. ~ReadValidate /\ ~Train /\ ~PauseReturned
  BY <1>0 DEF ReadValidate, ReadFirst, ReadAfterStep, ReadFinal, Train, TrainBatch, EndTraining,
     NewVersion, PauseReturned, RollouterPaused, Ended
<1>4. ~WaitLastValid
  BY <1>0 DEF WaitLastValid, LastSyncDone, Ended
<1>5. ~SyncWeights
  BY <1>0 DEF SyncWeights, WeightsSynced, Ended
<1>6. TrainerStep
  BY <1>1 DEF Next, ProcessorStep, FeederStep, ConsumerStep, MainStep, MonitorStep, PauseStep,
     UpdateStep, ResumeStep, TaskStep, ServerStep, PutSample, PutEndSignal, PutValidate, Alone,
     Terminated, vars
<1> QED BY <1>2, <1>3, <1>4, <1>5, <1>6 DEF TrainerStep

\* The message queue is left alone by all but the puts and get_sample().
LEMMA QueueLeftAlone ==
    ASSUME [Next]_vars, ~PutSample, ~PutEndSignal, ~GetSample
    PROVE  mq_queue' = mq_queue
BY DEF Next, ProcessorStep, FeederStep, ConsumerStep, MainStep, MonitorStep, PauseStep,
     UpdateStep, ResumeStep, TaskStep, ServerStep, PutValidate, Alone, Terminated, vars,
     TrainerStep, ReadValidate, Train, WaitLastValid, PauseReturned, SyncWeights, mqVars,
     MQ!GetValidate, MQ!UpdateParamVersion, MQ!PutValidate

\* A sequence of length 0 is the empty one.
LEMMA LengthZero == ASSUME NEW T, NEW q \in Seq(T), Len(q) = 0 PROVE q = <<>>
OBVIOUS

\* main signals only when nothing is on its way to the message queue, and from then on
\* nothing is.
LEMMA SignalledDone ==
    ASSUME TypeInv, MaxFailures = 0, ProcessorSurvives, EndInv, [Next]_vars, ~ProcessorStep,
           Signalled'
    PROVE  pc'.processor = "finished" /\ result_queue' = <<>> /\ putting' = 0
<1>0. PcTyped /\ pc.processor # "failed"
  BY DEF TypeInv, ServerTyped, ProcessorSurvives
<1>1. CASE Signalled
  <2>1. pc.processor = "finished" /\ result_queue = <<>> /\ putting = 0 /\ Live = {}
    BY <1>1 DEF EndInv
  <2>2. pc'.processor = "finished"
    BY <1>0, <2>1, ProcessorMovedByNobody
  <2>3. UNCHANGED <<result_queue, putting>>
    <3>1. CASE UNCHANGED placeVars
      BY <3>1 DEF placeVars
    <3>2. CASE MainStep \/ MonitorStep \/ PauseStep \/ ResumeStep \/ PutValidate \/ FeederStep
               \/ Terminated \/ UNCHANGED vars
      BY <3>1, <3>2, ControlKeepsSamples
    <3>3. ~PutSample /\ ~ConsumerStep
      BY <2>1 DEF PutSample, PutDelivered, ConsumerStep, ConsumerTake
    <3>4. ~\E s \in Samples : TaskStep(s) \/ ServerStep(s)
      BY <2>1 DEF TaskStep, StartTask, EndTask, ServerStep, ServerAdmit, Answers, Live
    <3>5. CASE UpdateStep
      BY <3>5 DEF UpdateStep, CallArrives, UpdateCount, UpdateSized, OnlyControl, outputVars
    <3>6. CASE PutEndSignal
      BY <3>6 DEF PutEndSignal, EndSignalDelivered, OnlyControl, outputVars
    <3>7. CASE TrainerStep
      BY <3>7 DEF TrainerStep, GetSample, ReadValidate, Train, WaitLastValid, PauseReturned,
         SyncWeights, rollouterVars, OnlyControl, outputVars
    <3> QED BY <3>2, <3>3, <3>4, <3>5, <3>6, <3>7 DEF Next
  <2> QED BY <2>1, <2>2, <2>3
<1>2. CASE ~Signalled
  <2>1. ~PutEndSignal
    BY <1>2 DEF PutEndSignal, EndSignalDelivered, Signalled
  <2>2. MainStep
    BY <1>0, <1>2, <2>1, MainStays DEF Signalled
  <2>3. MainJoined
    BY <1>2, <2>2 DEF MainStep, StopRunning, InLock, Signalled
  <2>4. pc.processor = "finished" /\ Joined
    BY <1>0, <2>3 DEF MainJoined
  <2>5. pc'.processor = "finished"
    BY <1>0, <2>4, ProcessorMovedByNobody
  <2>6. UNCHANGED <<result_queue, putting>>
    BY <2>3 DEF MainJoined, OnlyControl, outputVars
  <2> QED BY <2>4, <2>5, <2>6 DEF Joined
<1> QED BY <1>1, <1>2

\* The end signal is the last that the message queue gets.
LEMMA SignalIsLast ==
    ASSUME TypeInv, Served, EndInv, [Next]_vars, ~ProcessorStep
    PROVE  \A i \in DOMAIN mq_queue' : mq_queue'[i] = EndSignal =>
              i = Len(mq_queue') /\ pc'.main \in {"stop_in", "done"}
<1> SUFFICES ASSUME NEW i \in DOMAIN mq_queue', mq_queue'[i] = 0
             PROVE  i = Len(mq_queue') /\ pc'.main \in {"stop_in", "done"}
  BY DEF EndSignal
<1>0. /\ PcTyped /\ mq_queue \in Seq(0..TotalRolloutSteps)
      /\ Len(mq_queue) \in Nat /\ DOMAIN mq_queue = 1..Len(mq_queue)
  BY DEF TypeInv, QueueTyped
<1>1. \A j \in DOMAIN mq_queue : mq_queue[j] = 0 =>
         j = Len(mq_queue) /\ pc.main \in {"stop_in", "done"}
  BY DEF EndInv, EndSignal
<1>2. ~PutEndSignal /\ pc.main \in {"stop_in", "done"} => pc'.main \in {"stop_in", "done"}
  BY <1>0, MainAdvances
<1>3. CASE PutSample \/ PutEndSignal
  <2>1. PICK e \in 0..TotalRolloutSteps : MQ!PutSample(e) /\ (e = 0 => PutEndSignal)
    BY <1>3 DEF PutSample, PutDelivered, PutEndSignal, EndSignal, TypeInv, OutputTyped
  <2>2. \A j \in DOMAIN mq_queue : mq_queue[j] # 0
    <3>1. pc.main \notin {"stop_in", "done"}
      BY <1>3 DEF PutSample, PutDelivered, PutEndSignal, EndSignalDelivered, EndInv, Signalled
    <3> QED BY <1>1, <3>1
  <2>3. PICK q \in Seq(0..TotalRolloutSteps) :
          /\ mq_queue' = Append(q, e)
          /\ \A j \in DOMAIN q : q[j] # 0
    <3>1. CASE Len(mq_queue) >= MaxRequiredSamples
      <4>1. Tail(mq_queue) \in Seq(0..TotalRolloutSteps)
            /\ \A j \in DOMAIN Tail(mq_queue) : Tail(mq_queue)[j] # 0
        <5>1. mq_queue # <<>>
          BY <1>0, <3>1
        <5>2. /\ Tail(mq_queue) \in Seq(0..TotalRolloutSteps)
              /\ DOMAIN Tail(mq_queue) = 1..(Len(mq_queue) - 1)
              /\ \A j \in 1..(Len(mq_queue) - 1) : Tail(mq_queue)[j] = mq_queue[j + 1]
          BY <1>0, <5>1
        <5> QED BY <1>0, <2>2, <5>2
      <4>2. mq_queue' = Append(Tail(mq_queue), e)
        BY <2>1, <3>1 DEF MQ!PutSample, MQ!Appended, MQ!IsFull
      <4> QED BY <4>1, <4>2
    <3>2. CASE ~(Len(mq_queue) >= MaxRequiredSamples)
      BY <1>0, <2>1, <2>2, <3>2 DEF MQ!PutSample, MQ!Appended, MQ!IsFull
    <3> QED BY <3>1, <3>2
  <2>4. i = Len(mq_queue') /\ e = 0
    BY <2>3
  <2>5. pc'.main = "stop_in"
    BY <1>0, <2>1, <2>4, GotoLabel DEF PutEndSignal, EndSignalDelivered, AskLock, Coroutines, Labels
  <2> QED BY <2>4, <2>5
<1>4. CASE GetSample
  <2>1. pc' = pc
    BY <1>4 DEF GetSample, rollouterVars, control
  <2>2. CASE mq_queue' = mq_queue
    BY <1>1, <2>1, <2>2
  <2>3. CASE mq_queue # <<>> /\ mq_queue' = Tail(mq_queue)
    <3>1. /\ Len(mq_queue') = Len(mq_queue) - 1 /\ DOMAIN mq_queue' = 1..(Len(mq_queue) - 1)
          /\ \A j \in 1..(Len(mq_queue) - 1) : mq_queue'[j] = mq_queue[j + 1]
      BY <1>0, <2>3
    <3>2. i + 1 \in DOMAIN mq_queue /\ mq_queue[i + 1] = 0 /\ i \in Int
      BY <1>0, <3>1
    <3>3. i + 1 = Len(mq_queue) /\ pc.main \in {"stop_in", "done"}
      BY <1>1, <3>2
    <3> QED BY <1>0, <2>1, <3>1, <3>2, <3>3
  <2> QED BY <1>4, <2>2, <2>3, GetSampleDoes
<1>5. CASE ~PutSample /\ ~PutEndSignal /\ ~GetSample
  <2>1. mq_queue' = mq_queue
    BY <1>5, QueueLeftAlone
  <2> QED BY <1>1, <1>2, <1>5, <2>1
<1> QED BY <1>3, <1>4, <1>5

\* At its end the trainer leaves an empty queue behind, and nobody puts any more.
LEMMA EndedEmpty ==
    ASSUME TypeInv, Served, EndInv, [Next]_vars, Ended'
    PROVE  mq_queue' = <<>> /\ pc'.main \in {"stop_in", "done"}
<1>0. PcTyped /\ mq_queue \in Seq(0..TotalRolloutSteps)
  BY DEF TypeInv, QueueTyped
<1>1. ~PutEndSignal /\ pc.main \in {"stop_in", "done"} => pc'.main \in {"stop_in", "done"}
  BY <1>0, MainAdvances
<1>2. CASE Ended
  <2>1. mq_queue = <<>> /\ pc.main \in {"stop_in", "done"} /\ putting = 0
    BY <1>2 DEF EndInv, Signalled
  <2>2. ~PutSample /\ ~PutEndSignal
    BY <2>1 DEF PutSample, PutDelivered, PutEndSignal, EndSignalDelivered
  <2>3. mq_queue' = mq_queue
    <3>1. CASE GetSample
      BY <2>1, <3>1, GetSampleDoes
    <3> QED BY <2>2, <3>1, QueueLeftAlone
  <2> QED BY <1>1, <2>1, <2>2, <2>3
<1>3. CASE ~Ended
  <2>1. /\ GetSample /\ mq_queue # <<>> /\ mq_queue' = Tail(mq_queue)
        /\ Head(mq_queue) = EndSignal
    BY <1>3, EndsBySignal
  <2>2. 1 \in DOMAIN mq_queue /\ mq_queue[1] = EndSignal
    BY <1>0, <2>1
  <2>3. Len(mq_queue) = 1 /\ pc.main \in {"stop_in", "done"}
    BY <2>2 DEF EndInv
  <2>4. Tail(mq_queue) = <<>>
    <3>1. Tail(mq_queue) \in Seq(0..TotalRolloutSteps) /\ Len(Tail(mq_queue)) = 0
      BY <1>0, <2>1, <2>3
    <3> QED BY <3>1, LengthZero
  <2>5. pc' = pc
    BY <2>1 DEF GetSample, rollouterVars, control
  <2> QED BY <2>1, <2>3, <2>4, <2>5
<1> QED BY <1>2, <1>3

\* Without failures the pipeline runs empty step by step, if nothing is interrupted.
LEMMA EndStep ==
    ASSUME MaxFailures = 0, TypeInv, Served, ProcessorSurvives, EndInv, cancel_queue = <<>>,
           [Next]_vars
    PROVE  EndInv'
<1>0. PcTyped
  BY DEF TypeInv
<1>1. CASE ProcessorStep
  <2>1. pc.processor # "finished"
    BY <1>1, FinishedIsEnd
  <2>2. ~Signalled /\ ~Ended
    BY <2>1 DEF EndInv, Signalled
  <2>3. pc'.main = pc.main
    BY <1>0, <1>1, ProcessorMoves DEF Moves, Coroutines
  <2>4. mq_queue' = mq_queue /\ UNCHANGED trainerVars
    BY <1>1 DEF ProcessorStep, Alone, mqVars
  <2>5. /\ pc'.processor \in {"done_in", "done_wait", "finished"} => held' = 0
        /\ pc'.processor = "finished" => Live' = {}
    BY <1>1, FinishesEmpty DEF EndInv
  <2>6. ~Signalled' /\ ~Ended'
    BY <2>2, <2>3, <2>4 DEF Signalled, Ended, trainerVars
  <2> QED BY <2>3, <2>4, <2>5, <2>6 DEF EndInv
<1>2. CASE ~ProcessorStep
  <2>1. /\ pc'.processor \in {"done_in", "done_wait", "finished"} => held' = 0
        /\ pc'.processor = "finished" => Live' = {}
    BY <1>0, <1>2, TasksOnlyEnd, ProcessorMovedByNobody DEF EndInv
  <2>2. Signalled' => pc'.processor = "finished" /\ result_queue' = <<>> /\ putting' = 0
    BY <1>2, SignalledDone
  <2>3. \A i \in DOMAIN mq_queue' : mq_queue'[i] = EndSignal =>
           i = Len(mq_queue') /\ pc'.main \in {"stop_in", "done"}
    BY <1>2, SignalIsLast
  <2>4. Ended' => mq_queue' = <<>> /\ pc'.main \in {"stop_in", "done"}
    BY EndedEmpty
  <2> QED BY <2>1, <2>2, <2>3, <2>4 DEF EndInv, EndSignal
<1> QED BY <1>1, <1>2

\* Without partial rollout the servers are never paused.
LEMMA NoneCancelledStep ==
    ASSUME TypeInv, ~PartialRollout, EndInv, NoneCancelled, [Next]_vars
    PROVE  NoneCancelled'
<1>1. PcTyped
  BY DEF TypeInv
<1>2. CASE ProcessorStep
  <2>1. cancel_queue' = <<>>
    BY <1>2, FinishesEmpty DEF NoneCancelled, EndInv
  <2>2. server_paused' = server_paused
    BY <1>2 DEF ProcessorStep, ProcessorTop, GetPending, SetPaused, AwaitTasks, Reap, Idle, Woken,
       Submit, OnlyControl, OnlyFlags, OnlyReaps, OnlyIntake, serverVars
  <2>3. pc'.pause = pc.pause
    BY <1>1, <1>2, ProcessorMoves DEF Moves, Coroutines
  <2> QED BY <2>1, <2>2, <2>3 DEF NoneCancelled
<1>3. CASE ~ProcessorStep
  BY <1>3, NothingCancelled DEF NoneCancelled
<1> QED BY <1>2, <1>3

\* Nor is anything interrupted then.
LEMMA DeliveredStep ==
    ASSUME ~PartialRollout, MaxFailures = 0, TypeInv, Served, ProcessorSurvives, DeliveredInv,
           [Next]_vars
    PROVE  DeliveredInv'
<1>1. EndInv /\ NoneCancelled
  BY DEF DeliveredInv
<1>2. EndInv'
  BY <1>1, EndStep DEF NoneCancelled
<1>3. NoneCancelled'
  BY <1>1, NoneCancelledStep
<1> QED BY <1>2, <1>3 DEF DeliveredInv

\* At the start nothing is signalled.
LEMMA DeliveredInit == Init => DeliveredInv
BY DEF Init, RollouterInit, TrainerInit, MQ!InitWith, DeliveredInv, NoneCancelled,
       EndInv, Signalled, Ended

\* When the trainer has come to its end, no sample is on its way.
LEMMA EndedIsEmpty ==
    ASSUME EndInv, cancel_queue = <<>>, Ended
    PROVE  Outstanding = {}
<1> SUFFICES ASSUME NEW s \in Samples PROVE Undelivered(s) = 0
  BY DEF Outstanding
<1>1. mq_queue = <<>> /\ Signalled
  BY DEF EndInv, Signalled
<1>2. pc.processor = "finished" /\ result_queue = <<>> /\ putting = 0
  BY <1>1 DEF EndInv
<1>3. held = 0 /\ Live = {}
  BY <1>2 DEF EndInv
<1>4. task[s] = "none"
  BY <1>3 DEF Live
<1> QED BY <1>1, <1>2, <1>3, <1>4 DEF Undelivered, InRollouter, One, InQueue, Samples

\* When the trainer has returned, every sample the processor took has been delivered or
\* dropped (fully_async_rollouter.py, _streaming_generation_main; fully_async_trainer.py,
\* fit): whole samples only, none of which fails.  With partial rollout this is false,
\* as is shown by a run.
THEOREM AllDeliveredCorrect ==
    ASSUME CapacityAssumption, ~PartialRollout, MaxFailures = 0
    PROVE  Spec => []AllDelivered
<1> DEFINE I == TypeInv /\ ConcurrencyInv /\ Served /\ SurvivesInv /\ DeliveredInv
<1>1. Init => I
  BY TypeInit, ConcurrencyInit, ServedInit, SurvivesInit, DeliveredInit
<1>2. I /\ [Next]_vars => I'
  <2> SUFFICES ASSUME I, [Next]_vars PROVE I'
    OBVIOUS
  <2>1. TypeInv' /\ ConcurrencyInv' /\ Served'
    BY TypeStep, ConcurrencyStep, ServedStep
  <2>2. SurvivesInv'
    BY <2>1, SurvivesStep DEF ConcurrencyInv
  <2>3. DeliveredInv'
    BY DeliveredStep DEF SurvivesInv
  <2> QED BY <2>1, <2>2, <2>3
<1>3. I => AllDelivered
  <2> SUFFICES ASSUME DeliveredInv, trainer = "finished" PROVE Outstanding = {}
    BY DEF AllDelivered
  <2> QED BY EndedIsEmpty DEF DeliveredInv, NoneCancelled, Ended
<1> QED BY <1>1, <1>2, <1>3, PTL DEF Spec

-----------------------------------------------------------------------------
(* Staleness 0: what a version may generate is what the next one takes.     *)

StalenessZero == MaxRequiredSamples = RequiredSamples * TriggerStep

\* The calls of a synchronisation come one after the other.
CallsInv ==
    /\ pc.pause # "none" => trainer = "pausing"
    /\ pc.update # "none" => pc.resume = "called"
    /\ trainer \in {"pausing", "weights"} => pc.update = "none" /\ pc.resume = "none"
    /\ validate => trainer \in {"pausing", "weights", "wait_end", "last_read", "finished"}

\* Nobody but the trainer changes its variables.
LEMMA OnlyTrainer == [Next]_vars /\ ~TrainerStep => UNCHANGED trainerVars
BY DEF Next, ProcessorStep, FeederStep, ConsumerStep, MainStep, MonitorStep, PauseStep, UpdateStep,
   ResumeStep, TaskStep, ServerStep, PutSample, PutEndSignal, PutValidate, Alone, Terminated, vars

\* The steps of pause(), of update_param_version() and of resume(), by their labels.
LEMMA PauseDoes ==
    ASSUME PcTyped, PauseStep
    PROVE  /\ \/ CallArrives("pause") /\ pc.pause = "called" /\ pc'.pause = "locked"
              \/ PauseBegin /\ pc.pause = "locked" /\ pc'.pause \in {"cancel", "gather"}
              \/ ServerCancel /\ pc.pause = "cancel" /\ pc'.pause = "gather"
              \/ PauseGathered /\ pc.pause = "gather" /\ pc'.pause = "reset"
              \/ PauseEnd /\ pc.pause = "reset" /\ pc'.pause = "none"
           /\ \A c \in Coroutines \ {"pause"} : pc'[c] = pc[c]
           /\ UNCHANGED <<trainerVars, mqVars>>
<1>1. ASSUME NEW label \in Labels, Goto("pause", label) PROVE pc'.pause = label
  BY <1>1, GotoLabel DEF Coroutines
<1>2. \A c \in Coroutines \ {"pause"} : pc'[c] = pc[c]
  BY PauseMoves DEF Moves
<1>3. UNCHANGED <<trainerVars, mqVars>>
  BY DEF PauseStep, Alone
<1>4. CASE CallArrives("pause")
  BY <1>1, <1>2, <1>3, <1>4 DEF CallArrives, AskLock, Labels
<1>5. CASE PauseBegin
  BY <1>1, <1>2, <1>3, <1>5 DEF PauseBegin, InLock, KeepLock, Labels
<1>6. CASE ServerCancel
  BY <1>1, <1>2, <1>3, <1>6 DEF ServerCancel, Labels
<1>7. CASE PauseGathered
  BY <1>1, <1>2, <1>3, <1>7 DEF PauseGathered, Labels
<1>8. CASE PauseEnd
  BY <1>1, <1>2, <1>3, <1>8 DEF PauseEnd, LeaveLock, Labels
<1> QED BY <1>4, <1>5, <1>6, <1>7, <1>8 DEF PauseStep

\* ... of update_param_version().
LEMMA UpdateDoes ==
    ASSUME PcTyped, UpdateStep \/ PutValidate
    PROVE  /\ \/ CallArrives("update") /\ pc.update = "called" /\ pc'.update = "locked"
              \/ UpdateCount(weights_version) /\ pc.update = "locked" /\ pc'.update = "sizing"
              \/ UpdateSized(queue_size) /\ pc.update = "sizing" /\ pc'.update = "report"
              \/ UpdateReported /\ pc.update = "report" /\ pc'.update = "none"
           /\ \A c \in Coroutines \ {"update"} : pc'[c] = pc[c]
           /\ UNCHANGED <<trainerVars, mq_queue>>
<1>1. ASSUME NEW label \in Labels, Goto("update", label) PROVE pc'.update = label
  BY <1>1, GotoLabel DEF Coroutines
<1>2. \A c \in Coroutines \ {"update"} : pc'[c] = pc[c]
  BY UpdateMoves DEF Moves
<1>3. UNCHANGED <<trainerVars, mq_queue>>
  BY DEF UpdateStep, PutValidate, MQ!PutValidate, Alone, mqVars
<1>4. CASE CallArrives("update")
  BY <1>1, <1>2, <1>3, <1>4 DEF CallArrives, AskLock, Labels
<1>5. CASE UpdateCount(weights_version)
  BY <1>1, <1>2, <1>3, <1>5 DEF UpdateCount, InLock, KeepLock, Labels
<1>6. CASE UpdateSized(queue_size)
  BY <1>1, <1>2, <1>3, <1>6 DEF UpdateSized, Labels
<1>7. CASE UpdateReported
  BY <1>1, <1>2, <1>3, <1>7 DEF UpdateReported, LeaveLock, Labels
<1> QED BY <1>4, <1>5, <1>6, <1>7 DEF UpdateStep, PutValidate

\* ... of resume().
LEMMA ResumeDoes ==
    ASSUME PcTyped, ResumeStep
    PROVE  /\ \/ /\ CallArrives("resume") /\ pc.update = "none"
                 /\ pc.resume = "called" /\ pc'.resume = "locked"
              \/ ResumeBegin /\ pc.resume = "locked"
                   /\ pc'.resume = IF PartialRollout THEN "server" ELSE "none"
              \/ ServerResume /\ pc.resume = "server" /\ pc'.resume = "none"
           /\ \A c \in Coroutines \ {"processor", "resume"} : pc'[c] = pc[c]
           /\ pc'.processor \in {pc.processor, "idle_woken", "submit_woken"}
           /\ UNCHANGED <<trainerVars, mqVars>>
<1>1. ASSUME NEW label \in Labels, Goto("resume", label) PROVE pc'.resume = label
  BY <1>1, GotoLabel DEF Coroutines
<1>2. /\ \A c \in Coroutines \ {"processor", "resume"} : pc'[c] = pc[c]
      /\ pc'.processor \in {pc.processor, "idle_woken", "submit_woken"}
  BY ResumeMoves DEF Moves, Notifies, Coroutines
<1>3. UNCHANGED <<trainerVars, mqVars>>
  BY DEF ResumeStep, Alone
<1>4. CASE CallArrives("resume")
  BY <1>1, <1>2, <1>3, <1>4 DEF CallArrives, AskLock, Labels
<1>5. CASE ResumeBegin
  <2> DEFINE p == [pc EXCEPT !["resume"] = IF PartialRollout THEN "server" ELSE "none"]
  <2>1. pc' = Notified(p) /\ pc.resume = "locked"
    BY <1>5 DEF ResumeBegin, InLock
  <2>2. p \in [Coroutines -> Labels]
        /\ p["resume"] = IF PartialRollout THEN "server" ELSE "none"
    BY DEF PcTyped, Coroutines, Labels
  <2> HIDE DEF p
  <2>3. pc'.resume = p.resume
    BY <2>1, <2>2, NotifiedWakes DEF Coroutines
  <2> QED BY <1>2, <1>3, <1>5, <2>1, <2>2, <2>3
<1>6. CASE ServerResume
  BY <1>1, <1>2, <1>3, <1>6 DEF ServerResume, LeaveLock, Labels
<1> QED BY <1>4, <1>5, <1>6 DEF ResumeStep

\* What the trainer does to the calls.
LEMMA TrainerDoes ==
    ASSUME PcTyped, TrainerStep
    PROVE  /\ \/ (GetSample \/ ReadValidate \/ Train) /\ pc' = pc
              \/ /\ WaitLastValid /\ pc.update = "none" /\ pc.resume = "none"
                 /\ trainer \in {"wait_last", "wait_final", "wait_end"}
                 /\ trainer' = IF trainer = "wait_end" THEN "last_read" ELSE "pausing"
                 /\ pc'.pause = IF trainer' = "pausing" THEN "called" ELSE pc.pause
                 /\ pc'.update = pc.update /\ pc'.resume = pc.resume
              \/ PauseReturned /\ trainer = "pausing" /\ trainer' = "weights" /\ pc.pause = "none"
                   /\ pc' = pc
              \/ /\ SyncWeights /\ trainer = "weights"
                 /\ trainer' = IF validate THEN "wait_end" ELSE "read"
                 /\ pc'.update = "called" /\ pc'.resume = "called" /\ pc'.pause = pc.pause
           /\ \A c \in {"processor", "main", "monitor"} : pc'[c] = pc[c]
<1>1. CASE GetSample \/ ReadValidate \/ Train
  BY <1>1 DEF GetSample, ReadValidate, Train, rollouterVars, control
<1>2. CASE WaitLastValid
  BY <1>2, TrainerMoves DEF WaitLastValid, LastSyncDone, Returned, PcTyped, Coroutines
<1>3. CASE PauseReturned
  BY <1>3 DEF PauseReturned, RollouterPaused, rollouterVars, control
<1>4. CASE SyncWeights
  <2>1. pc' = [pc EXCEPT !["update"] = "called", !["resume"] = "called"]
    BY <1>4 DEF SyncWeights
  <2>2. pc'.update = "called" /\ pc'.resume = "called" /\ pc'.pause = pc.pause
    BY <2>1 DEF PcTyped, Coroutines
  <2> QED BY <1>4, <2>2, TrainerMoves DEF SyncWeights, WeightsSynced
<1> QED BY <1>1, <1>2, <1>3, <1>4 DEF TrainerStep

\* The others leave the calls alone.
LEMMA CallsLeftAlone ==
    ASSUME PcTyped, [Next]_vars, ~PauseStep, ~UpdateStep, ~PutValidate, ~ResumeStep, ~TrainerStep
    PROVE  /\ pc'.pause = pc.pause /\ pc'.update = pc.update /\ pc'.resume = pc.resume
           /\ UNCHANGED trainerVars
<1>1. UNCHANGED trainerVars
  BY OnlyTrainer
<1>2. CASE ProcessorStep \/ MainStep \/ PutEndSignal \/ MonitorStep
  BY <1>1, <1>2, ProcessorMoves, MainMoves, MonitorMoves DEF Moves, Notifies, Coroutines
<1>3. CASE \/ FeederStep \/ ConsumerStep \/ PutSample \/ Terminated \/ UNCHANGED vars
           \/ \E s \in Samples : TaskStep(s) \/ ServerStep(s)
  BY <1>1, <1>3, OthersDoNotMove
<1> QED BY <1>2, <1>3 DEF Next

\* At the start no call is on its way.
LEMMA CallsInit == Init => CallsInv
BY DEF Init, RollouterInit, TrainerInit, CallsInv

\* No call of the next synchronisation meets one of the last.
LEMMA CallsStep ==
    ASSUME TypeInv, CallsInv, [Next]_vars
    PROVE  CallsInv'
<1>0. PcTyped /\ validate \in BOOLEAN
  BY DEF TypeInv, TrainerTypeOK
<1>1. CASE PauseStep
  BY <1>0, <1>1, PauseDoes DEF CallsInv, trainerVars, Coroutines
<1>2. CASE UpdateStep \/ PutValidate
  BY <1>0, <1>2, UpdateDoes DEF CallsInv, trainerVars, Coroutines
<1>3. CASE ResumeStep
  BY <1>0, <1>3, ResumeDoes DEF CallsInv, trainerVars, Coroutines
<1>4. CASE TrainerStep
  <2>1. CASE (GetSample \/ ReadValidate \/ Train) /\ pc' = pc
    <3>1. /\ validate' = validate
          /\ trainer' = trainer \/ {trainer, trainer'} \cap {"pausing", "weights", "wait_end"} = {}
          /\ \/ trainer' = trainer
             \/ trainer = "last_read" /\ trainer' = "finished"
             \/ trainer \notin {"pausing", "weights", "wait_end", "last_read", "finished"}
      BY <2>1 DEF GetSample, ReceiveEnd, Receive, ReadValidate, ReadFirst, ReadAfterStep,
         ReadFinal, Train, TrainBatch, EndTraining, NewVersion, trainerVars
    <3> QED BY <2>1, <3>1 DEF CallsInv
  <2>2. CASE WaitLastValid
    <3>1. validate' => validate \/ trainer = "wait_final"
      BY <1>0, <2>2 DEF WaitLastValid, LastSyncDone
    <3>2. /\ pc.update = "none" /\ pc.resume = "none" /\ pc.pause = "none"
          /\ trainer \in {"wait_last", "wait_final", "wait_end"}
          /\ trainer' = IF trainer = "wait_end" THEN "last_read" ELSE "pausing"
          /\ pc'.pause = IF trainer' = "pausing" THEN "called" ELSE pc.pause
          /\ pc'.update = pc.update /\ pc'.resume = pc.resume
      BY <1>0, <1>4, <2>2, TrainerDoes DEF CallsInv, WaitLastValid, LastSyncDone, GetSample,
         ReadValidate, ReadFirst, ReadAfterStep, ReadFinal, Train, TrainBatch, EndTraining
    <3> QED BY <3>1, <3>2 DEF CallsInv
  <2>3. CASE PauseReturned
    BY <1>0, <1>4, <2>3, TrainerDoes DEF CallsInv, PauseReturned, RollouterPaused, rollouterVars,
       control
  <2>4. CASE SyncWeights
    <3>1. validate' = validate
      BY <2>4 DEF SyncWeights, WeightsSynced
    <3>2. /\ trainer = "weights" /\ trainer' = IF validate THEN "wait_end" ELSE "read"
          /\ pc'.update = "called" /\ pc'.resume = "called" /\ pc'.pause = pc.pause
      BY <1>0, <1>4, <2>4, TrainerDoes DEF SyncWeights, WeightsSynced, GetSample,
         ReadValidate, ReadFirst, ReadAfterStep, ReadFinal, Train, TrainBatch, EndTraining,
         WaitLastValid, LastSyncDone, PauseReturned, RollouterPaused
    <3> QED BY <3>1, <3>2 DEF CallsInv
  <2> QED BY <1>0, <1>4, <2>1, <2>2, <2>3, <2>4, TrainerDoes
<1>5. CASE ~PauseStep /\ ~UpdateStep /\ ~PutValidate /\ ~ResumeStep /\ ~TrainerStep
  BY <1>0, <1>5, CallsLeftAlone DEF CallsInv, trainerVars
<1> QED BY <1>1, <1>2, <1>3, <1>4, <1>5

-----------------------------------------------------------------------------
\* update_param_version() has not yet counted anew, or the trainer is on its way to the
\* call.
Pending == pc.update \in {"called", "locked", "sizing"}
Synced == trainer \in {"wait_last", "pausing", "weights"} \/ Pending

\* How many samples of its version the trainer has.
Progress ==
    IF Synced THEN MaxRequiredSamples
    ELSE (local_trigger_step - 1) * RequiredSamples + collected
         + (IF trainer = "train" THEN RequiredSamples ELSE 0)

\* pause() has gathered the tasks, and update_param_version() has not yet counted.
Gathered ==
    \/ pc.pause = "reset"
    \/ trainer = "pausing" /\ pc.pause = "none"
    \/ trainer = "weights"
    \/ pc.update \in {"called", "locked"}

\* The end: main signals behind the processor, which takes the end marker last.
LastInv ==
    /\ Signalled => pc.processor \in {"finished", "failed"}
    /\ pc.processor \in {"done_in", "done_wait", "finished"} => taken = Done

\* The trainer between two synchronisations.
PaceInv ==
    /\ received \subseteq Samples
    /\ trainer # "collect" => collected = 0
    /\ trainer \in {"wait_last", "pausing", "weights"} => local_trigger_step = 1
    /\ Pending => trainer \in {"read", "collect"} /\ collected = 0 /\ local_trigger_step = 1

\* Received and stale samples are the samples taken and the trainer's progress.
CountInv ==
    /\ Cardinality(received) + staleness_samples = taken + Progress
    /\ staleness_samples <= MaxRequiredSamples
    /\ pc.processor = "get" => staleness_samples < MaxRequiredSamples
    /\ Gathered => unreaped = 0
    /\ pc.update = "sizing" => counted = 0

\* The balance holds until the end signal.
PolicyInv == ~Ended => PaceInv /\ CountInv

\* What the processor takes it counts, one at a time and below the limit.
LEMMA ProcessorTakes ==
    ASSUME TypeInv, ProcessorStep
    PROVE  /\ \/ /\ taken' = taken /\ staleness_samples' = staleness_samples
                 /\ \/ pc'.processor # "get"
                    \/ pc.processor = "get"
                    \/ staleness_samples < MaxRequiredSamples
              \/ /\ taken' = taken + 1 /\ staleness_samples' = staleness_samples + 1
                 /\ pc'.processor # "get"
                 /\ staleness_samples < MaxRequiredSamples \/ pc.processor = "get"
           /\ unreaped' \in {unreaped, 0} /\ counted' = counted
<1>0. PcTyped /\ staleness_samples \in Nat
  BY DEF TypeInv, CountTyped
<1>1. ASSUME NEW label \in Labels, Goto("processor", label) PROVE pc'.processor = label
  BY <1>0, <1>1, GotoLabel DEF Coroutines
<1>2. ASSUME NEW l, NEW loop \in Loops, NEW n, EnterLoop(l, loop, n)
      PROVE  pc'.processor # "get"
  BY <1>0, <1>2, LoopHeads DEF Loops
<1>3. ASSUME TakePending, OnlyIntake,
             staleness_samples < MaxRequiredSamples \/ pc.processor = "get"
      PROVE  /\ \/ /\ taken' = taken /\ staleness_samples' = staleness_samples
                   /\ \/ pc'.processor # "get"
                      \/ pc.processor = "get"
                      \/ staleness_samples < MaxRequiredSamples
                \/ /\ taken' = taken + 1 /\ staleness_samples' = staleness_samples + 1
                   /\ pc'.processor # "get"
                   /\ staleness_samples < MaxRequiredSamples \/ pc.processor = "get"
             /\ unreaped' = unreaped /\ counted' = counted
  <2>1. unreaped' = unreaped /\ counted' = counted
    BY <1>3 DEF OnlyIntake, taskVars, reapVars
  <2>2. CASE PendingIsEmpty
    BY <1>3, <2>1, <2>2 DEF TakePending
  <2>3. CASE ~PendingIsEmpty
    <3>1. EnterLoop(lock, "done", ActiveTasks) \/ EnterLoop(lock, "limit", ActiveTasks)
      BY <1>3, <2>3 DEF TakePending
    <3>2. pc'.processor # "get"
      BY <1>2, <3>1 DEF Loops
    <3> QED BY <1>3, <2>1, <2>3, <3>2 DEF TakePending, CountSample
  <2> QED BY <2>2, <2>3
<1>4. CASE ProcessorTop(queue_size)
  <2>1. unreaped' = unreaped /\ counted' = counted
    BY <1>4 DEF ProcessorTop, OnlyIntake, taskVars, reapVars
  <2>2. CASE AskLock("processor", "pause_in") /\ UNCHANGED <<taken, staleness_samples>>
    BY <1>1, <2>1, <2>2 DEF AskLock, Labels
  <2>3. CASE TakeCancelled
    BY <1>2, <2>1, <2>3 DEF TakeCancelled, Loops
  <2>4. CASE TakePending /\ ~ShouldPause(queue_size)
    <3>1. staleness_samples < MaxRequiredSamples
      BY <1>0, <2>4 DEF ShouldPause
    <3> QED BY <1>3, <1>4, <2>4, <3>1 DEF ProcessorTop
  <2> QED BY <1>4, <2>2, <2>3, <2>4 DEF ProcessorTop
<1>5. CASE GetPending
  BY <1>3, <1>5 DEF GetPending
<1>6. CASE SetPaused
  BY <1>2, <1>6 DEF SetPaused, OnlyFlags, intakeVars, taskVars, reapVars, countVars, Loops
<1>7. CASE AwaitTasks \/ Reap
  <2>1. /\ UNCHANGED <<taken, staleness_samples, counted>>
        /\ unreaped' \in {unreaped, 0}
    BY <1>7 DEF AwaitTasks, Reap, OnlyControl, OnlyReaps, intakeVars, taskVars, reapVars, countVars
  <2>2. LoopOf[pc.processor] \in Loops /\ pc.processor # "get"
    BY <1>7 DEF AwaitTasks, Reap, LoopOf, WaitOf, Loops
  <2>3. pc'.processor # "get"
    <3>1. CASE \E label \in Labels \ {"get"} : Goto("processor", label)
      BY <1>1, <3>1
    <3>2. CASE \E l, n : EnterLoop(l, LoopOf[pc.processor], n)
      BY <1>2, <2>2, <3>2
    <3>3. CASE AwaitTasks
      <4>1. WaitOf[pc.processor] \in Labels \ {"get"}
        BY <3>3 DEF AwaitTasks, WaitOf, Labels
      <4>2. "failed" \in Labels \ {"get"}
        BY DEF Labels
      <4> QED BY <3>1, <3>2, <3>3, <4>1, <4>2 DEF AwaitTasks, KeepLock, LeaveLock
    <3>4. CASE Reap
      BY <3>1, <3>2, <3>4 DEF Reap, LeaveLock, Labels
    <3> QED BY <1>7, <3>3, <3>4
  <2> QED BY <2>1, <2>3
<1>8. CASE Idle \/ Woken
  BY <1>1, <1>8 DEF Idle, Woken, LeaveLock, AskLock, OnlyControl, intakeVars, taskVars, reapVars,
     countVars, Labels
<1>9. CASE Submit
  BY <1>1, <1>9 DEF Submit, LeaveLock, reapVars, countVars, Labels
<1> QED BY <1>4, <1>5, <1>6, <1>7, <1>8, <1>9 DEF ProcessorStep

\* A set of samples that is as large as all those taken holds them all.
LEMMA AllTaken ==
    ASSUME TypeInv, NEW R, R \subseteq Taken, Cardinality(R) >= taken
    PROVE  R = Taken /\ taken <= TotalRolloutSteps /\ Cardinality(R) = taken
<1>1. taken \in Nat /\ TotalRolloutSteps \in Nat
  BY DEF TypeInv, IntakeTyped
<1>2. /\ IsFiniteSet(1..taken) /\ Cardinality(1..taken) = taken
      /\ IsFiniteSet(1..TotalRolloutSteps) /\ Cardinality(1..TotalRolloutSteps) = TotalRolloutSteps
  BY <1>1, FS_Interval
<1>3. Taken \subseteq 1..taken /\ Taken \subseteq 1..TotalRolloutSteps
  BY DEF Taken, Samples
<1>4. R \subseteq 1..taken /\ R \subseteq 1..TotalRolloutSteps
  BY <1>3
<1>5. IsFiniteSet(R) /\ Cardinality(R) \in Nat
  BY <1>2, <1>4, FS_Subset, FS_CardinalityType
<1>6. Cardinality(R) <= taken /\ Cardinality(R) <= TotalRolloutSteps
  BY <1>2, <1>4, FS_Subset
<1>7. Cardinality(R) = taken
  BY <1>1, <1>5, <1>6
<1>8. R = 1..taken
  BY <1>2, <1>4, <1>7, FS_Subset
<1> QED BY <1>1, <1>3, <1>6, <1>7, <1>8

\* When the trainer has all samples of its version, all that was taken has been received.
LEMMA AllReceived ==
    ASSUME TypeInv, AccountingInv, ProcessorSurvives, LastInv, PaceInv, CountInv,
           Progress = MaxRequiredSamples
    PROVE  /\ Outstanding = {} /\ Live = {} /\ held = 0
           /\ cancel_queue = <<>> /\ result_queue = <<>> /\ mq_queue = <<>>
           /\ staleness_samples = MaxRequiredSamples
           /\ Cardinality(received) = taken
           /\ pc.processor \notin {"get", "done_in", "done_wait", "finished", "failed"}
           /\ ~Signalled
<1>0. /\ taken \in Nat /\ TotalRolloutSteps \in Nat /\ staleness_samples \in Nat
      /\ MaxRequiredSamples \in Nat
      /\ cancel_queue \in Seq(Samples) /\ result_queue \in Seq(Samples)
      /\ mq_queue \in Seq(0..TotalRolloutSteps) /\ held \in 0..TotalRolloutSteps
      /\ failures \in Nat /\ dropped_samples \in Nat
  BY DEF TypeInv, IntakeTyped, OutputTyped, QueueTyped, ServerTyped, CountTyped, AccountingInv
<1>2. \A s \in Samples : One(s \in received) \in {0, 1} /\ Undelivered(s) \in Nat
                         /\ Copies(s) = Undelivered(s) + One(s \in received)
                         /\ Copies(s) <= One(s \in Taken)
  BY DEF One, Copies, Undelivered, InRollouter, AccountingInv, SampleAccounting
<1>3. received \subseteq Taken
  <2>1. ASSUME NEW s \in received PROVE s \in Taken
    BY <1>2, <2>1 DEF PaceInv, One
  <2> QED BY <2>1
<1>4. Cardinality(received) \in Nat
  <2>1. IsFiniteSet(Samples)
    BY <1>0, FS_Interval DEF Samples
  <2> QED BY <2>1, FS_Subset, FS_CardinalityType DEF PaceInv
<1>5. Cardinality(received) >= taken
  BY <1>0, <1>4 DEF CountInv
<1>6. received = Taken /\ taken <= TotalRolloutSteps /\ Cardinality(received) = taken
  BY <1>3, <1>5, AllTaken
<1>7. staleness_samples = MaxRequiredSamples
  BY <1>0, <1>6 DEF CountInv
<1>8. \A s \in Samples : Undelivered(s) = 0
  BY <1>2, <1>6 DEF One
<1>9. Outstanding = {}
  BY <1>8 DEF Outstanding
<1>10. \A s \in Samples : ~Somewhere(s)
  BY <1>9, OutstandingIsSomewhere
<1>11. Live = {} /\ held = 0
  BY <1>0, <1>10 DEF Somewhere, Live, Samples
<1>12. cancel_queue = <<>> /\ result_queue = <<>>
  <2>1. ASSUME NEW q \in Seq(Samples), q # <<>> PROVE \E s \in Samples : InQueue(s, q)
    <3>1. 1 \in DOMAIN q /\ q[1] \in Samples
      BY <2>1
    <3> QED BY <3>1 DEF InQueue
  <2> QED BY <1>0, <1>10, <2>1 DEF Somewhere
<1>13. failures = 0
  <2>1. Vanished = {}
    BY <1>2, <1>6 DEF Vanished, One, Taken
  <2>2. Cardinality(Vanished) = 0
    BY <2>1, FS_EmptySet
  <2> QED BY <1>0, <2>2 DEF AccountingInv, SampleAccounting, Vanished
<1>14. pc.processor \notin {"get", "done_in", "done_wait", "finished", "failed"}
  BY <1>0, <1>6, <1>7, <1>13 DEF CountInv, LastInv, ProcessorSurvives, Done
<1>15. ~Signalled
  BY <1>14 DEF LastInv
<1>16. mq_queue = <<>>
  <2>1. SUFFICES ASSUME mq_queue # <<>> PROVE FALSE
    OBVIOUS
  <2>2. 1 \in DOMAIN mq_queue /\ mq_queue[1] \in 0..TotalRolloutSteps
    BY <1>0, <2>1
  <2>3. mq_queue[1] # EndSignal
    BY <1>15, <2>2 DEF AccountingInv, EndSignalLast, Signalled
  <2>4. mq_queue[1] \in Samples /\ InQueue(mq_queue[1], mq_queue)
    BY <2>2, <2>3 DEF EndSignal, Samples, InQueue
  <2> QED BY <1>10, <2>4 DEF Somewhere
<1> QED BY <1>6, <1>7, <1>9, <1>11, <1>12, <1>14, <1>15, <1>16

\* So it is at a synchronisation.
LEMMA SyncedIsEmpty ==
    ASSUME TypeInv, AccountingInv, ProcessorSurvives, LastInv, PaceInv, CountInv, Synced
    PROVE  /\ Outstanding = {} /\ Live = {} /\ held = 0
           /\ cancel_queue = <<>> /\ result_queue = <<>> /\ mq_queue = <<>>
           /\ staleness_samples = MaxRequiredSamples
           /\ Cardinality(received) = taken
           /\ pc.processor \notin {"get", "done_in", "done_wait", "finished", "failed"}
           /\ ~Signalled
<1>1. Progress = MaxRequiredSamples
  BY DEF Progress
<1> QED BY <1>1, AllReceived

\* Nobody but the processor takes samples, and nobody but update_param_version() counts
\* them.
LEMMA CountsLeftAlone ==
    ASSUME [Next]_vars, ~ProcessorStep
    PROVE  /\ taken' = taken
           /\ ~UpdateStep => UNCHANGED <<staleness_samples, counted>>
           /\ unreaped' # unreaped =>
                 PauseStep \/ \E s \in Samples : task[s] # "none" /\ TaskStep(s)
<1> USE DEF OnlyControl, OnlyFlags, OnlyReaps, OnlyIntake, OnlyOutput, intakeVars, countVars,
            taskVars, reapVars
<1>1. CASE MainStep \/ PutEndSignal \/ MonitorStep \/ PutValidate \/ FeederStep
  BY <1>1 DEF MainStep, MainJoined, StopRunning, PutEndSignal, EndSignalDelivered, MonitorStep,
     MonitorTurn, MonitorResume, PutValidate, UpdateReported, FeederStep, Feed
<1>2. CASE PauseStep
  BY <1>2 DEF PauseStep, CallArrives, PauseBegin, ServerCancel, PauseGathered, PauseEnd
<1>3. CASE ResumeStep \/ UpdateStep
  BY <1>3 DEF ResumeStep, CallArrives, ResumeBegin, ServerResume, UpdateStep, UpdateCount,
     UpdateSized
<1>4. CASE ConsumerStep \/ PutSample
  BY <1>4 DEF ConsumerStep, ConsumerTake, PutSample, PutDelivered
<1>5. CASE TrainerStep
  BY <1>5 DEF TrainerStep, GetSample, ReadValidate, Train, WaitLastValid, PauseReturned,
     SyncWeights, rollouterVars
<1>6. CASE Terminated \/ UNCHANGED vars
  BY <1>6 DEF Terminated, vars, rollouterVars
<1>7. CASE \E s \in Samples : TaskStep(s) \/ ServerStep(s)
  <2>1. PICK s \in Samples : TaskStep(s) \/ ServerStep(s)
    BY <1>7
  <2>2. CASE StartTask(s) \/ ServerAdmit(s)
    BY <2>2 DEF StartTask, ServerAdmit
  <2>3. CASE EndTask(s) /\ TaskStep(s)
    <3>1. task[s] # "none"
      BY <2>3 DEF EndTask, Answers
    <3> QED BY <2>3, <3>1 DEF EndTask
  <2> QED BY <2>1, <2>2, <2>3 DEF TaskStep, ServerStep
<1> QED BY <1>1, <1>2, <1>3, <1>4, <1>5, <1>6, <1>7 DEF Next

\* At the start the processor has the whole stream before it.
LEMMA LastInit == Init => LastInv
BY DEF Init, RollouterInit, LastInv, Signalled

\* The processor comes to its last loop with the end marker only, and ends for good.
LEMMA LastProcessor ==
    ASSUME TypeInv, LastInv, ProcessorStep
    PROVE  LastInv'
<1> DEFINE Last == {"done_in", "done_wait", "finished"}
<1>0. PcTyped /\ taken \in Nat
  BY DEF TypeInv, IntakeTyped
<1>1. ASSUME NEW label \in Labels, Goto("processor", label) PROVE pc'.processor = label
  BY <1>0, <1>1, GotoLabel DEF Coroutines
<1>2. ASSUME NEW l, NEW loop \in Loops, NEW n, EnterLoop(l, loop, n)
      PROVE  pc'.processor \in Last => loop = "done"
  BY <1>0, <1>2, LoopHeads DEF Loops
<1>3. pc.processor \notin {"finished", "failed"}
  BY DEF ProcessorStep, ProcessorTop, GetPending, SetPaused, AwaitTasks, Reap, Idle, Woken,
     Submit, InLock, WaitOf
<1>4. pc'.main = pc.main
  BY <1>0, ProcessorMoves DEF Moves, Coroutines
<1>5. ~Signalled'
  BY <1>3, <1>4 DEF LastInv, Signalled
<1>6. SUFFICES pc'.processor \in Last => taken' = Done
  BY <1>5 DEF LastInv
<1>7. CASE TakePending
  <2>1. CASE PendingIsEmpty
    BY <1>1, <1>7, <2>1 DEF TakePending, Labels
  <2>2. CASE ~PendingIsEmpty /\ held' = 0
    <3>1. taken' = taken + 1 /\ SampleOf(taken + 1) = 0
      BY <1>7, <2>2 DEF TakePending
    <3> QED BY <1>0, <3>1 DEF SampleOf
  <2>3. CASE ~PendingIsEmpty /\ held' # 0
    <3>1. EnterLoop(lock, "limit", ActiveTasks)
      BY <1>7, <2>3 DEF TakePending
    <3> QED BY <1>2, <3>1 DEF Loops
  <2> QED BY <2>1, <2>2, <2>3
<1>8. CASE ProcessorTop(queue_size)
  <2>1. CASE AskLock("processor", "pause_in")
    BY <1>1, <2>1 DEF AskLock, Labels
  <2>2. CASE TakeCancelled
    BY <1>2, <2>2 DEF TakeCancelled, Loops
  <2> QED BY <1>7, <1>8, <2>1, <2>2 DEF ProcessorTop
<1>9. CASE GetPending
  BY <1>7, <1>9 DEF GetPending
<1>10. CASE SetPaused
  BY <1>2, <1>10 DEF SetPaused, Loops
<1>11. CASE AwaitTasks \/ Reap
  <2>1. taken' = taken
    BY <1>11 DEF AwaitTasks, Reap, OnlyControl, OnlyReaps, intakeVars
  <2>2. LoopOf[pc.processor] \in Loops
        /\ (LoopOf[pc.processor] = "done" => pc.processor \in Last)
    BY <1>11 DEF AwaitTasks, Reap, LoopOf, WaitOf, Loops
  <2>3. CASE \E l, n : EnterLoop(l, LoopOf[pc.processor], n)
    BY <1>2, <2>1, <2>2, <2>3 DEF LastInv
  <2>4. CASE Goto("processor", "failed")
    BY <1>1, <2>4 DEF Labels
  <2>5. CASE AwaitTasks /\ Goto("processor", WaitOf[pc.processor])
    <3>1. pc'.processor = WaitOf[pc.processor] /\ (pc'.processor \in Last => pc.processor \in Last)
      BY <1>1, <2>5 DEF AwaitTasks, WaitOf, Labels
    <3> QED BY <2>1, <3>1 DEF LastInv
  <2> QED BY <1>11, <2>3, <2>4, <2>5 DEF AwaitTasks, Reap, KeepLock, LeaveLock
<1>12. CASE Idle \/ Woken
  BY <1>1, <1>12 DEF Idle, Woken, LeaveLock, AskLock, Labels
<1>13. CASE Submit
  BY <1>1, <1>13 DEF Submit, LeaveLock, Labels
<1> QED BY <1>8, <1>9, <1>10, <1>11, <1>12, <1>13 DEF ProcessorStep

\* main waits for that.
LEMMA LastStep ==
    ASSUME TypeInv, LastInv, [Next]_vars
    PROVE  LastInv'
<1>0. PcTyped
  BY DEF TypeInv
<1>1. CASE ProcessorStep
  BY <1>1, LastProcessor
<1>2. CASE ~ProcessorStep
  <2>1. taken' = taken
    BY <1>2, CountsLeftAlone
  <2>2. pc.processor \in {"finished", "failed"} => pc'.processor = pc.processor
    BY <1>0, <1>2, ProcessorMovedByNobody
  <2>3. pc'.processor \in {"done_in", "done_wait", "finished"} => pc'.processor = pc.processor
    BY <1>0, <1>2, ProcessorMovedByNobody
  <2>4. CASE Signalled
    BY <2>1, <2>2, <2>3, <2>4 DEF LastInv
  <2>5. CASE ~Signalled
    <3>1. Signalled' => pc.processor \in {"finished", "failed"}
      <4>1. ~PutEndSignal
        BY <2>5 DEF PutEndSignal, EndSignalDelivered, Signalled
      <4>2. Signalled' => MainStep
        BY <1>0, <2>5, <4>1, MainStays DEF Signalled
      <4>3. MainStep => pc.processor \in {"finished", "failed"}
        BY <2>5 DEF MainStep, MainJoined, StopRunning, InLock, Signalled
      <4> QED BY <4>2, <4>3
    <3> QED BY <2>1, <2>2, <2>3, <3>1 DEF LastInv
  <2> QED BY <2>4, <2>5
<1> QED BY <1>1, <1>2

\* The end is for good.
LEMMA EndsForGood ==
    ASSUME TypeInv, Ended, [Next]_vars
    PROVE  Ended'
<1>0. validate \in BOOLEAN
  BY DEF TypeInv, TrainerTypeOK
<1>1. CASE UNCHANGED trainerVars
  BY <1>1 DEF Ended, trainerVars
<1>2. CASE GetSample /\ ~UNCHANGED trainerVars
  BY <1>2 DEF GetSample, ReceiveEnd, Receive, Ended
<1>3. CASE ReadValidate \/ Train \/ PauseReturned \/ SyncWeights
  BY <1>3 DEF ReadValidate, ReadFirst, ReadAfterStep, ReadFinal, Train, TrainBatch, EndTraining,
     NewVersion, PauseReturned, RollouterPaused, SyncWeights, WeightsSynced, Ended
<1>4. CASE WaitLastValid
  BY <1>0, <1>4 DEF WaitLastValid, LastSyncDone, Ended
<1> QED BY <1>1, <1>2, <1>3, <1>4, OnlyTrainer DEF TrainerStep

\* The batches of a version add up to what it requires.
LEMMA BatchesAdd ==
    ASSUME StalenessZero, NEW l \in 1..TriggerStep
    PROVE  /\ (l - 1) * RequiredSamples \in Nat
           /\ ((l + 1) - 1) * RequiredSamples = (l - 1) * RequiredSamples + RequiredSamples
           /\ (1 - 1) * RequiredSamples = 0
           /\ l = TriggerStep =>
                 (l - 1) * RequiredSamples + RequiredSamples = MaxRequiredSamples
BY SMTT(30) DEF StalenessZero

\* The samples of a batch, counted.
LEMMA CollectedNext ==
    ASSUME NEW c \in 0..RequiredSamples - 1
    PROVE  /\ c + 1 = RequiredSamples => (c + 1) % RequiredSamples = 0
           /\ c + 1 # RequiredSamples => (c + 1) % RequiredSamples = c + 1
BY SMTT(30)

\* Steps that neither take nor count nor synchronise.
LEMMA PolicyKept ==
    ASSUME TypeInv, PaceInv, CountInv, UNCHANGED trainerVars,
           UNCHANGED <<taken, staleness_samples>>, Pending' <=> Pending,
           pc'.processor = "get" => pc.processor = "get",
           Gathered' => unreaped' = 0,
           pc'.update = "sizing" => counted' = 0
    PROVE  PaceInv' /\ CountInv'
<1>1. PaceInv'
  BY DEF PaceInv, trainerVars
<1>2. Progress' = Progress
  BY DEF Progress, Synced, trainerVars
<1> QED BY <1>1, <1>2 DEF CountInv, trainerVars

\* What the processor takes it counts as stale.
LEMMA PolicyProcessor ==
    ASSUME TypeInv, PaceInv, CountInv, ProcessorStep
    PROVE  PaceInv' /\ CountInv'
<1>0. /\ PcTyped /\ taken \in Nat /\ staleness_samples \in Nat /\ MaxRequiredSamples \in Nat
      /\ Samples \subseteq Nat
  BY DEF TypeInv, IntakeTyped, CountTyped, Samples
<1>1. UNCHANGED trainerVars /\ pc'.update = pc.update /\ pc'.pause = pc.pause
  BY <1>0, ProcessorMoves DEF ProcessorStep, Alone, Moves, Coroutines
<1>2. PaceInv'
  BY <1>1 DEF PaceInv, Pending, trainerVars
<1>3. Progress' = Progress /\ received' = received
  BY <1>1 DEF Progress, Synced, Pending, trainerVars
<1>4. Cardinality(received) \in Nat /\ Progress \in Nat
  <2>1. IsFiniteSet(received)
    <3>1. IsFiniteSet(Samples)
      BY FS_Interval DEF Samples
    <3> QED BY <3>1, FS_Subset DEF PaceInv
  <2>2. /\ local_trigger_step \in 1..TriggerStep /\ RequiredSamples \in Nat
        /\ collected \in 0..RequiredSamples - 1
    BY DEF TypeInv, TrainerTypeOK
  <2>3. (local_trigger_step - 1) * RequiredSamples \in Nat
    BY <2>2, SMTT(20)
  <2>4. Progress \in Nat
    BY <2>2, <2>3 DEF Progress
  <2> QED BY <2>1, <2>4, FS_CardinalityType
<1>5. Gathered' => unreaped' = 0
  BY <1>1, ProcessorTakes DEF CountInv, Gathered, trainerVars
<1>6. pc'.update = "sizing" => counted' = 0
  BY <1>1, ProcessorTakes DEF CountInv
<1>7. /\ Cardinality(received') + staleness_samples' = taken' + Progress'
      /\ staleness_samples' <= MaxRequiredSamples
      /\ pc'.processor = "get" => staleness_samples' < MaxRequiredSamples
  <2>1. CASE taken' = taken
    BY <1>0, <1>3, <2>1, ProcessorTakes DEF CountInv
  <2>2. CASE taken' # taken
    BY <1>0, <1>3, <1>4, <2>2, ProcessorTakes DEF CountInv
  <2> QED BY <2>1, <2>2
<1> QED BY <1>2, <1>5, <1>6, <1>7 DEF CountInv

\* update_param_version() counts nothing at all: the trainer starts from 0 again.
LEMMA PolicyUpdate ==
    ASSUME TypeInv, StalenessZero, AccountingInv, ProcessorSurvives, LastInv, CallsInv,
           PaceInv, CountInv, [Next]_vars, UpdateStep \/ PutValidate
    PROVE  PaceInv' /\ CountInv'
<1>0. PcTyped
  BY DEF TypeInv
<1>1. /\ UNCHANGED trainerVars /\ pc'.processor = pc.processor /\ pc'.pause = pc.pause
      /\ mq_queue' = mq_queue
  BY <1>0, UpdateDoes DEF Coroutines
<1>2. UNCHANGED <<taken, unreaped>>
  BY DEF UpdateStep, PutValidate, CallArrives, UpdateCount, UpdateSized, UpdateReported,
     OnlyControl, intakeVars, taskVars, reapVars
<1>3. CASE CallArrives("update") /\ pc.update = "called" /\ pc'.update = "locked"
  <2>1. UNCHANGED <<staleness_samples, counted>>
    BY <1>3 DEF CallArrives, OnlyControl, countVars
  <2>2. (Pending' <=> Pending) /\ Gathered
    BY <1>3 DEF Pending, Gathered
  <2> QED BY <1>1, <1>2, <1>3, <2>1, <2>2, PolicyKept DEF CountInv
<1>4. CASE UpdateCount(weights_version) /\ pc.update = "locked" /\ pc'.update = "sizing"
  <2>1. staleness_samples' = staleness_samples
    BY <1>4 DEF UpdateCount
  <2>2. (Pending' <=> Pending) /\ Gathered /\ Synced
    BY <1>4 DEF Pending, Gathered, Synced
  <2>3. counted' = 0
    <3>1. Live = {} /\ result_queue = <<>> /\ cancel_queue = <<>>
      BY <2>2, SyncedIsEmpty
    <3>2. Cardinality(Live) = 0
      BY <3>1, FS_EmptySet
    <3>3. Len(result_queue) = 0 /\ Len(cancel_queue) = 0
      BY <3>1
    <3>4. unreaped = 0
      BY <2>2 DEF CountInv
    <3> QED BY <1>4, <3>2, <3>3, <3>4 DEF UpdateCount, ActiveTasks
  <2> QED BY <1>1, <1>2, <2>1, <2>2, <2>3, PolicyKept DEF CountInv
<1>5. CASE UpdateSized(queue_size) /\ pc.update = "sizing" /\ pc'.update = "report"
  <2>1. Synced /\ Pending /\ ~Pending'
    BY <1>5 DEF Pending, Synced
  <2>2. /\ mq_queue = <<>> /\ counted = 0 /\ Cardinality(received) = taken
    BY <1>5, <2>1, SyncedIsEmpty DEF CountInv
  <2>3. staleness_samples' = 0
    <3>1. queue_size = 0
      BY <2>2 DEF queue_size
    <3>2. staleness_samples' = counted + queue_size
      BY <1>5 DEF UpdateSized, ResetStaleness
    <3> QED BY <2>2, <3>1, <3>2
  <2>4. /\ trainer' \in {"read", "collect"} /\ collected' = 0 /\ local_trigger_step' = 1
        /\ received' = received
    BY <1>1, <2>1 DEF PaceInv, trainerVars
  <2>5. Progress' = 0
    <3>1. Progress' = (1 - 1) * RequiredSamples + 0 + 0
      BY <2>1, <2>4 DEF Progress, Synced
    <3> QED BY <3>1, SMTT(20)
  <2>6. PaceInv'
    BY <2>1, <2>4 DEF PaceInv
  <2>7. ~Gathered'
    BY <1>1, <1>5, <2>4 DEF Gathered, CallsInv, trainerVars
  <2>8. taken \in Nat
    BY DEF TypeInv, IntakeTyped
  <2>9. Cardinality(received') + staleness_samples' = taken' + Progress'
    BY <1>2, <2>2, <2>3, <2>4, <2>5, <2>8
  <2>10. staleness_samples' < MaxRequiredSamples
    BY <2>3
  <2> QED BY <1>5, <2>3, <2>6, <2>7, <2>9, <2>10 DEF CountInv
<1>6. CASE UpdateReported /\ pc.update = "report" /\ pc'.update = "none"
  <2>1. UNCHANGED <<staleness_samples, counted>>
    BY <1>6 DEF UpdateReported, OnlyControl, countVars
  <2>2. (Pending' <=> Pending)
    BY <1>6 DEF Pending
  <2>3. Gathered' => Gathered
    BY <1>1, <1>6 DEF Gathered, trainerVars
  <2> QED BY <1>1, <1>2, <1>6, <2>1, <2>2, <2>3, PolicyKept DEF CountInv
<1> QED BY <1>0, <1>3, <1>4, <1>5, <1>6, UpdateDoes

\* What the trainer receives adds to its progress.
LEMMA PolicyGet ==
    ASSUME TypeInv, StalenessZero, Served, AccountingInv, ProcessorSurvives, LastInv, CallsInv,
           PaceInv, CountInv, ~Ended', GetSample
    PROVE  PaceInv' /\ CountInv'
<1>0. /\ PcTyped /\ mq_queue \in Seq(0..TotalRolloutSteps) /\ taken \in Nat
      /\ staleness_samples \in Nat
      /\ local_trigger_step \in 1..TriggerStep /\ collected \in 0..RequiredSamples - 1
      /\ RequiredSamples \in Nat \ {0}
  BY DEF TypeInv, QueueTyped, IntakeTyped, CountTyped, TrainerTypeOK
<1>1. trainer = "collect" /\ UNCHANGED <<taken, staleness_samples, counted, unreaped>> /\ pc' = pc
  BY DEF GetSample, rollouterVars, intakeVars, countVars, taskVars, reapVars, control
<1>2. CASE UNCHANGED trainerVars
  <2>1. (Pending' <=> Pending) /\ (Gathered' <=> Gathered)
    BY <1>1, <1>2 DEF Pending, Gathered, trainerVars
  <2> QED BY <1>1, <1>2, <2>1, PolicyKept DEF CountInv
<1>3. ~ReceiveEnd
  BY DEF ReceiveEnd, Ended
<1>4. CASE /\ mq_queue # <<>>
           /\ Head(mq_queue) \in Samples /\ Receive(Head(mq_queue))
  <2>1. ~Synced
    BY <1>4, SyncedIsEmpty
  <2> DEFINE s == Head(mq_queue)
  <2>2. s \in Samples /\ InQueue(s, mq_queue)
    BY <1>0, <1>4 DEF InQueue
  <2>3. s \notin received
    <3>1. Copies(s) <= 1
      <4>1. Copies(s) <= One(s \in Taken) /\ Copies(s) \in Nat
        BY <2>2, CopiesType DEF AccountingInv, SampleAccounting
      <4>2. One(s \in Taken) \in {0, 1}
        BY DEF One
      <4> QED BY <4>1, <4>2
    <3>2. InRollouter(s) \in Nat
      BY DEF InRollouter, One
    <3> QED BY <2>2, <3>1, <3>2 DEF Copies, Undelivered, One
  <2> HIDE DEF s
  <2>4. /\ received' = received \cup {s}
        /\ collected' = (collected + 1) % RequiredSamples
        /\ trainer' = IF collected + 1 = RequiredSamples THEN "train" ELSE "collect"
        /\ UNCHANGED <<local_trigger_step, validate>>
    BY <1>4 DEF Receive, s
  <2>5. received \subseteq Samples /\ IsFiniteSet(received)
    <3>1. IsFiniteSet(Samples)
      BY FS_Interval DEF Samples
    <3> QED BY <3>1, FS_Subset DEF PaceInv
  <2>6. Cardinality(received') = Cardinality(received) + 1 /\ Cardinality(received) \in Nat
    BY <2>3, <2>4, <2>5, FS_AddElement, FS_CardinalityType
  <2>7. ~Synced' /\ ~Pending'
    BY <1>1, <2>1, <2>4 DEF Synced, Pending
  <2>8. PICK b : b = (local_trigger_step - 1) * RequiredSamples
    OBVIOUS
  <2>9. b \in Nat
    BY <1>0, <2>8, SMTT(20)
  <2>10. Progress = b + collected
    BY <1>0, <1>1, <2>1, <2>8, <2>9 DEF Progress
  <2>11. Progress' = b + collected' + (IF trainer' = "train" THEN RequiredSamples ELSE 0)
    BY <2>4, <2>7, <2>8 DEF Progress
  <2>12. Progress' = Progress + 1 /\ Progress \in Nat
    <3>1. CASE collected + 1 = RequiredSamples
      <4>1. collected' = 0 /\ trainer' = "train"
        BY <1>0, <2>4, <3>1, CollectedNext
      <4> QED BY <1>0, <2>9, <2>10, <2>11, <3>1, <4>1
    <3>2. CASE collected + 1 # RequiredSamples
      <4>1. collected' = collected + 1 /\ trainer' = "collect"
        BY <1>0, <2>4, <3>2, CollectedNext
      <4> QED BY <1>0, <2>9, <2>10, <2>11, <4>1
    <3> QED BY <3>1, <3>2
  <2>13. PaceInv'
    <3>1. trainer' # "collect" => collected' = 0
      BY <1>0, <2>4, CollectedNext
    <3> QED BY <2>2, <2>4, <2>5, <2>7, <3>1 DEF PaceInv
  <2>14. Cardinality(received') + staleness_samples' = taken' + Progress'
    BY <1>0, <1>1, <2>6, <2>12 DEF CountInv
  <2>15. Gathered' => Gathered
    BY <1>1, <2>4 DEF Gathered
  <2> QED BY <1>1, <2>13, <2>14, <2>15 DEF CountInv
<1> QED BY <1>2, <1>3, <1>4, GetSampleDoes

\* With the last batch of a version the trainer has all its samples.
LEMMA LastBatch ==
    ASSUME TypeInv, StalenessZero, PaceInv, TrainBatch, local_trigger_step = TriggerStep
    PROVE  Progress = MaxRequiredSamples
<1>1. /\ TriggerStep \in 1..TriggerStep /\ RequiredSamples \in Nat
      /\ (TriggerStep - 1) * RequiredSamples \in Nat
      /\ (TriggerStep - 1) * RequiredSamples + RequiredSamples = MaxRequiredSamples
  <2>1. TriggerStep \in 1..TriggerStep /\ RequiredSamples \in Nat
    OBVIOUS
  <2> QED BY <2>1, BatchesAdd
<1>2. trainer = "train" /\ collected = 0
  BY DEF TrainBatch, PaceInv
<1>3. ~Synced
  BY <1>2 DEF Synced, PaceInv
<1>4. PICK b \in Nat : b = (TriggerStep - 1) * RequiredSamples
  BY <1>1
<1>5. Progress = b + 0 + RequiredSamples
  BY <1>2, <1>3, <1>4 DEF Progress
<1> QED BY <1>1, <1>4, <1>5

\* A batch trained on stays in the progress, and the last one completes it.
LEMMA PolicyTrain ==
    ASSUME TypeInv, StalenessZero, PaceInv, CountInv, ~Ended', Train
    PROVE  PaceInv' /\ CountInv'
<1>0. /\ local_trigger_step \in 1..TriggerStep /\ RequiredSamples \in Nat \ {0}
      /\ MaxRequiredSamples \in Nat /\ TriggerStep \in Nat \ {0}
  BY DEF TypeInv, TrainerTypeOK
<1>1. UNCHANGED <<taken, staleness_samples, counted, unreaped, pc>>
  BY DEF Train, rollouterVars, intakeVars, countVars, taskVars, reapVars, control
<1>2. TrainBatch
  BY DEF Train, EndTraining, NewVersion, Ended
<1>3. trainer = "train" /\ collected' = 0 /\ collected = 0 /\ received' = received
  BY <1>2 DEF TrainBatch, PaceInv
<1>4. ~Synced /\ ~Pending /\ ~Pending'
  BY <1>1, <1>3 DEF Synced, Pending, PaceInv
<1>5. PICK b : b = (local_trigger_step - 1) * RequiredSamples
  OBVIOUS
<1>6. b \in Nat
  BY <1>0, <1>5, BatchesAdd
<1>7. Progress = b + RequiredSamples
  BY <1>0, <1>3, <1>4, <1>5, <1>6 DEF Progress
<1>8. CASE local_trigger_step < TriggerStep
  <2>1. local_trigger_step' = local_trigger_step + 1 /\ trainer' = "read"
    BY <1>2, <1>8 DEF TrainBatch
  <2>2. ~Synced'
    BY <1>4, <2>1 DEF Synced
  <2>3. Progress' = ((local_trigger_step + 1) - 1) * RequiredSamples + 0 + 0
    BY <1>3, <2>1, <2>2 DEF Progress
  <2>4. ((local_trigger_step + 1) - 1) * RequiredSamples = b + RequiredSamples
    BY <1>0, <1>5, BatchesAdd
  <2>5. Progress' = Progress
    BY <1>0, <1>6, <1>7, <2>3, <2>4
  <2>6. Gathered' => Gathered
    BY <1>1, <2>1 DEF Gathered
  <2> QED BY <1>1, <1>3, <1>4, <2>1, <2>5, <2>6 DEF PaceInv, CountInv
<1>9. CASE ~(local_trigger_step < TriggerStep)
  <2>1. local_trigger_step' = 1 /\ trainer' = "wait_last"
    BY <1>2, <1>9 DEF TrainBatch, NewVersion
  <2>2. Progress' = MaxRequiredSamples
    BY <2>1 DEF Progress, Synced
  <2>3. Progress = MaxRequiredSamples
    <3>1. local_trigger_step = TriggerStep
      BY <1>0, <1>9
    <3> QED BY <1>2, <3>1, LastBatch
  <2>4. Gathered' => Gathered
    BY <1>1, <2>1 DEF Gathered
  <2> QED BY <1>1, <1>3, <1>4, <2>1, <2>2, <2>3, <2>4 DEF PaceInv, CountInv
<1> QED BY <1>8, <1>9

\* The steps of the trainer, then, keep the balance.
LEMMA PolicyTrainer ==
    ASSUME TypeInv, StalenessZero, Served, AccountingInv, ProcessorSurvives, LastInv, CallsInv,
           PaceInv, CountInv, ~Ended, ~Ended', TrainerStep
    PROVE  PaceInv' /\ CountInv'
<1>0. PcTyped /\ ~validate
  BY DEF TypeInv, Ended
<1>1. CASE GetSample
  BY <1>1, PolicyGet
<1>2. CASE Train
  BY <1>2, PolicyTrain
<1>3. /\ ~GetSample
      => UNCHANGED <<taken, staleness_samples, counted, unreaped>>
  BY DEF TrainerStep, GetSample, ReadValidate, Train, WaitLastValid, PauseReturned, SyncWeights,
     OnlyControl, rollouterVars, intakeVars, countVars, taskVars, reapVars
<1>4. pc'.processor = pc.processor
  BY <1>0, TrainerDoes
<1>5. CASE ReadValidate
  <2>1. /\ pc' = pc /\ UNCHANGED <<taken, staleness_samples, counted, unreaped>>
    BY <1>5 DEF ReadValidate, rollouterVars, intakeVars, countVars, taskVars, reapVars, control
  <2>2. /\ trainer \in {"start", "read"} /\ trainer' = "collect"
        /\ UNCHANGED <<collected, received, local_trigger_step>>
    BY <1>5 DEF ReadValidate, ReadFirst, ReadAfterStep, ReadFinal, Ended
  <2>3. (Pending' <=> Pending) /\ (Synced' <=> Synced) /\ (Gathered' <=> Gathered)
    BY <2>1, <2>2 DEF Pending, Synced, Gathered
  <2>4. Progress' = Progress
    BY <2>2, <2>3 DEF Progress
  <2> QED BY <2>1, <2>2, <2>3, <2>4 DEF PaceInv, CountInv
<1>6. CASE WaitLastValid \/ PauseReturned \/ SyncWeights
  <2>1. UNCHANGED <<taken, staleness_samples, counted, unreaped, collected, received,
                    local_trigger_step>>
    BY <1>6 DEF WaitLastValid, LastSyncDone, PauseReturned, RollouterPaused, SyncWeights,
       WeightsSynced, OnlyControl, rollouterVars, intakeVars, countVars, taskVars, reapVars
  <2>2. Synced /\ Synced' /\ collected = 0 /\ local_trigger_step = 1
        /\ (Pending' => trainer' = "read") /\ (Gathered' => Gathered)
        /\ pc'.update # "sizing"
    <3>1. CASE WaitLastValid
      <4>1. /\ trainer = "wait_last" /\ trainer' = "pausing" /\ pc.update = "none"
            /\ pc'.update = "none" /\ pc'.pause = "called"
        <5>1. trainer = "wait_last" /\ trainer' = "pausing" /\ pc.update = "none"
          BY <3>1 DEF WaitLastValid, LastSyncDone, Returned, Ended
        <5>2. pc' = [pc EXCEPT !["pause"] = "called"]
          BY <3>1, <5>1 DEF WaitLastValid
        <5> QED BY <1>0, <5>1, <5>2 DEF PcTyped, Coroutines
      <4> QED BY <4>1 DEF Synced, Pending, Gathered, PaceInv
    <3>2. CASE PauseReturned
      <4>1. /\ trainer = "pausing" /\ trainer' = "weights" /\ pc.pause = "none" /\ pc' = pc
        BY <3>2 DEF PauseReturned, RollouterPaused, rollouterVars, control
      <4> QED BY <4>1 DEF Synced, Pending, Gathered, PaceInv, CallsInv
    <3>3. CASE SyncWeights
      <4>1. trainer = "weights" /\ trainer' = "read"
        BY <1>0, <3>3 DEF SyncWeights, WeightsSynced
      <4>2. pc'.update = "called"
        <5>1. pc' = [pc EXCEPT !["update"] = "called", !["resume"] = "called"]
          BY <3>3 DEF SyncWeights
        <5> QED BY <1>0, <5>1 DEF PcTyped, Coroutines
      <4> QED BY <4>1, <4>2 DEF Synced, Pending, Gathered, PaceInv
    <3> QED BY <1>6, <3>1, <3>2, <3>3
  <2>3. Progress' = Progress
    BY <2>2 DEF Progress
  <2>4. PaceInv'
    BY <2>1, <2>2 DEF PaceInv
  <2> QED BY <1>4, <2>1, <2>2, <2>3, <2>4 DEF CountInv
<1> QED BY <1>1, <1>2, <1>5, <1>6 DEF TrainerStep

\* The others neither take nor count nor receive.
LEMMA PolicyAside ==
    ASSUME TypeInv, AccountingInv, ProcessorSurvives, LastInv, CallsInv, PaceInv, CountInv,
           [Next]_vars, ~ProcessorStep, ~UpdateStep, ~PutValidate, ~TrainerStep
    PROVE  PaceInv' /\ CountInv'
<1>0. PcTyped
  BY DEF TypeInv
<1>1. UNCHANGED trainerVars /\ UNCHANGED <<taken, staleness_samples, counted>>
  BY CountsLeftAlone, OnlyTrainer
<1>2. pc'.processor = "get" => pc.processor = "get"
  BY <1>0, ProcessorMovedByNobody
<1>3. Gathered => Synced
  BY DEF Gathered, Synced, Pending, CallsInv
<1>4. CASE PauseStep
  <2>1. pc'.update = pc.update
    BY <1>0, <1>4, PauseDoes DEF Coroutines
  <2>2. Pending' <=> Pending
    BY <2>1 DEF Pending
  <2>3. Gathered' => unreaped' = 0
    <3>1. trainer = "pausing" /\ pc.update = "none"
      <4>1. pc.pause # "none"
        BY <1>0, <1>4, PauseDoes
      <4> QED BY <4>1 DEF CallsInv
    <3>2. CASE pc'.pause \in {"locked", "cancel", "gather"}
      BY <1>1, <2>1, <3>1, <3>2 DEF Gathered, trainerVars
    <3>3. CASE PauseGathered
      BY <3>3 DEF PauseGathered
    <3>4. CASE PauseEnd /\ pc.pause = "reset"
      <4>1. unreaped' = unreaped /\ Gathered
        BY <3>4 DEF PauseEnd, OnlyFlags, taskVars, reapVars, Gathered
      <4> QED BY <4>1 DEF CountInv
    <3> QED BY <1>0, <1>4, <3>2, <3>3, <3>4, PauseDoes
  <2> QED BY <1>1, <1>2, <2>1, <2>2, <2>3, PolicyKept DEF CountInv
<1>5. CASE ~PauseStep
  <2>1. pc'.pause = pc.pause /\ pc'.update = pc.update
    <3>1. CASE ResumeStep
      BY <1>0, <3>1, ResumeDoes DEF Coroutines
    <3>2. CASE ~ResumeStep
      BY <1>0, <1>5, <3>2, CallsLeftAlone
    <3> QED BY <3>1, <3>2
  <2>2. (Pending' <=> Pending) /\ (Gathered' <=> Gathered)
    BY <1>1, <2>1 DEF Pending, Gathered, trainerVars
  <2>3. Gathered => unreaped' = 0
    <3>1. SUFFICES ASSUME Gathered, unreaped' # unreaped PROVE FALSE
      BY DEF CountInv
    <3>2. PICK s \in Samples : task[s] # "none"
      BY <1>5, <3>1, CountsLeftAlone
    <3>3. Live = {}
      BY <1>3, <3>1, SyncedIsEmpty
    <3> QED BY <3>2, <3>3 DEF Live
  <2> QED BY <1>1, <1>2, <2>1, <2>2, <2>3, PolicyKept DEF CountInv
<1> QED BY <1>4, <1>5

\* At the start both are 0.
LEMMA PolicyInit == Init => PolicyInv
<1> SUFFICES ASSUME Init PROVE PaceInv /\ CountInv
  BY DEF PolicyInv
<1>1. PaceInv
  BY DEF Init, RollouterInit, TrainerInit, PaceInv, Pending
<1>2. Progress = 0
  <2>1. Progress = (1 - 1) * RequiredSamples + 0 + 0
    BY DEF Init, RollouterInit, TrainerInit, Progress, Synced, Pending
  <2> QED BY <2>1, SMTT(20)
<1>3. Cardinality(received) = 0
  BY FS_EmptySet DEF Init, TrainerInit
<1> QED BY <1>1, <1>2, <1>3 DEF Init, RollouterInit, TrainerInit, CountInv, Gathered

\* The trainer's progress and the samples taken keep the balance.
LEMMA PolicyStep ==
    ASSUME TypeInv, StalenessZero, Served, AccountingInv, ProcessorSurvives, LastInv, CallsInv,
           PolicyInv, [Next]_vars
    PROVE  PolicyInv'
<1> SUFFICES ASSUME ~Ended' PROVE PaceInv' /\ CountInv'
  BY DEF PolicyInv
<1>1. ~Ended
  BY EndsForGood
<1>2. PaceInv /\ CountInv
  BY <1>1 DEF PolicyInv
<1>3. CASE ProcessorStep
  BY <1>2, <1>3, PolicyProcessor
<1>4. CASE UpdateStep \/ PutValidate
  BY <1>2, <1>4, PolicyUpdate
<1>5. CASE TrainerStep
  BY <1>1, <1>2, <1>5, PolicyTrainer
<1>6. CASE ~ProcessorStep /\ ~UpdateStep /\ ~PutValidate /\ ~TrainerStep
  BY <1>2, <1>6, PolicyAside
<1> QED BY <1>3, <1>4, <1>5, <1>6

-----------------------------------------------------------------------------
(* The end signal in a message queue of one sample.                        *)

\* A processor that has finished leaves nothing to put behind the end signal, and the
\* trainer that has seen it has taken it from the queue.
SignalInv ==
    /\ Signalled /\ pc.processor = "finished" => putting = 0
    /\ Ended => pc.main \in {"stop_in", "done"} /\ ~InQueue(EndSignal, mq_queue)

\* Nobody but the consumer fills its hands.
LEMMA HandsFilled ==
    ASSUME [Next]_vars, ~ConsumerStep, putting = 0
    PROVE  putting' = 0
<1> USE DEF OnlyControl, OnlyFlags, OnlyReaps, OnlyIntake, outputVars
<1>1. CASE ProcessorStep
  BY <1>1 DEF ProcessorStep, ProcessorTop, GetPending, SetPaused, AwaitTasks, Reap, Idle, Woken,
     Submit
<1>2. CASE MainStep \/ PutEndSignal \/ MonitorStep \/ PutValidate \/ FeederStep
  BY <1>2 DEF MainStep, MainJoined, StopRunning, PutEndSignal, EndSignalDelivered, MonitorStep,
     MonitorTurn, MonitorResume, PutValidate, UpdateReported, FeederStep, Feed
<1>3. CASE PauseStep
  BY <1>3 DEF PauseStep, CallArrives, PauseBegin, ServerCancel, PauseGathered, PauseEnd
<1>4. CASE ResumeStep \/ UpdateStep
  BY <1>4 DEF ResumeStep, CallArrives, ResumeBegin, ServerResume, UpdateStep, UpdateCount,
     UpdateSized
<1>5. CASE PutSample
  BY <1>5 DEF PutSample, PutDelivered
<1>6. CASE TrainerStep
  BY <1>6 DEF TrainerStep, GetSample, ReadValidate, Train, WaitLastValid, PauseReturned,
     SyncWeights, rollouterVars
<1>7. CASE Terminated \/ UNCHANGED vars
  BY <1>7 DEF Terminated, vars, rollouterVars
<1>8. CASE \E s \in Samples : TaskStep(s) \/ ServerStep(s)
  BY <1>8 DEF TaskStep, ServerStep, StartTask, ServerAdmit, EndTask
<1> QED BY <1>1, <1>2, <1>3, <1>4, <1>5, <1>6, <1>7, <1>8 DEF Next

\* At the start nothing is signalled.
LEMMA SignalInit == Init => SignalInv
BY DEF Init, RollouterInit, TrainerInit, SignalInv, Signalled, Ended

\* main signals behind the last put, unless the processor died.
LEMMA SignalledHands ==
    ASSUME TypeInv, LastInv, SignalInv, [Next]_vars, Signalled', pc'.processor = "finished"
    PROVE  putting' = 0
<1>0. PcTyped
  BY DEF TypeInv
<1>1. ~ProcessorStep
  <2>1. ASSUME ProcessorStep PROVE Signalled
    BY <1>0, <2>1, ProcessorMoves DEF Moves, Coroutines, Signalled
  <2>2. ASSUME ProcessorStep PROVE pc.processor \notin {"finished", "failed"}
    BY <2>2 DEF ProcessorStep, ProcessorTop, GetPending, SetPaused, AwaitTasks, Reap, Idle, Woken,
       Submit, InLock, WaitOf
  <2> QED BY <2>1, <2>2 DEF LastInv
<1>2. pc.processor = "finished"
  BY <1>0, <1>1, ProcessorMovedByNobody
<1>3. CASE Signalled
  <2>1. putting = 0
    BY <1>2, <1>3 DEF SignalInv
  <2>2. ~ConsumerStep
    BY <1>3 DEF ConsumerStep, ConsumerTake, Signalled
  <2> QED BY <2>1, <2>2, HandsFilled
<1>4. CASE ~Signalled
  <2>1. ~PutEndSignal
    BY <1>4 DEF PutEndSignal, EndSignalDelivered, Signalled
  <2>2. MainStep
    BY <1>0, <1>4, <2>1, MainStays DEF Signalled
  <2>3. MainJoined
    BY <1>4, <2>2 DEF MainStep, StopRunning, InLock, Signalled
  <2> QED BY <1>2, <2>3 DEF MainJoined, Joined, OnlyControl, outputVars
<1> QED BY <1>3, <1>4

\* The end signal is taken from the queue once and does not come back.
LEMMA SignalTaken ==
    ASSUME TypeInv, Served, AccountingInv, SignalInv, [Next]_vars, Ended'
    PROVE  pc'.main \in {"stop_in", "done"} /\ ~InQueue(EndSignal, mq_queue')
<1> DEFINE T == 0..TotalRolloutSteps
<1>0. PcTyped /\ mq_queue \in Seq(T) /\ NoRepeats(mq_queue)
  BY DEF TypeInv, QueueTyped, AccountingInv
<1> HIDE DEF T
<1>1. ASSUME mq_queue # <<>>
      PROVE  \A s : InQueue(s, Tail(mq_queue)) <=> InQueue(s, mq_queue) /\ s # Head(mq_queue)
  BY <1>0, <1>1, TailMembers
<1>2. CASE Ended
  <2>1. pc.main \in {"stop_in", "done"} /\ ~InQueue(EndSignal, mq_queue)
    BY <1>2 DEF SignalInv
  <2>2. ~PutEndSignal
    BY <2>1 DEF PutEndSignal, EndSignalDelivered
  <2>3. pc'.main \in {"stop_in", "done"}
    BY <1>0, <2>1, <2>2, MainAdvances
  <2>4. CASE PutSample
    <3>1. putting \in 0..TotalRolloutSteps /\ putting # EndSignal /\ MQ!PutSample(putting)
      BY <2>4 DEF PutSample, PutDelivered, TypeInv, OutputTyped, EndSignal
    <3>2. mq_queue' = Append(IF Len(mq_queue) >= MaxRequiredSamples THEN Tail(mq_queue)
                                                                   ELSE mq_queue, putting)
      BY <3>1 DEF MQ!PutSample, MQ!Appended, MQ!IsFull
    <3>3. PICK q \in Seq(T) : mq_queue' = Append(q, putting) /\ ~InQueue(EndSignal, q)
      <4>1. CASE Len(mq_queue) >= MaxRequiredSamples
        <5>1. mq_queue # <<>>
          BY <1>0, <4>1
        <5>2. Tail(mq_queue) \in Seq(T)
          BY <1>0, <5>1
        <5> QED BY <1>1, <2>1, <3>2, <4>1, <5>1, <5>2
      <4>2. CASE ~(Len(mq_queue) >= MaxRequiredSamples)
        BY <1>0, <2>1, <3>2, <4>2
      <4> QED BY <4>1, <4>2
    <3>4. putting \in T
      BY <3>1 DEF T
    <3>5. ~InQueue(EndSignal, mq_queue')
      BY <3>1, <3>3, <3>4, AppendMembers
    <3> QED BY <2>3, <3>5
  <2>5. CASE GetSample
    <3>1. mq_queue' = mq_queue \/ (mq_queue # <<>> /\ mq_queue' = Tail(mq_queue))
      BY <2>5, GetSampleDoes
    <3> QED BY <1>1, <2>1, <2>3, <3>1
  <2>6. CASE ~PutSample /\ ~GetSample
    BY <2>1, <2>2, <2>3, <2>6, QueueLeftAlone
  <2> QED BY <2>4, <2>5, <2>6
<1>3. CASE ~Ended
  <2>1. /\ GetSample /\ mq_queue # <<>> /\ mq_queue' = Tail(mq_queue)
        /\ Head(mq_queue) = EndSignal
    BY <1>3, EndsBySignal
  <2>2. ~InQueue(EndSignal, mq_queue')
    BY <1>1, <2>1
  <2>3. 1 \in DOMAIN mq_queue /\ mq_queue[1] = EndSignal
    BY <1>0, <2>1
  <2>4. pc.main \in {"stop_in", "done"}
    BY <2>3 DEF AccountingInv, EndSignalLast
  <2>5. pc' = pc
    BY <2>1 DEF GetSample, rollouterVars, control
  <2> QED BY <2>2, <2>4, <2>5
<1> QED BY <1>2, <1>3

\* The largest set of numbers up to n that leaves out two of them.
LEMMA TwoMissing ==
    ASSUME NEW n \in Nat, NEW R, R \subseteq 1..n, NEW a \in (1..n) \ R, NEW b \in (1..n) \ R, a # b
    PROVE  Cardinality(R) \in Nat /\ Cardinality(R) + 2 <= n
<1>1. IsFiniteSet(1..n) /\ Cardinality(1..n) = n
  <2>1. 1 \in Int /\ n \in Int /\ n - 1 + 1 = n /\ (1 > n <=> n = 0)
    OBVIOUS
  <2> QED BY <2>1, FS_Interval
<1>2. IsFiniteSet(R) /\ Cardinality(R) \in Nat
  BY <1>1, FS_Subset, FS_CardinalityType
<1>3. IsFiniteSet(R \cup {a}) /\ Cardinality(R \cup {a}) = Cardinality(R) + 1
  BY <1>2, FS_AddElement
<1>4. Cardinality((R \cup {a}) \cup {b}) = Cardinality(R) + 2
  <2>1. b \notin R \cup {a}
    OBVIOUS
  <2>2. Cardinality((R \cup {a}) \cup {b}) = Cardinality(R \cup {a}) + 1
    BY <1>3, <2>1, FS_AddElement
  <2> QED BY <1>2, <1>3, <2>2
<1>5. (R \cup {a}) \cup {b} \subseteq 1..n
  OBVIOUS
<1>6. Cardinality((R \cup {a}) \cup {b}) <= n
  BY <1>1, <1>5, FS_Subset
<1> QED BY <1>2, <1>4, <1>6

\* A limit of one sample leaves room for one batch of one sample.
LEMMA OneBatch ==
    ASSUME MaxRequiredSamples = 1, MaxRequiredSamples >= RequiredSamples * TriggerStep
    PROVE  RequiredSamples = 1 /\ TriggerStep = 1 /\ RequiredSamples * TriggerStep = 1
<1>1. RequiredSamples <= RequiredSamples * TriggerStep
      /\ TriggerStep <= RequiredSamples * TriggerStep
  BY SMTT(30)
<1>2. RequiredSamples = 1 /\ TriggerStep = 1
  BY <1>1
<1> QED BY <1>2

\* With staleness 0 the queue of one sample is safe: that the processor died while a sample
\* was put would take two samples the trainer does not have, where one may be outstanding.
LEMMA SignalIsSafe ==
    ASSUME TypeInv, AccountingInv, ProcessorSurvives, LastInv, PolicyInv, SignalInv
    PROVE  SignalSafe
<1>1. SUFFICES ASSUME MaxRequiredSamples = 1, InQueue(EndSignal, mq_queue), putting # 0
               PROVE  FALSE
  BY DEF SignalSafe
<1>2. Signalled /\ ~Ended
  BY <1>1 DEF SignalInv, AccountingInv, EndSignalLast, InQueue, Signalled
<1>3. pc.processor = "failed"
  BY <1>1, <1>2 DEF LastInv, SignalInv
<1>4. /\ failures \in Nat \ {0} /\ dropped_samples \in Nat /\ taken \in Nat
      /\ staleness_samples \in Nat /\ putting \in Samples
  BY <1>1, <1>3 DEF ProcessorSurvives, TypeInv, ServerTyped, IntakeTyped, CountTyped, OutputTyped,
     AccountingInv, Samples
<1>5. PICK v : v \in Vanished
  <2>1. Cardinality(Vanished) # 0
    BY <1>4 DEF AccountingInv, SampleAccounting, Vanished
  <2>2. Vanished # {}
    BY <2>1, FS_EmptySet
  <2> QED BY <2>2
<1>6. \A s \in Samples : Copies(s) <= One(s \in Taken)
  BY DEF AccountingInv, SampleAccounting
<1>7. v \in Samples /\ v <= taken /\ v \notin received /\ v # putting
  BY <1>5 DEF Vanished, Taken, Copies, Undelivered, InRollouter, One
<1>8. putting <= taken /\ putting \notin received
  BY <1>4, <1>6 DEF Taken, Copies, Undelivered, InRollouter, One
<1>9. received \subseteq 1..taken
  <2>1. ASSUME NEW s \in received PROVE s \in 1..taken
    <3>1. s \in Samples
      BY <1>2 DEF PolicyInv, PaceInv
    <3>2. s \in Taken
      BY <1>6, <3>1 DEF Copies, Undelivered, InRollouter, One
    <3> QED BY <1>4, <3>1, <3>2 DEF Taken, Samples
  <2> QED BY <2>1
<1>10. Cardinality(received) \in Nat /\ Cardinality(received) + 2 <= taken
  <2>1. v \in (1..taken) \ received /\ putting \in (1..taken) \ received
    BY <1>4, <1>7, <1>8 DEF Samples
  <2> QED BY <1>4, <1>7, <1>9, <2>1, TwoMissing
<1>11. Progress \in Nat
  <2>1. local_trigger_step = 1 /\ collected \in Nat
    BY <1>1, PolicyAssumption, OneBatch DEF TypeInv, TrainerTypeOK
  <2>2. (local_trigger_step - 1) * RequiredSamples = 0
    BY <2>1
  <2> QED BY <1>1, <2>1, <2>2 DEF Progress
<1>12. Cardinality(received) + staleness_samples = taken + Progress /\ staleness_samples <= 1
  BY <1>1, <1>2 DEF PolicyInv, CountInv
<1> QED BY <1>4, <1>10, <1>11, <1>12

\* The samples, their balance and the end, together.
FlowInv ==
    /\ TypeInv /\ ConcurrencyInv /\ Served /\ SurvivesInv /\ AccountingInv
    /\ LastInv /\ CallsInv /\ PolicyInv /\ SignalInv

\* It holds at the start.
LEMMA FlowInit == CapacityAssumption /\ Init => FlowInv
<1> SUFFICES ASSUME CapacityAssumption, Init PROVE FlowInv
  OBVIOUS
<1>1. TypeInv /\ ConcurrencyInv /\ Served /\ SurvivesInv /\ AccountingInv
  BY TypeInit, ConcurrencyInit, ServedInit, SurvivesInit, AccountingInit
<1>2. LastInv /\ CallsInv /\ PolicyInv /\ SignalInv
  BY LastInit, CallsInit, PolicyInit, SignalInit
<1> QED BY <1>1, <1>2 DEF FlowInv

\* With staleness 0 every step keeps it.
LEMMA FlowStep ==
    ASSUME StalenessZero, CapacityAssumption, FlowInv, [Next]_vars
    PROVE  FlowInv'
<1>0. /\ TypeInv /\ ConcurrencyInv /\ Served /\ SurvivesInv /\ AccountingInv
      /\ LastInv /\ CallsInv /\ PolicyInv /\ SignalInv /\ ProcessorSurvives
  BY DEF FlowInv, SurvivesInv
<1>1. TypeInv' /\ ConcurrencyInv' /\ Served'
  BY <1>0, TypeStep, ConcurrencyStep, ServedStep
<1>2. SurvivesInv'
  BY <1>0, <1>1, SurvivesStep DEF ConcurrencyInv
<1>3. AccountingInv'
  BY <1>0, SignalIsSafe, AccountingStep
<1>4. LastInv' /\ CallsInv'
  BY <1>0, LastStep, CallsStep
<1>5. PolicyInv'
  BY <1>0, PolicyStep
<1>6. SignalInv'
  BY <1>0, SignalledHands, SignalTaken DEF SignalInv
<1> QED BY <1>1, <1>2, <1>3, <1>4, <1>5, <1>6 DEF FlowInv

\* No sample is lost or duplicated on its way from the data set to the trainer
\* (fully_async_rollouter.py, message_queue.py, fully_async_trainer.py): each is in one
\* place, and those that vanish are counted.  A message queue of one sample comes with
\* staleness 0 only; there the argument is the balance of the last lemmas.
THEOREM SampleAccountingCorrect ==
    ASSUME MaxRequiredSamples > 1 \/ CapacityAssumption
    PROVE  Spec => []SampleAccounting
<1>1. CASE MaxRequiredSamples > 1
  <2> DEFINE I == TypeInv /\ Served /\ AccountingInv
  <2>1. Init => I
    BY TypeInit, ServedInit, AccountingInit
  <2>2. I /\ [Next]_vars => I'
    BY <1>1, TypeStep, ServedStep, AccountingStep DEF SignalSafe
  <2>3. I => SampleAccounting
    BY DEF AccountingInv
  <2> QED BY <2>1, <2>2, <2>3, PTL DEF Spec
<1>2. CASE ~(MaxRequiredSamples > 1)
  <2>1. StalenessZero /\ CapacityAssumption
    BY <1>2, PolicyAssumption, OneBatch DEF StalenessZero
  <2>2. Init => FlowInv
    BY <2>1, FlowInit
  <2>3. FlowInv /\ [Next]_vars => FlowInv'
    BY <2>1, FlowStep
  <2>4. FlowInv => SampleAccounting
    BY DEF FlowInv, AccountingInv
  <2> QED BY <2>2, <2>3, <2>4, PTL DEF Spec
<1> QED BY <1>1, <1>2

-----------------------------------------------------------------------------
(* The version that began a sample.                                        *)

\* The sample's generation has begun and has not been interrupted since.
Generated(s) ==
    \/ task[s] \in {"sent", "generating"} \/ putting = s
    \/ InQueue(s, result_queue) \/ InQueue(s, mq_queue)

\* What has begun was taken, and before the end it is of the trainer's version.
BegunInv ==
    /\ \A s \in Samples : version_start[s] # NotStarted => s \in Taken
    /\ \A s \in Samples : Generated(s) => version_start[s] # NotStarted
    /\ ~Ended => \A s \in Outstanding : version_start[s] \in {NotStarted, trainer_version}

\* At the start no sample has begun.
LEMMA BegunInit == Init => BegunInv
<1> SUFFICES ASSUME Init PROVE BegunInv
  OBVIOUS
<1>1. \A s \in Samples : version_start[s] = NotStarted
  BY DEF Init, RollouterInit
<1>2. \A s \in Samples : ~Generated(s)
  BY DEF Init, RollouterInit, MQ!InitWith, Generated, InQueue, Samples
<1> QED BY <1>1, <1>2 DEF BegunInv, Outstanding

\* The processor takes samples nobody has had, and moves the others.
LEMMA ProcessorPlaces ==
    ASSUME TypeInv, ProcessorStep
    PROVE  /\ Outstanding' \subseteq Outstanding \cup (Samples \ Taken)
           /\ version_start' = version_start
           /\ UNCHANGED <<putting, result_queue, mq_queue>>
           /\ \A s \in Samples : task'[s] \in {task[s], "created"}
<1>1. UNCHANGED <<version_start, putting, result_queue, mq_queue>>
  BY DEF ProcessorStep, ProcessorTop, GetPending, SetPaused, AwaitTasks, Reap, Idle, Woken,
     Submit, OnlyControl, OnlyFlags, OnlyReaps, OnlyIntake, outputVars, taskVars, Alone, mqVars
<1>2. /\ task \in [Samples -> {"none", "created", "sent", "generating"}]
      /\ taken \in Nat /\ cancel_queue \in Seq(Samples)
  BY DEF TypeInv, TaskTyped, IntakeTyped
<1>3. CASE UNCHANGED <<held, task, cancel_queue>>
  <2>1. Outstanding' = Outstanding
    BY <1>1, <1>3, OutstandingKept DEF placeVars
  <2> QED BY <1>1, <1>3, <2>1
<1>4. CASE TakePending /\ UNCHANGED <<task, cancel_queue>>
  <2>1. CASE PendingIsEmpty
    BY <1>3, <1>4, <2>1 DEF TakePending
  <2>2. CASE ~PendingIsEmpty
    <3>1. held' = SampleOf(taken + 1)
      BY <1>4, <2>2 DEF TakePending
    <3>2. held' \in Samples => held' \notin Taken
      BY <1>2, <3>1 DEF SampleOf, Taken, Samples, Done
    <3>3. Outstanding' \subseteq Outstanding \cup {held'}
      <4>1. \A s \in Samples : Somewhere(s)' => Somewhere(s) \/ s = held'
        BY <1>1, <1>4 DEF Somewhere, InQueue, Live
      <4> QED BY <4>1, OutstandingMoves
    <3>4. Outstanding' \subseteq Samples
      BY DEF Outstanding
    <3> QED BY <1>1, <1>4, <3>2, <3>3, <3>4
  <2> QED BY <2>1, <2>2
<1>5. CASE TakeCancelled /\ task' = task /\ cancel_queue # <<>>
  <2>1. held' = Head(cancel_queue) /\ cancel_queue' = Tail(cancel_queue)
    BY <1>5 DEF TakeCancelled
  <2>2. InQueue(held', cancel_queue) /\ \A s : InQueue(s, cancel_queue') => InQueue(s, cancel_queue)
    <3>1. Head(cancel_queue) \in Samples
      BY <1>2, <1>5
    <3> QED BY <1>2, <1>5, <2>1, <3>1, InQueueOf
  <2>3. \A s \in Samples : Somewhere(s)' => Somewhere(s)
    BY <1>1, <1>5, <2>2 DEF Somewhere, InQueue, Live
  <2>4. Outstanding' \subseteq Outstanding
    BY <2>3, OutstandingStays
  <2> QED BY <1>1, <1>5, <2>4
<1>6. CASE ProcessorTop(queue_size)
  <2>1. task' = task
    BY <1>6 DEF ProcessorTop, OnlyIntake, taskVars
  <2> QED BY <1>3, <1>4, <1>5, <1>6, <2>1 DEF ProcessorTop
<1>7. CASE GetPending
  <2>1. TakePending /\ UNCHANGED <<task, cancel_queue>>
    BY <1>7 DEF GetPending, OnlyIntake, taskVars
  <2> QED BY <1>4, <2>1
<1>8. CASE SetPaused \/ AwaitTasks \/ Reap \/ Idle \/ Woken
  BY <1>3, <1>8 DEF SetPaused, AwaitTasks, Reap, Idle, Woken, OnlyControl, OnlyFlags, OnlyReaps,
     intakeVars, taskVars
<1>9. CASE Submit
  <2>1. CASE paused
    BY <1>3, <1>9, <2>1 DEF Submit
  <2>2. CASE ~paused
    <3>1. task' = [task EXCEPT ![held] = "created"] /\ held' = 0 /\ cancel_queue' = cancel_queue
      BY <1>9, <2>2 DEF Submit
    <3>2. \A s \in Samples : task'[s] = IF s = held THEN "created" ELSE task[s]
      BY <1>2, <3>1
    <3>3. \A s \in Samples : Somewhere(s)' => Somewhere(s)
      BY <1>1, <3>1, <3>2 DEF Somewhere, InQueue, Live, Samples
    <3>4. Outstanding' \subseteq Outstanding
      BY <3>3, OutstandingStays
    <3> QED BY <1>1, <3>2, <3>4
  <2> QED BY <2>1, <2>2
<1> QED BY <1>6, <1>7, <1>8, <1>9 DEF ProcessorStep

\* Only the start of its task labels a sample, and lets it be generated.
LEMMA OthersDoNotStart ==
    ASSUME TypeInv, [Next]_vars, ~ProcessorStep, \A s \in Samples : ~(TaskStep(s) /\ StartTask(s))
    PROVE  /\ Outstanding' \subseteq Outstanding
           /\ version_start' = version_start
           /\ \A s \in Samples : Generated(s)' => Generated(s)
<1>1. CASE UNCHANGED placeVars /\ version_start' = version_start
  BY <1>1, OutstandingKept DEF placeVars, Generated, InQueue
<1>2. CASE MainStep \/ MonitorStep \/ PauseStep \/ ResumeStep \/ PutValidate \/ FeederStep
           \/ Terminated \/ UNCHANGED vars
  <2>1. UNCHANGED placeVars
    BY <1>2, ControlKeepsSamples
  <2>2. version_start' = version_start
    <3> USE DEF OnlyControl, OnlyFlags, OnlyReaps, OnlyIntake, taskVars
    <3>1. CASE MainStep \/ MonitorStep \/ PutValidate \/ FeederStep
      BY <3>1 DEF MainStep, MainJoined, StopRunning, MonitorStep, MonitorTurn, MonitorResume,
         PutValidate, UpdateReported, FeederStep, Feed
    <3>2. CASE PauseStep \/ ResumeStep
      BY <3>2 DEF PauseStep, CallArrives, PauseBegin, ServerCancel, PauseGathered, PauseEnd,
         ResumeStep, ResumeBegin, ServerResume
    <3>3. CASE Terminated \/ UNCHANGED vars
      BY <3>3 DEF Terminated, vars, rollouterVars
    <3> QED BY <1>2, <3>1, <3>2, <3>3
  <2> QED BY <1>1, <2>1, <2>2
<1>3. CASE UpdateStep
  <2>1. UNCHANGED placeVars /\ version_start' = version_start
    BY <1>3 DEF UpdateStep, CallArrives, UpdateCount, UpdateSized, OnlyControl, placeVars, Alone,
       mqVars, intakeVars, outputVars, taskVars
  <2> QED BY <1>1, <2>1
<1>4. CASE PutSample \/ PutEndSignal
  <2>1. Outstanding' \subseteq Outstanding /\ UNCHANGED <<task, result_queue>>
    BY <1>4, PutsKeep
  <2>2. version_start' = version_start /\ putting' \in {putting, 0}
    BY <1>4 DEF PutSample, PutDelivered, PutEndSignal, EndSignalDelivered, OnlyControl, OnlyOutput,
       taskVars, outputVars
  <2>3. PICK e \in 0..TotalRolloutSteps : MQ!PutSample(e) /\ (e \in Samples => e = putting)
    BY <1>4 DEF PutSample, PutEndSignal, EndSignal, Samples, TypeInv, OutputTyped
  <2>4. \A s : InQueue(s, mq_queue') => InQueue(s, mq_queue) \/ s = e
    BY <2>3, PutAddsOne
  <2>5. ASSUME NEW s \in Samples, Generated(s)' PROVE Generated(s)
    <3>1. s # 0
      BY DEF Samples
    <3> QED BY <2>1, <2>2, <2>3, <2>4, <2>5, <3>1 DEF Generated, InQueue
  <2> QED BY <2>1, <2>2, <2>5
<1>5. CASE ConsumerStep
  <2>1. Outstanding' \subseteq Outstanding /\ task' = task
    BY <1>5, ConsumerKeeps
  <2>2. /\ version_start' = version_start /\ mq_queue' = mq_queue
        /\ result_queue # <<>> /\ putting' = Head(result_queue)
        /\ result_queue' = Tail(result_queue)
    BY <1>5 DEF ConsumerStep, ConsumerTake, OnlyOutput, taskVars, Alone, mqVars
  <2>3. InQueue(putting', result_queue)
        /\ \A s : InQueue(s, result_queue') => InQueue(s, result_queue)
    <3>1. result_queue \in Seq(Samples) /\ Head(result_queue) \in Samples
      BY <2>2 DEF TypeInv, OutputTyped
    <3> QED BY <2>2, <3>1, InQueueOf
  <2>4. ASSUME NEW s \in Samples, Generated(s)' PROVE Generated(s)
    BY <2>1, <2>2, <2>3, <2>4 DEF Generated, InQueue
  <2> QED BY <2>1, <2>2, <2>4
<1>6. CASE TrainerStep
  <2>1. Outstanding' \subseteq Outstanding /\ UNCHANGED <<task, result_queue>>
    BY <1>6, TrainerKeeps
  <2>2. UNCHANGED <<version_start, putting>>
    BY <1>6 DEF TrainerStep, GetSample, ReadValidate, Train, WaitLastValid, PauseReturned,
       SyncWeights, OnlyControl, rollouterVars, outputVars, taskVars
  <2>3. \A s : InQueue(s, mq_queue') => InQueue(s, mq_queue)
    <3>1. CASE GetSample
      <4>1. mq_queue' = mq_queue \/ (mq_queue # <<>> /\ mq_queue' = Tail(mq_queue))
        BY <3>1 DEF GetSample, MQ!GetSample, MQ!Wake, MQ!GetLoop, MQ!WaitForSample, MQ!ReturnNone,
           MQ!TakeOldest
      <4>2. mq_queue \in Seq(0..TotalRolloutSteps) /\ 0 \in 0..TotalRolloutSteps
        BY DEF TypeInv, QueueTyped
      <4> QED BY <4>1, <4>2, InQueueOf
    <3>2. CASE ~GetSample
      BY <1>6, <3>2 DEF TrainerStep, ReadValidate, Train, WaitLastValid, PauseReturned,
         SyncWeights, MQ!GetValidate, MQ!UpdateParamVersion, mqVars
    <3> QED BY <3>1, <3>2
  <2> QED BY <2>1, <2>2, <2>3 DEF Generated, InQueue
<1>7. CASE \E s \in Samples : TaskStep(s) \/ ServerStep(s)
  <2>1. PICK t \in Samples : (EndTask(t) \/ ServerAdmit(t)) /\ Alone
    BY <1>7 DEF TaskStep, ServerStep
  <2>2. /\ task \in [Samples -> {"none", "created", "sent", "generating"}]
        /\ result_queue \in Seq(Samples)
    BY DEF TypeInv, TaskTyped, OutputTyped
  <2>3. CASE EndTask(t)
    <3>1. Outstanding' \subseteq Outstanding
      BY <2>1, <2>3, EndTaskKeeps
    <3>2. UNCHANGED <<version_start, putting, mq_queue>>
      BY <2>1, <2>3 DEF EndTask, Alone, mqVars
    <3>3. \A s \in Samples : task'[s] = IF s = t THEN "none" ELSE task[s]
      BY <2>2, <2>3 DEF EndTask
    <3>4. \/ result_queue' = result_queue
          \/ result_queue' = Append(result_queue, t) /\ task[t] = "generating"
      BY <2>3 DEF EndTask, Answers, IsResult
    <3>5. \A s : InQueue(s, result_queue') => InQueue(s, result_queue)
                                              \/ (s = t /\ task[t] = "generating")
      <4>1. CASE result_queue' = result_queue
        BY <4>1
      <4>2. CASE result_queue' = Append(result_queue, t) /\ task[t] = "generating"
        <5>1. \A s : InQueue(s, result_queue') => InQueue(s, result_queue) \/ s = t
          BY <2>2, <4>2, InQueueOf
        <5> QED BY <4>2, <5>1
      <4> QED BY <3>4, <4>1, <4>2
    <3>6. ASSUME NEW s \in Samples, Generated(s)' PROVE Generated(s)
      BY <3>2, <3>3, <3>5, <3>6 DEF Generated, InQueue
    <3> QED BY <3>1, <3>2, <3>6
  <2>4. CASE ServerAdmit(t)
    <3>1. UNCHANGED <<version_start, held, putting, cancel_queue, result_queue, mq_queue>>
      BY <2>1, <2>4 DEF ServerAdmit, Alone, mqVars, intakeVars, outputVars
    <3>2. /\ task[t] = "sent"
          /\ \A s \in Samples : task'[s] = IF s = t THEN "generating" ELSE task[s]
      BY <2>2, <2>4 DEF ServerAdmit
    <3>3. \A s \in Samples : Somewhere(s)' => Somewhere(s)
      BY <3>1, <3>2 DEF Somewhere, InQueue, Live
    <3>4. ASSUME NEW s \in Samples, Generated(s)' PROVE Generated(s)
      BY <3>1, <3>2, <3>4 DEF Generated, InQueue
    <3> QED BY <3>1, <3>3, <3>4, OutstandingStays
  <2> QED BY <2>1, <2>3, <2>4
<1> QED BY <1>2, <1>3, <1>4, <1>5, <1>6, <1>7 DEF Next

\* A sample somewhere has been taken.
LEMMA SomewhereIsTaken ==
    ASSUME AccountingInv, NEW s \in Outstanding
    PROVE  s \in Samples /\ s \in Taken
<1>1. s \in Samples /\ Undelivered(s) > 0
  BY DEF Outstanding
<1>2. Copies(s) > 0 /\ Copies(s) <= One(s \in Taken)
  <2>1. Undelivered(s) \in Nat /\ One(s \in received) \in {0, 1}
    BY DEF Undelivered, InRollouter, One
  <2> QED BY <1>1, <2>1 DEF Copies, AccountingInv, SampleAccounting
<1>3. One(s \in Taken) > 0
  BY <1>2, CopiesType DEF One
<1> QED BY <1>1, <1>3 DEF One

\* The rollouter begins samples only with the weights the trainer trains next.
LEMMA VersionsMeet ==
    ASSUME VersionInv, ~Ended, ~Synced
    PROVE  current_param_version = trainer_version
BY DEF VersionInv, Ended, Synced, Pending, Synchronising

\* A task that starts labels its sample with the version the trainer is at.
LEMMA BegunStart ==
    ASSUME TypeInv, AccountingInv, ProcessorSurvives, LastInv, PolicyInv, VersionInv, BegunInv,
           [Next]_vars, NEW t \in Samples, TaskStep(t), StartTask(t)
    PROVE  BegunInv'
<1>0. /\ task \in [Samples -> {"none", "created", "sent", "generating"}]
      /\ version_start \in [Samples -> Nat \cup {NotStarted}] /\ current_param_version \in Nat
  BY DEF TypeInv, TaskTyped, CountTyped
<1>1. /\ UNCHANGED <<held, taken, putting, cancel_queue, result_queue, mq_queue>>
      /\ UNCHANGED trainerVars /\ task[t] = "created"
  BY DEF StartTask, TaskStep, Alone, mqVars, intakeVars, outputVars
<1>2. \A s \in Samples : /\ task'[s] = "none" <=> task[s] = "none"
                         /\ s # t => task'[s] = task[s]
  BY <1>0 DEF StartTask
<1>3. \A s \in Samples : version_start'[s] =
         IF s = t /\ version_start[s] = NotStarted THEN current_param_version ELSE version_start[s]
  BY <1>0 DEF StartTask
<1>4. version_start'[t] # NotStarted
  BY <1>0, <1>3 DEF NotStarted
<1>5. \A s \in Samples : Somewhere(s)' => Somewhere(s)
  BY <1>1, <1>2 DEF Somewhere, InQueue, Live
<1>6. Outstanding' \subseteq Outstanding
  BY <1>5, OutstandingStays
<1>7. t \in Live /\ t \in Outstanding
  BY <1>1, OutstandingIsSomewhere DEF Live, Somewhere
<1>8. ASSUME NEW s \in Samples, version_start'[s] # NotStarted PROVE s \in Taken'
  BY <1>1, <1>3, <1>7, <1>8, SomewhereIsTaken DEF BegunInv, Taken
<1>9. ASSUME NEW s \in Samples, Generated(s)' PROVE version_start'[s] # NotStarted
  <2>1. CASE s = t
    BY <1>4, <2>1
  <2>2. CASE s # t
    <3>1. Generated(s)
      BY <1>1, <1>2, <1>9, <2>2 DEF Generated, InQueue
    <3> QED BY <1>3, <2>2, <3>1 DEF BegunInv
  <2> QED BY <2>1, <2>2
<1>10. ASSUME ~Ended', NEW s \in Outstanding'
       PROVE  version_start'[s] \in {NotStarted, trainer_version'}
  <2>1. ~Ended /\ trainer_version' = trainer_version
    BY <1>1, <1>10 DEF Ended, trainerVars
  <2>2. ~Synced
    BY <1>7, <2>1, SyncedIsEmpty DEF PolicyInv
  <2>3. current_param_version = trainer_version
    BY <2>1, <2>2, VersionsMeet
  <2>4. s \in Outstanding /\ s \in Samples
    BY <1>6, <1>10 DEF Outstanding
  <2> QED BY <1>3, <2>1, <2>3, <2>4 DEF BegunInv
<1> QED BY <1>8, <1>9, <1>10 DEF BegunInv

\* A sample somewhere is of that version, or has not begun.
LEMMA BegunStep ==
    ASSUME TypeInv, StalenessZero, AccountingInv, ProcessorSurvives, LastInv, CallsInv, PolicyInv,
           VersionInv, BegunInv, [Next]_vars
    PROVE  BegunInv'
<1>1. CASE \E t \in Samples : TaskStep(t) /\ StartTask(t)
  BY <1>1, BegunStart
<1>2. CASE \A t \in Samples : ~(TaskStep(t) /\ StartTask(t))
  <2>1. /\ Outstanding' \subseteq Outstanding \cup (Samples \ Taken)
        /\ version_start' = version_start
        /\ \A s \in Samples : Generated(s)' => Generated(s)
    <3>1. CASE ProcessorStep
      <4>1. ASSUME NEW s \in Samples, Generated(s)' PROVE Generated(s)
        BY <3>1, <4>1, ProcessorPlaces DEF Generated, InQueue
      <4> QED BY <3>1, <4>1, ProcessorPlaces
    <3>2. CASE ~ProcessorStep
      BY <1>2, <3>2, OthersDoNotStart
    <3> QED BY <3>1, <3>2
  <2>2. taken' >= taken /\ taken \in Nat /\ taken' \in Nat
    <3>1. taken \in Nat
      BY DEF TypeInv, IntakeTyped
    <3> QED BY <3>1, ProcessorTakes, CountsLeftAlone
  <2>3. ASSUME NEW s \in Taken PROVE s \in Taken'
    BY <2>2 DEF Taken, Samples
  <2>4. ASSUME ~Ended', NEW s \in Outstanding'
        PROVE  version_start'[s] \in {NotStarted, trainer_version'}
    <3>1. ~Ended /\ PaceInv /\ CountInv
      BY <2>4, EndsForGood DEF PolicyInv
    <3>2. CASE s \notin Taken
      BY <2>1, <3>2, <2>4 DEF BegunInv, Outstanding
    <3>3. CASE s \in Taken
      <4>1. s \in Outstanding
        BY <2>1, <2>4, <3>3
      <4>2. CASE trainer_version' = trainer_version
        BY <2>1, <3>1, <4>1, <4>2 DEF BegunInv
      <4>3. CASE trainer_version' # trainer_version
        <5>1. Train
          BY <4>3, OnlyTrainer DEF trainerVars, TrainerStep, GetSample, ReceiveEnd, Receive,
             ReadValidate, ReadFirst, ReadAfterStep, ReadFinal, WaitLastValid, LastSyncDone,
             PauseReturned, RollouterPaused, SyncWeights, WeightsSynced
        <5>2. TrainBatch
          BY <3>1, <5>1 DEF Train, EndTraining, Ended
        <5>3. local_trigger_step = TriggerStep
          BY <4>3, <5>2 DEF TrainBatch, TypeInv, TrainerTypeOK
        <5>4. Outstanding = {}
          BY <3>1, <5>2, <5>3, LastBatch, AllReceived
        <5> QED BY <4>1, <5>4
      <4> QED BY <4>2, <4>3
    <3> QED BY <3>2, <3>3
  <2> QED BY <2>1, <2>3, <2>4 DEF BegunInv
<1> QED BY <1>1, <1>2

\* The sample that the trainer receives is one of its own version.
LEMMA ReceivedIsOwn ==
    ASSUME TypeInv, Served, CallsInv, BegunInv, [Next]_vars, NEW s \in received' \ received
    PROVE  version_start[s] = trainer_version
<1>1. TrainerStep
  BY OnlyTrainer DEF trainerVars
<1>2. GetSample
  BY <1>1 DEF TrainerStep, ReadValidate, ReadFirst, ReadAfterStep, ReadFinal, Train, TrainBatch,
     EndTraining, WaitLastValid, LastSyncDone, PauseReturned, RollouterPaused, SyncWeights,
     WeightsSynced
<1>3. /\ trainer = "collect" /\ mq_queue # <<>>
      /\ s = Head(mq_queue) /\ Head(mq_queue) \in Samples
  BY <1>2, GetSampleDoes DEF trainerVars, Receive, ReceiveEnd
<1>4. InQueue(s, mq_queue)
  <2>1. mq_queue \in Seq(0..TotalRolloutSteps) /\ Head(mq_queue) \in 0..TotalRolloutSteps
    BY <1>3 DEF TypeInv, QueueTyped
  <2> QED BY <1>3, <2>1, InQueueOf
<1>5. s \in Outstanding
  BY <1>3, <1>4, OutstandingIsSomewhere DEF Somewhere
<1>6. version_start[s] # NotStarted
  BY <1>3, <1>4 DEF BegunInv, Generated
<1>7. ~Ended
  BY <1>3 DEF CallsInv, Ended
<1> QED BY <1>5, <1>6, <1>7 DEF BegunInv

\* staleness_threshold = 0 (fully_async_rollouter.py, set_max_required_samples and
\* _should_pause_generation): the trainer trains on samples only that the version it is
\* at began.  What a version may generate is what the trainer requires of it, so when the
\* next version comes no sample is left from the last.
THEOREM OnPolicyCorrect ==
    ASSUME StalenessZero, CapacityAssumption
    PROVE  Spec => OnPolicy
<1> DEFINE I == FlowInv /\ VersionInv /\ BegunInv
<1>1. Init => I
  BY FlowInit, VersionInit, BegunInit
<1>2. I /\ [Next]_vars => I'
  <2> SUFFICES ASSUME I, [Next]_vars PROVE I'
    OBVIOUS
  <2>1. TypeInv /\ Served /\ AccountingInv /\ LastInv /\ CallsInv /\ PolicyInv
        /\ ProcessorSurvives
    BY DEF FlowInv, SurvivesInv
  <2>2. FlowInv'
    BY FlowStep
  <2>3. VersionInv'
    BY <2>1, VersionStep
  <2>4. BegunInv'
    BY <2>1, BegunStep
  <2> QED BY <2>2, <2>3, <2>4
<1>3. I /\ [Next]_vars => [\A s \in received' \ received : version_start[s] = trainer_version]_vars
  BY ReceivedIsOwn DEF FlowInv
<1> QED BY <1>1, <1>2, <1>3, PTL DEF Spec, OnPolicy

-----------------------------------------------------------------------------
\* pause() is not at the lock.
Absent(l) == l.owner # "pause" /\ ~InQueue("pause", l.waiters)

\* It is there once at most.
Single(l) ==
    /\ l.owner = "pause" => ~InQueue("pause", l.waiters)
    /\ \A i, j \in DOMAIN l.waiters : l.waiters[i] = "pause" /\ l.waiters[j] = "pause" => i = j

\* The monitor comes before it.
MonitorFirst(l) ==
    \/ l.owner = "monitor"
    \/ /\ l.owner \notin {"pause", Nobody}
       /\ \E j \in DOMAIN l.waiters :
             l.waiters[j] = "monitor" /\ \A i \in 1..j : l.waiters[i] # "pause"

\* pause() is at the lock once at most, and not before its call has arrived.
PauseOnce == Single(lock) /\ (pc.pause \in {"none", "called"} => Absent(lock))

\* The monitor that is about to lift the pause does so before pause() has the lock.
WatchInv == pc.monitor = "resume_in" => MonitorFirst(lock)

\* The lock's queue, read.
LEMMA LockQueue ==
    ASSUME NEW l \in Lock, NEW c \in Coroutines
    PROVE  /\ Len(l.waiters) \in Nat /\ DOMAIN l.waiters = 1..Len(l.waiters)
           /\ Suspended(l).owner = l.owner /\ Suspended(l).waiters = l.waiters
           /\ l.owner = Nobody => /\ Requested(l, c).owner = c
                                  /\ Requested(l, c).waiters = l.waiters
           /\ l.owner # Nobody =>
                 /\ Requested(l, c).owner = l.owner
                 /\ Requested(l, c).waiters = Append(l.waiters, c)
                 /\ DOMAIN Requested(l, c).waiters = 1..(Len(l.waiters) + 1)
                 /\ \A i \in 1..Len(l.waiters) : Requested(l, c).waiters[i] = l.waiters[i]
                 /\ Requested(l, c).waiters[Len(l.waiters) + 1] = c
           /\ l.waiters = <<>> => Released(l).owner = Nobody /\ Released(l).waiters = <<>>
           /\ l.waiters # <<>> =>
                 /\ Released(l).owner = l.waiters[1] /\ Released(l).owner \in Coroutines
                 /\ Len(l.waiters) > 0
                 /\ DOMAIN Released(l).waiters = 1..(Len(l.waiters) - 1)
                 /\ \A i \in 1..(Len(l.waiters) - 1) : Released(l).waiters[i] = l.waiters[i + 1]
<1>1. l.waiters \in Seq(Coroutines)
  BY DEF Lock
<1>2. /\ Len(l.waiters) \in Nat /\ DOMAIN l.waiters = 1..Len(l.waiters)
      /\ Suspended(l).owner = l.owner /\ Suspended(l).waiters = l.waiters
  BY <1>1 DEF Suspended, Lock
<1>3. ASSUME l.owner = Nobody
      PROVE  Requested(l, c).owner = c /\ Requested(l, c).waiters = l.waiters
  BY <1>3 DEF Requested, Lock
<1>4. ASSUME l.owner # Nobody
      PROVE  /\ Requested(l, c).owner = l.owner
             /\ Requested(l, c).waiters = Append(l.waiters, c)
  BY <1>4 DEF Requested, Lock
<1>5. /\ DOMAIN Append(l.waiters, c) = 1..(Len(l.waiters) + 1)
      /\ \A i \in 1..Len(l.waiters) : Append(l.waiters, c)[i] = l.waiters[i]
      /\ Append(l.waiters, c)[Len(l.waiters) + 1] = c
  BY <1>1
<1>6. ASSUME l.waiters = <<>> PROVE Released(l).owner = Nobody /\ Released(l).waiters = <<>>
  BY <1>6 DEF Released, Lock
<1>7. ASSUME l.waiters # <<>>
      PROVE  /\ Released(l).owner = l.waiters[1] /\ Released(l).owner \in Coroutines
             /\ Len(l.waiters) > 0
             /\ DOMAIN Released(l).waiters = 1..(Len(l.waiters) - 1)
             /\ \A i \in 1..(Len(l.waiters) - 1) : Released(l).waiters[i] = l.waiters[i + 1]
  <2>1. Released(l).owner = Head(l.waiters) /\ Released(l).waiters = Tail(l.waiters)
    BY <1>7 DEF Released
  <2>2. /\ Head(l.waiters) = l.waiters[1] /\ Head(l.waiters) \in Coroutines
        /\ Len(l.waiters) > 0
        /\ DOMAIN Tail(l.waiters) = 1..(Len(l.waiters) - 1)
        /\ \A i \in 1..(Len(l.waiters) - 1) : Tail(l.waiters)[i] = l.waiters[i + 1]
    BY <1>1, <1>7
  <2> QED BY <2>1, <2>2
<1> QED BY <1>2, <1>3, <1>4, <1>5, <1>6, <1>7

\* What the others do at the lock neither brings pause() there nor doubles it.
LEMMA SingleKept ==
    ASSUME NEW l \in Lock, NEW c \in Coroutines \ {"pause"}
    PROVE  /\ Single(l) => Single(Requested(l, c)) /\ Single(Released(l)) /\ Single(Suspended(l))
           /\ Absent(l) => Absent(Requested(l, c)) /\ Absent(Released(l)) /\ Absent(Suspended(l))
<1>1. c \in Coroutines /\ c # "pause" /\ Nobody # "pause"
  BY DEF Nobody
<1>2. ASSUME Single(l) PROVE Single(Requested(l, c))
  <2>1. CASE l.owner = Nobody
    BY <1>1, <1>2, <2>1, LockQueue DEF Single
  <2>2. CASE l.owner # Nobody
    <3> DEFINE w == Requested(l, c).waiters
               n == Len(l.waiters)
    <3>1. /\ Requested(l, c).owner = l.owner /\ DOMAIN w = 1..(n + 1) /\ n \in Nat
          /\ DOMAIN l.waiters = 1..n /\ w[n + 1] = c
          /\ \A i \in 1..n : w[i] = l.waiters[i]
      BY <1>1, <2>2, LockQueue
    <3> HIDE DEF w, n
    <3>2. \A i \in DOMAIN w : w[i] = "pause" => i \in DOMAIN l.waiters /\ w[i] = l.waiters[i]
      <4> SUFFICES ASSUME NEW i \in 1..(n + 1), w[i] = "pause"
                   PROVE  i \in 1..n
        BY <3>1
      <4>1. i # n + 1
        BY <1>1, <3>1
      <4> QED BY <3>1, <4>1
    <3>3. l.owner = "pause" => ~InQueue("pause", w)
      BY <1>2, <3>2 DEF Single, InQueue
    <3>4. \A i, j \in DOMAIN w : w[i] = "pause" /\ w[j] = "pause" => i = j
      BY <1>2, <3>2 DEF Single
    <3> QED BY <3>1, <3>3, <3>4 DEF Single, w
  <2> QED BY <2>1, <2>2
<1>3. ASSUME Single(l) PROVE Single(Released(l))
  <2>1. CASE l.waiters = <<>>
    BY <1>1, <2>1, LockQueue DEF Single, InQueue
  <2>2. CASE l.waiters # <<>>
    <3>1. \A i \in 1..(Len(l.waiters) - 1) : i + 1 \in DOMAIN l.waiters /\ i + 1 # 1
      BY <1>1, LockQueue
    <3>2. 1 \in DOMAIN l.waiters
      BY <1>1, <2>2, LockQueue
    <3> DEFINE r == Released(l)
               n == Len(l.waiters)
    <3>3. /\ r.owner = l.waiters[1] /\ DOMAIN r.waiters = 1..(n - 1) /\ n \in Nat
          /\ \A i \in 1..(n - 1) : r.waiters[i] = l.waiters[i + 1]
      BY <1>1, <2>2, LockQueue
    <3> HIDE DEF r
    <3>4. r.owner = "pause" => ~InQueue("pause", r.waiters)
      BY <1>3, <3>1, <3>2, <3>3 DEF Single, InQueue
    <3>5. ASSUME NEW i \in DOMAIN r.waiters, NEW j \in DOMAIN r.waiters,
                 r.waiters[i] = "pause", r.waiters[j] = "pause"
          PROVE  i = j
      <4>1. i + 1 = j + 1
        BY <1>3, <3>1, <3>3, <3>5 DEF Single
      <4> QED BY <3>3, <4>1
    <3> QED BY <3>4, <3>5 DEF Single, r
  <2> QED BY <2>1, <2>2
<1>4. ASSUME Single(l) PROVE Single(Suspended(l))
  BY <1>1, <1>4, LockQueue DEF Single
<1>5. ASSUME Absent(l) PROVE Absent(Requested(l, c))
  <2>1. CASE l.owner = Nobody
    BY <1>1, <1>5, <2>1, LockQueue DEF Absent
  <2>2. CASE l.owner # Nobody
    <3> DEFINE w == Requested(l, c).waiters
               n == Len(l.waiters)
    <3>1. /\ Requested(l, c).owner = l.owner /\ DOMAIN w = 1..(n + 1) /\ n \in Nat
          /\ DOMAIN l.waiters = 1..n /\ w[n + 1] = c
          /\ \A i \in 1..n : w[i] = l.waiters[i]
      BY <1>1, <2>2, LockQueue
    <3> HIDE DEF w, n
    <3>2. \A i \in DOMAIN w : i = n + 1 \/ i \in DOMAIN l.waiters
      BY <3>1
    <3>3. \A i \in DOMAIN w : w[i] # "pause"
      BY <1>1, <1>5, <3>1, <3>2 DEF Absent, InQueue
    <3> QED BY <1>5, <3>1, <3>3 DEF Absent, InQueue, w
  <2> QED BY <2>1, <2>2
<1>6. ASSUME Absent(l) PROVE Absent(Released(l))
  <2>1. CASE l.waiters = <<>>
    BY <1>1, <2>1, LockQueue DEF Absent, InQueue
  <2>2. CASE l.waiters # <<>>
    <3>1. \A i \in 1..(Len(l.waiters) - 1) : i + 1 \in DOMAIN l.waiters
      BY <1>1, LockQueue
    <3>2. 1 \in DOMAIN l.waiters
      BY <1>1, <2>2, LockQueue
    <3> QED BY <1>1, <1>6, <2>2, <3>1, <3>2, LockQueue DEF Absent, InQueue
  <2> QED BY <2>1, <2>2
<1>7. ASSUME Absent(l) PROVE Absent(Suspended(l))
  BY <1>1, <1>7, LockQueue DEF Absent
<1> QED BY <1>2, <1>3, <1>4, <1>5, <1>6, <1>7

\* pause() itself comes once, and leaves nothing behind.
LEMMA SingleMade ==
    ASSUME NEW l \in Lock
    PROVE  /\ Absent(l) => Single(Requested(l, "pause"))
           /\ Single(l) => Single(Suspended(l))
           /\ Single(l) /\ l.owner = "pause" => Single(Released(l)) /\ Absent(Released(l))
<1>0. "pause" \in Coroutines /\ Nobody # "pause" /\ "main" \in Coroutines \ {"pause"}
  BY DEF Coroutines, Nobody
<1>1. ASSUME Absent(l) PROVE Single(Requested(l, "pause"))
  <2>1. \A i \in DOMAIN l.waiters : l.waiters[i] # "pause"
    BY <1>1 DEF Absent, InQueue
  <2>2. CASE l.owner = Nobody
    BY <1>0, <2>1, <2>2, LockQueue DEF Single, InQueue
  <2>3. CASE l.owner # Nobody
    <3> DEFINE w == Requested(l, "pause").waiters
               n == Len(l.waiters)
    <3>1. /\ Requested(l, "pause").owner = l.owner /\ DOMAIN w = 1..(n + 1) /\ n \in Nat
          /\ DOMAIN l.waiters = 1..n
          /\ \A i \in 1..n : w[i] = l.waiters[i]
      BY <1>0, <2>3, LockQueue
    <3> HIDE DEF w, n
    <3>2. \A i \in DOMAIN w : w[i] = "pause" => i = n + 1
      <4> SUFFICES ASSUME NEW i \in 1..(n + 1), i # n + 1 PROVE w[i] # "pause"
        BY <3>1
      <4>1. i \in 1..n
        BY <3>1
      <4> QED BY <2>1, <3>1, <4>1
    <3> QED BY <1>1, <3>1, <3>2 DEF Single, Absent, w
  <2> QED BY <2>2, <2>3
<1>2. ASSUME Single(l) PROVE Single(Suspended(l)) /\ Single(Released(l))
  BY <1>0, <1>2, SingleKept
<1>3. ASSUME Single(l), l.owner = "pause" PROVE Absent(Released(l))
  <2>1. \A i \in DOMAIN l.waiters : l.waiters[i] # "pause"
    BY <1>3 DEF Single, InQueue
  <2>2. CASE l.waiters = <<>>
    BY <1>0, <2>2, LockQueue DEF Absent, InQueue
  <2>3. CASE l.waiters # <<>>
    <3>1. \A i \in 1..(Len(l.waiters) - 1) : i + 1 \in DOMAIN l.waiters
      BY <1>0, LockQueue
    <3>2. 1 \in DOMAIN l.waiters
      BY <1>0, <2>3, LockQueue
    <3> QED BY <1>0, <2>1, <2>3, <3>1, <3>2, LockQueue DEF Absent, InQueue
  <2> QED BY <2>2, <2>3
<1> QED BY <1>1, <1>2, <1>3

\* The lock serves in turn: whoever comes later stays behind the monitor.
LEMMA FirstStays ==
    ASSUME NEW l \in Lock, NEW c \in Coroutines, MonitorFirst(l)
    PROVE  /\ l.owner \notin {"pause", Nobody}
           /\ MonitorFirst(Requested(l, c)) /\ MonitorFirst(Suspended(l))
           /\ l.owner # "monitor" => MonitorFirst(Released(l))
<1>1. l.owner \notin {"pause", Nobody}
  BY DEF MonitorFirst, Nobody
<1>2. MonitorFirst(Suspended(l))
  BY LockQueue DEF MonitorFirst
<1>3. MonitorFirst(Requested(l, c))
  <2>1. CASE l.owner = "monitor"
    BY <1>1, <2>1, LockQueue DEF MonitorFirst
  <2>2. CASE l.owner # "monitor"
    <3>1. PICK j \in DOMAIN l.waiters :
            l.waiters[j] = "monitor" /\ \A i \in 1..j : l.waiters[i] # "pause"
      BY <2>2 DEF MonitorFirst
    <3>2. j \in 1..Len(l.waiters) /\ j \in DOMAIN Requested(l, c).waiters
          /\ 1..j \subseteq 1..Len(l.waiters)
      BY <1>1, <3>1, LockQueue
    <3>3. /\ Requested(l, c).waiters[j] = "monitor"
          /\ \A i \in 1..j : Requested(l, c).waiters[i] # "pause"
          /\ Requested(l, c).owner = l.owner
      BY <1>1, <3>1, <3>2, LockQueue
    <3> QED BY <1>1, <3>2, <3>3 DEF MonitorFirst
  <2> QED BY <2>1, <2>2
<1>4. ASSUME l.owner # "monitor" PROVE MonitorFirst(Released(l))
  <2>1. PICK j \in DOMAIN l.waiters :
          l.waiters[j] = "monitor" /\ \A i \in 1..j : l.waiters[i] # "pause"
    BY <1>4 DEF MonitorFirst
  <2>2. j \in 1..Len(l.waiters) /\ Len(l.waiters) \in Nat /\ l.waiters # <<>>
    BY <2>1, LockQueue
  <2>3. /\ Released(l).owner = l.waiters[1] /\ Released(l).owner \in Coroutines
        /\ DOMAIN Released(l).waiters = 1..(Len(l.waiters) - 1)
        /\ \A i \in 1..(Len(l.waiters) - 1) : Released(l).waiters[i] = l.waiters[i + 1]
    BY <2>2, LockQueue
  <2>4. CASE j = 1
    BY <2>1, <2>3, <2>4 DEF MonitorFirst
  <2>5. CASE j # 1
    <3>1. /\ j - 1 \in 1..(Len(l.waiters) - 1) /\ 1 \in 1..j
          /\ \A i \in 1..(j - 1) : i \in 1..(Len(l.waiters) - 1) /\ i + 1 \in 1..j
      BY <2>2, <2>5
    <3>2. Released(l).waiters[j - 1] = "monitor"
      BY <2>1, <2>2, <2>3, <3>1
    <3>3. \A i \in 1..(j - 1) : Released(l).waiters[i] # "pause"
      BY <2>1, <2>3, <3>1
    <3>4. Released(l).owner \notin {"pause", Nobody}
      BY <2>1, <2>3, <3>1, NobodyIsNone
    <3> QED BY <2>3, <3>1, <3>2, <3>3, <3>4 DEF MonitorFirst
  <2> QED BY <2>4, <2>5
<1> QED BY <1>1, <1>2, <1>3, <1>4

\* When pause() is not there, the monitor asks before it.
LEMMA FirstMade ==
    ASSUME NEW l \in Lock, Absent(l)
    PROVE  MonitorFirst(Requested(l, "monitor"))
<1>0. "monitor" \in Coroutines
  BY DEF Coroutines
<1>1. CASE l.owner = Nobody
  BY <1>0, <1>1, LockQueue DEF MonitorFirst
<1>2. CASE l.owner # Nobody
  <2> DEFINE n == Len(l.waiters) + 1
             w == Requested(l, "monitor").waiters
  <2>1. /\ n \in DOMAIN w /\ w[n] = "monitor" /\ n - 1 = Len(l.waiters) /\ n \in Nat
        /\ DOMAIN l.waiters = 1..Len(l.waiters)
        /\ \A i \in 1..Len(l.waiters) : w[i] = l.waiters[i]
        /\ Requested(l, "monitor").owner = l.owner
    BY <1>0, <1>2, LockQueue
  <2>2. \A i \in 1..n : i = n \/ i \in 1..Len(l.waiters)
    BY <2>1
  <2>3. \A i \in 1..n : w[i] # "pause"
    BY <2>1, <2>2 DEF Absent, InQueue
  <2> QED BY <1>2, <2>1, <2>3 DEF MonitorFirst, Absent
<1> QED BY <1>1, <1>2

-----------------------------------------------------------------------------

\* At the start nobody is at the lock.
LEMMA PauseOnceInit == Init => PauseOnce
BY DEF Init, RollouterInit, PauseOnce, Single, Absent, InQueue, Nobody

\* pause() comes to the lock once, when it is called.
LEMMA PauseOnceStep ==
    ASSUME TypeInv, LockInv, CallsInv, PauseOnce, [Next]_vars
    PROVE  PauseOnce'
<1>0. PcTyped /\ lock \in Lock
  BY DEF TypeInv
<1>1. ASSUME lock' = lock, pc'.pause = pc.pause PROVE PauseOnce'
  BY <1>1 DEF PauseOnce
<1>2. ASSUME NEW c \in Coroutines \ {"pause"}, UsesLock(c), pc'.pause = pc.pause
      PROVE  PauseOnce'
  <2>1. Released(lock) \in Lock /\ c \in Coroutines
    BY <1>0, <1>2, LockTypes
  <2> QED BY <1>0, <1>2, <2>1, SingleKept DEF PauseOnce, UsesLock
<1>3. CASE PauseStep
  <2>1. CASE CallArrives("pause") /\ pc.pause = "called" /\ pc'.pause = "locked"
    BY <1>0, <2>1, SingleMade DEF CallArrives, AskLock, PauseOnce
  <2>2. CASE PauseBegin /\ pc'.pause \in {"cancel", "gather"}
    BY <1>0, <2>2, SingleMade DEF PauseBegin, KeepLock, PauseOnce
  <2>3. CASE ServerCancel /\ pc'.pause = "gather"
    BY <2>3 DEF ServerCancel, PauseOnce
  <2>4. CASE PauseGathered /\ pc'.pause = "reset"
    BY <2>4 DEF PauseGathered, PauseOnce
  <2>5. CASE PauseEnd /\ pc.pause = "reset"
    <3>1. lock.owner = "pause"
      BY <2>5 DEF LockInv, HoldsLock, Coroutines
    <3> QED BY <1>0, <2>5, <3>1, SingleMade DEF PauseEnd, LeaveLock, PauseOnce
  <2> QED BY <1>0, <1>3, <2>1, <2>2, <2>3, <2>4, <2>5, PauseDoes
<1>4. CASE TrainerStep
  <2>1. lock' = lock
    BY <1>4, LockLeftAlone
  <2>2. pc'.pause = pc.pause \/ (pc.pause = "none" /\ pc'.pause = "called")
    BY <1>0, <1>4, TrainerDoes DEF CallsInv
  <2> QED BY <2>1, <2>2 DEF PauseOnce
<1>5. CASE \/ FeederStep \/ ConsumerStep \/ PutSample \/ Terminated \/ UNCHANGED vars
           \/ \E s \in Samples : TaskStep(s) \/ ServerStep(s)
  BY <1>1, <1>5, LockLeftAlone, OthersDoNotMove
<1>6. CASE ProcessorStep \/ MainStep \/ PutEndSignal
  BY <1>0, <1>2, <1>6, LocksUsed, ProcessorMoves, MainMoves DEF Moves, Coroutines
<1>7. CASE MonitorStep
  BY <1>0, <1>2, <1>7, LocksUsed, MonitorMoves DEF Moves, Notifies, Coroutines
<1>8. CASE UpdateStep \/ PutValidate
  BY <1>0, <1>2, <1>8, LocksUsed, UpdateMoves DEF Moves, Coroutines
<1>9. CASE ResumeStep
  BY <1>0, <1>2, <1>9, LocksUsed, ResumeMoves DEF Moves, Notifies, Coroutines
<1> QED BY <1>3, <1>4, <1>5, <1>6, <1>7, <1>8, <1>9 DEF Next

\* The monitor asks for the lock only when no pause() is there, and so gets it first.
LEMMA WatchStep ==
    ASSUME TypeInv, LockInv, AccountingInv, ProcessorSurvives, LastInv, CallsInv, PaceInv,
           CountInv, PauseOnce, WatchInv, [Next]_vars
    PROVE  WatchInv'
<1>0. PcTyped /\ lock \in Lock
  BY DEF TypeInv
<1>1. ASSUME lock' = lock, pc'.monitor = pc.monitor PROVE WatchInv'
  BY <1>1 DEF WatchInv
<1>2. ASSUME NEW c \in Coroutines \ {"monitor"}, ObeysLock(c), pc'.monitor = pc.monitor
      PROVE  WatchInv'
  <2> SUFFICES ASSUME MonitorFirst(lock) PROVE MonitorFirst(lock')
    BY <1>2 DEF WatchInv
  <2>1. CASE lock' \in {lock, Requested(lock, c), Suspended(lock)}
    BY <1>0, <2>1, FirstStays
  <2>2. CASE lock.owner = c /\ lock' \in {Released(lock), Requested(Released(lock), c)}
    <3>1. MonitorFirst(Released(lock)) /\ Released(lock) \in Lock
      BY <1>0, <1>2, <2>2, FirstStays, LockTypes
    <3>2. MonitorFirst(Requested(Released(lock), c))
      BY <1>2, <3>1, FirstStays
    <3> QED BY <2>2, <3>1, <3>2
  <2> QED BY <1>2, <2>1, <2>2 DEF ObeysLock
<1>3. CASE MonitorStep
  <2>1. CASE MonitorResume
    <3> DEFINE p == [pc EXCEPT !["monitor"] = IF running THEN "sleep" ELSE "done"]
    <3>1. pc' = Notified(p)
      BY <2>1 DEF MonitorResume
    <3>2. p \in [Coroutines -> Labels] /\ p["monitor"] \in {"sleep", "done"}
      BY <1>0 DEF PcTyped, Coroutines, Labels
    <3> HIDE DEF p
    <3>3. pc'.monitor # "resume_in"
      BY <3>1, <3>2, NotifiedWakes DEF Coroutines
    <3> QED BY <3>3 DEF WatchInv
  <2>2. CASE MonitorTurn(queue_size)
    <3>1. ASSUME NEW label \in Labels, Goto("monitor", label) PROVE pc'.monitor = label
      BY <1>0, <3>1, GotoLabel DEF Coroutines
    <3>2. CASE ~ShouldPause(queue_size) /\ AskLock("monitor", "resume_in")
      <4>1. ~(staleness_samples >= MaxRequiredSamples)
        BY <3>2 DEF ShouldPause
      <4>2. staleness_samples # MaxRequiredSamples
        BY <4>1 DEF TypeInv, CountTyped
      <4>3. ~Synced
        BY <4>2, SyncedIsEmpty
      <4>4. Absent(lock)
        BY <4>3 DEF Synced, CallsInv, PauseOnce
      <4>5. MonitorFirst(Requested(lock, "monitor"))
        BY <1>0, <4>4, FirstMade
      <4> QED BY <3>2, <4>5 DEF AskLock, WatchInv
    <3>3. CASE Goto("monitor", "done")
      BY <3>1, <3>3 DEF WatchInv, Labels
    <3> QED BY <2>2, <3>2, <3>3 DEF MonitorTurn
  <2> QED BY <1>3, <2>1, <2>2 DEF MonitorStep
<1>4. CASE \/ FeederStep \/ ConsumerStep \/ PutSample \/ Terminated \/ UNCHANGED vars
           \/ \E s \in Samples : TaskStep(s) \/ ServerStep(s)
  BY <1>1, <1>4, LockLeftAlone, OthersDoNotMove
<1>5. CASE TrainerStep
  BY <1>0, <1>1, <1>5, LockLeftAlone, TrainerMoves
<1>6. CASE ProcessorStep
  BY <1>0, <1>2, <1>6, ProcessorObeys, ProcessorMoves DEF Moves, Coroutines
<1>7. CASE MainStep \/ PutEndSignal
  BY <1>0, <1>2, <1>7, OthersObey, MainMoves DEF Moves, Coroutines
<1>8. CASE PauseStep
  BY <1>0, <1>2, <1>8, OthersObey, PauseMoves DEF Moves, Coroutines
<1>9. CASE UpdateStep \/ PutValidate
  BY <1>0, <1>2, <1>9, OthersObey, UpdateMoves DEF Moves, Coroutines
<1>10. CASE ResumeStep
  BY <1>0, <1>2, <1>10, OthersObey, ResumeMoves DEF Moves, Notifies, Coroutines
<1> QED BY <1>3, <1>4, <1>5, <1>6, <1>7, <1>8, <1>9, <1>10 DEF Next

-----------------------------------------------------------------------------
\* From the pause of pause() to the reset of resume() the rollouter is paused.
Halted ==
    \/ pc.pause \in {"cancel", "gather", "reset"}
    \/ trainer = "pausing" /\ pc.pause = "none"
    \/ trainer = "weights"
    \/ pc.resume \in {"called", "locked"}

\* It stays so, with nothing in it, and the servers are paused meanwhile at most.
StillInv ==
    /\ Halted => paused /\ pc.monitor # "resume_in"
    /\ Halted => Live = {} /\ held = 0 /\ pc.processor # "get"
    /\ Halted /\ pc.pause = "none" => ~monitor_loop_trigger
    /\ pc.resume = "server" => Live = {}
    /\ server_paused => Halted \/ pc.resume = "server"

\* Until the end signal, that is; no sample is ever interrupted.
HaltInv ==
    /\ PauseOnce
    /\ ~PartialRollout => NoneCancelled
    /\ cancel_queue = <<>>
    /\ ~Ended => WatchInv /\ StillInv

\* At the start nothing is halted.
LEMMA HaltInit == Init => HaltInv
<1>1. Init => PauseOnce /\ NoneCancelled
  BY PauseOnceInit, DeliveredInit DEF DeliveredInv
<1>2. Init => WatchInv /\ StillInv
  BY DEF Init, RollouterInit, TrainerInit, WatchInv, StillInv, Halted
<1> QED BY <1>1, <1>2 DEF HaltInv, NoneCancelled

\* What touches neither the calls nor the flags leaves the halt as it is.
LEMMA StillKept ==
    ASSUME StillInv,
           UNCHANGED <<trainer, paused, monitor_loop_trigger, server_paused>>,
           pc'.pause = pc.pause, pc'.resume = pc.resume, held' = held, Live' \subseteq Live,
           pc'.monitor = "resume_in" => pc.monitor = "resume_in",
           pc'.processor = "get" => pc.processor = "get"
    PROVE  StillInv'
<1>1. Halted' = Halted
  BY DEF Halted
<1> QED BY <1>1 DEF StillInv

\* A paused processor takes no sample and creates no task.
LEMMA PausedProcessor ==
    ASSUME TypeInv, ProcessorStep, paused, pc.processor # "get"
    PROVE  UNCHANGED <<held, task>> /\ pc'.processor # "get"
<1>0. PcTyped
  BY DEF TypeInv
<1>1. UNCHANGED <<held, task>>
  BY DEF ProcessorStep, ProcessorTop, GetPending, SetPaused, AwaitTasks, Reap, Idle, Woken, Submit,
     OnlyControl, OnlyFlags, OnlyReaps, OnlyIntake, intakeVars, taskVars
<1>2. ASSUME pc'.processor = "get" PROVE FALSE
  <2>1. ProcessorTop(queue_size)
    BY <1>0, <1>2, GoesToGet DEF GetPending
  <2>2. Goto("processor", "pause_in")
    BY <2>1 DEF ProcessorTop, AskLock
  <2> QED BY <1>0, <1>2, <2>2, GotoLabel DEF Coroutines, Labels
<1> QED BY <1>1, <1>2

\* The lock is resume()'s while the servers resume: the processor creates no task.
LEMMA ResumingProcessor ==
    ASSUME LockInv, ProcessorStep, pc.resume = "server"
    PROVE  task' = task
<1>1. lock.owner # "processor"
  BY DEF LockInv, HoldsLock, Coroutines
<1> QED BY <1>1 DEF ProcessorStep, ProcessorTop, GetPending, SetPaused, AwaitTasks, Reap, Idle,
        Woken, Submit, InLock, OnlyControl, OnlyFlags, OnlyReaps, OnlyIntake, taskVars

\* The flags of the rollouter and its servers are left alone by all but these.
LEMMA FlagsLeftAlone ==
    ASSUME [Next]_vars, ~ProcessorStep, ~MonitorStep, ~PauseStep, ~ResumeStep
    PROVE  UNCHANGED <<paused, monitor_loop_trigger, server_paused>>
<1> USE DEF OnlyControl, OnlyFlags, OnlyIntake, OnlyOutput, flagVars, serverVars
<1>1. CASE MainStep \/ PutEndSignal \/ UpdateStep \/ PutValidate \/ FeederStep
  BY <1>1 DEF MainStep, MainJoined, StopRunning, PutEndSignal, EndSignalDelivered, UpdateStep,
     CallArrives, UpdateCount, UpdateSized, PutValidate, UpdateReported, FeederStep, Feed
<1>2. CASE ConsumerStep \/ PutSample
  BY <1>2 DEF ConsumerStep, ConsumerTake, PutSample, PutDelivered
<1>3. CASE TrainerStep
  BY <1>3 DEF TrainerStep, GetSample, ReadValidate, Train, WaitLastValid, PauseReturned,
     SyncWeights, rollouterVars
<1>4. CASE Terminated \/ UNCHANGED vars
  BY <1>4 DEF Terminated, vars, rollouterVars
<1>5. CASE \E s \in Samples : TaskStep(s) \/ ServerStep(s)
  BY <1>5 DEF TaskStep, StartTask, EndTask, ServerStep, ServerAdmit
<1> QED BY <1>1, <1>2, <1>3, <1>4, <1>5 DEF Next

\* The processor keeps the halt.
LEMMA StillProcessor ==
    ASSUME TypeInv, LockInv, StillInv, ProcessorStep
    PROVE  StillInv'
<1>0. PcTyped /\ paused \in BOOLEAN
  BY DEF TypeInv, FlagTyped
<1>1. /\ pc'.pause = pc.pause /\ pc'.resume = pc.resume /\ pc'.monitor = pc.monitor
      /\ trainer' = trainer
  BY <1>0, ProcessorMoves DEF Moves, Coroutines, ProcessorStep, Alone, trainerVars
<1>2. UNCHANGED <<monitor_loop_trigger, server_paused>> /\ paused' \in {paused, TRUE}
  BY DEF ProcessorStep, ProcessorTop, GetPending, SetPaused, AwaitTasks, Reap, Idle, Woken, Submit,
     OnlyControl, OnlyFlags, OnlyReaps, OnlyIntake, flagVars, serverVars
<1>3. Halted' = Halted
  BY <1>1 DEF Halted
<1>4. ASSUME Halted PROVE UNCHANGED <<held, task>> /\ pc'.processor # "get"
  BY <1>4, PausedProcessor DEF StillInv
<1>5. ASSUME pc.resume = "server" PROVE Live' = Live
  BY <1>5, ResumingProcessor DEF Live
<1>6. Halted' => paused' /\ pc'.monitor # "resume_in"
  BY <1>1, <1>2, <1>3 DEF StillInv
<1>7. Halted' => Live' = {} /\ held' = 0 /\ pc'.processor # "get"
  BY <1>3, <1>4 DEF StillInv, Live
<1>8. Halted' /\ pc'.pause = "none" => ~monitor_loop_trigger'
  BY <1>1, <1>2, <1>3 DEF StillInv
<1>9. pc'.resume = "server" => Live' = {}
  BY <1>1, <1>5 DEF StillInv
<1>10. server_paused' => Halted' \/ pc'.resume = "server"
  BY <1>1, <1>2, <1>3 DEF StillInv
<1> QED BY <1>6, <1>7, <1>8, <1>9, <1>10 DEF StillInv

\* The monitor finds the limit reached, or is told to keep away.
LEMMA StillMonitor ==
    ASSUME TypeInv, AccountingInv, ProcessorSurvives, LastInv, CallsInv, PaceInv, CountInv,
           StillInv, MonitorStep, [Next]_vars, ~ProcessorStep
    PROVE  StillInv'
<1>0. PcTyped
  BY DEF TypeInv
<1>1. /\ pc'.pause = pc.pause /\ pc'.resume = pc.resume
      /\ pc'.processor = "get" => pc.processor = "get"
      /\ trainer' = trainer /\ held' = held /\ Live' \subseteq Live
  BY <1>0, MonitorMoves, TasksOnlyEnd DEF Moves, Notifies, Coroutines, MonitorStep, Alone,
     trainerVars
<1>2. Halted' = Halted
  BY <1>1 DEF Halted
<1>3. CASE ~Halted
  <2>1. server_paused' = server_paused
    BY DEF MonitorStep, MonitorTurn, MonitorResume, OnlyControl, OnlyFlags, serverVars
  <2> QED BY <1>1, <1>2, <1>3, <2>1 DEF StillInv
<1>4. CASE Halted
  <2>1. ~MonitorResume
    BY <1>4 DEF MonitorResume, InLock, StillInv
  <2>2. ~(monitor_loop_trigger /\ ~ShouldPause(queue_size))
    <3>1. CASE pc.pause = "none"
      BY <1>4, <3>1 DEF StillInv
    <3>2. CASE pc.pause # "none"
      <4>1. staleness_samples = MaxRequiredSamples
        BY <3>2, SyncedIsEmpty DEF CallsInv, Synced
      <4> QED BY <4>1 DEF ShouldPause
    <3> QED BY <3>1, <3>2
  <2>3. Goto("monitor", "done") /\ OnlyControl
    BY <2>1, <2>2 DEF MonitorStep, MonitorTurn
  <2>4. pc'.monitor # "resume_in"
    BY <1>0, <2>3, GotoLabel DEF Coroutines, Labels
  <2>5. UNCHANGED <<paused, monitor_loop_trigger, server_paused>>
    BY <2>3 DEF OnlyControl, flagVars, serverVars
  <2> QED BY <1>1, <2>4, <2>5, StillKept
<1> QED BY <1>3, <1>4

\* pause() finds the rollouter empty, and the monitor gone from the lock.
LEMMA StillPause ==
    ASSUME TypeInv, LockInv, AccountingInv, ProcessorSurvives, LastInv, CallsInv, PaceInv,
           CountInv, WatchInv, StillInv, PauseStep, [Next]_vars, ~ProcessorStep
    PROVE  StillInv'
<1>0. PcTyped /\ lock \in Lock
  BY DEF TypeInv
<1>1. /\ \A c \in Coroutines \ {"pause"} : pc'[c] = pc[c]
      /\ trainer' = trainer /\ held' = held /\ Live' \subseteq Live
  BY <1>0, PauseDoes, TasksOnlyEnd DEF trainerVars
<1>2. pc'.resume = pc.resume /\ pc'.monitor = pc.monitor /\ pc'.processor = pc.processor
  BY <1>1 DEF Coroutines
<1>3. pc.pause # "none"
  BY <1>0, PauseDoes
<1>4. trainer = "pausing" /\ pc.resume = "none"
  BY <1>3 DEF CallsInv
<1>5. CASE CallArrives("pause") /\ pc.pause = "called" /\ pc'.pause = "locked"
  <2>1. ~Halted /\ ~Halted'
    BY <1>1, <1>2, <1>4, <1>5 DEF Halted
  <2>2. server_paused' = server_paused
    BY <1>5 DEF CallArrives, OnlyControl, serverVars
  <2> QED BY <1>2, <1>4, <2>1, <2>2 DEF StillInv
<1>6. CASE PauseBegin /\ pc'.pause \in {"cancel", "gather"}
  <2>1. paused' /\ lock.owner = "pause"
    BY <1>6 DEF PauseBegin, InLock
  <2>2. pc.monitor # "resume_in"
    BY <2>1 DEF WatchInv, MonitorFirst
  <2>3. Live = {} /\ held = 0 /\ pc.processor # "get"
    BY <1>4, SyncedIsEmpty DEF Synced
  <2>4. Halted'
    BY <1>6 DEF Halted
  <2> QED BY <1>1, <1>2, <1>4, <1>6, <2>1, <2>2, <2>3, <2>4 DEF StillInv
<1>7. CASE ServerCancel /\ pc.pause = "cancel" /\ pc'.pause = "gather"
  <2>1. Halted /\ Halted'
    BY <1>7 DEF Halted
  <2>2. paused' = paused
    BY <1>7 DEF ServerCancel, flagVars
  <2> QED BY <1>1, <1>2, <1>4, <1>7, <2>1, <2>2 DEF StillInv
<1>8. CASE PauseGathered /\ pc.pause = "gather" /\ pc'.pause = "reset"
  <2>1. Halted /\ Halted'
    BY <1>8 DEF Halted
  <2>2. paused' = paused
    BY <1>8 DEF PauseGathered, OnlyReaps, flagVars
  <2> QED BY <1>1, <1>2, <1>4, <1>8, <2>1, <2>2 DEF StillInv
<1>9. CASE PauseEnd /\ pc.pause = "reset" /\ pc'.pause = "none"
  <2>1. Halted /\ Halted'
    BY <1>1, <1>4, <1>9 DEF Halted
  <2>2. paused' = paused /\ ~monitor_loop_trigger'
    BY <1>9 DEF PauseEnd
  <2> QED BY <1>1, <1>2, <1>4, <2>1, <2>2 DEF StillInv
<1> QED BY <1>0, <1>5, <1>6, <1>7, <1>8, <1>9, PauseDoes

\* resume() ends the halt, and then the pause of the servers.
LEMMA StillResume ==
    ASSUME TypeInv, CallsInv, ~PartialRollout => NoneCancelled, StillInv, ResumeStep,
           [Next]_vars, ~ProcessorStep
    PROVE  StillInv'
<1>0. PcTyped
  BY DEF TypeInv
<1>1. /\ pc'.pause = pc.pause /\ pc'.monitor = pc.monitor
      /\ pc'.processor = "get" => pc.processor = "get"
      /\ trainer' = trainer /\ held' = held /\ Live' \subseteq Live
  BY <1>0, ResumeDoes, TasksOnlyEnd DEF trainerVars, Coroutines
<1>2. pc.resume # "none"
  BY <1>0, ResumeDoes
<1>3. trainer \notin {"pausing", "weights"} /\ pc.pause = "none"
  BY <1>2 DEF CallsInv
<1>4. Halted <=> pc.resume \in {"called", "locked"}
  BY <1>3 DEF Halted
<1>5. Halted' <=> pc'.resume \in {"called", "locked"}
  BY <1>1, <1>3 DEF Halted
<1>6. CASE CallArrives("resume") /\ pc.resume = "called" /\ pc'.resume = "locked"
  <2>1. UNCHANGED <<paused, monitor_loop_trigger, server_paused>>
    BY <1>6 DEF CallArrives, OnlyControl, flagVars, serverVars
  <2> QED BY <1>1, <1>4, <1>5, <1>6, <2>1 DEF StillInv
<1>7. CASE ResumeBegin /\ pc.resume = "locked"
           /\ pc'.resume = IF PartialRollout THEN "server" ELSE "none"
  <2>1. Halted /\ ~Halted'
    BY <1>4, <1>5, <1>7
  <2>2. server_paused' = server_paused
    BY <1>7 DEF ResumeBegin, OnlyFlags, serverVars
  <2>3. server_paused' => pc'.resume = "server"
    BY <1>7, <2>2 DEF NoneCancelled
  <2> QED BY <1>1, <2>1, <2>3 DEF StillInv
<1>8. CASE ServerResume /\ pc'.resume = "none"
  <2>1. ~server_paused' /\ ~Halted'
    BY <1>5, <1>8 DEF ServerResume
  <2> QED BY <1>8, <2>1 DEF StillInv
<1> QED BY <1>0, <1>6, <1>7, <1>8, ResumeDoes

\* The trainer passes the halt from one call to the next.
LEMMA StillTrainer ==
    ASSUME TypeInv, CallsInv, StillInv, TrainerStep, ~Ended', [Next]_vars, ~ProcessorStep,
           ~MonitorStep, ~PauseStep, ~ResumeStep
    PROVE  StillInv'
<1>0. PcTyped
  BY DEF TypeInv
<1>1. /\ UNCHANGED <<paused, monitor_loop_trigger, server_paused>>
      /\ held' = held /\ Live' \subseteq Live
      /\ pc'.processor = pc.processor /\ pc'.monitor = pc.monitor
  BY <1>0, FlagsLeftAlone, TasksOnlyEnd, TrainerMoves
<1>2. CASE (GetSample \/ ReadValidate \/ Train) /\ pc' = pc
  <2>1. trainer' = trainer \/ {trainer, trainer'} \cap {"pausing", "weights"} = {}
    BY <1>2 DEF GetSample, ReceiveEnd, Receive, ReadValidate, ReadFirst, ReadAfterStep,
       ReadFinal, Train, TrainBatch, EndTraining, NewVersion, trainerVars
  <2>2. Halted' = Halted
    BY <1>2, <2>1 DEF Halted
  <2> QED BY <1>1, <1>2, <2>2 DEF StillInv
<1>3. CASE /\ WaitLastValid /\ pc.update = "none" /\ pc.resume = "none"
           /\ trainer \in {"wait_last", "wait_final", "wait_end"}
           /\ trainer' = IF trainer = "wait_end" THEN "last_read" ELSE "pausing"
           /\ pc'.pause = IF trainer' = "pausing" THEN "called" ELSE pc.pause
           /\ pc'.update = pc.update /\ pc'.resume = pc.resume
  <2>1. trainer' = "pausing" /\ pc'.pause = "called"
    BY <1>3 DEF Ended
  <2>2. pc.pause = "none"
    BY <1>3 DEF CallsInv
  <2>3. ~Halted /\ ~Halted'
    BY <1>3, <2>1, <2>2 DEF Halted
  <2> QED BY <1>1, <1>3, <2>3 DEF StillInv
<1>4. CASE PauseReturned /\ trainer = "pausing" /\ trainer' = "weights" /\ pc.pause = "none"
           /\ pc' = pc
  <2>1. Halted /\ Halted'
    BY <1>4 DEF Halted
  <2> QED BY <1>1, <1>4, <2>1 DEF StillInv
<1>5. CASE /\ SyncWeights /\ trainer = "weights"
           /\ trainer' = IF validate THEN "wait_end" ELSE "read"
           /\ pc'.update = "called" /\ pc'.resume = "called" /\ pc'.pause = pc.pause
  <2>1. Halted /\ Halted'
    BY <1>5 DEF Halted
  <2>2. pc.pause = "none"
    BY <1>5 DEF CallsInv
  <2> QED BY <1>1, <1>5, <2>1, <2>2 DEF StillInv
<1> QED BY <1>0, <1>2, <1>3, <1>4, <1>5, TrainerDoes

\* Every step before the end keeps the halt.
LEMMA StillStep ==
    ASSUME TypeInv, LockInv, AccountingInv, ProcessorSurvives, LastInv, CallsInv, PaceInv,
           CountInv, ~PartialRollout => NoneCancelled, WatchInv, StillInv, ~Ended', [Next]_vars
    PROVE  StillInv'
<1>0. PcTyped
  BY DEF TypeInv
<1>1. CASE ProcessorStep
  BY <1>1, StillProcessor
<1>2. CASE ~ProcessorStep
  <2>1. CASE MonitorStep
    BY <1>2, <2>1, StillMonitor
  <2>2. CASE PauseStep
    BY <1>2, <2>2, StillPause
  <2>3. CASE ResumeStep
    BY <1>2, <2>3, StillResume
  <2>4. CASE ~MonitorStep /\ ~PauseStep /\ ~ResumeStep
    <3>1. CASE TrainerStep
      BY <1>2, <2>4, <3>1, StillTrainer
    <3>2. CASE ~TrainerStep
      <4>1. UNCHANGED <<paused, monitor_loop_trigger, server_paused>>
        BY <1>2, <2>4, FlagsLeftAlone
      <4>2. trainer' = trainer /\ held' = held /\ Live' \subseteq Live
        BY <1>2, <3>2, OnlyTrainer, TasksOnlyEnd DEF trainerVars
      <4>3. pc'.processor = "get" => pc.processor = "get"
        BY <1>0, <1>2, ProcessorMovedByNobody
      <4>4. pc'.pause = pc.pause /\ pc'.resume = pc.resume /\ pc'.monitor = pc.monitor
        <5>1. CASE MainStep \/ PutEndSignal \/ UpdateStep \/ PutValidate
          BY <1>0, <5>1, MainMoves, UpdateMoves DEF Moves, Coroutines
        <5>2. CASE \/ FeederStep \/ ConsumerStep \/ PutSample \/ Terminated \/ UNCHANGED vars
                   \/ \E s \in Samples : TaskStep(s) \/ ServerStep(s)
          BY <5>2, OthersDoNotMove
        <5> QED BY <1>2, <2>4, <3>2, <5>1, <5>2 DEF Next
      <4> QED BY <4>1, <4>2, <4>3, <4>4, StillKept
    <3> QED BY <3>1, <3>2
  <2> QED BY <2>1, <2>2, <2>3, <2>4
<1> QED BY <1>1, <1>2

-----------------------------------------------------------------------------
\* Only a task that is interrupted queues its sample to be continued.
LEMMA CancelsLeftAlone ==
    ASSUME [Next]_vars, ~ProcessorStep
    PROVE  \/ cancel_queue' = cancel_queue
           \/ \E s \in Samples : EndTask(s) /\ "cancelled" \in Answers(s)
<1>1. CASE MainStep \/ MonitorStep \/ PauseStep \/ ResumeStep \/ PutValidate \/ FeederStep
           \/ Terminated \/ UNCHANGED vars
  BY <1>1, ControlKeepsSamples DEF placeVars
<1>2. CASE UpdateStep \/ PutEndSignal \/ PutSample \/ ConsumerStep
  BY <1>2 DEF UpdateStep, CallArrives, UpdateCount, UpdateSized, PutEndSignal, EndSignalDelivered,
     PutSample, PutDelivered, ConsumerStep, ConsumerTake, OnlyControl, OnlyOutput, intakeVars
<1>3. CASE TrainerStep
  BY <1>3 DEF TrainerStep, GetSample, ReadValidate, Train, WaitLastValid, PauseReturned,
     SyncWeights, OnlyControl, rollouterVars, intakeVars
<1>4. CASE \E s \in Samples : TaskStep(s) \/ ServerStep(s)
  BY <1>4 DEF TaskStep, StartTask, EndTask, ServerStep, ServerAdmit, intakeVars
<1> QED BY <1>1, <1>2, <1>3, <1>4 DEF Next

\* A paused server has no request to interrupt.
LEMMA CancelStep ==
    ASSUME TypeInv, EndInv, HaltInv, [Next]_vars
    PROVE  cancel_queue' = <<>>
<1>1. CASE ProcessorStep
  BY <1>1, FinishesEmpty DEF HaltInv, EndInv
<1>2. CASE ~ProcessorStep
  <2>1. server_paused => Live = {}
    <3>1. CASE Ended
      BY <3>1 DEF EndInv, Signalled
    <3>2. CASE ~Ended
      BY <3>2 DEF HaltInv, StillInv
    <3> QED BY <3>1, <3>2
  <2>2. \A s \in Samples : "cancelled" \notin Answers(s)
    BY <2>1 DEF Answers, Live
  <2> QED BY <1>2, <2>2, CancelsLeftAlone DEF HaltInv
<1> QED BY <1>1, <1>2

\* So nothing is interrupted.
LEMMA HaltStep ==
    ASSUME TypeInv, LockInv, AccountingInv, ProcessorSurvives, LastInv, CallsInv, PolicyInv,
           EndInv, HaltInv, [Next]_vars
    PROVE  HaltInv'
<1>1. PauseOnce'
  BY PauseOnceStep DEF HaltInv
<1>2. (~PartialRollout => NoneCancelled)'
  BY NoneCancelledStep DEF HaltInv
<1>3. cancel_queue' = <<>>
  BY CancelStep
<1>4. ASSUME ~Ended' PROVE WatchInv' /\ StillInv'
  <2>1. ~Ended /\ PaceInv /\ CountInv /\ WatchInv /\ StillInv /\ PauseOnce
    BY <1>4, EndsForGood DEF PolicyInv, HaltInv
  <2>2. ~PartialRollout => NoneCancelled
    BY DEF HaltInv
  <2>3. WatchInv'
    BY <2>1, WatchStep
  <2>4. StillInv'
    BY <1>4, <2>1, <2>2, StillStep
  <2> QED BY <2>3, <2>4
<1> QED BY <1>1, <1>2, <1>3, <1>4 DEF HaltInv

\* The invariant of what follows.
EmptyInv == FlowInv /\ LockInv /\ EndInv /\ HaltInv

\* It is inductive.
LEMMA EmptyInvCorrect ==
    ASSUME StalenessZero, CapacityAssumption, MaxFailures = 0
    PROVE  Spec => []EmptyInv
<1>1. Init => EmptyInv
  BY FlowInit, BudgetInit, DeliveredInit, HaltInit DEF EmptyInv, DeliveredInv
<1>2. EmptyInv /\ [Next]_vars => EmptyInv'
  <2> SUFFICES ASSUME EmptyInv, [Next]_vars PROVE EmptyInv'
    OBVIOUS
  <2>0. /\ TypeInv /\ Served /\ AccountingInv /\ LockInv
        /\ LastInv /\ CallsInv /\ PolicyInv /\ EndInv /\ HaltInv
        /\ ProcessorSurvives
    BY DEF EmptyInv, FlowInv, SurvivesInv
  <2>1. FlowInv'
    BY FlowStep DEF EmptyInv
  <2>2. LockInv'
    BY <2>0, LockInvStep DEF TypeInv
  <2>3. EndInv'
    BY <2>0, EndStep DEF HaltInv
  <2>4. HaltInv'
    BY <2>0, HaltStep
  <2> QED BY <2>1, <2>2, <2>3, <2>4 DEF EmptyInv
<1> QED BY <1>1, <1>2, PTL DEF Spec

\* staleness_threshold = 0, the last synchronisation included: when pause() has been called
\* and until the weights are loaded no sample is on its way (fully_async_rollouter.py, pause;
\* param_sync.py, sync_weights).  A failed request spoils this: the processor dies of it, and
\* main signals the end while tasks run and samples wait.
THEOREM FixedRolloutNumberCorrect ==
    ASSUME StalenessZero, CapacityAssumption, MaxFailures = 0
    PROVE  Spec => []FixedRolloutNumber
<1>1. EmptyInv => FixedRolloutNumber
  <2> SUFFICES ASSUME EmptyInv, trainer \in {"pausing", "weights"} PROVE Outstanding = {}
    BY DEF FixedRolloutNumber
  <2>1. /\ TypeInv /\ AccountingInv /\ LastInv /\ PolicyInv /\ EndInv
        /\ cancel_queue = <<>> /\ ProcessorSurvives
    BY DEF EmptyInv, FlowInv, SurvivesInv, HaltInv
  <2>2. CASE Ended
    BY <2>1, <2>2, EndedIsEmpty
  <2>3. CASE ~Ended
    BY <2>1, <2>3, SyncedIsEmpty DEF PolicyInv, Synced
  <2> QED BY <2>2, <2>3
<1> QED BY <1>1, EmptyInvCorrect, PTL

\* staleness_threshold = 0: partial_rollout makes no difference.  The servers are paused only
\* while they have no request, so no sample is interrupted and queued to be continued
\* (fully_async_rollouter.py, pause and _process_single_sample_streaming).
THEOREM PartialHasNoEffectCorrect ==
    ASSUME StalenessZero, CapacityAssumption, MaxFailures = 0
    PROVE  Spec => []PartialHasNoEffect
<1>1. EmptyInv => PartialHasNoEffect
  BY DEF EmptyInv, HaltInv, PartialHasNoEffect
<1> QED BY <1>1, EmptyInvCorrect, PTL
=============================================================================
