------------------------ MODULE FullyAsyncRollouter ------------------------
(***************************************************************************)
(* The Ray actor FullyAsyncRollouter: the coroutines that turn prompts     *)
(* into finished samples, and the pause / update_param_version / resume    *)
(* calls by which the trainer side stops them for a weight synchronisation.*)
(*                                                                         *)
(* The actor is one asyncio event loop.  A coroutine runs alone until it   *)
(* really suspends.  A label ending in _in stands for "at the `async with  *)
(* self.lock` of this place": a held lock queues the coroutine, a free one *)
(* it takes without suspending, and then nobody else in the actor moves    *)
(* before it does (lock.kept).  Nor does anybody while the processor is at *)
(* the top of its loop, which it reaches without suspending.               *)
(*                                                                         *)
(* The actor reads the size of the message queue.  That size is a          *)
(* parameter of the actions; FullyAsyncPolicy supplies it.  Samples are    *)
(* 1 .. TotalRolloutSteps in the order they are fed and the end marker     *)
(* "DONE" is the number after them, so pending_queue is the interval       *)
(* taken+1 .. fed.                                                         *)
(***************************************************************************)
EXTENDS Integers, Sequences, FiniteSets

CONSTANTS
    TotalRolloutSteps,     \* total_rollout_steps: samples to generate
    MaxRequiredSamples,    \* max_required_samples, also max_queue_size
    MaxConcurrentSamples,  \* max_concurrent_samples
    PendingCapacity,       \* maxsize of pending_queue (128 in the code)
    PartialRollout,        \* async_training.partial_rollout
    MaxFailures,           \* bound: generation requests that raise
    TestFreq,              \* rollout.test_freq; 0 also when there is no val_reward_fn
    HasValReward           \* val_reward_fn is not None

ASSUME RollouterAssumption ==
    /\ TotalRolloutSteps \in Nat \ {0}
    /\ MaxRequiredSamples \in Nat \ {0}
    /\ MaxConcurrentSamples \in 1..MaxRequiredSamples
    /\ PendingCapacity \in Nat \ {0}
    /\ PartialRollout \in BOOLEAN
    /\ MaxFailures \in Nat
    /\ TestFreq \in Nat
    /\ HasValReward \in BOOLEAN

VARIABLES
    pc,                    \* where each coroutine of the actor stands
    lock,                  \* self.lock: its owner, the FIFO of waiters, and whether
                           \* the owner has not suspended since it took it
    fed, taken,            \* pending_queue: puts and gets so far
    cancel_queue, result_queue,
    held,                  \* the sample in the processor's hands, 0 for none
    putting,               \* the sample the consumer is putting, 0 for none
    task,                  \* task[s]: the unfinished asyncio.Task of sample s
    unreaped,              \* finished Task objects still in active_tasks
    failed_unreaped,       \* ... one of which ended with an exception
    done_tasks_bound,      \* the processor's local done_tasks has a value
    paused, monitor_loop_trigger, running,
    staleness_samples, current_param_version,
    counted,               \* update_param_version: its sum before the await
    version_start,         \* param_version_start of each sample
    server_paused,         \* the generation server's paused flag
    failures               \* bound counter of MaxFailures

control == <<pc, lock>>
intakeVars == <<fed, taken, cancel_queue, held>>
outputVars == <<result_queue, putting>>
reapVars == <<unreaped, failed_unreaped, done_tasks_bound>>
taskVars == <<task, version_start, reapVars>>
flagVars == <<paused, monitor_loop_trigger, running>>
countVars == <<staleness_samples, current_param_version, counted>>
serverVars == <<server_paused, failures>>
rollouterVars == <<control, intakeVars, outputVars, taskVars, flagVars, countVars, serverVars>>

\* What is left of a step that moves coroutines only, or also sets flags, reaps
\* tasks, or moves samples in front of or behind the tasks.
OnlyControl == UNCHANGED <<intakeVars, outputVars, taskVars, flagVars, countVars, serverVars>>
OnlyFlags == UNCHANGED <<intakeVars, outputVars, taskVars, countVars, serverVars>>
OnlyReaps == UNCHANGED <<intakeVars, outputVars, task, version_start, flagVars, countVars, serverVars>>
OnlyIntake == UNCHANGED <<outputVars, taskVars, flagVars, current_param_version, counted, serverVars>>
OnlyOutput == UNCHANGED <<control, intakeVars, taskVars, flagVars, countVars, serverVars>>

Samples == 1..TotalRolloutSteps
Done == TotalRolloutSteps + 1
Nobody == "nobody"
NotStarted == -1          \* param_version_start of a sample nobody started
Coroutines == {"processor", "main", "monitor", "pause", "update", "resume"}

\* The places a coroutine can be at.
Labels ==
    {"top", "get", "pause_in", "drain_in", "limit_in", "done_in",     \* processor
     "drain_wait", "limit_wait", "done_wait", "idle_in", "idle_cond", "idle_woken",
     "submit_in", "submit_cond", "submit_woken", "finished", "failed",
     "wait", "signal", "stop_in", "done",                             \* main
     "sleep", "resume_in",                                            \* monitor
     "none", "called", "locked", "cancel", "gather", "reset",         \* remote calls
     "sizing", "report", "server"}

\* The coroutine that ran last has suspended.
LoopIsFree == pc.processor # "top" /\ ~lock.kept

\* The state once fit() has created its coroutines and _feed_samples has run
\* for the first time; the initial synchronisation (version 0) is over.
RollouterInit ==
    /\ pc = [processor |-> "top", main |-> "wait", monitor |-> "sleep",
             pause |-> "none", update |-> "none", resume |-> "none"]
    /\ lock = [owner |-> Nobody, waiters |-> <<>>, kept |-> FALSE]
    /\ fed = IF PendingCapacity < Done THEN PendingCapacity ELSE Done
    /\ taken = 0
    /\ cancel_queue = <<>> /\ result_queue = <<>>
    /\ held = 0 /\ putting = 0
    /\ task = [s \in Samples |-> "none"]
    /\ unreaped = 0 /\ failed_unreaped = FALSE /\ done_tasks_bound = FALSE
    /\ paused = FALSE /\ monitor_loop_trigger = TRUE /\ running = TRUE
    /\ staleness_samples = 0 /\ current_param_version = 0 /\ counted = 0
    /\ version_start = [s \in Samples |-> NotStarted]
    /\ server_paused = FALSE /\ failures = 0

-----------------------------------------------------------------------------
(* asyncio.Lock and asyncio.Condition.  The lock is handed to its waiters   *)
(* in the order they came.  notify_all() makes the processor ready: it then *)
(* asks for the lock again like everyone else.                              *)

Requested(l, c) ==
    IF l.owner = Nobody THEN [l EXCEPT !.owner = c, !.kept = TRUE]
                        ELSE [l EXCEPT !.waiters = Append(@, c)]

\* The owner suspends with the lock in its hands.
Suspended(l) == [l EXCEPT !.kept = FALSE]

Released(l) ==
    IF l.waiters = <<>>
    THEN [l EXCEPT !.owner = Nobody, !.kept = FALSE]
    ELSE [owner |-> Head(l.waiters), waiters |-> Tail(l.waiters), kept |-> FALSE]

\* Mutant of Notified: no notify_all().
NotNotified(p) == p

WokenFrom == [idle_cond |-> "idle_woken", submit_cond |-> "submit_woken"]

Notified(p) ==
    IF p.processor \in DOMAIN WokenFrom
    THEN [p EXCEPT !.processor = WokenFrom[p.processor]]
    ELSE p

Goto(c, label) == pc' = [pc EXCEPT ![c] = label]

\* Coroutine c goes to the `async with self.lock` labelled so.
AskLock(c, label) == Goto(c, label) /\ lock' = Requested(lock, c)

\* Coroutine c is at that place and has the lock and the event loop.
InLock(c, label) == pc[c] = label /\ lock.owner = c /\ pc.processor # "top"

\* ... and leaves it.
LeaveLock(c, label) == Goto(c, label) /\ lock' = Released(lock)

\* ... or keeps it and suspends.
KeepLock(c, label) == Goto(c, label) /\ lock' = Suspended(lock)

-----------------------------------------------------------------------------
(* What the coroutines read. *)

Live == {s \in Samples : task[s] # "none"}
ActiveTasks == Cardinality(Live) + unreaped      \* len(self.active_tasks)
PendingIsEmpty == taken = fed

\* Mutant of ShouldPause: the limit itself is still allowed.
ShouldPauseLate(size) ==
    size > MaxRequiredSamples \/ staleness_samples > MaxRequiredSamples

ShouldPause(size) ==
    \/ size >= MaxRequiredSamples
    \/ staleness_samples >= MaxRequiredSamples

-----------------------------------------------------------------------------
(* _feed_samples: once woken it puts until the queue is full again. *)
Feed ==
    /\ LoopIsFree /\ fed < Done /\ fed - taken < PendingCapacity
    /\ fed' = IF taken + PendingCapacity < Done THEN taken + PendingCapacity ELSE Done
    /\ UNCHANGED <<control, taken, cancel_queue, held, staleness_samples>> /\ OnlyIntake

-----------------------------------------------------------------------------
(* _processor_worker *)

\* Mutant of AtLimit: one task too many.
OverLimit(n) == n > MaxConcurrentSamples

AtLimit(n) == n >= MaxConcurrentSamples

\* The label at the head of each of its three waiting loops, with n tasks in
\* active_tasks: "drain" before going idle, "limit" before submitting, "done"
\* before ending.
BusyHead == [drain |-> "drain_in", limit |-> "limit_in", done |-> "done_in"]
FreeHead == [drain |-> "idle_in", limit |-> "submit_in", done |-> "finished"]

AtHead(loop, n) ==
    IF (IF loop = "limit" THEN AtLimit(n) ELSE n > 0) THEN BusyHead[loop] ELSE FreeHead[loop]

\* Go to the head of the loop, where only "finished" needs no lock.
EnterLoop(l, loop, n) ==
    LET label == AtHead(loop, n)
    IN  /\ Goto("processor", label)
        /\ lock' = IF label = "finished" THEN l ELSE Requested(l, "processor")

\* Mutants of what follows: the end marker passes for a sample; a new sample
\* does not count as stale; a cancelled sample stays in its queue.
AnySample(n) == n
CountNot == UNCHANGED staleness_samples
PeekCancelled ==
    /\ held' = Head(cancel_queue)
    /\ EnterLoop(lock, "limit", ActiveTasks)
    /\ UNCHANGED <<cancel_queue, taken, staleness_samples>>

SampleOf(n) == IF n = Done THEN 0 ELSE n
CountSample == staleness_samples' = staleness_samples + 1

\* pending_queue.get(): a new sample counts as stale from here on, and so does
\* the end marker.  With nothing pending the processor suspends.
TakePending ==
    IF PendingIsEmpty
    THEN Goto("processor", "get") /\ UNCHANGED <<lock, taken, held, staleness_samples>>
    ELSE /\ taken' = taken + 1
         /\ held' = SampleOf(taken + 1)
         /\ CountSample
         /\ EnterLoop(lock, IF held' = 0 THEN "done" ELSE "limit", ActiveTasks)

\* An interrupted sample goes before a new one.
TakeCancelled ==
    /\ held' = Head(cancel_queue)
    /\ cancel_queue' = Tail(cancel_queue)
    /\ EnterLoop(lock, "limit", ActiveTasks)
    /\ UNCHANGED <<taken, staleness_samples>>

\* The top of the loop: pause, or go on with the next sample.
ProcessorTop(size) ==
    /\ pc.processor = "top"
    /\ \/ /\ paused \/ ShouldPause(size)
          /\ AskLock("processor", "pause_in")
          /\ UNCHANGED <<taken, cancel_queue, held, staleness_samples>>
       \/ /\ ~(paused \/ ShouldPause(size))
          /\ IF cancel_queue # <<>> THEN TakeCancelled
                                    ELSE TakePending /\ UNCHANGED cancel_queue
    /\ UNCHANGED fed /\ OnlyIntake

GetPending ==
    /\ LoopIsFree /\ pc.processor = "get" /\ ~PendingIsEmpty
    /\ TakePending
    /\ UNCHANGED <<fed, cancel_queue>> /\ OnlyIntake

SetPaused ==
    /\ InLock("processor", "pause_in")
    /\ paused' = TRUE
    /\ EnterLoop(Released(lock), "drain", ActiveTasks)
    /\ UNCHANGED <<monitor_loop_trigger, running>> /\ OnlyFlags

LoopOf == [drain_in |-> "drain", limit_in |-> "limit", done_in |-> "done",
           drain_wait |-> "drain", limit_wait |-> "limit", done_wait |-> "done"]
WaitOf == [drain_in |-> "drain_wait", limit_in |-> "limit_wait", done_in |-> "done_wait"]

\* Mutant of AwaitTasks: active_tasks is not tested again under the lock, and
\* asyncio.wait refuses an empty set.
AwaitTasksUnchecked ==
    /\ pc.processor \in DOMAIN WaitOf /\ InLock("processor", pc.processor)
    /\ IF ActiveTasks > 0 THEN KeepLock("processor", WaitOf[pc.processor])
                          ELSE LeaveLock("processor", "failed")
    /\ OnlyControl

\* With the lock: wait for the first task to finish, keeping the lock.  When
\* the tasks have gone in the meantime, `for task in done_tasks` runs over the
\* tasks of an earlier turn, and raises when there was none.
AwaitTasks ==
    /\ pc.processor \in DOMAIN WaitOf /\ InLock("processor", pc.processor)
    /\ IF ActiveTasks > 0
       THEN KeepLock("processor", WaitOf[pc.processor])
       ELSE IF done_tasks_bound
       THEN EnterLoop(Released(lock), LoopOf[pc.processor], 0)
       ELSE LeaveLock("processor", "failed")
    /\ OnlyControl

\* asyncio.wait returns every task finished by now; awaiting one that raised
\* raises in the processor.
Reap ==
    /\ LoopIsFree /\ pc.processor \in {"drain_wait", "limit_wait", "done_wait"}
    /\ unreaped > 0
    /\ IF failed_unreaped
       THEN LeaveLock("processor", "failed")
       ELSE EnterLoop(Released(lock), LoopOf[pc.processor], Cardinality(Live))
    /\ unreaped' = 0 /\ failed_unreaped' = FALSE /\ done_tasks_bound' = TRUE
    /\ OnlyReaps

\* Mutant of Idle: it waits with the lock in its hands.
IdleWithLock ==
    /\ InLock("processor", "idle_in")
    /\ IF paused THEN KeepLock("processor", "idle_cond") ELSE LeaveLock("processor", "top")
    /\ OnlyControl

\* Idle until the rollout is no longer paused.
Idle ==
    /\ InLock("processor", "idle_in")
    /\ LeaveLock("processor", IF paused THEN "idle_cond" ELSE "top")
    /\ OnlyControl

\* A notified processor asks for the lock again.
Woken ==
    /\ LoopIsFree /\ pc.processor \in {"idle_woken", "submit_woken"}
    /\ AskLock("processor", IF pc.processor = "idle_woken" THEN "idle_in" ELSE "submit_in")
    /\ OnlyControl

\* Create the task of the held sample, unless the rollout is paused by now.
Submit ==
    /\ InLock("processor", "submit_in")
    /\ IF paused
       THEN LeaveLock("processor", "submit_cond") /\ UNCHANGED <<held, task>>
       ELSE /\ LeaveLock("processor", "top")
            /\ task' = [task EXCEPT ![held] = "created"]
            /\ held' = 0
    /\ UNCHANGED <<fed, taken, cancel_queue, version_start, outputVars, reapVars, flagVars,
                   countVars, serverVars>>

-----------------------------------------------------------------------------
(* _process_single_sample_streaming, and the generation server behind it.  *)
(* task[s]: "created", not yet run; "sent", the request is under way;      *)
(* "generating".  Only partial rollout makes the server look at its paused *)
(* flag, so without it the request is taken to have arrived when it is sent.*)

\* The task runs up to its await: the sample is labelled with the version of
\* its first start and the request leaves for a server.
StartTask(s) ==
    /\ LoopIsFree /\ task[s] = "created"
    /\ task' = [task EXCEPT ![s] = IF PartialRollout THEN "sent" ELSE "generating"]
    /\ version_start' = [version_start EXCEPT ![s] =
                            IF @ = NotStarted THEN current_param_version ELSE @]
    /\ UNCHANGED <<control, intakeVars, outputVars, reapVars, flagVars, countVars, serverVars>>

\* Mutants of what follows: the server does not look at its flag; an answer
\* that is no complete response passes for one.
AcceptsAlways == TRUE
AnyResult(answer) == TRUE

ServerAccepts == ~server_paused
IsResult(answer) == answer = "complete"

ServerAdmit(s) ==
    /\ task[s] = "sent" /\ ServerAccepts
    /\ task' = [task EXCEPT ![s] = "generating"]
    /\ UNCHANGED <<control, intakeVars, outputVars, version_start, reapVars, flagVars,
                   countVars, serverVars>>

\* What the request can end with: a complete response; nothing or a part of one
\* from a paused server; an exception.
Answers(s) ==
    {a \in {"complete", "cancelled", "raised"} :
        /\ a = "complete" => task[s] = "generating"
        /\ a = "cancelled" => server_paused /\ task[s] \in {"sent", "generating"}
        /\ a = "raised" => task[s] = "generating" /\ failures < MaxFailures}

\* The task gets the answer, queues its sample and ends; it stays in
\* active_tasks until somebody reaps it.
EndTask(s) ==
    /\ LoopIsFree
    /\ \E answer \in Answers(s) :
          /\ cancel_queue' = IF answer = "cancelled" THEN Append(cancel_queue, s) ELSE cancel_queue
          /\ result_queue' = IF IsResult(answer) THEN Append(result_queue, s) ELSE result_queue
          /\ failed_unreaped' = (failed_unreaped \/ answer = "raised")
          /\ failures' = IF answer = "raised" THEN failures + 1 ELSE failures
    /\ unreaped' = unreaped + 1
    /\ task' = [task EXCEPT ![s] = "none"]
    /\ UNCHANGED <<control, fed, taken, held, putting, version_start, done_tasks_bound,
                   flagVars, countVars, server_paused>>

-----------------------------------------------------------------------------
(* _consumer_worker: one sample at a time into the message queue.  The     *)
(* put itself is a step of the queue (PutDelivered).                       *)
\* Mutant of ConsumerTake: the sample is not removed.
ConsumerPeek ==
    /\ LoopIsFree /\ pc.main = "wait" /\ putting = 0 /\ result_queue # <<>>
    /\ putting' = Head(result_queue)
    /\ UNCHANGED result_queue /\ OnlyOutput

ConsumerTake ==                  \* unless main has cancelled the consumer
    /\ LoopIsFree /\ pc.main = "wait" /\ putting = 0 /\ result_queue # <<>>
    /\ putting' = Head(result_queue)
    /\ result_queue' = Tail(result_queue)
    /\ OnlyOutput

PutDelivered ==
    /\ putting # 0
    /\ putting' = 0
    /\ UNCHANGED result_queue /\ OnlyOutput

-----------------------------------------------------------------------------
(* _streaming_generation_main: wait for the feeder, then for the processor *)
(* (an exception skips the rest), then for result_queue.join(); put the    *)
(* end signal; stop the monitor.                                           *)
\* Mutant of Joined: nobody waits for result_queue.join().
NotJoined == TRUE

Joined == result_queue = <<>> /\ putting = 0

MainJoined ==
    /\ LoopIsFree /\ pc.main = "wait" /\ fed = Done
    /\ \/ pc.processor = "finished" /\ Joined
       \/ pc.processor = "failed"
    /\ Goto("main", "signal")
    /\ UNCHANGED lock /\ OnlyControl

EndSignalDelivered ==
    /\ LoopIsFree /\ pc.main = "signal"
    /\ AskLock("main", "stop_in")
    /\ OnlyControl

\* Mutant of StopRunning: running is not reset.
StopWithoutFlag ==
    /\ InLock("main", "stop_in")
    /\ LeaveLock("main", "done")
    /\ OnlyControl

StopRunning ==
    /\ InLock("main", "stop_in")
    /\ running' = FALSE
    /\ LeaveLock("main", "done")
    /\ UNCHANGED <<paused, monitor_loop_trigger>> /\ OnlyFlags

-----------------------------------------------------------------------------
(* _async_monitor_loop: after each sleep, lift the pause when nothing calls *)
(* for it any more.  The test comes before the lock, the reset after it.  A *)
(* turn without effect (nothing to do, still running) is left out.          *)
MonitorTurn(size) ==
    /\ LoopIsFree /\ pc.monitor = "sleep"
    /\ IF monitor_loop_trigger /\ ~ShouldPause(size)
       THEN AskLock("monitor", "resume_in")
       ELSE ~running /\ Goto("monitor", "done") /\ UNCHANGED lock
    /\ OnlyControl

MonitorResume ==
    /\ InLock("monitor", "resume_in")
    /\ paused' = FALSE
    /\ pc' = Notified([pc EXCEPT !.monitor = IF running THEN "sleep" ELSE "done"])
    /\ lock' = Released(lock)
    /\ UNCHANGED <<monitor_loop_trigger, running>> /\ OnlyFlags

-----------------------------------------------------------------------------
(* The calls of the parameter synchroniser arrive.  Ray starts resume() when *)
(* the result of update_param_version(), its argument, is there.            *)
CallArrives(c) ==
    /\ LoopIsFree /\ pc[c] = "called"
    /\ c = "resume" => pc.update = "none"
    /\ AskLock(c, "locked")
    /\ OnlyControl

(* pause() *)
PauseBegin ==
    /\ InLock("pause", "locked")
    /\ paused' = TRUE
    /\ KeepLock("pause", IF PartialRollout THEN "cancel" ELSE "gather")
    /\ UNCHANGED <<monitor_loop_trigger, running>> /\ OnlyFlags

\* The server refuses new requests and interrupts those it has.
ServerCancel ==
    /\ pc.pause = "cancel"
    /\ server_paused' = TRUE
    /\ Goto("pause", "gather")
    /\ UNCHANGED <<lock, intakeVars, outputVars, taskVars, flagVars, countVars, failures>>

\* gather(return_exceptions=True) waits for every task and swallows exceptions.
PauseGathered ==
    /\ LoopIsFree /\ pc.pause = "gather" /\ Live = {}
    /\ unreaped' = 0 /\ failed_unreaped' = FALSE
    /\ Goto("pause", "reset")
    /\ UNCHANGED <<lock, done_tasks_bound>> /\ OnlyReaps

\* The prefix caches are reset; only now is the monitor told to keep away.
PauseEnd ==
    /\ LoopIsFree /\ pc.pause = "reset"
    /\ monitor_loop_trigger' = FALSE
    /\ LeaveLock("pause", "none")
    /\ UNCHANGED <<paused, running>> /\ OnlyFlags

-----------------------------------------------------------------------------
(* update_param_version(version, validate, ...) *)
\* Everything up to the await in the middle of the sum.
UpdateCount(version) ==
    /\ InLock("update", "locked")
    /\ current_param_version' = version
    /\ counted' = ActiveTasks + Len(result_queue) + Len(cancel_queue)
    /\ KeepLock("update", "sizing")
    /\ UNCHANGED <<intakeVars, outputVars, taskVars, flagVars, staleness_samples, serverVars>>

\* Mutant of ResetStaleness: what was counted before is kept.
AddStaleness(n) == staleness_samples' = staleness_samples + n

ResetStaleness(n) == staleness_samples' = n

\* The queue size has come back.
UpdateSized(size) ==
    /\ LoopIsFree /\ pc.update = "sizing"
    /\ ResetStaleness(counted + size)
    /\ counted' = 0
    /\ Goto("update", "report")
    /\ UNCHANGED <<lock, intakeVars, outputVars, taskVars, flagVars, current_param_version,
                   serverVars>>

\* Whether the ValidateMetrics of this version carries metrics.
ValidationDue(version, validate) ==
    /\ HasValReward
    /\ validate \/ (TestFreq > 0 /\ version > 0 /\ version % TestFreq = 0)

UpdateReported ==
    /\ LoopIsFree /\ pc.update = "report"
    /\ LeaveLock("update", "none")
    /\ OnlyControl

-----------------------------------------------------------------------------
(* resume() *)
ResumeBegin ==
    /\ InLock("resume", "locked")
    /\ paused' = FALSE /\ monitor_loop_trigger' = TRUE
    /\ pc' = Notified([pc EXCEPT !.resume = IF PartialRollout THEN "server" ELSE "none"])
    /\ lock' = IF PartialRollout THEN Suspended(lock) ELSE Released(lock)
    /\ UNCHANGED running /\ OnlyFlags

ServerResume ==
    /\ LoopIsFree /\ pc.resume = "server"
    /\ server_paused' = FALSE
    /\ LeaveLock("resume", "none")
    /\ UNCHANGED <<intakeVars, outputVars, taskVars, flagVars, countVars, failures>>

-----------------------------------------------------------------------------
RollouterTypeOK ==
    /\ pc \in [Coroutines -> Labels]
    /\ lock \in [owner : Coroutines \cup {Nobody}, waiters : Seq(Coroutines), kept : BOOLEAN]
    /\ fed \in 0..Done /\ taken \in 0..Done
    /\ cancel_queue \in Seq(Samples) /\ result_queue \in Seq(Samples)
    /\ held \in 0..TotalRolloutSteps /\ putting \in 0..TotalRolloutSteps
    /\ task \in [Samples -> {"none", "created", "sent", "generating"}]
    /\ unreaped \in Nat /\ failed_unreaped \in BOOLEAN /\ done_tasks_bound \in BOOLEAN
    /\ paused \in BOOLEAN /\ monitor_loop_trigger \in BOOLEAN /\ running \in BOOLEAN
    /\ staleness_samples \in Nat /\ current_param_version \in Nat /\ counted \in Nat
    /\ version_start \in [Samples -> Nat \cup {NotStarted}]
    /\ server_paused \in BOOLEAN /\ failures \in 0..MaxFailures
=============================================================================
