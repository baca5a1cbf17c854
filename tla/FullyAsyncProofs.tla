-------------------------- MODULE FullyAsyncProofs --------------------------
(***************************************************************************)
(* Theorems about the pipeline of FullyAsyncPolicy, for every number of    *)
(* samples and failures, every batch size, limit and capacity, with and    *)
(* without partial rollout:                                                *)
(*                                                                         *)
(*   NoLostWakeupCorrect, VersionSkewCorrect   (need the types of pc only) *)
(*   TypeCorrect                               TypeInv                     *)
(*   ConcurrencyCorrect                        TypeInv, ConcurrencyInv     *)
(*   BudgetSlackCorrect                        TypeInv, LockInv, BudgetInv *)
(*   NoGenerationDuringSyncCorrect             TypeInv, LockInv,           *)
(*                                             GenerationInv               *)
(*                                                                         *)
(* On the right the inductive invariant.  What each kind of step does to   *)
(* the coroutines, to the lock and to the places of the samples is a lemma *)
(* of its own; the invariants only combine these.                          *)
(***************************************************************************)
EXTENDS FullyAsyncPolicy, FiniteSetTheorems, TLAPS

\* What the modules assume of the constants holds in every proof below.
USE RollouterAssumption, TrainerAssumption

-----------------------------------------------------------------------------
(* Which coroutines a step moves, and where to. *)

Asleep == {"idle_cond", "submit_cond"}
Loops == {"drain", "limit", "done"}
PcTyped == pc \in [Coroutines -> Labels]

\* The step moves no coroutine but c.
Moves(c) == PcTyped' /\ \A d \in Coroutines \ {c} : pc'[d] = pc[d]

\* No waiting loop of the processor begins with a sleep on the condition.
LEMMA HeadLabel ==
    ASSUME NEW loop \in Loops, NEW n
    PROVE  AtHead(loop, n) \in Labels \ Asleep
BY DEF AtHead, Asleep, Loops, Labels, BusyHead, FreeHead

\* notify_all() leaves the processor not asleep, and the others where they are.
LEMMA NotifiedWakes ==
    ASSUME NEW p \in [Coroutines -> Labels]
    PROVE  /\ Notified(p) \in [Coroutines -> Labels]
           /\ Notified(p).processor \notin Asleep
           /\ Notified(p).processor \in {p.processor, "idle_woken", "submit_woken"}
           /\ \A c \in Coroutines \ {"processor"} : Notified(p)[c] = p[c]
BY DEF Notified, WokenFrom, Coroutines, Asleep, Labels

\* Goto moves one coroutine to the label.
LEMMA GotoLabel ==
    ASSUME NEW c \in Coroutines, NEW label \in Labels, PcTyped, Goto(c, label)
    PROVE  Moves(c) /\ pc'[c] = label
BY DEF Goto, PcTyped, Moves

\* A step of the processor moves the processor alone, and never to sleep
\* without a pause.
LEMMA ProcessorMoves ==
    ASSUME PcTyped, ProcessorStep
    PROVE  Moves("processor") /\ (pc'.processor \in Asleep => paused')
<1>0. "processor" \in Coroutines
  BY DEF Coroutines
<1>1. ASSUME NEW l, NEW loop \in Loops, NEW n, EnterLoop(l, loop, n)
      PROVE  Moves("processor") /\ pc'.processor \notin Asleep
  BY <1>0, <1>1, HeadLabel, GotoLabel DEF EnterLoop
<1>2. ASSUME NEW label \in Labels, Goto("processor", label)
      PROVE  Moves("processor") /\ pc'.processor = label
  BY <1>0, <1>2, GotoLabel
<1>3. CASE ProcessorTop(queue_size)
  <2>1. CASE AskLock("processor", "pause_in")
    BY <2>1, <1>2 DEF AskLock, Asleep, Labels
  <2>2. CASE TakeCancelled
    BY <2>2, <1>1 DEF TakeCancelled, Loops
  <2>3. CASE TakePending
    BY <2>3, <1>1, <1>2 DEF TakePending, Asleep, Labels, Loops
  <2> QED BY <1>3, <2>1, <2>2, <2>3 DEF ProcessorTop
<1>4. CASE GetPending
  BY <1>4, <1>1, <1>2 DEF GetPending, TakePending, Asleep, Labels, Loops
<1>5. CASE SetPaused
  BY <1>5, <1>1 DEF SetPaused, Loops
<1>6. CASE AwaitTasks
  <2>1. \A label \in DOMAIN WaitOf : /\ WaitOf[label] \in Labels \ Asleep
                                     /\ LoopOf[label] \in Loops
    BY DEF WaitOf, LoopOf, Asleep, Labels, Loops
  <2> QED BY <1>6, <1>1, <1>2, <2>1 DEF AwaitTasks, KeepLock, LeaveLock, Asleep, Labels
<1>7. CASE Reap
  <2>1. LoopOf[pc.processor] \in Loops
    BY <1>7 DEF Reap, LoopOf, Loops
  <2> QED BY <1>7, <1>1, <1>2, <2>1 DEF Reap, LeaveLock, Asleep, Labels
<1>8. CASE Idle
  BY <1>8, <1>2 DEF Idle, LeaveLock, Asleep, Labels, OnlyControl, flagVars
<1>9. CASE Woken
  BY <1>9, <1>2 DEF Woken, AskLock, Asleep, Labels
<1>10. CASE Submit
  BY <1>10, <1>2 DEF Submit, LeaveLock, Asleep, Labels, flagVars
<1> QED
  BY <1>3, <1>4, <1>5, <1>6, <1>7, <1>8, <1>9, <1>10 DEF ProcessorStep

\* The other coroutines move themselves alone, and only two of their steps
\* notify the processor: those that lift the pause.
Notifies(c) ==
    /\ PcTyped'
    /\ pc'.processor \notin Asleep
    /\ pc'.processor \in {pc.processor, "idle_woken", "submit_woken"}
    /\ \A d \in Coroutines \ {c, "processor"} : pc'[d] = pc[d]

\* The wait for the other coroutines and the end signal move main alone.
LEMMA MainMoves ==
    ASSUME PcTyped, MainStep \/ PutEndSignal
    PROVE  Moves("main") /\ paused' = paused
<1>1. ASSUME NEW label \in Labels, Goto("main", label) PROVE Moves("main")
  BY <1>1, GotoLabel DEF Coroutines
<1>2. CASE MainJoined
  BY <1>1, <1>2 DEF MainJoined, OnlyControl, flagVars, Labels
<1>3. CASE StopRunning
  BY <1>1, <1>3 DEF StopRunning, LeaveLock, Labels
<1>4. CASE PutEndSignal
  BY <1>1, <1>4 DEF PutEndSignal, EndSignalDelivered, AskLock, OnlyControl, flagVars, Labels
<1> QED BY <1>2, <1>3, <1>4 DEF MainStep

\* The monitor moves itself, and notifies when it lifts the pause.
LEMMA MonitorMoves ==
    ASSUME PcTyped, MonitorStep
    PROVE  (Moves("monitor") /\ paused' = paused) \/ Notifies("monitor")
<1>1. ASSUME NEW label \in Labels, Goto("monitor", label) PROVE Moves("monitor")
  BY <1>1, GotoLabel DEF Coroutines
<1>2. CASE MonitorTurn(queue_size)
  BY <1>1, <1>2 DEF MonitorTurn, AskLock, OnlyControl, flagVars, Labels
<1>3. CASE MonitorResume
  <2> DEFINE label == IF running THEN "sleep" ELSE "done"
             p == [pc EXCEPT !["monitor"] = label]
  <2>1. pc' = Notified(p)
    BY <1>3 DEF MonitorResume
  <2>2. p \in [Coroutines -> Labels] /\ \A d \in Coroutines \ {"monitor"} : p[d] = pc[d]
    BY DEF PcTyped, Labels
  <2> HIDE DEF p
  <2> QED BY <2>1, <2>2, NotifiedWakes DEF Notifies, PcTyped, Coroutines
<1> QED BY <1>2, <1>3 DEF MonitorStep

\* pause() moves itself and never lifts the pause.
LEMMA PauseMoves ==
    ASSUME PcTyped, PauseStep
    PROVE  Moves("pause") /\ paused' \in {paused, TRUE}
<1>1. ASSUME NEW label \in Labels, Goto("pause", label) PROVE Moves("pause")
  BY <1>1, GotoLabel DEF Coroutines
<1>2. CASE CallArrives("pause")
  BY <1>1, <1>2 DEF CallArrives, AskLock, OnlyControl, flagVars, Labels
<1>3. CASE PauseBegin
  BY <1>1, <1>3 DEF PauseBegin, KeepLock, Labels
<1>4. CASE ServerCancel
  BY <1>1, <1>4 DEF ServerCancel, flagVars, Labels
<1>5. CASE PauseGathered
  BY <1>1, <1>5 DEF PauseGathered, OnlyReaps, flagVars, Labels
<1>6. CASE PauseEnd
  BY <1>1, <1>6 DEF PauseEnd, LeaveLock, Labels
<1> QED BY <1>2, <1>3, <1>4, <1>5, <1>6 DEF PauseStep

\* update_param_version() moves itself and leaves the pause as it is.
LEMMA UpdateMoves ==
    ASSUME PcTyped, UpdateStep \/ PutValidate
    PROVE  Moves("update") /\ paused' = paused
<1>1. ASSUME NEW label \in Labels, Goto("update", label) PROVE Moves("update")
  BY <1>1, GotoLabel DEF Coroutines
<1>2. CASE CallArrives("update")
  BY <1>1, <1>2 DEF CallArrives, AskLock, OnlyControl, flagVars, Labels
<1>3. CASE UpdateCount(weights_version)
  BY <1>1, <1>3 DEF UpdateCount, KeepLock, flagVars, Labels
<1>4. CASE UpdateSized(queue_size)
  BY <1>1, <1>4 DEF UpdateSized, flagVars, Labels
<1>5. CASE PutValidate
  BY <1>1, <1>5 DEF PutValidate, UpdateReported, LeaveLock, OnlyControl, flagVars, Labels
<1> QED BY <1>2, <1>3, <1>4, <1>5 DEF UpdateStep

\* resume() moves itself, and notifies when it lifts the pause.
LEMMA ResumeMoves ==
    ASSUME PcTyped, ResumeStep
    PROVE  (Moves("resume") /\ paused' = paused) \/ Notifies("resume")
<1>1. ASSUME NEW label \in Labels, Goto("resume", label) PROVE Moves("resume")
  BY <1>1, GotoLabel DEF Coroutines
<1>2. CASE CallArrives("resume")
  BY <1>1, <1>2 DEF CallArrives, AskLock, OnlyControl, flagVars, Labels
<1>3. CASE ResumeBegin
  <2> DEFINE label == IF PartialRollout THEN "server" ELSE "none"
             p == [pc EXCEPT !["resume"] = label]
  <2>1. pc' = Notified(p)
    BY <1>3 DEF ResumeBegin
  <2>2. p \in [Coroutines -> Labels] /\ \A d \in Coroutines \ {"resume"} : p[d] = pc[d]
    BY DEF PcTyped, Labels
  <2> HIDE DEF p
  <2> QED BY <2>1, <2>2, NotifiedWakes DEF Notifies, PcTyped, Coroutines
<1>4. CASE ServerResume
  BY <1>1, <1>4 DEF ServerResume, LeaveLock, flagVars, Labels
<1> QED BY <1>2, <1>3, <1>4 DEF ResumeStep

\* The trainer's steps only place the calls of its synchroniser.
LEMMA TrainerMoves ==
    ASSUME PcTyped, TrainerStep
    PROVE  /\ PcTyped' /\ paused' = paused
           /\ \A c \in {"processor", "main", "monitor"} : pc'[c] = pc[c]
           /\ \A c \in {"pause", "update", "resume"} : pc'[c] \in {pc[c], "called"}
<1>1. CASE GetSample
  BY <1>1 DEF GetSample, rollouterVars, control, flagVars, PcTyped
<1>2. CASE ReadValidate
  BY <1>2 DEF ReadValidate, rollouterVars, control, flagVars, PcTyped
<1>3. CASE Train
  BY <1>3 DEF Train, rollouterVars, control, flagVars, PcTyped
<1>4. CASE WaitLastValid
  <2>1. paused' = paused
    BY <1>4 DEF WaitLastValid, OnlyControl, flagVars
  <2>2. pc' = pc \/ pc' = [pc EXCEPT !["pause"] = "called"]
    BY <1>4 DEF WaitLastValid
  <2> QED BY <2>1, <2>2 DEF PcTyped, Coroutines, Labels
<1>5. CASE PauseReturned
  BY <1>5 DEF PauseReturned, rollouterVars, control, flagVars, PcTyped
<1>6. CASE SyncWeights
  <2>1. paused' = paused
    BY <1>6 DEF SyncWeights, OnlyControl, flagVars
  <2>2. pc' = [pc EXCEPT !["update"] = "called", !["resume"] = "called"]
    BY <1>6 DEF SyncWeights
  <2> QED BY <2>1, <2>2 DEF PcTyped, Coroutines, Labels
<1> QED BY <1>1, <1>2, <1>3, <1>4, <1>5, <1>6 DEF TrainerStep

\* Everything else goes on beside the coroutines.
LEMMA OthersDoNotMove ==
    ASSUME \/ FeederStep \/ ConsumerStep \/ PutSample \/ Terminated \/ UNCHANGED vars
           \/ \E s \in Samples : TaskStep(s) \/ ServerStep(s)
    PROVE  pc' = pc /\ paused' = paused
<1> USE DEF control, flagVars
<1>1. CASE FeederStep
  BY <1>1 DEF FeederStep, Feed, OnlyIntake
<1>2. CASE ConsumerStep
  BY <1>2 DEF ConsumerStep, ConsumerTake, OnlyOutput
<1>3. CASE PutSample
  BY <1>3 DEF PutSample, PutDelivered, OnlyOutput
<1>4. CASE Terminated \/ UNCHANGED vars
  BY <1>4 DEF Terminated, vars, rollouterVars
<1>5. CASE \E s \in Samples : TaskStep(s) \/ ServerStep(s)
  BY <1>5 DEF TaskStep, StartTask, EndTask, ServerStep, ServerAdmit
<1> QED BY <1>1, <1>2, <1>3, <1>4, <1>5

-----------------------------------------------------------------------------
(* The processor sleeps only under a pause. *)

WakeupInv == PcTyped /\ NoLostWakeup

\* At the start the processor is awake.
LEMMA WakeupInit == Init => WakeupInv
BY DEF Init, RollouterInit, WakeupInv, PcTyped, NoLostWakeup, Coroutines, Labels

\* Nobody lifts the pause over a sleeping processor.
LEMMA WakeupStep == WakeupInv /\ [Next]_vars => WakeupInv'
<1> SUFFICES ASSUME WakeupInv, [Next]_vars PROVE WakeupInv'
  OBVIOUS
<1> USE DEF WakeupInv
<1>1. ASSUME NEW c \in Coroutines \ {"processor"},
             (Moves(c) /\ paused' \in {paused, TRUE}) \/ Notifies(c)
      PROVE  WakeupInv'
  BY <1>1 DEF Moves, Notifies, NoLostWakeup, Asleep, Coroutines
<1>2. CASE ProcessorStep
  BY <1>2, ProcessorMoves DEF Moves, NoLostWakeup, Asleep
<1>3. CASE MainStep \/ PutEndSignal
  BY <1>1, <1>3, MainMoves DEF Coroutines
<1>4. CASE MonitorStep
  BY <1>1, <1>4, MonitorMoves DEF Coroutines
<1>5. CASE PauseStep
  BY <1>1, <1>5, PauseMoves DEF Coroutines
<1>6. CASE UpdateStep \/ PutValidate
  BY <1>1, <1>6, UpdateMoves DEF Coroutines
<1>7. CASE ResumeStep
  BY <1>1, <1>7, ResumeMoves DEF Coroutines
<1>8. CASE TrainerStep
  BY <1>8, TrainerMoves DEF NoLostWakeup
<1>9. CASE \/ FeederStep \/ ConsumerStep \/ PutSample \/ Terminated \/ UNCHANGED vars
           \/ \E s \in Samples : TaskStep(s) \/ ServerStep(s)
  BY <1>9, OthersDoNotMove DEF NoLostWakeup, PcTyped
<1> QED
  BY <1>2, <1>3, <1>4, <1>5, <1>6, <1>7, <1>8, <1>9 DEF Next

\* The processor sleeps on the condition only while the rollout is paused,
\* whatever order the pause, the resume and the monitor come in: everyone who
\* lifts the pause notifies it under the lock.
THEOREM NoLostWakeupCorrect == Spec => []NoLostWakeup
<1>1. WakeupInv => NoLostWakeup
  BY DEF WakeupInv
<1> QED BY <1>1, WakeupInit, WakeupStep, PTL DEF Spec

-----------------------------------------------------------------------------
(* The versions of the trainer, of the weights and of the rollouter. *)

Synchronising == {"wait_last", "wait_final", "pausing", "weights"}

VersionInv ==
    /\ PcTyped
    /\ current_param_version \in Nat /\ weights_version \in Nat
    /\ trainer_version = IF trainer \in Synchronising THEN weights_version + 1
                                                      ELSE weights_version
    /\ current_param_version <= weights_version
    /\ pc.update \notin {"called", "locked"} => current_param_version = weights_version
    /\ trainer \in {"pausing", "weights"} => pc.update = "none"

VersionsUnchanged ==
    UNCHANGED <<trainer, trainer_version, weights_version, current_param_version>>

\* Only the trainer's steps and update_param_version() touch a version.
LEMMA RollouterKeepsVersions ==
    ASSUME \/ ProcessorStep \/ FeederStep \/ ConsumerStep \/ MainStep \/ MonitorStep
           \/ PauseStep \/ ResumeStep \/ PutSample \/ PutEndSignal \/ PutValidate
           \/ Terminated \/ UNCHANGED vars
           \/ \E s \in Samples : TaskStep(s) \/ ServerStep(s)
    PROVE  VersionsUnchanged
<1> USE DEF VersionsUnchanged, Alone, trainerVars, countVars, OnlyControl, OnlyFlags,
            OnlyReaps, OnlyIntake, OnlyOutput
<1>1. CASE ProcessorStep
  BY <1>1 DEF ProcessorStep, ProcessorTop, GetPending, SetPaused, AwaitTasks, Reap, Idle,
              Woken, Submit
<1>2. CASE FeederStep \/ ConsumerStep
  BY <1>2 DEF FeederStep, Feed, ConsumerStep, ConsumerTake
<1>3. CASE MainStep \/ MonitorStep
  BY <1>3 DEF MainStep, MainJoined, StopRunning, MonitorStep, MonitorTurn, MonitorResume
<1>4. CASE PauseStep \/ ResumeStep
  BY <1>4 DEF PauseStep, CallArrives, PauseBegin, ServerCancel, PauseGathered, PauseEnd,
              ResumeStep, ResumeBegin, ServerResume
<1>5. CASE PutSample \/ PutEndSignal \/ PutValidate
  BY <1>5 DEF PutSample, PutDelivered, PutEndSignal, EndSignalDelivered, PutValidate,
              UpdateReported
<1>6. CASE Terminated \/ UNCHANGED vars
  BY <1>6 DEF Terminated, vars, rollouterVars
<1>7. CASE \E s \in Samples : TaskStep(s) \/ ServerStep(s)
  BY <1>7 DEF TaskStep, StartTask, EndTask, ServerStep, ServerAdmit
<1> QED BY <1>1, <1>2, <1>3, <1>4, <1>5, <1>6, <1>7

\* All versions are 0 at the start.
LEMMA VersionInit == Init => VersionInv
BY DEF Init, RollouterInit, TrainerInit, VersionInv, PcTyped, Coroutines, Labels, Synchronising

\* update_param_version() catches up with the weights, and has to be under way
\* to do so.
LEMMA VersionUpdateStep == VersionInv /\ UpdateStep => VersionInv'
<1> SUFFICES ASSUME VersionInv, UpdateStep PROVE VersionInv'
  OBVIOUS
<1> USE DEF VersionInv
<1>1. PcTyped' /\ UNCHANGED <<trainer, trainer_version, weights_version>>
  BY UpdateMoves DEF Moves, UpdateStep, Alone, trainerVars
<1>2. ASSUME NEW label \in Labels, Goto("update", label) PROVE pc'.update = label
  BY <1>2, GotoLabel DEF Coroutines
<1>3. CASE CallArrives("update")
  BY <1>1, <1>2, <1>3 DEF CallArrives, AskLock, OnlyControl, countVars, Labels, Synchronising
<1>4. CASE UpdateCount(weights_version)
  BY <1>1, <1>2, <1>4 DEF UpdateCount, InLock, KeepLock, Labels, Synchronising
<1>5. CASE UpdateSized(queue_size)
  BY <1>1, <1>2, <1>5 DEF UpdateSized, Labels, Synchronising
<1> QED BY <1>3, <1>4, <1>5 DEF UpdateStep

\* The trainer runs one version ahead from its decision to synchronise until the
\* weights follow, and pauses the rollouter only once the last update is through.
LEMMA VersionTrainerStep == VersionInv /\ TrainerStep => VersionInv'
<1> SUFFICES ASSUME VersionInv, TrainerStep PROVE VersionInv'
  OBVIOUS
<1> USE DEF VersionInv, Synchronising
<1>1. PcTyped'
  BY TrainerMoves
<1>2. CASE GetSample
  BY <1>1, <1>2 DEF GetSample, rollouterVars, control, countVars, trainerVars, Receive, ReceiveEnd
<1>3. CASE ReadValidate
  BY <1>1, <1>3 DEF ReadValidate, rollouterVars, control, countVars, ReadFirst, ReadAfterStep,
                    ReadFinal
<1>4. CASE Train
  BY <1>1, <1>4 DEF Train, rollouterVars, control, countVars, TrainBatch, EndTraining, NewVersion
<1>5. CASE WaitLastValid
  <2>1. /\ pc.update = "none" /\ pc'.update = "none"
        /\ trainer \in {"wait_last", "wait_final", "wait_end"}
        /\ trainer' = IF trainer = "wait_end" THEN "last_read" ELSE "pausing"
        /\ UNCHANGED <<trainer_version, weights_version, current_param_version>>
    BY <1>5 DEF WaitLastValid, LastSyncDone, Returned, PcTyped, Coroutines, OnlyControl, countVars
  <2> QED BY <1>1, <2>1
<1>6. CASE PauseReturned
  BY <1>1, <1>6 DEF PauseReturned, RollouterPaused, rollouterVars, control, countVars
<1>7. CASE SyncWeights
  <2>1. /\ pc'.update = "called"
        /\ trainer = "weights" /\ trainer' \in {"wait_end", "read"}
        /\ weights_version' = trainer_version
        /\ UNCHANGED <<trainer_version, current_param_version>>
    BY <1>7 DEF SyncWeights, WeightsSynced, PcTyped, Coroutines, OnlyControl, countVars
  <2> QED BY <1>1, <2>1
<1> QED BY <1>2, <1>3, <1>4, <1>5, <1>6, <1>7 DEF TrainerStep

\* The versions stay in step, whoever moves.
LEMMA VersionStep == VersionInv /\ [Next]_vars => VersionInv'
<1> SUFFICES ASSUME VersionInv, [Next]_vars PROVE VersionInv'
  OBVIOUS
<1> USE DEF VersionInv
<1>1. ASSUME NEW c \in Coroutines \ {"update"}, Moves(c) \/ Notifies(c)
      PROVE  PcTyped' /\ pc'.update = pc.update
  BY <1>1 DEF Moves, Notifies, Coroutines
<1>2. CASE VersionsUnchanged /\ PcTyped' /\ pc'.update = pc.update
  BY <1>2 DEF VersionsUnchanged, Synchronising
<1>3. CASE ProcessorStep
  BY <1>1, <1>2, <1>3, ProcessorMoves, RollouterKeepsVersions DEF Coroutines
<1>4. CASE MainStep \/ PutEndSignal
  BY <1>1, <1>2, <1>4, MainMoves, RollouterKeepsVersions DEF Coroutines
<1>5. CASE MonitorStep
  BY <1>1, <1>2, <1>5, MonitorMoves, RollouterKeepsVersions DEF Coroutines
<1>6. CASE PauseStep
  BY <1>1, <1>2, <1>6, PauseMoves, RollouterKeepsVersions DEF Coroutines
<1>7. CASE ResumeStep
  BY <1>1, <1>2, <1>7, ResumeMoves, RollouterKeepsVersions DEF Coroutines
<1>8. CASE UpdateStep
  BY <1>8, VersionUpdateStep
<1>9. CASE PutValidate
  <2>1. pc.update = "report" /\ PcTyped' /\ pc'.update = "none"
    BY <1>9, UpdateMoves, GotoLabel
       DEF PutValidate, UpdateReported, LeaveLock, Moves, Coroutines, Labels
  <2> QED BY <1>9, <2>1, RollouterKeepsVersions DEF VersionsUnchanged, Synchronising
<1>10. CASE TrainerStep
  BY <1>10, VersionTrainerStep
<1>11. CASE \/ FeederStep \/ ConsumerStep \/ PutSample \/ Terminated \/ UNCHANGED vars
            \/ \E s \in Samples : TaskStep(s) \/ ServerStep(s)
  BY <1>2, <1>11, OthersDoNotMove, RollouterKeepsVersions DEF PcTyped
<1> QED
  BY <1>3, <1>4, <1>5, <1>6, <1>7, <1>8, <1>9, <1>10, <1>11 DEF Next

\* The rollouter never claims a version newer than its weights, and a new
\* synchronisation begins only when the last one has been applied, although
\* update_param_version() and resume() are sent off without waiting for them.
THEOREM VersionSkewCorrect == Spec => []VersionSkew
<1>1. VersionInv => VersionSkew
  BY DEF VersionInv, VersionSkew, Synchronising
<1> QED BY <1>1, VersionInit, VersionStep, PTL DEF Spec

-----------------------------------------------------------------------------
(* Types. *)

Lock == [owner : Coroutines \cup {Nobody}, waiters : Seq(Coroutines), kept : BOOLEAN]
ValidateMetrics == [version : Nat \cup {-1}, metrics : BOOLEAN]

\* The type invariant by groups of variables.  No more prompts are taken than
\* were fed.
IntakeTyped ==
    /\ fed \in 0..Done /\ taken \in 0..Done /\ taken <= fed
    /\ cancel_queue \in Seq(Samples)
    /\ held \in 0..TotalRolloutSteps
OutputTyped == result_queue \in Seq(Samples) /\ putting \in 0..TotalRolloutSteps
TaskTyped ==
    /\ task \in [Samples -> {"none", "created", "sent", "generating"}]
    /\ version_start \in [Samples -> Nat \cup {NotStarted}]
ReapTyped == unreaped \in Nat /\ failed_unreaped \in BOOLEAN /\ done_tasks_bound \in BOOLEAN
FlagTyped == paused \in BOOLEAN /\ monitor_loop_trigger \in BOOLEAN /\ running \in BOOLEAN
CountTyped == staleness_samples \in Nat /\ current_param_version \in Nat /\ counted \in Nat
ServerTyped == server_paused \in BOOLEAN /\ failures \in 0..MaxFailures
QueueTyped == mq_queue \in Seq(0..TotalRolloutSteps) /\ val_queue \in Seq(ValidateMetrics)

TypeInv ==
    /\ PcTyped /\ lock \in Lock
    /\ IntakeTyped /\ OutputTyped /\ TaskTyped /\ ReapTyped
    /\ FlagTyped /\ CountTyped /\ ServerTyped
    /\ TrainerTypeOK /\ QueueTyped

\* The operations of the lock keep it a lock.
LEMMA LockTypes ==
    ASSUME NEW l \in Lock, NEW c \in Coroutines
    PROVE  Requested(l, c) \in Lock /\ Released(l) \in Lock /\ Suspended(l) \in Lock
<1>1. Requested(l, c) \in Lock
  <2>1. CASE l.owner = Nobody
    BY <2>1 DEF Requested, Lock
  <2>2. CASE l.owner # Nobody
    <3>1. Append(l.waiters, c) \in Seq(Coroutines)
      BY DEF Lock
    <3> QED BY <2>2, <3>1 DEF Requested, Lock
  <2> QED BY <2>1, <2>2
<1>2. Released(l) \in Lock
  <2>1. CASE l.waiters = <<>>
    BY <2>1 DEF Released, Lock
  <2>2. CASE l.waiters # <<>>
    <3>1. Head(l.waiters) \in Coroutines /\ Tail(l.waiters) \in Seq(Coroutines)
      BY <2>2 DEF Lock
    <3> QED BY <2>2, <3>1 DEF Released, Lock
  <2> QED BY <2>1, <2>2
<1>3. Suspended(l) \in Lock
  BY DEF Suspended, Lock
<1> QED BY <1>1, <1>2, <1>3

\* Live is a finite set of samples, so active_tasks has a length.
LEMMA LiveIsFinite ==
    /\ IsFiniteSet(Live) /\ Cardinality(Live) \in Nat
    /\ unreaped \in Nat => ActiveTasks \in Nat
<1>1. IsFiniteSet(Samples)
  BY FS_Interval DEF Samples
<1>2. Live \subseteq Samples
  BY DEF Live
<1> QED BY <1>1, <1>2, FS_Subset, FS_CardinalityType DEF ActiveTasks

\* What a step of coroutine c may do to the lock.
UsesLock(c) ==
    \/ lock' = lock
    \/ lock' = Requested(lock, c)
    \/ lock' = Suspended(lock)
    \/ lock' = Released(lock)
    \/ lock' = Requested(Released(lock), c)

\* Every coroutine uses it so.
LEMMA LocksUsed ==
    /\ ProcessorStep => UsesLock("processor")
    /\ MainStep \/ PutEndSignal => UsesLock("main")
    /\ MonitorStep => UsesLock("monitor")
    /\ PauseStep => UsesLock("pause")
    /\ UpdateStep \/ PutValidate => UsesLock("update")
    /\ ResumeStep => UsesLock("resume")
<1> USE DEF UsesLock, AskLock, LeaveLock, KeepLock
<1>1. ASSUME ProcessorStep PROVE UsesLock("processor")
  BY <1>1 DEF ProcessorStep, ProcessorTop, TakeCancelled, TakePending, EnterLoop, GetPending,
     SetPaused, AwaitTasks, Reap, Idle, Woken, Submit
<1>2. ASSUME MainStep \/ PutEndSignal PROVE UsesLock("main")
  BY <1>2 DEF MainStep, MainJoined, StopRunning, PutEndSignal, EndSignalDelivered
<1>3. ASSUME MonitorStep PROVE UsesLock("monitor")
  BY <1>3 DEF MonitorStep, MonitorTurn, MonitorResume
<1>4. ASSUME PauseStep PROVE UsesLock("pause")
  BY <1>4 DEF PauseStep, CallArrives, PauseBegin, ServerCancel, PauseGathered, PauseEnd
<1>5. ASSUME UpdateStep \/ PutValidate PROVE UsesLock("update")
  BY <1>5 DEF UpdateStep, CallArrives, UpdateCount, UpdateSized, PutValidate, UpdateReported
<1>6. ASSUME ResumeStep PROVE UsesLock("resume")
  BY <1>6 DEF ResumeStep, CallArrives, ResumeBegin, ServerResume
<1> QED BY <1>1, <1>2, <1>3, <1>4, <1>5, <1>6

\* Nobody else touches it.
LEMMA LockLeftAlone ==
    ASSUME \/ FeederStep \/ ConsumerStep \/ PutSample \/ TrainerStep
           \/ Terminated \/ UNCHANGED vars
           \/ \E s \in Samples : TaskStep(s) \/ ServerStep(s)
    PROVE  lock' = lock
<1> USE DEF control
<1>1. CASE FeederStep \/ ConsumerStep \/ PutSample
  BY <1>1 DEF FeederStep, Feed, OnlyIntake, ConsumerStep, ConsumerTake, OnlyOutput,
     PutSample, PutDelivered
<1>2. CASE TrainerStep
  BY <1>2 DEF TrainerStep, GetSample, ReadValidate, Train, WaitLastValid, PauseReturned,
     SyncWeights, rollouterVars
<1>3. CASE Terminated \/ UNCHANGED vars
  BY <1>3 DEF Terminated, vars, rollouterVars
<1>4. CASE \E s \in Samples : TaskStep(s) \/ ServerStep(s)
  BY <1>4 DEF TaskStep, StartTask, EndTask, ServerStep, ServerAdmit
<1> QED BY <1>1, <1>2, <1>3, <1>4

\* Every coroutine stays at one of its labels.
LEMMA PcStep == PcTyped /\ [Next]_vars => PcTyped'
BY ProcessorMoves, MainMoves, MonitorMoves, PauseMoves, UpdateMoves, ResumeMoves, TrainerMoves,
   OthersDoNotMove DEF Next, Moves, Notifies, PcTyped

\* The lock keeps its type: its waiters are coroutines.
LEMMA LockStep == lock \in Lock /\ [Next]_vars => lock' \in Lock
<1> SUFFICES ASSUME lock \in Lock, [Next]_vars PROVE lock' \in Lock
  OBVIOUS
<1>1. ASSUME NEW c \in Coroutines, UsesLock(c) PROVE lock' \in Lock
  BY <1>1, LockTypes DEF UsesLock
<1> QED
  BY <1>1, LocksUsed, LockLeftAlone DEF Next, Coroutines

\* What does not change keeps its type.
LEMMA TypesKept ==
    ASSUME TypeInv
    PROVE  /\ UNCHANGED intakeVars => IntakeTyped'
           /\ UNCHANGED outputVars => OutputTyped'
           /\ UNCHANGED <<task, version_start>> => TaskTyped'
           /\ UNCHANGED reapVars => ReapTyped'
           /\ UNCHANGED flagVars => FlagTyped'
           /\ UNCHANGED countVars => CountTyped'
           /\ UNCHANGED serverVars => ServerTyped'
           /\ UNCHANGED trainerVars => TrainerTypeOK'
           /\ UNCHANGED mqVars => QueueTyped'
<1>1. UNCHANGED intakeVars => IntakeTyped'
  BY DEF TypeInv, IntakeTyped, intakeVars
<1>2. UNCHANGED outputVars => OutputTyped'
  BY DEF TypeInv, OutputTyped, outputVars
<1>3. UNCHANGED <<task, version_start>> => TaskTyped'
  BY DEF TypeInv, TaskTyped
<1>4. UNCHANGED reapVars => ReapTyped'
  BY DEF TypeInv, ReapTyped, reapVars
<1>5. UNCHANGED flagVars => FlagTyped'
  BY DEF TypeInv, FlagTyped, flagVars
<1>6. UNCHANGED countVars => CountTyped'
  BY DEF TypeInv, CountTyped, countVars
<1>7. UNCHANGED serverVars => ServerTyped'
  BY DEF TypeInv, ServerTyped, serverVars
<1>8. UNCHANGED trainerVars => TrainerTypeOK'
  BY DEF TypeInv, TrainerTypeOK, trainerVars
<1>9. UNCHANGED mqVars => QueueTyped'
  BY DEF TypeInv, QueueTyped, mqVars
<1> QED BY <1>1, <1>2, <1>3, <1>4, <1>5, <1>6, <1>7, <1>8, <1>9

\* Whether metrics are due is yes or no.
LEMMA ValidationDueType ==
    ASSUME NEW version \in Nat, NEW final \in BOOLEAN
    PROVE  ValidationDue(version, final) \in BOOLEAN
BY DEF ValidationDue

\* The initial state has the types.
LEMMA TypeInit == Init => TypeInv
<1> SUFFICES ASSUME Init PROVE TypeInv
  OBVIOUS
<1>1. RollouterInit /\ TrainerInit
  BY DEF Init
<1>2. PcTyped /\ lock \in Lock
  BY <1>1 DEF RollouterInit, PcTyped, Lock, Coroutines, Labels
<1>3. IntakeTyped /\ OutputTyped
  BY <1>1 DEF RollouterInit, IntakeTyped, OutputTyped, Done
<1>4. TaskTyped /\ ReapTyped
  BY <1>1 DEF RollouterInit, TaskTyped, ReapTyped
<1>5. FlagTyped /\ CountTyped /\ ServerTyped
  <2>1. FlagTyped
    BY <1>1 DEF RollouterInit, FlagTyped
  <2>2. CountTyped
    BY <1>1 DEF RollouterInit, CountTyped
  <2>3. server_paused = FALSE /\ failures = 0
    BY <1>1 DEF RollouterInit
  <2>4. 0 \in 0..MaxFailures
    OBVIOUS
  <2> QED BY <2>1, <2>2, <2>3, <2>4 DEF ServerTyped
<1>6. TrainerTypeOK
  <2>1. NoValData \in ValidateMetrics
    BY DEF NoValData, ValidateMetrics
  <2>2. 0 \in 0..RequiredSamples - 1 /\ 1 \in 1..TriggerStep
    OBVIOUS
  <2> QED BY <1>1, <2>1, <2>2 DEF TrainerInit, TrainerTypeOK, ValidateMetrics
<1>7. QueueTyped
  <2>1. ValidationDue(0, ValBeforeTrain) \in BOOLEAN
    BY ValidationDueType, PolicyAssumption
  <2>2. [version |-> 0, metrics |-> ValidationDue(0, ValBeforeTrain)] \in ValidateMetrics
    BY <2>1 DEF ValidateMetrics
  <2> QED BY <2>2 DEF Init, MQ!InitWith, QueueTyped
<1> QED BY <1>2, <1>3, <1>4, <1>5, <1>6, <1>7 DEF TypeInv

\* The steps of the processor keep the types.
LEMMA ProcessorTypes ==
    ASSUME TypeInv, ProcessorStep
    PROVE  /\ IntakeTyped' /\ OutputTyped' /\ TaskTyped' /\ ReapTyped'
           /\ FlagTyped' /\ CountTyped' /\ ServerTyped' /\ TrainerTypeOK' /\ QueueTyped'
<1> USE TypesKept
<1>1. TrainerTypeOK' /\ QueueTyped'
  BY DEF ProcessorStep, Alone
<1>2. IntakeTyped /\ TaskTyped /\ FlagTyped /\ CountTyped
  BY DEF TypeInv
<1>3. CASE TakePending /\ UNCHANGED <<cancel_queue, fed>> /\ OnlyIntake
  <2>1. taken' \in 0..Done /\ taken' <= fed
    <3>1. Done \in Nat /\ taken' \in {taken, taken + 1} /\ (taken = fed => taken' = taken)
      BY <1>3 DEF TakePending, PendingIsEmpty, Done
    <3> QED BY <1>2, <3>1 DEF IntakeTyped
  <2>2. held' \in 0..TotalRolloutSteps
    BY <1>2, <1>3, <2>1 DEF TakePending, SampleOf, Done, IntakeTyped
  <2>3. CountTyped'
    BY <1>2, <1>3 DEF TakePending, CountSample, CountTyped, OnlyIntake
  <2>4. IntakeTyped'
    BY <1>2, <1>3, <2>1, <2>2 DEF IntakeTyped
  <2> QED BY <1>1, <1>3, <2>3, <2>4 DEF OnlyIntake, taskVars
<1>4. CASE ProcessorTop(queue_size)
  <2>1. CASE TakeCancelled /\ cancel_queue # <<>>
    <3>1. Head(cancel_queue) \in Samples /\ Tail(cancel_queue) \in Seq(Samples)
      BY <1>2, <2>1 DEF IntakeTyped
    <3>2. /\ held' = Head(cancel_queue) /\ cancel_queue' = Tail(cancel_queue)
          /\ UNCHANGED <<taken, staleness_samples, fed>> /\ OnlyIntake
      BY <1>4, <2>1 DEF ProcessorTop, TakeCancelled
    <3>3. IntakeTyped'
      BY <1>2, <3>1, <3>2 DEF IntakeTyped, Samples
    <3> QED BY <1>1, <3>2, <3>3 DEF OnlyIntake, taskVars, countVars
  <2>2. CASE UNCHANGED <<taken, cancel_queue, held, staleness_samples>>
    BY <1>1, <1>4, <2>2 DEF ProcessorTop, OnlyIntake, taskVars, countVars, intakeVars
  <2> QED BY <1>3, <1>4, <2>1, <2>2 DEF ProcessorTop
<1>5. CASE GetPending
  BY <1>3, <1>5 DEF GetPending
<1>6. CASE SetPaused
  <2>1. FlagTyped'
    BY <1>2, <1>6 DEF SetPaused, FlagTyped
  <2> QED BY <1>1, <1>6, <2>1 DEF SetPaused, OnlyFlags, taskVars
<1>7. CASE OnlyControl
  BY <1>1, <1>7 DEF OnlyControl, taskVars
<1>8. CASE Reap
  <2>1. ReapTyped'
    BY <1>8 DEF Reap, ReapTyped
  <2> QED BY <1>1, <1>8, <2>1 DEF Reap, OnlyReaps
<1>9. CASE Submit
  <2>1. \/ UNCHANGED <<held, task>>
        \/ held' = 0 /\ task' = [task EXCEPT ![held] = "created"]
    BY <1>9 DEF Submit
  <2>2. IntakeTyped'
    BY <1>2, <1>9, <2>1 DEF Submit, IntakeTyped
  <2>3. TaskTyped'
    BY <1>2, <1>9, <2>1 DEF Submit, TaskTyped
  <2> QED BY <1>1, <1>9, <2>2, <2>3 DEF Submit
<1> QED
  BY <1>4, <1>5, <1>6, <1>7, <1>8, <1>9 DEF ProcessorStep, AwaitTasks, Idle, Woken

\* So do those of the tasks and the server behind them, ...
LEMMA TaskTypes ==
    ASSUME TypeInv, NEW s \in Samples, TaskStep(s) \/ ServerStep(s)
    PROVE  /\ IntakeTyped' /\ OutputTyped' /\ TaskTyped' /\ ReapTyped'
           /\ FlagTyped' /\ CountTyped' /\ ServerTyped' /\ TrainerTypeOK' /\ QueueTyped'
<1> USE TypesKept
<1>1. TrainerTypeOK' /\ QueueTyped'
  BY DEF TaskStep, ServerStep, Alone
<1>2. IntakeTyped /\ OutputTyped /\ TaskTyped /\ ReapTyped /\ CountTyped /\ ServerTyped
  BY DEF TypeInv
<1>3. CASE StartTask(s)
  <2>1. TaskTyped'
    BY <1>2, <1>3 DEF StartTask, TaskTyped, CountTyped
  <2> QED BY <1>1, <1>3, <2>1 DEF StartTask
<1>4. CASE ServerAdmit(s)
  <2>1. TaskTyped'
    BY <1>2, <1>4 DEF ServerAdmit, TaskTyped
  <2> QED BY <1>1, <1>4, <2>1 DEF ServerAdmit
<1>5. CASE EndTask(s)
  <2>1. TaskTyped'
    BY <1>2, <1>5 DEF EndTask, TaskTyped
  <2>2. PICK answer \in Answers(s) :
          /\ cancel_queue' = IF answer = "cancelled" THEN Append(cancel_queue, s) ELSE cancel_queue
          /\ result_queue' = IF IsResult(answer) THEN Append(result_queue, s) ELSE result_queue
          /\ failed_unreaped' = (failed_unreaped \/ answer = "raised")
          /\ failures' = IF answer = "raised" THEN failures + 1 ELSE failures
    BY <1>5 DEF EndTask
  <2>3. IntakeTyped'
    BY <1>2, <1>5, <2>2 DEF EndTask, IntakeTyped, Done
  <2>4. OutputTyped'
    BY <1>2, <1>5, <2>2 DEF EndTask, OutputTyped
  <2>5. ReapTyped'
    BY <1>2, <1>5, <2>2 DEF EndTask, ReapTyped
  <2>6. ServerTyped'
    <3>1. answer = "raised" => failures < MaxFailures
      BY DEF Answers
    <3> QED BY <1>2, <1>5, <2>2, <3>1 DEF EndTask, ServerTyped
  <2> QED BY <1>1, <1>5, <2>1, <2>3, <2>4, <2>5, <2>6 DEF EndTask
<1> QED BY <1>3, <1>4, <1>5 DEF TaskStep, ServerStep

\* The steps of the remaining coroutines that touch more than pc and lock.
LEMMA CoroutineTypes ==
    ASSUME TypeInv, FeederStep \/ ConsumerStep \/ MainStep \/ MonitorStep \/ PauseStep
                    \/ UpdateStep \/ ResumeStep
    PROVE  /\ IntakeTyped' /\ OutputTyped' /\ TaskTyped' /\ ReapTyped'
           /\ FlagTyped' /\ CountTyped' /\ ServerTyped' /\ TrainerTypeOK' /\ QueueTyped'
<1> USE TypesKept
<1>1. TrainerTypeOK' /\ QueueTyped'
  BY DEF FeederStep, ConsumerStep, MainStep, MonitorStep, PauseStep, UpdateStep, ResumeStep, Alone
<1>2. IntakeTyped /\ OutputTyped /\ ReapTyped /\ FlagTyped /\ CountTyped /\ ServerTyped
  BY DEF TypeInv
<1>3. CASE FeederStep
  <2>1. fed' \in 0..Done /\ taken <= fed'
    BY <1>2, <1>3 DEF FeederStep, Feed, IntakeTyped, Done
  <2>2. IntakeTyped'
    BY <1>2, <1>3, <2>1 DEF FeederStep, Feed, IntakeTyped
  <2> QED BY <1>1, <1>3, <2>2 DEF FeederStep, Feed, OnlyIntake, taskVars, countVars
<1>4. CASE ConsumerStep
  <2>1. OutputTyped'
    BY <1>2, <1>4 DEF ConsumerStep, ConsumerTake, OutputTyped, Samples
  <2> QED BY <1>1, <1>4, <2>1 DEF ConsumerStep, ConsumerTake, OnlyOutput, taskVars
<1>5. CASE OnlyControl
  BY <1>1, <1>5 DEF OnlyControl, taskVars
<1>6. CASE OnlyFlags /\ FlagTyped'
  BY <1>1, <1>6 DEF OnlyFlags, taskVars
<1>7. CASE StopRunning \/ MonitorResume \/ PauseBegin \/ PauseEnd \/ ResumeBegin
  <2>1. FlagTyped'
    BY <1>2, <1>7 DEF StopRunning, MonitorResume, PauseBegin, PauseEnd, ResumeBegin, FlagTyped
  <2> QED BY <1>6, <1>7, <2>1 DEF StopRunning, MonitorResume, PauseBegin, PauseEnd, ResumeBegin
<1>8. CASE ServerCancel \/ ServerResume
  <2>1. ServerTyped'
    BY <1>2, <1>8 DEF ServerCancel, ServerResume, ServerTyped
  <2> QED BY <1>1, <1>8, <2>1 DEF ServerCancel, ServerResume, taskVars
<1>9. CASE PauseGathered
  <2>1. ReapTyped'
    BY <1>2, <1>9 DEF PauseGathered, ReapTyped
  <2> QED BY <1>1, <1>9, <2>1 DEF PauseGathered, OnlyReaps
<1>10. CASE UpdateCount(weights_version)
  <2>1. ActiveTasks \in Nat
    BY <1>2, LiveIsFinite DEF ReapTyped
  <2>2. Len(result_queue) \in Nat /\ Len(cancel_queue) \in Nat
    BY <1>2 DEF OutputTyped, IntakeTyped
  <2>3. weights_version \in Nat
    BY DEF TypeInv, TrainerTypeOK
  <2>4. CountTyped'
    BY <1>2, <1>10, <2>1, <2>2, <2>3 DEF UpdateCount, CountTyped
  <2> QED BY <1>1, <1>10, <2>4 DEF UpdateCount, taskVars
<1>11. CASE UpdateSized(queue_size)
  <2>1. Len(mq_queue) \in Nat
    BY DEF TypeInv, QueueTyped
  <2>2. CountTyped'
    BY <1>2, <1>11, <2>1 DEF UpdateSized, ResetStaleness, queue_size, CountTyped
  <2> QED BY <1>1, <1>11, <2>2 DEF UpdateSized, taskVars
<1> QED
  BY <1>3, <1>4, <1>5, <1>7, <1>8, <1>9, <1>10, <1>11
     DEF MainStep, MainJoined, MonitorStep, MonitorTurn, PauseStep, UpdateStep, ResumeStep, CallArrives

\* ... the puts into the message queue, ...
LEMMA QueueTypes ==
    ASSUME TypeInv, PutSample \/ PutEndSignal \/ PutValidate
    PROVE  /\ IntakeTyped' /\ OutputTyped' /\ TaskTyped' /\ ReapTyped'
           /\ FlagTyped' /\ CountTyped' /\ ServerTyped' /\ TrainerTypeOK' /\ QueueTyped'
<1> USE TypesKept
<1>1. OutputTyped /\ CountTyped /\ QueueTyped /\ validate \in BOOLEAN
  BY DEF TypeInv, TrainerTypeOK
<1>2. ASSUME NEW s \in 0..TotalRolloutSteps, MQ!PutSample(s) PROVE QueueTyped'
  <2> DEFINE kept == IF Len(mq_queue) >= MaxRequiredSamples THEN Tail(mq_queue) ELSE mq_queue
  <2>1. kept \in Seq(0..TotalRolloutSteps)
    <3>1. CASE Len(mq_queue) >= MaxRequiredSamples
      <4>1. mq_queue # <<>>
        BY <1>1, <3>1 DEF QueueTyped
      <4>2. Tail(mq_queue) \in Seq(0..TotalRolloutSteps)
        BY <1>1, <4>1 DEF QueueTyped
      <4> QED BY <3>1, <4>2
    <3> QED BY <1>1, <3>1 DEF QueueTyped
  <2>2. mq_queue' = Append(kept, s) /\ val_queue' = val_queue
    BY <1>2 DEF MQ!PutSample, MQ!Appended, MQ!IsFull
  <2> HIDE DEF kept
  <2> QED BY <1>1, <2>1, <2>2 DEF QueueTyped
<1>3. CASE PutSample
  <2>1. OutputTyped'
    BY <1>1, <1>3 DEF PutSample, PutDelivered, OutputTyped
  <2>2. QueueTyped'
    BY <1>1, <1>2, <1>3 DEF PutSample, OutputTyped
  <2> QED BY <1>3, <2>1, <2>2 DEF PutSample, PutDelivered, OnlyOutput, taskVars
<1>4. CASE PutEndSignal
  <2>1. QueueTyped'
    BY <1>2, <1>4 DEF PutEndSignal, EndSignal
  <2> QED BY <1>4, <2>1 DEF PutEndSignal, EndSignalDelivered, OnlyControl, taskVars
<1>5. CASE PutValidate
  <2> DEFINE v == [version |-> current_param_version,
                   metrics |-> ValidationDue(current_param_version, validate)]
  <2>1. v \in ValidateMetrics
    BY <1>1, ValidationDueType DEF CountTyped, ValidateMetrics
  <2>2. val_queue' = Append(val_queue, v) /\ mq_queue' = mq_queue
    BY <1>5 DEF PutValidate, MQ!PutValidate
  <2> HIDE DEF v
  <2>3. QueueTyped'
    BY <1>1, <2>1, <2>2 DEF QueueTyped
  <2> QED BY <1>5, <2>3 DEF PutValidate, UpdateReported, OnlyControl, taskVars
<1> QED BY <1>3, <1>4, <1>5

\* ... and those of the trainer.
LEMMA TrainerTypes ==
    ASSUME TypeInv, TrainerStep
    PROVE  /\ IntakeTyped' /\ OutputTyped' /\ TaskTyped' /\ ReapTyped'
           /\ FlagTyped' /\ CountTyped' /\ ServerTyped' /\ TrainerTypeOK' /\ QueueTyped'
<1> USE TypesKept
<1>1. TrainerTypeOK /\ QueueTyped
  BY DEF TypeInv
<1>2. IntakeTyped' /\ OutputTyped' /\ TaskTyped' /\ ReapTyped' /\ FlagTyped' /\ CountTyped'
      /\ ServerTyped'
  BY DEF TrainerStep, GetSample, ReadValidate, Train, WaitLastValid, PauseReturned, SyncWeights,
     OnlyControl, rollouterVars, taskVars
<1>3. CASE GetSample
  <2>1. mq_queue' \in {mq_queue, Tail(mq_queue)} /\ val_queue' = val_queue
        /\ (mq_queue = <<>> => mq_queue' = mq_queue)
    BY <1>3 DEF GetSample, MQ!GetSample, MQ!Wake, MQ!GetLoop, MQ!WaitForSample, MQ!ReturnNone,
                MQ!TakeOldest
  <2>2. QueueTyped'
    <3>1. mq_queue # <<>> => Tail(mq_queue) \in Seq(0..TotalRolloutSteps)
      BY <1>1 DEF QueueTyped
    <3> QED BY <1>1, <2>1, <3>1 DEF QueueTyped
  <2>3. PICK s : UNCHANGED trainerVars \/ ReceiveEnd \/ Receive(s)
    BY <1>3 DEF GetSample
  <2>4. CASE ReceiveEnd
    BY <1>1, <1>2, <2>2, <2>4 DEF ReceiveEnd, TrainerTypeOK
  <2>5. CASE Receive(s)
    <3>1. collected' \in 0..RequiredSamples - 1
      BY <1>1, <2>5 DEF Receive, TrainerTypeOK
    <3> QED BY <1>1, <1>2, <2>2, <2>5, <3>1 DEF Receive, TrainerTypeOK
  <2> QED BY <1>2, <2>2, <2>3, <2>4, <2>5
<1>4. CASE ReadValidate
  <2> DEFINE answer == IF val_queue = <<>> THEN NoValData ELSE Head(val_queue)
  <2>1. val_queue' = (IF val_queue = <<>> THEN val_queue ELSE Tail(val_queue))
        /\ mq_queue' = mq_queue
    BY <1>4 DEF ReadValidate, MQ!GetValidate
  <2>2. QueueTyped'
    BY <1>1, <2>1 DEF QueueTyped
  <2>3. answer \in ValidateMetrics
    <3>1. NoValData \in ValidateMetrics
      BY DEF NoValData, ValidateMetrics
    <3> QED BY <1>1, <3>1 DEF QueueTyped
  <2>4. ReadFirst(answer) \/ ReadAfterStep(answer) \/ ReadFinal(answer)
    BY <1>4 DEF ReadValidate, MQ!ValidateAnswer
  <2> HIDE DEF answer
  <2>5. TrainerTypeOK'
    BY <1>1, <2>3, <2>4 DEF ReadFirst, ReadAfterStep, ReadFinal, TrainerTypeOK, ValidateMetrics
  <2> QED BY <1>2, <2>2, <2>5
<1>5. CASE Train
  <2> USE <1>1 DEF NewVersion
  <2>0. local_trigger_step \in 1..TriggerStep /\ 1 \in 1..TriggerStep
        /\ trainer_version \in Nat
    BY DEF TrainerTypeOK
  <2>1. ASSUME TrainBatch PROVE TrainerTypeOK'
    <3>1. local_trigger_step' \in 1..TriggerStep /\ trainer_version' \in Nat
      BY <2>0, <2>1 DEF TrainBatch
    <3>2. trainer' \in {"read", "wait_last"}
      BY <2>1 DEF TrainBatch
    <3> QED BY <2>1, <3>1, <3>2 DEF TrainBatch, TrainerTypeOK
  <2>2. ASSUME EndTraining PROVE TrainerTypeOK'
    <3>1. local_trigger_step' \in 1..TriggerStep /\ trainer_version' \in Nat
      BY <2>0, <2>2 DEF EndTraining
    <3>2. trainer' \in {"finished", "wait_final"}
      BY <2>2 DEF EndTraining
    <3> QED BY <2>2, <3>1, <3>2 DEF EndTraining, TrainerTypeOK
  <2> QED BY <1>2, <1>5, <2>1, <2>2 DEF Train
<1>6. CASE WaitLastValid
  <2>1. TrainerTypeOK'
    BY <1>1, <1>6 DEF WaitLastValid, LastSyncDone, TrainerTypeOK
  <2> QED BY <1>2, <1>6, <2>1 DEF WaitLastValid
<1>7. CASE PauseReturned
  <2>1. TrainerTypeOK'
    BY <1>1, <1>7 DEF PauseReturned, RollouterPaused, TrainerTypeOK
  <2>2. UNCHANGED <<mq_queue, val_queue>>
    BY <1>7 DEF PauseReturned, MQ!UpdateParamVersion
  <2> QED BY <1>1, <1>2, <2>1, <2>2 DEF QueueTyped
<1>8. CASE SyncWeights
  <2>1. TrainerTypeOK'
    BY <1>1, <1>8 DEF SyncWeights, WeightsSynced, TrainerTypeOK
  <2> QED BY <1>2, <1>8, <2>1 DEF SyncWeights
<1> QED BY <1>3, <1>4, <1>5, <1>6, <1>7, <1>8 DEF TrainerStep

\* Every step keeps the types.
LEMMA TypeStep == TypeInv /\ [Next]_vars => TypeInv'
<1> SUFFICES ASSUME TypeInv, [Next]_vars PROVE TypeInv'
  OBVIOUS
<1>1. PcTyped' /\ lock' \in Lock
  BY PcStep, LockStep DEF TypeInv
<1>2. CASE ProcessorStep
  BY <1>1, <1>2, ProcessorTypes DEF TypeInv
<1>3. CASE \E s \in Samples : TaskStep(s) \/ ServerStep(s)
  BY <1>1, <1>3, TaskTypes DEF TypeInv
<1>4. CASE FeederStep \/ ConsumerStep \/ MainStep \/ MonitorStep \/ PauseStep \/ UpdateStep
           \/ ResumeStep
  BY <1>1, <1>4, CoroutineTypes DEF TypeInv
<1>5. CASE PutSample \/ PutEndSignal \/ PutValidate
  BY <1>1, <1>5, QueueTypes DEF TypeInv
<1>6. CASE TrainerStep
  BY <1>1, <1>6, TrainerTypes DEF TypeInv
<1>7. CASE Terminated \/ UNCHANGED vars
  BY <1>1, <1>7, TypesKept DEF Terminated, vars, rollouterVars, taskVars, TypeInv
<1> QED BY <1>2, <1>3, <1>4, <1>5, <1>6, <1>7 DEF Next

\* Every variable of the rollouter and of the trainer keeps its type, whatever
\* the queue answers and however the actors interleave.
THEOREM TypeCorrect == Spec => []TypeOK
<1>1. TypeInv => TypeOK
  BY DEF TypeInv, TypeOK, RollouterTypeOK, PcTyped, Lock, IntakeTyped, OutputTyped, TaskTyped,
         ReapTyped, FlagTyped, CountTyped, ServerTyped
<1> QED BY <1>1, TypeInit, TypeStep, PTL DEF Spec

-----------------------------------------------------------------------------
(* The number of concurrent samples. *)

\* The processor is past its test of the limit.
Submitting == {"submit_in", "submit_cond", "submit_woken"}

ConcurrencyInv ==
    /\ ConcurrencyBound
    /\ pc.processor \in Submitting => ActiveTasks < MaxConcurrentSamples

\* The loops before the submission ends with room for one task, and no other
\* loop leads to it.
LEMMA HeadHasRoom ==
    ASSUME NEW l, NEW loop \in Loops, NEW n \in Nat, PcTyped, EnterLoop(l, loop, n)
    PROVE  pc'.processor \in Submitting => n < MaxConcurrentSamples
<1>1. pc'.processor = AtHead(loop, n)
  BY HeadLabel, GotoLabel DEF EnterLoop, Coroutines
<1>2. AtHead(loop, n) \in Submitting => n < MaxConcurrentSamples
  BY DEF AtHead, AtLimit, BusyHead, FreeHead, Submitting, Loops
<1> QED BY <1>1, <1>2

\* Without a change of task and unreaped the number of active tasks stays.
LEMMA ActiveTasksKept == UNCHANGED <<task, unreaped>> => ActiveTasks' = ActiveTasks
BY DEF ActiveTasks, Live

\* Submitting adds one task at most, ...
LEMMA SubmitAddsOne ==
    ASSUME TypeInv, task' = [task EXCEPT ![held] = "created"], unreaped' = unreaped
    PROVE  ActiveTasks' \in Nat /\ ActiveTasks' <= ActiveTasks + 1
<1>1. Live' \in {Live, Live \cup {held}}
  <2>1. CASE held \in Samples
    BY <2>1 DEF Live, TypeInv, TaskTyped
  <2>2. CASE held \notin Samples
    BY <2>2 DEF Live, TypeInv, TaskTyped
  <2> QED BY <2>1, <2>2
<1>2. Cardinality(Live') \in {Cardinality(Live), Cardinality(Live) + 1}
  BY <1>1, LiveIsFinite, FS_AddElement
<1> QED BY <1>2, LiveIsFinite DEF ActiveTasks, TypeInv, ReapTyped

\* ... and a task that ends stays in active_tasks as a finished one.
LEMMA EndKeepsNumber ==
    ASSUME TypeInv, NEW s \in Samples, EndTask(s)
    PROVE  ActiveTasks' = ActiveTasks
<1>1. task[s] # "none"
  BY DEF EndTask, Answers
<1>2. Live' = Live \ {s} /\ s \in Live
  BY <1>1 DEF EndTask, Live, TypeInv, TaskTyped
<1>3. Cardinality(Live') = Cardinality(Live) - 1
  BY <1>2, LiveIsFinite, FS_RemoveElement
<1> QED BY <1>3, LiveIsFinite DEF ActiveTasks, EndTask, TypeInv, ReapTyped

\* The processor creates a task only with room for it, and keeps room until then.
LEMMA ConcurrencyProcessor ==
    ASSUME TypeInv, ConcurrencyInv, ProcessorStep
    PROVE  ConcurrencyInv'
<1> USE DEF ConcurrencyInv, ConcurrencyBound
<1>0. PcTyped /\ unreaped \in Nat /\ ActiveTasks \in Nat /\ MaxConcurrentSamples \in Nat \ {0}
  BY LiveIsFinite DEF TypeInv, ReapTyped
<1>1. ASSUME NEW l, NEW loop \in Loops, EnterLoop(l, loop, ActiveTasks),
             UNCHANGED <<task, unreaped>>
      PROVE  ConcurrencyInv'
  BY <1>0, <1>1, HeadHasRoom, ActiveTasksKept
<1>2. ASSUME NEW label \in Labels \ Submitting, Goto("processor", label),
             UNCHANGED <<task, unreaped>>
      PROVE  ConcurrencyInv'
  BY <1>0, <1>2, GotoLabel, ActiveTasksKept DEF Coroutines
<1>3. CASE ProcessorTop(queue_size)
  <2>1. UNCHANGED <<task, unreaped>>
    BY <1>3 DEF ProcessorTop, OnlyIntake, taskVars, reapVars
  <2>2. CASE AskLock("processor", "pause_in")
    BY <2>1, <2>2, <1>2 DEF AskLock, Labels, Submitting
  <2>3. CASE TakeCancelled
    BY <2>1, <2>3, <1>1 DEF TakeCancelled, Loops
  <2>4. CASE TakePending
    BY <2>1, <2>4, <1>1, <1>2 DEF TakePending, Labels, Submitting, Loops
  <2> QED BY <1>3, <2>2, <2>3, <2>4 DEF ProcessorTop
<1>4. CASE GetPending
  BY <1>1, <1>2, <1>4 DEF GetPending, TakePending, OnlyIntake, taskVars, reapVars, Labels,
                          Submitting, Loops
<1>5. CASE SetPaused
  BY <1>1, <1>5 DEF SetPaused, OnlyFlags, taskVars, reapVars, Loops
<1>6. CASE AwaitTasks
  <2>1. UNCHANGED <<task, unreaped>>
    BY <1>6 DEF AwaitTasks, OnlyControl, taskVars, reapVars
  <2>2. CASE ActiveTasks > 0
    <3>1. WaitOf[pc.processor] \in Labels \ Submitting
      BY <1>6 DEF AwaitTasks, WaitOf, Labels, Submitting
    <3> QED BY <1>6, <2>1, <2>2, <3>1, <1>2 DEF AwaitTasks, KeepLock
  <2>3. CASE ~(ActiveTasks > 0)
    <3>1. ActiveTasks = 0
      BY <1>0, <2>3
    <3>2. LoopOf[pc.processor] \in Loops
      BY <1>6 DEF AwaitTasks, WaitOf, LoopOf, Loops
    <3>3. CASE done_tasks_bound
      BY <1>6, <2>1, <2>3, <3>1, <3>2, <3>3, <1>1 DEF AwaitTasks
    <3>4. CASE ~done_tasks_bound
      BY <1>6, <2>1, <2>3, <3>4, <1>2 DEF AwaitTasks, LeaveLock, Labels, Submitting
    <3> QED BY <3>3, <3>4
  <2> QED BY <2>2, <2>3
<1>7. CASE Reap
  <2>1. unreaped' = 0 /\ task' = task
    BY <1>7 DEF Reap, OnlyReaps
  <2>2. Live' = Live
    BY <2>1 DEF Live
  <2>3. ActiveTasks' = Cardinality(Live) /\ ActiveTasks' <= ActiveTasks /\ ActiveTasks' \in Nat
    BY <1>0, <2>1, <2>2, LiveIsFinite DEF ActiveTasks
  <2>4. pc'.processor \in Submitting => Cardinality(Live) < MaxConcurrentSamples
    <3>1. LoopOf[pc.processor] \in Loops
      BY <1>7 DEF Reap, LoopOf, Loops
    <3>2. CASE failed_unreaped
      BY <1>0, <1>7, <3>2, GotoLabel DEF Reap, LeaveLock, Labels, Submitting, Coroutines
    <3>3. CASE ~failed_unreaped
      BY <1>0, <1>7, <3>1, <3>3, HeadHasRoom, LiveIsFinite DEF Reap
    <3> QED BY <3>2, <3>3
  <2> QED BY <1>0, <2>3, <2>4
<1>8. CASE Idle
  BY <1>2, <1>8 DEF Idle, LeaveLock, OnlyControl, taskVars, reapVars, Labels, Submitting
<1>9. CASE Woken
  <2>1. UNCHANGED <<task, unreaped>>
    BY <1>9 DEF Woken, OnlyControl, taskVars, reapVars
  <2>2. CASE pc.processor = "idle_woken"
    BY <1>9, <2>1, <2>2, <1>2 DEF Woken, AskLock, Labels, Submitting
  <2>3. CASE pc.processor = "submit_woken"
    BY <1>0, <2>1, <2>3, ActiveTasksKept DEF Submitting
  <2> QED BY <1>9, <2>2, <2>3 DEF Woken
<1>10. CASE Submit
  <2>1. pc.processor \in Submitting /\ unreaped' = unreaped
    BY <1>10 DEF Submit, InLock, Submitting, reapVars
  <2>2. CASE paused
    BY <1>0, <1>10, <2>1, <2>2, ActiveTasksKept DEF Submit
  <2>3. CASE ~paused
    <3>1. pc'.processor = "top"
      BY <1>0, <1>10, <2>3, GotoLabel DEF Submit, LeaveLock, Labels, Coroutines
    <3>2. ActiveTasks' \in Nat /\ ActiveTasks' <= ActiveTasks + 1
      BY <1>10, <2>1, <2>3, SubmitAddsOne DEF Submit
    <3> QED BY <1>0, <2>1, <3>1, <3>2 DEF Submitting
  <2> QED BY <2>2, <2>3
<1> QED
  BY <1>3, <1>4, <1>5, <1>6, <1>7, <1>8, <1>9, <1>10 DEF ProcessorStep

\* A notified processor is past the test only if it was when it fell asleep.
LEMMA NotifiedWaiter ==
    ASSUME NEW p \in [Coroutines -> Labels]
    PROVE  Notified(p).processor \in Submitting => p.processor \in Submitting
BY DEF Notified, WokenFrom, Submitting, Coroutines

\* Nobody else takes the room.
LEMMA ConcurrencyStep ==
    ASSUME TypeInv, ConcurrencyInv, [Next]_vars
    PROVE  ConcurrencyInv'
<1> USE DEF ConcurrencyInv, ConcurrencyBound
<1>0. PcTyped /\ unreaped \in Nat /\ ActiveTasks \in Nat /\ MaxConcurrentSamples \in Nat
  BY LiveIsFinite DEF TypeInv, ReapTyped
\* The other steps lower the number of active tasks or keep it, and never
\* bring the processor past its test.
<1>1. ASSUME pc'.processor = pc.processor \/ pc'.processor \notin Submitting
                                          \/ pc.processor \in Submitting,
             ActiveTasks' \in Nat, ActiveTasks' <= ActiveTasks
      PROVE  ConcurrencyInv'
  BY <1>0, <1>1
<1>2. ASSUME pc'.processor = pc.processor \/ pc.processor \in Submitting
                                          \/ pc'.processor \notin Submitting,
             UNCHANGED <<task, unreaped>>
      PROVE  ConcurrencyInv'
  BY <1>0, <1>1, <1>2, ActiveTasksKept
<1>3. CASE ProcessorStep
  BY <1>3, ConcurrencyProcessor
<1>4. CASE MainStep \/ PutEndSignal
  <2>1. UNCHANGED <<task, unreaped>>
    BY <1>4 DEF MainStep, MainJoined, StopRunning, PutEndSignal, EndSignalDelivered, OnlyControl,
                OnlyFlags, taskVars, reapVars
  <2> QED BY <1>0, <1>2, <1>4, <2>1, MainMoves DEF Moves, Coroutines
<1>5. CASE MonitorStep \/ ResumeStep
  <2>1. UNCHANGED <<task, unreaped>>
    BY <1>5 DEF MonitorStep, MonitorTurn, MonitorResume, ResumeStep, CallArrives, ResumeBegin,
                ServerResume, OnlyControl, OnlyFlags, taskVars, reapVars
  <2>2. pc'.processor = pc.processor \/ pc'.processor \notin Submitting
                                     \/ pc.processor \in Submitting
    <3>1. ASSUME NEW c \in {"monitor", "resume"}, NEW label \in Labels,
                 pc' = Notified([pc EXCEPT ![c] = label])
          PROVE  pc'.processor \in Submitting => pc.processor \in Submitting
      <4> DEFINE p == [pc EXCEPT ![c] = label]
      <4>1. p \in [Coroutines -> Labels] /\ p.processor = pc.processor
        BY <1>0 DEF PcTyped, Coroutines
      <4> HIDE DEF p
      <4> QED BY <3>1, <4>1, NotifiedWaiter DEF p
    <3>2. CASE MonitorResume
      <4>1. pc' = Notified([pc EXCEPT !["monitor"] = IF running THEN "sleep" ELSE "done"])
        BY <3>2 DEF MonitorResume
      <4> QED BY <3>1, <4>1 DEF Labels
    <3>3. CASE ResumeBegin
      <4>1. pc' = Notified([pc EXCEPT !["resume"] = IF PartialRollout THEN "server" ELSE "none"])
        BY <3>3 DEF ResumeBegin
      <4> QED BY <3>1, <4>1 DEF Labels
    <3>4. CASE ~MonitorResume /\ ~ResumeBegin
      <4>1. \A c \in {"monitor", "resume"}, label \in Labels :
              Goto(c, label) => pc'.processor = pc.processor
        BY <1>0, GotoLabel DEF Moves, Coroutines
      <4> QED BY <1>5, <3>4, <4>1 DEF MonitorStep, MonitorTurn, ResumeStep, CallArrives,
                                      ServerResume, AskLock, LeaveLock, Labels
    <3> QED BY <3>2, <3>3, <3>4
  <2> QED BY <1>2, <2>1, <2>2
<1>6. CASE PauseStep
  <2>1. pc'.processor = pc.processor
    BY <1>0, <1>6, PauseMoves DEF Moves, Coroutines
  <2>2. CASE PauseGathered
    <3>1. Live' = Live /\ unreaped' = 0
      BY <2>2 DEF PauseGathered, OnlyReaps, Live
    <3>2. ActiveTasks' \in Nat /\ ActiveTasks' <= ActiveTasks
      BY <1>0, <3>1, LiveIsFinite DEF ActiveTasks
    <3> QED BY <1>1, <2>1, <3>2
  <2>3. CASE ~PauseGathered
    BY <1>2, <1>6, <2>1, <2>3 DEF PauseStep, CallArrives, PauseBegin, ServerCancel, PauseEnd,
                                  OnlyControl, OnlyFlags, taskVars, reapVars
  <2> QED BY <2>2, <2>3
<1>7. CASE UpdateStep \/ PutValidate
  <2>1. UNCHANGED <<task, unreaped>>
    BY <1>7 DEF UpdateStep, CallArrives, UpdateCount, UpdateSized, PutValidate, UpdateReported,
                OnlyControl, taskVars, reapVars
  <2> QED BY <1>0, <1>2, <1>7, <2>1, UpdateMoves DEF Moves, Coroutines
<1>8. CASE TrainerStep
  <2>1. UNCHANGED <<task, unreaped>>
    BY <1>8 DEF TrainerStep, GetSample, ReadValidate, Train, WaitLastValid, PauseReturned,
                SyncWeights, OnlyControl, rollouterVars, taskVars, reapVars
  <2> QED BY <1>0, <1>2, <1>8, <2>1, TrainerMoves
<1>9. CASE \E s \in Samples : TaskStep(s) \/ ServerStep(s)
  <2>1. pc' = pc
    BY <1>9, OthersDoNotMove
  <2>2. PICK s \in Samples : TaskStep(s) \/ ServerStep(s)
    BY <1>9
  <2>3. CASE EndTask(s)
    BY <1>0, <1>1, <2>1, <2>3, EndKeepsNumber
  <2>4. CASE StartTask(s) \/ ServerAdmit(s)
    <3>1. Live' = Live /\ unreaped' = unreaped
      BY <2>4 DEF StartTask, ServerAdmit, Live, TypeInv, TaskTyped, reapVars
    <3>2. ActiveTasks' = ActiveTasks
      BY <3>1 DEF ActiveTasks
    <3> QED BY <1>0, <1>1, <2>1, <3>2
  <2> QED BY <2>2, <2>3, <2>4 DEF TaskStep, ServerStep
<1>10. CASE FeederStep \/ ConsumerStep \/ PutSample \/ Terminated \/ UNCHANGED vars
  <2>1. UNCHANGED <<task, unreaped>>
    BY <1>10 DEF FeederStep, Feed, ConsumerStep, ConsumerTake, PutSample, PutDelivered, Terminated,
                 OnlyIntake, OnlyOutput, vars, rollouterVars, taskVars, reapVars
  <2> QED BY <1>2, <1>10, <2>1, OthersDoNotMove
<1> QED
  BY <1>3, <1>4, <1>5, <1>6, <1>7, <1>8, <1>9, <1>10 DEF Next

\* There is no task at the start.
LEMMA ConcurrencyInit == Init => ConcurrencyInv
<1> SUFFICES ASSUME Init PROVE ConcurrencyInv
  OBVIOUS
<1>1. RollouterInit
  BY DEF Init
<1>2. Live = {} /\ unreaped = 0
  BY <1>1 DEF RollouterInit, Live
<1>3. ActiveTasks = 0
  BY <1>2, FS_EmptySet DEF ActiveTasks
<1>4. pc.processor = "top"
  BY <1>1 DEF RollouterInit
<1> QED BY <1>3, <1>4 DEF ConcurrencyInv, ConcurrencyBound, Submitting

\* active_tasks never holds more than max_concurrent_samples tasks: the
\* processor tests the limit, gives up the lock, may sleep through a pause and
\* submits later without a second test, but nobody else adds a task meanwhile.
THEOREM ConcurrencyCorrect == Spec => []ConcurrencyBound
<1>1. ConcurrencyInv => ConcurrencyBound
  BY DEF ConcurrencyInv
<1>2. TypeInv /\ ConcurrencyInv /\ [Next]_vars => TypeInv' /\ ConcurrencyInv'
  BY TypeStep, ConcurrencyStep
<1> QED BY <1>1, <1>2, TypeInit, ConcurrencyInit, PTL DEF Spec

-----------------------------------------------------------------------------
(* self.lock excludes: a coroutine that suspends inside `async with         *)
(* self.lock` is its owner.                                                 *)

HoldsLock ==
    {"drain_wait", "limit_wait", "done_wait", "cancel", "gather", "reset", "sizing", "report",
     "server"}

LockInv == \A c \in Coroutines : pc[c] \in HoldsLock => lock.owner = c

\* What coroutine c does to the lock when it obeys this rule: it lets go of the
\* lock only as its owner, and suspends inside only as its owner.
ObeysLock(c) ==
    /\ \/ lock' = lock
       \/ lock' = Requested(lock, c)
       \/ lock.owner = c /\ lock' \in {Suspended(lock), Released(lock), Requested(Released(lock), c)}
    /\ pc'[c] \in HoldsLock => lock.owner = c /\ lock' \in {lock, Suspended(lock)}

\* Suspending inside, and queueing for a lock that is held, leave its owner.
LEMMA OwnerKept ==
    ASSUME NEW l \in Lock, NEW c \in Coroutines
    PROVE  /\ Suspended(l).owner = l.owner
           /\ l.owner # Nobody => Requested(l, c).owner = l.owner
BY DEF Suspended, Requested, Lock

\* "nobody" is not the name of a coroutine.
LEMMA NobodyIsNone == Nobody \notin Coroutines
BY DEF Nobody, Coroutines

\* A coroutine that obeys the rule does not take the lock from another.
LEMMA ObeyingStep ==
    ASSUME LockInv, lock \in Lock, NEW c \in Coroutines, ObeysLock(c),
           \A d \in Coroutines \ {c} : pc'[d] \in HoldsLock => pc'[d] = pc[d]
    PROVE  LockInv'
<1> SUFFICES ASSUME NEW d \in Coroutines, pc'[d] \in HoldsLock PROVE lock'.owner = d
  BY DEF LockInv
<1>1. CASE d = c
  BY <1>1, OwnerKept DEF ObeysLock
<1>2. CASE d # c
  <2>1. lock.owner = d
    BY <1>2 DEF LockInv
  <2>2. lock' = lock \/ lock' = Requested(lock, c)
    BY <1>2, <2>1 DEF ObeysLock
  <2> QED BY <2>1, <2>2, OwnerKept, NobodyIsNone
<1> QED BY <1>1, <1>2

\* The processor obeys the rule in every step.
LEMMA ProcessorObeys ==
    ASSUME LockInv, PcTyped, ProcessorStep
    PROVE  ObeysLock("processor")
<1>0. "processor" \in Coroutines
  BY DEF Coroutines
<1>1. ASSUME NEW label \in Labels, Goto("processor", label) PROVE pc'["processor"] = label
  BY <1>0, <1>1, GotoLabel
<1>2. \A loop \in Loops : \A n : AtHead(loop, n) \in Labels \ HoldsLock
  BY DEF AtHead, Loops, BusyHead, FreeHead, Labels, HoldsLock
<1>3. ASSUME NEW l, NEW loop \in Loops, NEW n, EnterLoop(l, loop, n),
             l = lock \/ (l = Released(lock) /\ lock.owner = "processor")
      PROVE  ObeysLock("processor")
  BY <1>1, <1>2, <1>3 DEF EnterLoop, ObeysLock
<1>4. ASSUME NEW label \in Labels \ HoldsLock, AskLock("processor", label)
      PROVE  ObeysLock("processor")
  BY <1>1, <1>4 DEF AskLock, ObeysLock
<1>5. ASSUME NEW label \in Labels \ HoldsLock, LeaveLock("processor", label),
             lock.owner = "processor"
      PROVE  ObeysLock("processor")
  BY <1>1, <1>5 DEF LeaveLock, ObeysLock
<1>6. CASE ProcessorTop(queue_size)
  <2>1. CASE AskLock("processor", "pause_in")
    BY <1>4, <2>1 DEF Labels, HoldsLock
  <2>2. CASE TakeCancelled
    BY <1>3, <2>2 DEF TakeCancelled, Loops
  <2>3. CASE Goto("processor", "get") /\ UNCHANGED lock
    BY <1>1, <2>3 DEF ObeysLock, Labels, HoldsLock
  <2>4. CASE TakePending
    BY <1>3, <2>3, <2>4 DEF TakePending, Loops
  <2> QED BY <1>6, <2>1, <2>2, <2>4 DEF ProcessorTop
<1>7. CASE GetPending
  BY <1>3, <1>7 DEF GetPending, TakePending, Loops
<1>8. CASE SetPaused
  BY <1>3, <1>8 DEF SetPaused, InLock, Loops
<1>9. CASE AwaitTasks
  <2>1. /\ lock.owner = "processor"
        /\ WaitOf[pc.processor] \in Labels
        /\ LoopOf[pc.processor] \in Loops
    BY <1>9 DEF AwaitTasks, InLock, WaitOf, LoopOf, Labels, Loops
  <2>2. CASE KeepLock("processor", WaitOf[pc.processor])
    BY <1>1, <2>1, <2>2 DEF KeepLock, ObeysLock
  <2>3. CASE EnterLoop(Released(lock), LoopOf[pc.processor], 0)
    BY <1>3, <2>1, <2>3
  <2>4. CASE LeaveLock("processor", "failed")
    BY <1>5, <2>1, <2>4 DEF Labels, HoldsLock
  <2> QED BY <1>9, <2>2, <2>3, <2>4 DEF AwaitTasks
<1>10. CASE Reap
  <2>1. /\ lock.owner = "processor"
        /\ LoopOf[pc.processor] \in Loops
    BY <1>0, <1>10 DEF Reap, LockInv, HoldsLock, LoopOf, Loops
  <2>2. CASE LeaveLock("processor", "failed")
    BY <1>5, <2>1, <2>2 DEF Labels, HoldsLock
  <2>3. CASE EnterLoop(Released(lock), LoopOf[pc.processor], Cardinality(Live))
    BY <1>3, <2>1, <2>3
  <2> QED BY <1>10, <2>2, <2>3 DEF Reap
<1>11. CASE Idle
  BY <1>5, <1>11 DEF Idle, InLock, Labels, HoldsLock
<1>12. CASE Woken
  BY <1>4, <1>12 DEF Woken, Labels, HoldsLock
<1>13. CASE Submit
  BY <1>5, <1>13 DEF Submit, InLock, Labels, HoldsLock
<1> QED
  BY <1>6, <1>7, <1>8, <1>9, <1>10, <1>11, <1>12, <1>13 DEF ProcessorStep

\* So do the other coroutines.
LEMMA OthersObey ==
    ASSUME LockInv, PcTyped
    PROVE  /\ MainStep \/ PutEndSignal => ObeysLock("main")
           /\ MonitorStep => ObeysLock("monitor")
           /\ PauseStep => ObeysLock("pause")
           /\ UpdateStep \/ PutValidate => ObeysLock("update")
           /\ ResumeStep => ObeysLock("resume")
<1>1. ASSUME NEW c \in Coroutines, NEW label \in Labels, Goto(c, label) PROVE pc'[c] = label
  BY <1>1, GotoLabel
<1>2. ASSUME NEW c \in Coroutines, NEW label \in Labels \ HoldsLock, AskLock(c, label)
      PROVE  ObeysLock(c)
  BY <1>1, <1>2 DEF AskLock, ObeysLock
<1>3. ASSUME NEW c \in Coroutines, NEW label \in Labels \ HoldsLock, LeaveLock(c, label),
             lock.owner = c
      PROVE  ObeysLock(c)
  BY <1>1, <1>3 DEF LeaveLock, ObeysLock
<1>4. ASSUME NEW c \in Coroutines, NEW label \in Labels, KeepLock(c, label), lock.owner = c
      PROVE  ObeysLock(c)
  BY <1>1, <1>4 DEF KeepLock, ObeysLock
<1>5. ASSUME NEW c \in Coroutines, NEW label \in Labels, Goto(c, label), lock' = lock,
             label \in HoldsLock => lock.owner = c
      PROVE  ObeysLock(c)
  BY <1>1, <1>5 DEF ObeysLock
<1>6. ASSUME NEW c \in {"pause", "update", "resume"}, CallArrives(c) PROVE ObeysLock(c)
  BY <1>2, <1>6 DEF CallArrives, Coroutines, Labels, HoldsLock
<1>7. \A c \in Coroutines : pc[c] \in HoldsLock => lock.owner = c
  BY DEF LockInv
<1>8. ASSUME MainStep \/ PutEndSignal PROVE ObeysLock("main")
  <2>1. CASE MainJoined
    BY <1>5, <2>1 DEF MainJoined, Coroutines, Labels, HoldsLock
  <2>2. CASE StopRunning
    BY <1>3, <2>2 DEF StopRunning, InLock, Coroutines, Labels, HoldsLock
  <2>3. CASE PutEndSignal
    BY <1>2, <2>3 DEF PutEndSignal, EndSignalDelivered, Coroutines, Labels, HoldsLock
  <2> QED BY <1>8, <2>1, <2>2, <2>3 DEF MainStep
<1>9. ASSUME MonitorStep PROVE ObeysLock("monitor")
  <2>1. CASE MonitorTurn(queue_size)
    <3>1. AskLock("monitor", "resume_in") \/ (Goto("monitor", "done") /\ lock' = lock)
      BY <2>1 DEF MonitorTurn
    <3> QED BY <1>2, <1>5, <3>1 DEF Coroutines, Labels, HoldsLock
  <2>2. CASE MonitorResume
    <3>1. pc'["monitor"] \notin HoldsLock
      <4> DEFINE p == [pc EXCEPT !["monitor"] = IF running THEN "sleep" ELSE "done"]
      <4>1. pc' = Notified(p)
        BY <2>2 DEF MonitorResume
      <4>2. p \in [Coroutines -> Labels] /\ p["monitor"] \in {"sleep", "done"}
        BY DEF PcTyped, Coroutines, Labels
      <4> HIDE DEF p
      <4> QED BY <4>1, <4>2, NotifiedWakes DEF Coroutines, HoldsLock
    <3> QED BY <2>2, <3>1 DEF MonitorResume, InLock, ObeysLock
  <2> QED BY <1>9, <2>1, <2>2 DEF MonitorStep
<1>10. ASSUME PauseStep PROVE ObeysLock("pause")
  <2>1. CASE PauseBegin
    BY <1>4, <2>1 DEF PauseBegin, InLock, Coroutines, Labels
  <2>2. CASE ServerCancel \/ PauseGathered
    BY <1>5, <1>7, <2>2 DEF ServerCancel, PauseGathered, Coroutines, Labels, HoldsLock
  <2>3. CASE PauseEnd
    BY <1>3, <1>7, <2>3 DEF PauseEnd, Coroutines, Labels, HoldsLock
  <2> QED BY <1>6, <1>10, <2>1, <2>2, <2>3 DEF PauseStep
<1>11. ASSUME UpdateStep \/ PutValidate PROVE ObeysLock("update")
  <2>1. CASE UpdateCount(weights_version)
    BY <1>4, <2>1 DEF UpdateCount, InLock, Coroutines, Labels
  <2>2. CASE UpdateSized(queue_size)
    BY <1>5, <1>7, <2>2 DEF UpdateSized, Coroutines, Labels, HoldsLock
  <2>3. CASE PutValidate
    BY <1>3, <1>7, <2>3 DEF PutValidate, UpdateReported, Coroutines, Labels, HoldsLock
  <2> QED BY <1>6, <1>11, <2>1, <2>2, <2>3 DEF UpdateStep
<1>12. ASSUME ResumeStep PROVE ObeysLock("resume")
  <2>1. CASE ResumeBegin
    <3>1. pc'["resume"] = IF PartialRollout THEN "server" ELSE "none"
      <4> DEFINE p == [pc EXCEPT !["resume"] = IF PartialRollout THEN "server" ELSE "none"]
      <4>1. pc' = Notified(p)
        BY <2>1 DEF ResumeBegin
      <4>2. p \in [Coroutines -> Labels]
            /\ p["resume"] = IF PartialRollout THEN "server" ELSE "none"
        BY DEF PcTyped, Coroutines, Labels
      <4> HIDE DEF p
      <4> QED BY <4>1, <4>2, NotifiedWakes DEF Coroutines
    <3> QED BY <2>1, <3>1 DEF ResumeBegin, InLock, ObeysLock, HoldsLock
  <2>2. CASE ServerResume
    BY <1>3, <1>7, <2>2 DEF ServerResume, Coroutines, Labels, HoldsLock
  <2> QED BY <1>6, <1>12, <2>1, <2>2 DEF ResumeStep
<1> QED BY <1>8, <1>9, <1>10, <1>11, <1>12

\* A notified processor and an arriving call are not inside.
LEMMA LockInvStep ==
    ASSUME LockInv, PcTyped, lock \in Lock, [Next]_vars
    PROVE  LockInv'
<1>1. ASSUME NEW c \in Coroutines, ObeysLock(c), Moves(c) \/ Notifies(c)
      PROVE  LockInv'
  <2>1. ASSUME NEW d \in Coroutines \ {c}, pc'[d] \in HoldsLock
        PROVE  pc'[d] = pc[d]
    BY <1>1, <2>1 DEF Moves, Notifies, HoldsLock, Coroutines
  <2> QED BY <1>1, <2>1, ObeyingStep
<1>2. ASSUME lock' = lock, \A c \in Coroutines : pc'[c] \in {pc[c], "called"}
      PROVE  LockInv'
  BY <1>2 DEF LockInv, HoldsLock
<1>3. CASE ProcessorStep
  BY <1>1, <1>3, ProcessorMoves, ProcessorObeys DEF Coroutines
<1>4. CASE MainStep \/ PutEndSignal
  BY <1>1, <1>4, MainMoves, OthersObey DEF Coroutines
<1>5. CASE MonitorStep
  BY <1>1, <1>5, MonitorMoves, OthersObey DEF Coroutines
<1>6. CASE PauseStep
  BY <1>1, <1>6, PauseMoves, OthersObey DEF Coroutines
<1>7. CASE UpdateStep \/ PutValidate
  BY <1>1, <1>7, UpdateMoves, OthersObey DEF Coroutines
<1>8. CASE ResumeStep
  BY <1>1, <1>8, ResumeMoves, OthersObey DEF Coroutines
<1>9. CASE TrainerStep
  BY <1>2, <1>9, LockLeftAlone, TrainerMoves DEF Coroutines
<1>10. CASE \/ FeederStep \/ ConsumerStep \/ PutSample \/ Terminated \/ UNCHANGED vars
            \/ \E s \in Samples : TaskStep(s) \/ ServerStep(s)
  BY <1>2, <1>10, LockLeftAlone, OthersDoNotMove
<1> QED
  BY <1>3, <1>4, <1>5, <1>6, <1>7, <1>8, <1>9, <1>10 DEF Next

-----------------------------------------------------------------------------
(* The samples the trainer does not have yet. *)

\* Sample s is in the rollouter or in the message queue.
Somewhere(s) ==
    \/ held = s \/ s \in Live \/ putting = s
    \/ InQueue(s, cancel_queue) \/ InQueue(s, result_queue) \/ InQueue(s, mq_queue)

\* Counting the places of a sample and naming one come to the same.
LEMMA OutstandingIsSomewhere == Outstanding = {s \in Samples : Somewhere(s)}
BY DEF Outstanding, Undelivered, InRollouter, One, Somewhere, Live

\* What append and the removal of the head do to the members of a queue.
LEMMA InQueueOf ==
    ASSUME NEW T, NEW q \in Seq(T), NEW s, NEW e \in T
    PROVE  /\ InQueue(s, Append(q, e)) => InQueue(s, q) \/ s = e
           /\ q # <<>> => InQueue(Head(q), q) /\ (InQueue(s, Tail(q)) => InQueue(s, q))
<1>1. InQueue(s, Append(q, e)) => InQueue(s, q) \/ s = e
  BY DEF InQueue
<1>2. ASSUME q # <<>> PROVE InQueue(Head(q), q) /\ (InQueue(s, Tail(q)) => InQueue(s, q))
  <2>1. Len(q) \in Nat \ {0} /\ DOMAIN q = 1..Len(q) /\ Head(q) = q[1]
    BY <1>2
  <2>2. DOMAIN Tail(q) = 1..(Len(q) - 1) /\ \A i \in 1..(Len(q) - 1) : Tail(q)[i] = q[i + 1]
    BY <1>2
  <2>3. \A i \in DOMAIN Tail(q) : i + 1 \in DOMAIN q
    BY <2>1, <2>2
  <2> QED BY <2>1, <2>2, <2>3 DEF InQueue
<1> QED BY <1>1, <1>2

\* A queue holds at most as many samples as it is long.
Members(q) == {q[i] : i \in DOMAIN q}

\* Its members are no more than its length.
LEMMA MembersBound ==
    ASSUME NEW T, NEW q \in Seq(T)
    PROVE  IsFiniteSet(Members(q)) /\ Cardinality(Members(q)) \in Nat
           /\ Cardinality(Members(q)) <= Len(q)
<1>1. q \in Surjection(1..Len(q), Members(q))
  BY DEF Surjection, Members
<1>2. IsFiniteSet(1..Len(q)) /\ Cardinality(1..Len(q)) = Len(q)
  <2>1. Len(q) \in Nat
    OBVIOUS
  <2> QED BY <2>1, FS_Interval
<1>3. IsFiniteSet(Members(q)) /\ Cardinality(Members(q)) <= Len(q)
  BY <1>1, <1>2, FS_Surjection
<1> QED BY <1>3, FS_CardinalityType

\* Two sets together have no more elements than both.
LEMMA UnionBound ==
    ASSUME NEW S, IsFiniteSet(S), NEW T, IsFiniteSet(T)
    PROVE  IsFiniteSet(S \cup T) /\ Cardinality(S \cup T) \in Nat
           /\ Cardinality(S \cup T) <= Cardinality(S) + Cardinality(T)
<1>1. /\ IsFiniteSet(S \cup T)
      /\ Cardinality(S \cup T) = Cardinality(S) + Cardinality(T) - Cardinality(S \cap T)
  BY FS_Union
<1>2. IsFiniteSet(S \cap T)
  BY FS_Intersection
<1>3. /\ Cardinality(S) \in Nat /\ Cardinality(T) \in Nat
      /\ Cardinality(S \cap T) \in Nat /\ Cardinality(S \cup T) \in Nat
  BY <1>1, <1>2, FS_CardinalityType
<1> QED BY <1>1, <1>3

\* There are finitely many samples.
LEMMA OutstandingIsFinite == IsFiniteSet(Outstanding) /\ Cardinality(Outstanding) \in Nat
<1>1. IsFiniteSet(Samples)
  BY FS_Interval DEF Samples
<1>2. Outstanding \subseteq Samples
  BY DEF Outstanding
<1> QED BY <1>1, <1>2, FS_Subset, FS_CardinalityType

\* What update_param_version() adds up before its await.
Counted == Cardinality(Live) + Len(result_queue) + Len(cancel_queue)

\* It overlooks two samples at most: the one in the processor's hands and the
\* one the consumer is putting.
LEMMA OverlooksTwo ==
    ASSUME TypeInv
    PROVE  Cardinality(Outstanding) <= Counted + Len(mq_queue) + 2
<1> DEFINE A == Live \cup Members(result_queue)
           B == A \cup Members(cancel_queue)
           C == B \cup Members(mq_queue)
           D == C \cup {held, putting}
<1>1. /\ IsFiniteSet(Members(result_queue)) /\ Cardinality(Members(result_queue)) <= Len(result_queue)
      /\ IsFiniteSet(Members(cancel_queue)) /\ Cardinality(Members(cancel_queue)) <= Len(cancel_queue)
      /\ IsFiniteSet(Members(mq_queue)) /\ Cardinality(Members(mq_queue)) <= Len(mq_queue)
  BY MembersBound DEF TypeInv, IntakeTyped, OutputTyped, QueueTyped
<1>2. Len(result_queue) \in Nat /\ Len(cancel_queue) \in Nat /\ Len(mq_queue) \in Nat
  BY DEF TypeInv, IntakeTyped, OutputTyped, QueueTyped
<1>3. IsFiniteSet({held, putting}) /\ Cardinality({held, putting}) <= 2
  <2>1. IsFiniteSet({held}) /\ Cardinality({held}) = 1 /\ IsFiniteSet({putting})
        /\ Cardinality({putting}) = 1
    BY FS_Singleton
  <2>2. {held, putting} = {held} \cup {putting}
    OBVIOUS
  <2> QED BY <2>1, <2>2, UnionBound
<1>4. IsFiniteSet(A) /\ Cardinality(A) <= Cardinality(Live) + Cardinality(Members(result_queue))
  BY <1>1, LiveIsFinite, UnionBound
<1>5. IsFiniteSet(B) /\ Cardinality(B) <= Cardinality(A) + Cardinality(Members(cancel_queue))
  BY <1>1, <1>4, UnionBound
<1>6. IsFiniteSet(C) /\ Cardinality(C) <= Cardinality(B) + Cardinality(Members(mq_queue))
  BY <1>1, <1>5, UnionBound
<1>7. IsFiniteSet(D) /\ Cardinality(D) <= Cardinality(C) + Cardinality({held, putting})
  BY <1>3, <1>6, UnionBound
<1>8. Outstanding \subseteq D
  BY OutstandingIsSomewhere DEF Somewhere, InQueue, Members
<1>9. Cardinality(Outstanding) <= Cardinality(D)
  BY <1>7, <1>8, FS_Subset
<1>10. /\ Cardinality(A) \in Nat /\ Cardinality(B) \in Nat /\ Cardinality(C) \in Nat
       /\ Cardinality(D) \in Nat /\ Cardinality(Live) \in Nat
       /\ Cardinality({held, putting}) \in Nat
       /\ Cardinality(Members(result_queue)) \in Nat /\ Cardinality(Members(cancel_queue)) \in Nat
       /\ Cardinality(Members(mq_queue)) \in Nat /\ Cardinality(Outstanding) \in Nat
  <2>1. \A S : IsFiniteSet(S) => Cardinality(S) \in Nat
    BY FS_CardinalityType
  <2> HIDE DEF A, B, C, D
  <2> QED BY <1>1, <1>3, <1>4, <1>5, <1>6, <1>7, <2>1, LiveIsFinite, OutstandingIsFinite
<1> HIDE DEF A, B, C, D
<1>11. Cardinality(B) <= Counted
  BY <1>1, <1>2, <1>4, <1>5, <1>10 DEF Counted
<1>12. Counted \in Nat
  BY <1>2, <1>10 DEF Counted
<1>13. Cardinality(C) <= Counted + Len(mq_queue)
  BY <1>1, <1>2, <1>6, <1>10, <1>11, <1>12
<1>14. Cardinality(D) <= Counted + Len(mq_queue) + 2
  BY <1>2, <1>3, <1>7, <1>10, <1>12, <1>13
<1> QED BY <1>2, <1>9, <1>10, <1>12, <1>14

placeVars == <<held, task, putting, cancel_queue, result_queue, mq_queue>>

\* Without a change of place nothing comes or goes.
LEMMA OutstandingKept == UNCHANGED placeVars => Outstanding' = Outstanding
BY DEF placeVars, Outstanding, Undelivered, InRollouter, InQueue, One

\* The sample that a step moves from one place to another was outstanding before.
LEMMA OutstandingMoves ==
    ASSUME NEW new, \A s \in Samples : Somewhere(s)' => Somewhere(s) \/ s = new
    PROVE  Outstanding' \subseteq Outstanding \cup {new}
<1>1. Outstanding' = {s \in Samples : Somewhere(s)'}
  BY DEF Outstanding, Undelivered, InRollouter, One, Somewhere, Live
<1> QED BY <1>1, OutstandingIsSomewhere

\* A step that moves no other sample adds none.
LEMMA OutstandingStays ==
    ASSUME \A s \in Samples : Somewhere(s)' => Somewhere(s)
    PROVE  Outstanding' \subseteq Outstanding
<1>1. Outstanding' = {s \in Samples : Somewhere(s)'}
  BY DEF Outstanding, Undelivered, InRollouter, One, Somewhere, Live
<1> QED BY <1>1, OutstandingIsSomewhere

\* put_sample adds the new sample to the queue and nothing else.
LEMMA PutAddsOne ==
    ASSUME TypeInv, NEW e \in 0..TotalRolloutSteps, MQ!PutSample(e)
    PROVE  \A s : InQueue(s, mq_queue') => InQueue(s, mq_queue) \/ s = e
<1> DEFINE T == 0..TotalRolloutSteps
           kept == IF Len(mq_queue) >= MaxRequiredSamples THEN Tail(mq_queue) ELSE mq_queue
<1>1. mq_queue \in Seq(T) /\ e \in T
  BY DEF TypeInv, QueueTyped
<1>2. mq_queue' = Append(kept, e)
  BY DEF MQ!PutSample, MQ!Appended, MQ!IsFull
<1> HIDE DEF T
<1>3. kept \in Seq(T) /\ \A s : InQueue(s, kept) => InQueue(s, mq_queue)
  <2>1. CASE Len(mq_queue) >= MaxRequiredSamples
    <3>1. mq_queue # <<>>
      BY <1>1, <2>1
    <3>2. Tail(mq_queue) \in Seq(T)
      BY <1>1, <3>1
    <3>3. \A s : InQueue(s, Tail(mq_queue)) => InQueue(s, mq_queue)
      BY <1>1, <3>1, InQueueOf
    <3> QED BY <2>1, <3>2, <3>3
  <2> QED BY <1>1, <2>1
<1> HIDE DEF kept
<1> QED BY <1>1, <1>2, <1>3, InQueueOf

\* Putting a sample into the message queue makes none outstanding, nor does the end
\* signal.
LEMMA PutsKeep ==
    ASSUME TypeInv, PutSample \/ PutEndSignal
    PROVE  /\ Outstanding' \subseteq Outstanding
           /\ UNCHANGED <<task, cancel_queue, result_queue, staleness_samples, counted>>
<1>1. UNCHANGED <<held, task, cancel_queue, result_queue, staleness_samples, counted>>
      /\ putting' \in {putting, 0}
  BY DEF PutSample, PutDelivered, PutEndSignal, EndSignalDelivered, OnlyOutput, OnlyControl,
         intakeVars, outputVars, taskVars, countVars
<1>2. PICK e \in 0..TotalRolloutSteps : MQ!PutSample(e) /\ (e \in Samples => e = putting)
  BY DEF PutSample, PutEndSignal, EndSignal, Samples, TypeInv, OutputTyped
<1>3. \A s : InQueue(s, mq_queue') => InQueue(s, mq_queue) \/ s = e
  BY <1>2, PutAddsOne
<1>4. ASSUME NEW s \in Samples, Somewhere(s)' PROVE Somewhere(s)
  BY <1>1, <1>2, <1>3, <1>4 DEF Somewhere, Samples, InQueue, Live
<1> QED BY <1>1, <1>4, OutstandingStays

\* The trainer only takes samples away.
LEMMA TrainerKeeps ==
    ASSUME TypeInv, TrainerStep
    PROVE  /\ Outstanding' \subseteq Outstanding
           /\ UNCHANGED <<task, result_queue, cancel_queue, staleness_samples, counted>>
<1>1. /\ UNCHANGED <<held, task, putting, cancel_queue, result_queue>>
      /\ UNCHANGED <<staleness_samples, counted>>
  BY DEF TrainerStep, GetSample, ReadValidate, Train, WaitLastValid, PauseReturned, SyncWeights,
     OnlyControl, rollouterVars, intakeVars, outputVars, taskVars, countVars
<1>2. CASE GetSample
  <2>1. mq_queue' = mq_queue \/ (mq_queue # <<>> /\ mq_queue' = Tail(mq_queue))
    BY <1>2 DEF GetSample, MQ!GetSample, MQ!Wake, MQ!GetLoop, MQ!WaitForSample, MQ!ReturnNone,
                MQ!TakeOldest
  <2>2. mq_queue \in Seq(0..TotalRolloutSteps) /\ 0 \in 0..TotalRolloutSteps
    BY DEF TypeInv, QueueTyped
  <2>3. \A s : InQueue(s, mq_queue') => InQueue(s, mq_queue)
    BY <2>1, <2>2, InQueueOf
  <2>4. ASSUME NEW s \in Samples, Somewhere(s)' PROVE Somewhere(s)
    BY <1>1, <2>3, <2>4 DEF Somewhere, InQueue, Live
  <2> QED BY <1>1, <2>4, OutstandingStays
<1>3. CASE ~GetSample
  <2>1. mq_queue' = mq_queue
    BY <1>3 DEF TrainerStep, ReadValidate, Train, WaitLastValid, PauseReturned, SyncWeights,
                MQ!GetValidate, MQ!UpdateParamVersion, mqVars
  <2> QED BY <1>1, <2>1, OutstandingKept DEF placeVars
<1> QED BY <1>2, <1>3

\* The consumer moves a sample from result_queue into its hands.
LEMMA ConsumerKeeps ==
    ASSUME TypeInv, ConsumerStep
    PROVE  /\ Outstanding' \subseteq Outstanding
           /\ Len(result_queue') <= Len(result_queue)
           /\ UNCHANGED <<task, cancel_queue, staleness_samples, counted>>
<1>1. UNCHANGED <<held, task, cancel_queue, mq_queue, staleness_samples, counted>>
  BY DEF ConsumerStep, ConsumerTake, OnlyOutput, Alone, mqVars, intakeVars, taskVars, countVars
<1>2. /\ result_queue \in Seq(Samples) /\ result_queue # <<>>
      /\ putting' = Head(result_queue) /\ result_queue' = Tail(result_queue)
  BY DEF ConsumerStep, ConsumerTake, TypeInv, OutputTyped
<1>3. Head(result_queue) \in Samples /\ Len(Tail(result_queue)) <= Len(result_queue)
  BY <1>2
<1>4. InQueue(putting', result_queue)
      /\ \A s : InQueue(s, result_queue') => InQueue(s, result_queue)
  BY <1>2, <1>3, InQueueOf
<1>5. ASSUME NEW s \in Samples, Somewhere(s)' PROVE Somewhere(s)
  BY <1>1, <1>4, <1>5 DEF Somewhere, InQueue, Live
<1> QED BY <1>1, <1>2, <1>3, <1>5, OutstandingStays

\* A task that ends moves its sample into a queue at most.
LEMMA EndTaskKeeps ==
    ASSUME TypeInv, NEW s \in Samples, EndTask(s), Alone
    PROVE  /\ Outstanding' \subseteq Outstanding
           /\ Counted' <= Counted
           /\ UNCHANGED <<staleness_samples, counted>>
<1>1. UNCHANGED <<held, putting, mq_queue, staleness_samples, counted>>
  BY DEF EndTask, Alone, mqVars, countVars
<1>2. s \in Live /\ Live' = Live \ {s}
  BY DEF EndTask, Answers, Live, TypeInv, TaskTyped
<1>3. Cardinality(Live') = Cardinality(Live) - 1 /\ Cardinality(Live) \in Nat
  BY <1>2, LiveIsFinite, FS_RemoveElement
<1>4. cancel_queue \in Seq(Samples) /\ result_queue \in Seq(Samples)
  BY DEF TypeInv, IntakeTyped, OutputTyped
<1>5. \/ UNCHANGED <<cancel_queue, result_queue>>
      \/ cancel_queue' = Append(cancel_queue, s) /\ result_queue' = result_queue
      \/ result_queue' = Append(result_queue, s) /\ cancel_queue' = cancel_queue
  BY DEF EndTask, Answers, IsResult
<1>6. Len(cancel_queue') + Len(result_queue') <= Len(cancel_queue) + Len(result_queue) + 1
      /\ Len(cancel_queue') \in Nat /\ Len(result_queue') \in Nat
      /\ Len(cancel_queue) \in Nat /\ Len(result_queue) \in Nat
  BY <1>4, <1>5
<1>7. \A t : /\ InQueue(t, cancel_queue') => InQueue(t, cancel_queue) \/ t = s
             /\ InQueue(t, result_queue') => InQueue(t, result_queue) \/ t = s
  <2>1. \A t : /\ InQueue(t, Append(cancel_queue, s)) => InQueue(t, cancel_queue) \/ t = s
               /\ InQueue(t, Append(result_queue, s)) => InQueue(t, result_queue) \/ t = s
    BY <1>4, InQueueOf
  <2> QED BY <1>5, <2>1
<1>8. ASSUME NEW t \in Samples, Somewhere(t)' PROVE Somewhere(t)
  BY <1>1, <1>2, <1>7, <1>8 DEF Somewhere, InQueue
<1>9. Counted' <= Counted
  BY <1>3, <1>6 DEF Counted
<1> QED BY <1>1, <1>8, <1>9, OutstandingStays

-----------------------------------------------------------------------------
(* The budget of samples. *)

\* max_required_samples and the two samples update_param_version() overlooks.
\* A processor that waits for a prompt takes it without a new test.
BudgetInv ==
    /\ Cardinality(Outstanding) <= staleness_samples + 2
    /\ BudgetSlack
    /\ pc.processor = "get" => Cardinality(Outstanding) <= MaxRequiredSamples + 1
    /\ pc.update = "sizing" => Counted <= counted

\* The sum depends on the tasks and the two queues alone.
LEMMA CountedKept == UNCHANGED <<task, cancel_queue, result_queue>> => Counted' = Counted
BY DEF Counted, Live

\* Fewer samples outstanding are no more.
LEMMA SubsetBound ==
    ASSUME Outstanding' \subseteq Outstanding
    PROVE  Cardinality(Outstanding') \in Nat
           /\ Cardinality(Outstanding') <= Cardinality(Outstanding)
<1>1. IsFiniteSet(Outstanding')
  BY OutstandingIsFinite, FS_Subset
<1> QED BY <1>1, OutstandingIsFinite, FS_Subset, FS_CardinalityType

\* One new sample adds one at most.
LEMMA NewSampleBound ==
    ASSUME NEW new, Outstanding' \subseteq Outstanding \cup {new}
    PROVE  Cardinality(Outstanding') \in Nat
           /\ Cardinality(Outstanding') <= Cardinality(Outstanding) + 1
<1>1. IsFiniteSet(Outstanding \cup {new})
      /\ Cardinality(Outstanding \cup {new}) \in {Cardinality(Outstanding), Cardinality(Outstanding) + 1}
  BY OutstandingIsFinite, FS_AddElement
<1>2. IsFiniteSet(Outstanding') /\ Cardinality(Outstanding') <= Cardinality(Outstanding \cup {new})
  BY <1>1, FS_Subset
<1> QED BY <1>1, <1>2, OutstandingIsFinite, FS_CardinalityType

\* The sum is a natural number.
LEMMA CountedType == ASSUME TypeInv PROVE Counted \in Nat
BY LiveIsFinite DEF Counted, TypeInv, IntakeTyped, OutputTyped

\* A step that adds no sample, and neither sends the processor to wait for a
\* prompt nor counts anew.
LEMMA QuietStep ==
    ASSUME TypeInv, BudgetInv,
           Outstanding' \subseteq Outstanding,
           UNCHANGED <<staleness_samples, counted>>,
           pc'.processor = "get" => pc.processor = "get",
           pc'.update = "sizing" => pc.update = "sizing" /\ Counted' <= Counted,
           Counted' \in Nat
    PROVE  BudgetInv'
<1>1. /\ staleness_samples \in Nat /\ counted \in Nat /\ Counted \in Nat
      /\ Cardinality(Outstanding) \in Nat /\ MaxRequiredSamples \in Nat
  BY OutstandingIsFinite, CountedType DEF TypeInv, CountTyped
<1>2. Cardinality(Outstanding') \in Nat /\ Cardinality(Outstanding') <= Cardinality(Outstanding)
  BY SubsetBound
<1> QED BY <1>1, <1>2 DEF BudgetInv, BudgetSlack

\* The processor takes the next prompt: it has tested the limit, or waited for
\* the prompt since it did.
LEMMA TakeStep ==
    ASSUME TypeInv, TypeInv', BudgetInv, TakePending, UNCHANGED cancel_queue, OnlyIntake, Alone,
           \/ staleness_samples < MaxRequiredSamples
           \/ pc.processor = "get" /\ ~PendingIsEmpty
    PROVE  BudgetInv'
<1>1. /\ staleness_samples \in Nat /\ counted \in Nat /\ Counted \in Nat
      /\ Cardinality(Outstanding) \in Nat /\ MaxRequiredSamples \in Nat
      /\ PcTyped
  BY OutstandingIsFinite, CountedType DEF TypeInv, CountTyped
<1>2. UNCHANGED <<task, putting, cancel_queue, result_queue, mq_queue, counted>>
  BY DEF OnlyIntake, Alone, mqVars, outputVars, taskVars
<1>3. Cardinality(Outstanding) <= MaxRequiredSamples + 1
  BY <1>1 DEF BudgetInv
<1>4. pc'.update = pc.update
  <2>1. \A label \in Labels : Goto("processor", label) => pc'.update = pc.update
    BY <1>1, GotoLabel DEF Moves, Coroutines
  <2>2. \A loop \in Loops : \A n : AtHead(loop, n) \in Labels
    BY HeadLabel
  <2> QED BY <2>1, <2>2 DEF TakePending, EnterLoop, Loops, Labels
<1>5. pc'.update = "sizing" => Counted' <= counted'
  BY <1>1, <1>2, <1>4, CountedKept DEF BudgetInv
<1>6. CASE PendingIsEmpty
  <2>1. UNCHANGED <<held, staleness_samples>>
    BY <1>6 DEF TakePending
  <2>2. Outstanding' = Outstanding
    BY <1>2, <2>1, OutstandingKept DEF placeVars
  <2> QED BY <1>1, <1>3, <1>5, <2>1, <2>2 DEF BudgetInv, BudgetSlack
<1>7. CASE ~PendingIsEmpty
  <2>1. staleness_samples' = staleness_samples + 1
    BY <1>7 DEF TakePending, CountSample
  <2>2. \A s \in Samples : Somewhere(s)' => Somewhere(s) \/ s = held'
    BY <1>2 DEF Somewhere, InQueue, Live
  <2>3. Outstanding' \subseteq Outstanding \cup {held'}
    BY <2>2, OutstandingMoves
  <2>4. Cardinality(Outstanding') \in Nat
        /\ Cardinality(Outstanding') <= Cardinality(Outstanding) + 1
    BY <2>3, NewSampleBound
  <2>5. pc'.processor # "get"
    <3>1. PICK loop \in Loops : EnterLoop(lock, loop, ActiveTasks)
      BY <1>7 DEF TakePending, Loops
    <3>2. pc'.processor = AtHead(loop, ActiveTasks)
      BY <1>1, <3>1, HeadLabel, GotoLabel DEF EnterLoop, Coroutines
    <3> QED BY <3>2 DEF AtHead, BusyHead, FreeHead, Loops
  <2> QED BY <1>1, <1>3, <1>5, <2>1, <2>4, <2>5 DEF BudgetInv, BudgetSlack
<1> QED BY <1>6, <1>7

\* Only an empty pending_queue makes the processor wait for a prompt.
LEMMA GoesToGet ==
    ASSUME PcTyped, ProcessorStep, pc'.processor = "get"
    PROVE  (ProcessorTop(queue_size) \/ GetPending) /\ TakePending
<1>1. ASSUME NEW l, NEW loop \in Loops, NEW n, EnterLoop(l, loop, n) PROVE FALSE
  <2>1. pc'.processor = AtHead(loop, n)
    BY <1>1, HeadLabel, GotoLabel DEF EnterLoop, Coroutines
  <2> QED BY <2>1 DEF AtHead, BusyHead, FreeHead, Loops
<1>2. ASSUME NEW label \in Labels \ {"get"}, Goto("processor", label) PROVE FALSE
  BY <1>2, GotoLabel DEF Coroutines
<1>3. CASE ProcessorTop(queue_size)
  <2>1. CASE AskLock("processor", "pause_in")
    BY <1>2, <2>1 DEF AskLock, Labels
  <2>2. CASE TakeCancelled
    BY <1>1, <2>2 DEF TakeCancelled, Loops
  <2> QED BY <1>3, <2>1, <2>2 DEF ProcessorTop
<1>4. CASE GetPending
  BY <1>4 DEF GetPending
<1>5. CASE SetPaused
  BY <1>1, <1>5 DEF SetPaused, Loops
<1>6. CASE AwaitTasks
  <2>1. WaitOf[pc.processor] \in Labels \ {"get"} /\ LoopOf[pc.processor] \in Loops
    BY <1>6 DEF AwaitTasks, WaitOf, LoopOf, Labels, Loops
  <2>2. "failed" \in Labels \ {"get"}
    BY DEF Labels
  <2> QED BY <1>1, <1>2, <1>6, <2>1, <2>2 DEF AwaitTasks, KeepLock, LeaveLock
<1>7. CASE Reap
  <2>1. LoopOf[pc.processor] \in Loops /\ "failed" \in Labels \ {"get"}
    BY <1>7 DEF Reap, LoopOf, Labels, Loops
  <2> QED BY <1>1, <1>2, <1>7, <2>1 DEF Reap, LeaveLock
<1>8. CASE Idle
  BY <1>2, <1>8 DEF Idle, LeaveLock, Labels
<1>9. CASE Woken
  BY <1>2, <1>9 DEF Woken, AskLock, Labels
<1>10. CASE Submit
  BY <1>2, <1>10 DEF Submit, LeaveLock, Labels
<1> QED
  BY <1>3, <1>4, <1>5, <1>6, <1>7, <1>8, <1>9, <1>10 DEF ProcessorStep

\* At the top of its loop the processor tests the limit before it takes a new sample.
LEMMA BudgetTop ==
    ASSUME TypeInv, TypeInv', BudgetInv, ProcessorTop(queue_size), Alone, pc'.update = pc.update
    PROVE  BudgetInv'
<1>0. PcTyped /\ UNCHANGED <<task, putting, result_queue, mq_queue, counted>>
  BY DEF TypeInv, ProcessorTop, Alone, mqVars, OnlyIntake, outputVars, taskVars
<1>1. Counted \in Nat
  BY CountedType
<1>2. CASE AskLock("processor", "pause_in")
           /\ UNCHANGED <<taken, cancel_queue, held, staleness_samples>>
  <2>1. pc'.processor # "get"
    BY <1>0, <1>2, GotoLabel DEF AskLock, Labels, Coroutines
  <2>2. Outstanding' = Outstanding /\ Counted' = Counted
    BY <1>0, <1>2, OutstandingKept, CountedKept DEF placeVars
  <2> QED BY <1>0, <1>1, <1>2, <2>1, <2>2, QuietStep
<1>3. CASE TakeCancelled /\ cancel_queue # <<>>
  <2>1. /\ cancel_queue \in Seq(Samples) /\ cancel_queue # <<>>
        /\ held' = Head(cancel_queue) /\ cancel_queue' = Tail(cancel_queue)
        /\ staleness_samples' = staleness_samples
    BY <1>3 DEF TakeCancelled, TypeInv, IntakeTyped
  <2>2. Head(cancel_queue) \in Samples
        /\ Len(cancel_queue') \in Nat /\ Len(cancel_queue) \in Nat
        /\ Len(cancel_queue') <= Len(cancel_queue)
    BY <2>1
  <2>3. InQueue(held', cancel_queue)
        /\ \A s : InQueue(s, cancel_queue') => InQueue(s, cancel_queue)
    BY <2>1, <2>2, InQueueOf
  <2>4. Outstanding' \subseteq Outstanding
    <3>1. ASSUME NEW s \in Samples, Somewhere(s)' PROVE Somewhere(s)
      BY <1>0, <2>3, <3>1 DEF Somewhere, InQueue, Live
    <3> QED BY <3>1, OutstandingStays
  <2>5. Counted' \in Nat /\ Counted' <= Counted
    <3>1. Live' = Live /\ Cardinality(Live) \in Nat /\ Len(result_queue) \in Nat
      BY <1>0, LiveIsFinite DEF Live, TypeInv, OutputTyped
    <3> QED BY <1>0, <2>2, <3>1 DEF Counted
  <2>6. pc'.processor # "get"
    <3>1. pc'.processor = AtHead("limit", ActiveTasks)
      BY <1>0, <1>3, HeadLabel, GotoLabel DEF TakeCancelled, EnterLoop, Loops, Coroutines
    <3> QED BY <3>1 DEF AtHead, BusyHead, FreeHead
  <2> QED BY <1>0, <2>1, <2>4, <2>5, <2>6, QuietStep
<1>4. CASE TakePending /\ UNCHANGED cancel_queue /\ ~ShouldPause(queue_size)
  <2>1. staleness_samples < MaxRequiredSamples
    BY <1>4 DEF ShouldPause, TypeInv, CountTyped
  <2>2. OnlyIntake
    BY DEF ProcessorTop
  <2> QED BY <1>4, <2>1, <2>2, TakeStep
<1> QED BY <1>2, <1>3, <1>4 DEF ProcessorTop

\* No step of the processor exceeds the budget; while update_param_version() waits
\* for the queue size with the lock in its hands, the processor creates no task.
LEMMA BudgetProcessor ==
    ASSUME TypeInv, TypeInv', LockInv, BudgetInv, ProcessorStep
    PROVE  BudgetInv'
<1>0. PcTyped /\ pc'.update = pc.update /\ Alone /\ Counted \in Nat
  BY ProcessorMoves, CountedType DEF TypeInv, Moves, Coroutines, ProcessorStep
<1>1. CASE ProcessorTop(queue_size)
  BY <1>0, <1>1, BudgetTop
<1>2. CASE GetPending
  BY <1>0, <1>2, TakeStep DEF GetPending
<1>3. ASSUME ~ProcessorTop(queue_size), ~GetPending PROVE pc'.processor # "get"
  BY <1>0, <1>3, GoesToGet
<1>4. CASE Submit /\ ~paused
  <2>1. /\ UNCHANGED <<putting, cancel_queue, result_queue, mq_queue, staleness_samples, counted>>
        /\ held' = 0 /\ task' = [task EXCEPT ![held] = "created"]
    BY <1>0, <1>4 DEF Submit, Alone, mqVars, outputVars, countVars
  <2>2. Live' \subseteq Live \cup {held}
    BY <2>1 DEF Live, TypeInv, TaskTyped
  <2>3. ASSUME NEW s \in Samples, Somewhere(s)' PROVE Somewhere(s)
    BY <2>1, <2>2, <2>3 DEF Somewhere, InQueue, Samples
  <2>4. Outstanding' \subseteq Outstanding
    BY <2>3, OutstandingStays
  <2>5. pc.update # "sizing"
    BY <1>4 DEF Submit, InLock, LockInv, HoldsLock, Coroutines
  <2>6. pc'.processor # "get"
    BY <1>0, <1>4, GotoLabel DEF Submit, LeaveLock, Labels, Coroutines
  <2>7. /\ staleness_samples \in Nat /\ Cardinality(Outstanding) \in Nat
        /\ Cardinality(Outstanding') \in Nat /\ Cardinality(Outstanding') <= Cardinality(Outstanding)
    BY <2>4, SubsetBound, OutstandingIsFinite DEF TypeInv, CountTyped
  <2> QED BY <1>0, <2>1, <2>5, <2>6, <2>7 DEF BudgetInv, BudgetSlack
<1>5. ASSUME UNCHANGED placeVars, UNCHANGED <<staleness_samples, counted>>, pc'.processor # "get"
      PROVE  BudgetInv'
  <2>1. Outstanding' = Outstanding /\ Counted' = Counted
    BY <1>5, OutstandingKept, CountedKept DEF placeVars
  <2> QED BY <1>0, <1>5, <2>1, QuietStep
<1>6. CASE SetPaused \/ AwaitTasks \/ Reap \/ Idle \/ Woken \/ (Submit /\ paused)
  <2>1. UNCHANGED placeVars /\ UNCHANGED <<staleness_samples, counted>>
    BY <1>0, <1>6 DEF SetPaused, AwaitTasks, Reap, Idle, Woken, Submit, OnlyFlags, OnlyControl,
       OnlyReaps, Alone, placeVars, mqVars, intakeVars, outputVars, taskVars, countVars
  <2>2. ~ProcessorTop(queue_size) /\ ~GetPending
    BY <1>6 DEF SetPaused, AwaitTasks, Reap, Idle, Woken, Submit, InLock, WaitOf, ProcessorTop,
                GetPending
  <2> QED BY <1>3, <1>5, <2>1, <2>2
<1> QED BY <1>1, <1>2, <1>4, <1>6 DEF ProcessorStep

\* update_param_version() counts all but two of the outstanding samples, although it
\* adds the queue size later than the rest.
LEMMA BudgetUpdate ==
    ASSUME TypeInv, BudgetInv, UpdateStep
    PROVE  BudgetInv'
<1>0. /\ PcTyped /\ pc'.processor = pc.processor
      /\ UNCHANGED placeVars
      /\ Outstanding' = Outstanding /\ Counted' = Counted
  <2>1. UNCHANGED placeVars
    BY DEF UpdateStep, CallArrives, UpdateCount, UpdateSized, OnlyControl, Alone, placeVars, mqVars,
           intakeVars, outputVars, taskVars
  <2> QED BY <2>1, UpdateMoves, OutstandingKept, CountedKept
          DEF placeVars, TypeInv, Moves, Coroutines
<1>1. /\ Counted \in Nat /\ Cardinality(Outstanding) \in Nat /\ counted \in Nat
      /\ Len(mq_queue) \in Nat /\ staleness_samples \in Nat
  BY CountedType, OutstandingIsFinite DEF TypeInv, CountTyped, QueueTyped
<1>2. CASE CallArrives("update")
  <2>1. pc'.update = "locked" /\ UNCHANGED <<staleness_samples, counted>>
    BY <1>0, <1>2, GotoLabel DEF CallArrives, AskLock, OnlyControl, countVars, Labels, Coroutines
  <2> QED BY <1>0, <1>1, <2>1, QuietStep
<1>3. CASE UpdateCount(weights_version)
  <2>1. unreaped \in Nat /\ Cardinality(Live) \in Nat
        /\ Len(result_queue) \in Nat /\ Len(cancel_queue) \in Nat
    BY LiveIsFinite DEF TypeInv, ReapTyped, IntakeTyped, OutputTyped
  <2>2. counted' = ActiveTasks + Len(result_queue) + Len(cancel_queue)
        /\ staleness_samples' = staleness_samples
    BY <1>3 DEF UpdateCount
  <2>3. Counted <= counted'
    BY <2>1, <2>2 DEF Counted, ActiveTasks
  <2> QED BY <1>0, <2>2, <2>3 DEF BudgetInv, BudgetSlack
<1>4. CASE UpdateSized(queue_size)
  <2>1. pc.update = "sizing" /\ pc'.update = "report"
    BY <1>0, <1>4, GotoLabel DEF UpdateSized, Labels, Coroutines
  <2>2. staleness_samples' = counted + Len(mq_queue)
    BY <1>4 DEF UpdateSized, ResetStaleness, queue_size
  <2>3. Cardinality(Outstanding) <= staleness_samples' + 2
    BY <1>1, <2>1, <2>2, OverlooksTwo DEF BudgetInv
  <2> QED BY <1>0, <2>1, <2>3 DEF BudgetInv, BudgetSlack
<1> QED BY <1>2, <1>3, <1>4 DEF UpdateStep


\* The coroutines that only call, pause and resume leave every sample where it is.
LEMMA ControlKeepsSamples ==
    ASSUME MainStep \/ MonitorStep \/ PauseStep \/ ResumeStep \/ PutValidate \/ FeederStep
           \/ Terminated \/ UNCHANGED vars
    PROVE  UNCHANGED placeVars /\ UNCHANGED <<staleness_samples, counted>>
<1> USE DEF placeVars, Alone, mqVars, intakeVars, outputVars, taskVars, countVars, OnlyControl,
            OnlyFlags, OnlyReaps, OnlyIntake
<1>1. CASE MainStep \/ MonitorStep
  BY <1>1 DEF MainStep, MainJoined, StopRunning, MonitorStep, MonitorTurn, MonitorResume
<1>2. CASE PauseStep \/ ResumeStep
  BY <1>2 DEF PauseStep, CallArrives, PauseBegin, ServerCancel, PauseGathered, PauseEnd,
              ResumeStep, ResumeBegin, ServerResume
<1>3. CASE PutValidate
  BY <1>3 DEF PutValidate, UpdateReported, MQ!PutValidate
<1>4. CASE FeederStep
  BY <1>4 DEF FeederStep, Feed
<1>5. CASE Terminated \/ UNCHANGED vars
  BY <1>5 DEF Terminated, vars, rollouterVars
<1> QED BY <1>1, <1>2, <1>3, <1>4, <1>5

\* The budget is kept, whoever moves.
LEMMA BudgetStep ==
    ASSUME TypeInv, TypeInv', LockInv, BudgetInv, [Next]_vars
    PROVE  BudgetInv'
<1>0. PcTyped /\ Counted \in Nat
  BY CountedType DEF TypeInv
<1>1. ASSUME Outstanding' \subseteq Outstanding, UNCHANGED <<staleness_samples, counted>>,
             pc'.processor = "get" => pc.processor = "get",
             pc'.update = "sizing" => pc.update = "sizing",
             Counted' \in Nat, Counted' <= Counted
      PROVE  BudgetInv'
  BY <1>1, QuietStep
<1>2. ASSUME UNCHANGED placeVars, UNCHANGED <<staleness_samples, counted>>,
             pc'.processor = "get" => pc.processor = "get",
             pc'.update = "sizing" => pc.update = "sizing"
      PROVE  BudgetInv'
  <2>1. Outstanding' = Outstanding /\ Counted' = Counted
    BY <1>2, OutstandingKept, CountedKept DEF placeVars
  <2> QED BY <1>0, <1>1, <1>2, <2>1
<1>3. ASSUME NEW c \in {"main", "monitor", "pause", "resume"}, Moves(c) \/ Notifies(c)
      PROVE  /\ pc'.processor = "get" => pc.processor = "get"
             /\ pc'.update = "sizing" => pc.update = "sizing"
  BY <1>3 DEF Moves, Notifies, Coroutines
<1>4. CASE ProcessorStep
  BY <1>4, BudgetProcessor
<1>5. CASE UpdateStep
  BY <1>5, BudgetUpdate
<1>6. CASE MainStep \/ MonitorStep \/ PauseStep \/ ResumeStep
  <2>1. \E c \in {"main", "monitor", "pause", "resume"} : Moves(c) \/ Notifies(c)
    BY <1>0, <1>6, MainMoves, MonitorMoves, PauseMoves, ResumeMoves
  <2> QED BY <1>2, <1>3, <1>6, <2>1, ControlKeepsSamples
<1>7. CASE PutValidate
  <2>1. pc'.update = "none" /\ pc'.processor = pc.processor
    BY <1>0, <1>7, GotoLabel
       DEF PutValidate, UpdateReported, LeaveLock, Moves, Coroutines, Labels
  <2> QED BY <1>2, <1>7, <2>1, ControlKeepsSamples
<1>8. CASE PutSample \/ PutEndSignal
  <2>1. pc'.processor = pc.processor /\ pc'.update = pc.update
    BY <1>0, <1>8, MainMoves, OthersDoNotMove DEF Moves, Coroutines
  <2>2. Counted' = Counted
    BY <1>8, PutsKeep, CountedKept
  <2> QED BY <1>0, <1>1, <1>8, <2>1, <2>2, PutsKeep
<1>9. CASE ConsumerStep
  <2>1. pc' = pc
    BY <1>9, OthersDoNotMove
  <2>2. /\ Outstanding' \subseteq Outstanding /\ Len(result_queue') <= Len(result_queue)
        /\ UNCHANGED <<task, cancel_queue, staleness_samples, counted>>
    BY <1>9, ConsumerKeeps
  <2>3. Counted' \in Nat /\ Counted' <= Counted
    <3>1. Live' = Live
      BY <2>2 DEF Live
    <3>2. /\ Cardinality(Live) \in Nat /\ Len(cancel_queue) \in Nat
          /\ Len(result_queue) \in Nat /\ Len(result_queue') \in Nat
      BY LiveIsFinite DEF TypeInv, IntakeTyped, OutputTyped
    <3> QED BY <2>2, <3>1, <3>2 DEF Counted
  <2> QED BY <1>1, <2>1, <2>2, <2>3
<1>10. CASE TrainerStep
  <2>1. pc'.processor = pc.processor /\ pc'.update \in {pc.update, "called"}
    BY <1>0, <1>10, TrainerMoves
  <2>2. Outstanding' \subseteq Outstanding
        /\ UNCHANGED <<task, result_queue, cancel_queue, staleness_samples, counted>>
    BY <1>10, TrainerKeeps
  <2> QED BY <1>0, <1>1, <2>1, <2>2, CountedKept
<1>11. ASSUME NEW s \in Samples, TaskStep(s) \/ ServerStep(s)
       PROVE  BudgetInv'
  <2>1. pc' = pc
    BY <1>11, OthersDoNotMove
  <2>2. CASE EndTask(s) /\ Alone
    <3>1. Counted' \in Nat
      <4>1. Counted' = Cardinality(Live') + Len(result_queue') + Len(cancel_queue')
        BY DEF Counted
      <4>2. Live' \subseteq Live
        BY <2>2 DEF EndTask, Live, TypeInv, TaskTyped
      <4>3. Cardinality(Live') \in Nat
        BY <4>2, LiveIsFinite, FS_Subset, FS_CardinalityType
      <4>4. Len(result_queue') \in Nat /\ Len(cancel_queue') \in Nat
        BY DEF TypeInv, IntakeTyped, OutputTyped
      <4> QED BY <4>1, <4>3, <4>4
    <3> QED BY <1>1, <2>1, <2>2, <3>1, EndTaskKeeps
  <2>3. CASE (StartTask(s) \/ ServerAdmit(s)) /\ Alone
    <3>1. /\ UNCHANGED <<held, putting, cancel_queue, result_queue, mq_queue>>
          /\ UNCHANGED <<staleness_samples, counted>>
          /\ Live' = Live
      BY <2>3 DEF StartTask, ServerAdmit, Alone, mqVars, Live, TypeInv, TaskTyped, intakeVars,
                  outputVars, countVars
    <3>2. Counted' = Counted
      BY <3>1 DEF Counted
    <3>3. ASSUME NEW t \in Samples, Somewhere(t)' PROVE Somewhere(t)
      BY <3>1, <3>3 DEF Somewhere, InQueue
    <3> QED BY <1>0, <1>1, <2>1, <3>1, <3>2, <3>3, OutstandingStays
  <2> QED BY <1>11, <2>2, <2>3 DEF TaskStep, ServerStep
<1>12. CASE FeederStep \/ Terminated \/ UNCHANGED vars
  BY <1>2, <1>12, OthersDoNotMove, ControlKeepsSamples
<1> QED
  BY <1>4, <1>5, <1>6, <1>7, <1>8, <1>9, <1>10, <1>11, <1>12 DEF Next

\* At the start nobody holds the lock and no sample is outstanding.
LEMMA BudgetInit == Init => LockInv /\ BudgetInv
<1> SUFFICES ASSUME Init PROVE LockInv /\ BudgetInv
  OBVIOUS
<1>1. RollouterInit /\ mq_queue = <<>>
  BY DEF Init, MQ!InitWith
<1>2. LockInv
  BY <1>1 DEF RollouterInit, LockInv, HoldsLock, Coroutines
<1>3. Outstanding = {}
  <2>1. held = 0 /\ putting = 0 /\ Live = {} /\ 0 \notin Samples
    BY <1>1 DEF RollouterInit, Live, Samples
  <2>2. \A s : ~InQueue(s, <<>>)
    BY DEF InQueue
  <2>3. cancel_queue = <<>> /\ result_queue = <<>>
    BY <1>1 DEF RollouterInit
  <2> QED BY <1>1, <2>1, <2>2, <2>3, OutstandingIsSomewhere DEF Somewhere
<1>4. Cardinality(Outstanding) = 0
  BY <1>3, FS_EmptySet
<1>5. staleness_samples = 0 /\ pc.processor = "top" /\ pc.update = "none"
  BY <1>1 DEF RollouterInit
<1> QED BY <1>2, <1>4, <1>5 DEF BudgetInv, BudgetSlack

\* The samples the trainer does not have yet exceed max_required_samples by two
\* at most: the count that update_param_version() takes in two halves around an
\* await overlooks the sample in the processor's hands and the one the consumer
\* is putting, and the overlooked do not add up from version to version.
THEOREM BudgetSlackCorrect == Spec => []BudgetSlack
<1> DEFINE I == TypeInv /\ LockInv /\ BudgetInv
<1>1. Init => I
  BY TypeInit, BudgetInit
<1>2. I /\ [Next]_vars => I'
  <2> SUFFICES ASSUME I, [Next]_vars PROVE I'
    OBVIOUS
  <2>1. TypeInv'
    BY TypeStep
  <2>2. LockInv'
    BY LockInvStep DEF TypeInv
  <2>3. BudgetInv'
    BY <2>1, BudgetStep
  <2> QED BY <2>1, <2>2, <2>3
<1>3. I => BudgetSlack
  BY DEF BudgetInv
<1> QED BY <1>1, <1>2, <1>3, PTL DEF Spec

-----------------------------------------------------------------------------
(* No server generates while weights are loaded. *)

\* The rollouter is between the end of gather() and the resume of its servers.
Quiet ==
    \/ pc.pause = "reset"
    \/ trainer = "pausing" /\ pc.pause = "none"
    \/ trainer = "weights"

GenerationInv ==
    /\ trainer \in {"pausing", "weights"} => pc.resume = "none"
    /\ trainer = "weights" => pc.pause = "none"
    /\ pc.pause = "gather" => server_paused
    /\ Quiet => server_paused /\ \A s \in Samples : task[s] # "generating"

\* Nobody generates at the start.
LEMMA GenerationInit == Init => GenerationInv
BY DEF Init, RollouterInit, TrainerInit, GenerationInv, Quiet

\* The step neither begins a generation nor resumes the servers.
Calm ==
    /\ \A s \in Samples : task'[s] = "generating" => task[s] = "generating"
    /\ server_paused => server_paused'

\* Only the server's admission of a request and resume() are not calm.
LEMMA CalmSteps ==
    ASSUME TypeInv, PartialRollout, [Next]_vars, ~\E s \in Samples : ServerStep(s),
           ~(ResumeStep /\ ServerResume)
    PROVE  Calm
<1>1. CASE UNCHANGED <<task, server_paused>>
  BY <1>1 DEF Calm
<1>2. CASE UNCHANGED taskVars /\ UNCHANGED server_paused
  BY <1>1, <1>2 DEF taskVars
<1>3. /\ task \in [Samples -> {"none", "created", "sent", "generating"}]
      /\ server_paused \in BOOLEAN
  BY DEF TypeInv, TaskTyped, ServerTyped
<1>4. CASE ProcessorStep
  <2>1. CASE Submit
    <3>1. /\ server_paused' = server_paused
          /\ task' = task \/ task' = [task EXCEPT ![held] = "created"]
      BY <2>1 DEF Submit, serverVars
    <3> QED BY <1>3, <3>1 DEF Calm
  <2>2. CASE ~Submit
    BY <1>1, <1>4, <2>2 DEF ProcessorStep, ProcessorTop, GetPending, SetPaused, AwaitTasks, Reap,
       Idle, Woken, OnlyControl, OnlyFlags, OnlyReaps, OnlyIntake, taskVars, serverVars
  <2> QED BY <2>1, <2>2
<1>5. CASE \E s \in Samples : TaskStep(s) \/ ServerStep(s)
  <2>1. PICK s \in Samples : TaskStep(s)
    BY <1>5
  <2>2. CASE StartTask(s)
    <3>1. task' = [task EXCEPT ![s] = "sent"] /\ server_paused' = server_paused
      BY <2>2 DEF StartTask, serverVars
    <3> QED BY <1>3, <3>1 DEF Calm
  <2>3. CASE EndTask(s)
    <3>1. task' = [task EXCEPT ![s] = "none"] /\ server_paused' = server_paused
      BY <2>3 DEF EndTask
    <3> QED BY <1>3, <3>1 DEF Calm
  <2> QED BY <2>1, <2>2, <2>3 DEF TaskStep
<1>6. CASE MainStep \/ PutEndSignal \/ MonitorStep \/ UpdateStep \/ PutValidate
  BY <1>2, <1>6 DEF MainStep, MainJoined, StopRunning, PutEndSignal, EndSignalDelivered,
     MonitorStep, MonitorTurn, MonitorResume, UpdateStep, CallArrives, UpdateCount, UpdateSized,
     PutValidate, UpdateReported, OnlyControl, OnlyFlags, serverVars
<1>7. CASE PauseStep \/ ResumeStep
  <2>1. task' = task
    BY <1>7 DEF PauseStep, CallArrives, PauseBegin, ServerCancel, PauseGathered, PauseEnd,
       ResumeStep, ResumeBegin, ServerResume, OnlyControl, OnlyFlags, OnlyReaps, taskVars
  <2>2. server_paused' \in {server_paused, TRUE}
    BY <1>7 DEF PauseStep, CallArrives, PauseBegin, ServerCancel, PauseGathered, PauseEnd,
       ResumeStep, ResumeBegin, OnlyControl, OnlyFlags, OnlyReaps, serverVars
  <2> QED BY <1>3, <2>1, <2>2 DEF Calm
<1>8. CASE TrainerStep
  BY <1>2, <1>8 DEF TrainerStep, GetSample, ReadValidate, Train, WaitLastValid, PauseReturned,
     SyncWeights, OnlyControl, rollouterVars, serverVars
<1>9. CASE FeederStep \/ ConsumerStep \/ PutSample \/ Terminated \/ UNCHANGED vars
  BY <1>2, <1>9 DEF FeederStep, Feed, ConsumerStep, ConsumerTake, PutSample, PutDelivered,
     Terminated, OnlyIntake, OnlyOutput, vars, rollouterVars, serverVars
<1> QED BY <1>4, <1>5, <1>6, <1>7, <1>8, <1>9 DEF Next

\* The calls pause() and resume() and the trainer, step by step: who moves the two
\* calls and the trainer's label.
LEMMA CallsMove ==
    ASSUME TypeInv, [Next]_vars
    PROVE  \/ UNCHANGED <<trainer, pc.pause, pc.resume>>
           \/ PauseStep /\ UNCHANGED <<trainer, pc.resume>>
           \/ ResumeStep /\ UNCHANGED <<trainer, pc.pause>>
           \/ TrainerStep
<1>0. PcTyped
  BY DEF TypeInv
<1>1. ASSUME NEW c \in Coroutines \ {"pause", "resume"}, Moves(c) \/ Notifies(c)
      PROVE  UNCHANGED <<pc.pause, pc.resume>>
  BY <1>1 DEF Moves, Notifies, Coroutines
<1>2. ASSUME ~TrainerStep PROVE trainer' = trainer
  BY <1>2, RollouterKeepsVersions DEF Next, VersionsUnchanged, UpdateStep, Alone, trainerVars
<1>3. CASE ProcessorStep \/ MainStep \/ PutEndSignal \/ MonitorStep \/ UpdateStep \/ PutValidate
  <2>1. UNCHANGED <<pc.pause, pc.resume>>
    BY <1>0, <1>1, <1>3, ProcessorMoves, MainMoves, MonitorMoves, UpdateMoves DEF Coroutines
  <2>2. CASE ~TrainerStep
    BY <1>2, <2>1, <2>2
  <2> QED BY <2>2
<1>4. CASE PauseStep
  BY <1>0, <1>2, <1>4, PauseMoves DEF Moves, Coroutines
<1>5. CASE ResumeStep
  BY <1>0, <1>2, <1>5, ResumeMoves DEF Moves, Notifies, Coroutines
<1>6. CASE \/ FeederStep \/ ConsumerStep \/ PutSample \/ Terminated \/ UNCHANGED vars
           \/ \E s \in Samples : TaskStep(s) \/ ServerStep(s)
  BY <1>2, <1>6, OthersDoNotMove
<1> QED BY <1>3, <1>4, <1>5, <1>6 DEF Next

\* Every step keeps the servers quiet from the end of gather() to resume().
LEMMA GenerationStep ==
    ASSUME TypeInv, LockInv, PartialRollout, GenerationInv, [Next]_vars
    PROVE  GenerationInv'
<1>0. PcTyped
  BY DEF TypeInv
<1>1. ASSUME NEW c \in Coroutines, NEW label \in Labels, Goto(c, label)
      PROVE  pc'[c] = label /\ \A d \in Coroutines \ {c} : pc'[d] = pc[d]
  BY <1>0, <1>1, GotoLabel DEF Moves
<1>2. CASE \E s \in Samples : ServerStep(s)
  <2>1. ~server_paused /\ pc' = pc /\ server_paused' = server_paused /\ trainer' = trainer
    BY <1>2 DEF ServerStep, ServerAdmit, ServerAccepts, control, serverVars, Alone, trainerVars
  <2> QED BY <2>1 DEF GenerationInv, Quiet
<1>3. CASE ResumeStep
  <2>1. trainer' = trainer /\ pc'.pause = pc.pause
    BY <1>0, <1>3, ResumeMoves DEF ResumeStep, Alone, trainerVars, Moves, Notifies, Coroutines
  <2>2. pc.resume # "none"
    BY <1>3 DEF ResumeStep, CallArrives, ResumeBegin, ServerResume, InLock
  <2>3. CASE ServerResume
    <3>1. lock.owner = "resume"
      BY <2>3 DEF ServerResume, LockInv, HoldsLock, Coroutines
    <3>2. pc.pause \notin {"gather", "reset"}
      BY <3>1 DEF LockInv, HoldsLock, Coroutines
    <3> QED BY <2>1, <2>2, <3>2 DEF GenerationInv, Quiet
  <2>4. CASE ~ServerResume
    <3>1. server_paused' = server_paused /\ task' = task
      BY <1>3, <2>4 DEF ResumeStep, CallArrives, ResumeBegin, OnlyControl, OnlyFlags, serverVars,
         taskVars
    <3> QED BY <2>1, <2>2, <3>1 DEF GenerationInv, Quiet
  <2> QED BY <2>3, <2>4
<1>4. CASE ~(\E s \in Samples : ServerStep(s)) /\ ~ResumeStep
  <2>1. Calm /\ server_paused \in BOOLEAN /\ server_paused' \in BOOLEAN
    BY <1>4, CalmSteps, TypeStep DEF TypeInv, ServerTyped
  <2>2. CASE UNCHANGED <<trainer, pc.pause, pc.resume>>
    BY <2>1, <2>2 DEF GenerationInv, Quiet, Calm
  <2>3. CASE PauseStep /\ UNCHANGED <<trainer, pc.resume>>
    <3>1. CASE CallArrives("pause")
      <4>1. pc.pause = "called" /\ pc'.pause = "locked"
        BY <1>1, <3>1 DEF CallArrives, AskLock, Labels, Coroutines
      <4> QED BY <2>1, <2>3, <4>1 DEF GenerationInv, Quiet, Calm
    <3>2. CASE PauseBegin
      <4>1. pc.pause = "locked" /\ pc'.pause = "cancel"
        BY <1>1, <3>2 DEF PauseBegin, InLock, KeepLock, Labels, Coroutines
      <4> QED BY <2>1, <2>3, <4>1 DEF GenerationInv, Quiet, Calm
    <3>3. CASE ServerCancel
      <4>1. pc.pause = "cancel" /\ pc'.pause = "gather" /\ server_paused'
        BY <1>1, <3>3 DEF ServerCancel, Labels, Coroutines
      <4> QED BY <2>1, <2>3, <4>1 DEF GenerationInv, Quiet, Calm
    <3>4. CASE PauseGathered
      <4>1. pc.pause = "gather" /\ pc'.pause = "reset" /\ Live = {}
        BY <1>1, <3>4 DEF PauseGathered, Labels, Coroutines
      <4>2. \A s \in Samples : task[s] # "generating"
        BY <4>1 DEF Live
      <4> QED BY <2>1, <2>3, <4>1, <4>2 DEF GenerationInv, Quiet, Calm
    <3>5. CASE PauseEnd
      <4>1. pc.pause = "reset" /\ pc'.pause = "none"
        BY <1>1, <3>5 DEF PauseEnd, LeaveLock, Labels, Coroutines
      <4> QED BY <2>1, <2>3, <4>1 DEF GenerationInv, Quiet, Calm
    <3> QED BY <2>3, <3>1, <3>2, <3>3, <3>4, <3>5 DEF PauseStep
  <2>4. CASE TrainerStep
    <3>1. CASE WaitLastValid
      <4>1. /\ pc.resume = "none" /\ trainer' \in {"pausing", "last_read"}
            /\ trainer \notin {"pausing", "weights"}
            /\ pc' = IF trainer' = "pausing" THEN [pc EXCEPT !["pause"] = "called"] ELSE pc
        BY <3>1 DEF WaitLastValid, LastSyncDone, Returned
      <4>2. pc'.resume = "none" /\ (trainer' = "pausing" => pc'.pause = "called")
            /\ (trainer' # "pausing" => pc' = pc)
        BY <1>0, <4>1 DEF PcTyped, Coroutines
      <4> QED BY <2>1, <4>1, <4>2 DEF GenerationInv, Quiet, Calm
    <3>2. CASE PauseReturned
      <4>1. trainer = "pausing" /\ trainer' = "weights" /\ pc.pause = "none" /\ pc' = pc
        BY <3>2 DEF PauseReturned, RollouterPaused, rollouterVars, control
      <4> QED BY <2>1, <4>1 DEF GenerationInv, Quiet, Calm
    <3>3. CASE SyncWeights
      <4>1. /\ trainer = "weights" /\ trainer' \in {"wait_end", "read"}
            /\ pc' = [pc EXCEPT !["update"] = "called", !["resume"] = "called"]
        BY <3>3 DEF SyncWeights, WeightsSynced
      <4>2. pc'.pause = pc.pause
        BY <1>0, <4>1 DEF PcTyped, Coroutines
      <4> QED BY <2>1, <4>1, <4>2 DEF GenerationInv, Quiet, Calm
    <3>4. CASE GetSample \/ ReadValidate \/ Train
      <4>1. pc' = pc
        BY <3>4 DEF GetSample, ReadValidate, Train, rollouterVars, control
      <4>2. trainer' = trainer \/ {trainer, trainer'} \cap {"pausing", "weights"} = {}
        BY <3>4 DEF GetSample, ReceiveEnd, Receive, ReadValidate, ReadFirst, ReadAfterStep,
           ReadFinal, Train, TrainBatch, EndTraining, NewVersion, trainerVars
      <4> QED BY <2>1, <4>1, <4>2 DEF GenerationInv, Quiet, Calm
    <3> QED BY <2>4, <3>1, <3>2, <3>3, <3>4 DEF TrainerStep
  <2> QED BY <1>4, <2>2, <2>3, <2>4, CallsMove
<1> QED BY <1>2, <1>3, <1>4

\* With partial rollout no server generates while weights are loaded: pause() has
\* interrupted what ran, a paused server answers new requests at once, and no
\* earlier resume() is still on its way to wake the servers.
THEOREM NoGenerationDuringSyncCorrect ==
    ASSUME PartialRollout
    PROVE  Spec => []NoGenerationDuringSync
<1> DEFINE I == TypeInv /\ LockInv /\ GenerationInv
<1>1. Init => I
  BY TypeInit, BudgetInit, GenerationInit
<1>2. I /\ [Next]_vars => I'
  <2> SUFFICES ASSUME I, [Next]_vars PROVE I'
    OBVIOUS
  <2>1. TypeInv'
    BY TypeStep
  <2>2. LockInv'
    BY LockInvStep DEF TypeInv
  <2>3. GenerationInv'
    BY GenerationStep
  <2> QED BY <2>1, <2>2, <2>3
<1>3. I => NoGenerationDuringSync
  BY DEF GenerationInv, Quiet, NoGenerationDuringSync
<1> QED BY <1>1, <1>2, <1>3, PTL DEF Spec
=============================================================================
