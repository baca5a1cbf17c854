---------------------------- MODULE MessageQueue ----------------------------
(***************************************************************************)
(* The Ray actor MessageQueue of recipe/fully_async_policy: the bounded    *)
(* queue of rollout samples between the Rollouter and the Trainer, with a  *)
(* second, unbounded queue of validation results.                          *)
(*                                                                         *)
(* Every method runs under one asyncio.Lock on one event loop, and the     *)
(* only await made while the lock is held is Condition.wait(), which       *)
(* releases it.  A method is therefore one atomic step, except get_sample, *)
(* which is a step up to its wait() and one step for each time it is woken *)
(* (GetSample, Wake).  Between notify_all() and the moment a woken getter  *)
(* has the lock again any other method may run, so "notified" is a state   *)
(* of its own and Wake tests the loop condition again.                     *)
(*                                                                         *)
(* The queue never looks inside a sample: a sample is any value, and the   *)
(* specification of the actor alone numbers them in the order of the puts. *)
(***************************************************************************)
EXTENDS Integers, Sequences

CONSTANTS
    Getters,        \* the concurrent callers of get_sample
    MaxQueueSize,   \* max_queue_size
    MaxPuts,        \* bound: calls of put_sample
    MaxValidates,   \* bound: calls of put_validate
    MaxVersion,     \* bound: parameter versions announced to the queue
    NoSample        \* Python's None as the answer of get_sample

ASSUME QueueSizeAssumption == MaxQueueSize \in Nat \ {0}
ASSUME BoundsAssumption ==
    MaxPuts \in Nat /\ MaxValidates \in Nat /\ MaxVersion \in Nat
ASSUME NoSampleAssumption == NoSample \notin Nat

VARIABLES
    queue,                \* the deque of samples, oldest first
    val_queue,            \* the deque of validation results
    running,              \* FALSE after shutdown()
    current_param_version,
    total_produced, total_consumed, dropped_samples,  \* the statistics
    cleared,              \* history: samples thrown away by clear_queue()
    getter,               \* getter[c]: where the get_sample call of c stands
    reply                 \* reply[c]: what the last get_sample call of c returned

counters == <<total_produced, total_consumed, dropped_samples, cleared>>
vars == <<queue, val_queue, running, current_param_version, counters,
          getter, reply>>

GetterStates == {"idle", "waiting", "notified"}

\* A new actor that was already given the validation results vals.
InitWith(vals) ==
    /\ queue = <<>>
    /\ val_queue = vals
    /\ running = TRUE
    /\ current_param_version = 0
    /\ total_produced = 0
    /\ total_consumed = 0
    /\ dropped_samples = 0
    /\ cleared = 0
    /\ getter = [c \in Getters |-> "idle"]
    /\ reply = [c \in Getters |-> NoSample]

Init == InitWith(<<>>)

-----------------------------------------------------------------------------
(* Condition.notify_all() *)
NotifyAll(g) ==
    [c \in Getters |-> IF g[c] = "waiting" THEN "notified" ELSE g[c]]

\* Mutant of IsFull: the capacity test off by one.
FullOffByOne == Len(queue) > MaxQueueSize

IsFull == Len(queue) >= MaxQueueSize

\* What putting s leaves in the deque: the oldest sample makes room for it.
Appended(s) == Append(IF IsFull THEN Tail(queue) ELSE queue, s)

\* Mutant of PutSample: notify_all() forgotten.
PutWithoutNotify(s) ==
    /\ queue' = Appended(s)
    /\ dropped_samples' = IF IsFull THEN dropped_samples + 1 ELSE dropped_samples
    /\ total_produced' = total_produced + 1
    /\ UNCHANGED <<val_queue, running, current_param_version,
                   total_consumed, cleared, getter, reply>>

PutSample(s) ==
    /\ queue' = Appended(s)
    /\ dropped_samples' = IF IsFull THEN dropped_samples + 1 ELSE dropped_samples
    /\ total_produced' = total_produced + 1
    /\ getter' = NotifyAll(getter)
    /\ UNCHANGED <<val_queue, running, current_param_version,
                   total_consumed, cleared, reply>>

\* The loop of get_sample from its test on, with the lock held.
WaitForSample(c) ==
    /\ queue = <<>> /\ running
    /\ getter' = [getter EXCEPT ![c] = "waiting"]
    /\ UNCHANGED <<queue, total_consumed, reply>>

\* Mutant of ReturnNone: a closed queue answers None though samples are left.
NoneWhenClosed(c) ==
    /\ ~running
    /\ getter' = [getter EXCEPT ![c] = "idle"]
    /\ reply' = [reply EXCEPT ![c] = NoSample]
    /\ UNCHANGED <<queue, total_consumed>>

ReturnNone(c) ==
    /\ queue = <<>> /\ ~running
    /\ getter' = [getter EXCEPT ![c] = "idle"]
    /\ reply' = [reply EXCEPT ![c] = NoSample]
    /\ UNCHANGED <<queue, total_consumed>>

TakeOldest(c) ==
    /\ queue # <<>>
    /\ queue' = Tail(queue)
    /\ total_consumed' = total_consumed + 1
    /\ getter' = [getter EXCEPT ![c] = "idle"]
    /\ reply' = [reply EXCEPT ![c] = Head(queue)]

GetLoop(c) ==
    /\ WaitForSample(c) \/ ReturnNone(c) \/ TakeOldest(c)
    /\ UNCHANGED <<val_queue, running, current_param_version,
                   total_produced, dropped_samples, cleared>>

GetSample(c) == getter[c] = "idle" /\ GetLoop(c)

\* A notified getter has the lock again; nobody else can wake it.
Wake(c) == getter[c] = "notified" /\ GetLoop(c)

\* Mutant of UpdateParamVersion: the version added instead of stored.
AddParamVersion(v) ==
    /\ current_param_version' = current_param_version + v
    /\ UNCHANGED <<queue, val_queue, running, counters, getter, reply>>

UpdateParamVersion(v) ==
    /\ current_param_version' = v
    /\ UNCHANGED <<queue, val_queue, running, counters, getter, reply>>

ClearQueue ==
    /\ cleared' = cleared + Len(queue)
    /\ queue' = <<>>
    /\ UNCHANGED <<val_queue, running, current_param_version, total_produced,
                   total_consumed, dropped_samples, getter, reply>>

\* Mutant of Shutdown: the blocked getters are not notified.
ShutdownSilently ==
    /\ running' = FALSE
    /\ UNCHANGED <<queue, val_queue, current_param_version, counters, getter, reply>>

Shutdown ==
    /\ running' = FALSE
    /\ getter' = NotifyAll(getter)
    /\ UNCHANGED <<queue, val_queue, current_param_version, counters, reply>>

PutValidate(v) ==
    /\ val_queue' = Append(val_queue, v)
    /\ UNCHANGED <<queue, running, current_param_version, counters, getter, reply>>

\* get_validate returns the oldest result, or None at once when there is none.
ValidateAnswer(none) == IF val_queue = <<>> THEN none ELSE Head(val_queue)

GetValidate ==
    /\ val_queue' = IF val_queue = <<>> THEN val_queue ELSE Tail(val_queue)
    /\ UNCHANGED <<queue, running, current_param_version, counters, getter, reply>>

-----------------------------------------------------------------------------
(* The actor alone, under any sequence of calls. *)
Put == total_produced < MaxPuts /\ PutSample(total_produced + 1)

Next ==
    \/ Put
    \/ \E c \in Getters : GetSample(c) \/ Wake(c)
    \/ \E v \in 0..MaxVersion : UpdateParamVersion(v)
    \/ ClearQueue
    \/ Shutdown
    \/ Len(val_queue) < MaxValidates /\ PutValidate(Len(val_queue))
    \/ GetValidate

Spec == Init /\ [][Next]_vars

\* asyncio runs every ready coroutine: a notified getter gets its turn.
FairSpec == Spec /\ \A c \in Getters : WF_vars(Wake(c))
-----------------------------------------------------------------------------
(* Properties. *)

TypeOK ==
    /\ queue \in Seq(1..MaxPuts)
    /\ val_queue \in Seq(Nat)
    /\ running \in BOOLEAN
    /\ current_param_version \in 0..MaxVersion
    /\ total_produced \in 0..MaxPuts
    /\ total_consumed \in Nat /\ dropped_samples \in Nat /\ cleared \in Nat
    /\ getter \in [Getters -> GetterStates]
    /\ reply \in [Getters -> 1..MaxPuts \cup {NoSample}]

\* The samples put before those the queue still holds.
Gone == total_consumed + dropped_samples + cleared

\* The queue holds exactly the samples put last, in the order of the puts, and
\* never more than max_queue_size: get_statistics adds up, whatever was
\* consumed, evicted by put_sample or cleared in between.
QueueIsWindow ==
    /\ Len(queue) <= MaxQueueSize
    /\ total_produced = Gone + Len(queue)
    /\ \A i \in 1..Len(queue) : queue[i] = Gone + i

\* No get_sample sleeps through a put or a shutdown: a call is parked in
\* Condition.wait() only while there is nothing to return.
NoLostWakeup ==
    (\E c \in Getters : getter[c] = "waiting") => queue = <<>> /\ running

\* The actor implements the abstract queue: readers get the samples in the
\* order of the puts, each at most once, and None only after shutdown.
Fifo == INSTANCE DropOldestFifo WITH
    Readers <- Getters, Capacity <- MaxQueueSize, Nothing <- NoSample,
    lo <- Gone, hi <- total_produced, closed <- ~running, answer <- reply

ImplementsFifo == Fifo!Spec

\* shutdown() lets every blocked get_sample return (message_queue.py:154).
ShutdownReleasesGetters ==
    \A c \in Getters : ~running ~> getter[c] = "idle"
=============================================================================
