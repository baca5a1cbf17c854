# A TLA+ model of the MoDA training system

MoDA is a fork of `verl`, a reinforcement-learning trainer for language models
built on Ray, with mode-conditioned diversity rewards on top. This directory
models the parts of it where order, concurrency and failure decide whether a
training run is correct: the fully asynchronous pipeline of
`recipe/fully_async_policy`, and around it the interruptible rollout servers, the
training loops with their checkpoints, the order of rows and rewards within a
step, the tool agent, the choice of servers and workers, rate limiting, and the
mode-conditioned reward function.

## 1. The system's parts

| Part | State it keeps | Operations | What makes it correct |
|---|---|---|---|
| **MessageQueue** (`message_queue.py`, Ray actor) | a bounded deque of samples, a deque of validation results, `running`, counters | `put_sample` (drops the oldest when full), `get_sample` (blocks), `update_param_version`, `clear_queue`, `shutdown`, `put_validate`, `get_validate` | readers get the samples in order and once; counters add up; no blocked reader sleeps through a put or a shutdown |
| **FullyAsyncRollouter** (`fully_async_rollouter.py`, Ray actor on one asyncio loop) | `pending_queue`, `active_tasks`, `cancel_queue`, `result_queue`, `paused`, `monitor_loop_trigger`, `running`, `staleness_samples`, version, one `asyncio.Lock` with its condition | feeder, processor, one task per sample, consumer, main, monitor; `pause`, `update_param_version`, `resume` called from outside | no sample lost or duplicated; bounded concurrency and staleness; a paused rollout is resumed; nothing runs while weights are loaded; both `fit()` calls end |
| **FullyAsyncTrainer** (`fully_async_trainer.py`, one thread) | batch being collected, `local_trigger_step`, version, last validation result | `fit`, `_get_samples_from_queue`, `_trigger_parameter_sync_after_step` | synchronises every `trigger_parameter_sync_step` batches; ends on the end signal; validates the final weights |
| **ParameterSynchronizer** (`param_sync.py`) | the two futures of the last synchronisation | `sync_weights`, `wait_last_valid` | synchronisations do not overlap |
| **FullyAsyncTaskRunner** (`fully_async_main.py`) | the components and their futures | builds everything, synchronises version 0, runs both `fit()` | - |
| **Partial-rollout server** (`vllm_rollout/vllm_async_server.py`, `agent_loop/`) | `paused`, a cancel event and the last output of each request | `generate_for_partial`, `cancel`, `resume`, `reset_prefix_cache` | no request is served by a paused server; an interrupted response is continued, not restarted |
| **One-step-off trainer** (`recipe/one_step_off_policy`) | one batch in flight | `_async_gen_next_batch`, `fit` | each batch is one step old, none skipped |
| **Checkpointing** (`verl/utils/checkpoint`, `ppo/ray_trainer.py`) | saved paths, tracker file | save, rotate, find latest, load | after a crash there is something complete to resume from |
| **Agent loop and server choice** (`verl/experimental/agent_loop`) | heap of request counts, LRU of sessions; the tool agent's messages | `_choose_server`, the agent's states | a session stays on its server; the message list is what was said |
| **Reward router** (`naive_router.py`) | request count per worker | select, retry, release | counts return to zero |
| **Tool rate limiting** (`search_tool.py`, `sandbox_fusion_tools.py`, `mcp_clients/utils.py`) | semaphore and counter; token bucket | acquire, release | never more than the limit, no permit lost |
| **Mode-conditioned rewards** (`custom_reward_setup`) | scores and futures of one batch | score in micro-batches, thread pool, combine | each response gets its own reward, compared with its own group, whatever fails |
| **A training step** (`ray_trainer.py`, `seqlen_balancing.py`, `protocol.py`) | the order of rows, rewards by position | repeat, balance, reorder, reward, advantage | no row lost, ranks balanced, a row keeps its reward |
| **DataProto and dispatch** (`protocol.py`, `single_controller`) | none | pure functions | pad/unpad and chunk/concat lose nothing |

How the first five interact. The feeder puts prompts into `pending_queue`. The
processor takes them (interrupted samples first), limits the number of running
tasks, and creates one task per sample. A task sends its request to a generation
server and puts the finished sample into `result_queue`, or an interrupted one
into `cancel_queue`. The consumer moves finished samples into the message queue,
from which the trainer draws batches. After `trigger_parameter_sync_step`
batches the trainer calls the synchroniser, which waits until the last
synchronisation is through (`wait_last_valid`), calls `pause()`, broadcasts the
weights, and sends off `update_param_version` and `resume` without waiting for
them. The processor pauses by itself when the queue is full or
`staleness_samples` reaches `max_required_samples`; a monitor lifts that pause
every ten seconds if its cause is gone. At the end of the data main puts `None`
into the message queue.

What is hard: nine coroutines share one lock and its condition; the processor
holds the lock while it waits for tasks; three places replace `active_tasks`;
`update_param_version` awaits in the middle of a sum; the monitor decides before
it has the lock; failures travel along several paths; end of data, interruption
and pause can meet in any order. `PROJECT.json` lists these hazards at their
lines with the properties aimed at each.

## 2. Modules

    DropOldestFifo            what the sample queue promises
    MessageQueue              the actor; implements DropOldestFifo
    MessageQueueProofs        theorems about MessageQueue
    FullyAsyncRollouter       the rollouter actor and the server behind it
    FullyAsyncTrainer         the trainer and the synchroniser it waits for
    FullyAsyncPolicy          the three actors together; properties; fairness
    FullyAsyncProofs          theorems about FullyAsyncPolicy: control, versions, bounds
    FullyAsyncSampleProofs    ... about its samples; builds on FullyAsyncProofs

    PartialRollout            rollout servers, agent loop and pause/resume on top
    ServerChoice              AsyncLLMServerManager: heap of counts, LRU of sessions
    RateLimit                 the semaphore actor of the tools
    NaiveRouter               the reward-model router
    ToolAgent                 one episode of ToolAgentLoop
    TrainingRecovery          both training loops, checkpoints, crashes, restarts
    StepDataflow              rows, rewards and advantages of one training step
    ModeReward                hybrid_reward_function_batch
    TrainingStack             these eight, side by side
    TrainingStackMC           the constants of its run
    PartialRolloutProofs, TrainingRecoveryProofs      theorems about the module of that name
    AgentProofs               theorems about ServerChoice, NaiveRouter, RateLimit, ToolAgent
    BatchProofs               theorems about ModeReward and StepDataflow
    TrainingStackProofs       the stack implements its parts; their theorems hold of it

### MessageQueue

Each method runs under one lock on one event loop, so it is one step; only
`get_sample` suspends, in `Condition.wait()`. `getter[c]` is `idle`, `waiting`
or `notified`; `notify_all()` turns waiting into notified, and `Wake` tests the
loop condition again, as other methods may run in between. `cleared` is a
history variable; the statistics of the code do not count cleared samples.

### FullyAsyncRollouter

`pc[c]` says where coroutine `c` stands, `lock` who owns `self.lock` and who
queues for it in which order. asyncio is cooperative: a coroutine runs alone
until it really suspends, and acquiring a free lock does not suspend. The model
keeps this exactly: a step that takes a free lock and goes on marks the lock
`kept`, and until its owner has gone on no other coroutine of the actor moves
(`LoopIsFree`, `InLock`). Otherwise the model would contain races the program
cannot have, and miss none that it has. The processor's labels are

| label | place in `_processor_worker` |
|---|---|
| `top` | 338, the loop's first test |
| `pause_in`, `drain_in`, `drain_wait` | 342, 345, 348 |
| `idle_in`, `idle_cond`, `idle_woken` | 354, 357 asleep, 357 notified |
| `get` | 365 with nothing pending |
| `limit_in`, `limit_wait` | 384, 386 |
| `submit_in`, `submit_cond`, `submit_woken` | 393, 397 asleep, 397 notified |
| `done_in`, `done_wait` | 373, 375 |
| `finished`, `failed` | returned, raised |

A label ending in `_in` stands at an `async with self.lock`. Samples are numbers
in the order of feeding and `DONE` is the next number, so `pending_queue` is an
interval. A task goes through `created`, `sent`, `generating`; a finished task
is only counted (`unreaped`), as nothing but its number and whether one raised
(`failed_unreaped`) matters. `done_tasks_bound` tells whether the processor's
local variable has a value: the code reads it unbound when `active_tasks` was
emptied before the processor's first wait.

Abstractions. A remote call and its return are one step, taken when the actor
called would execute it; the message queue's answer to a blocking
`get_statistics_sync` is its current size. Ray does not promise that two calls
of one async actor arrive in order, so the put of the consumer and the size
query of `update_param_version` may pass each other. There is one server with
one request per sample (`rollout.n = 1`). The prefix-cache reset is an await
that changes nothing. Timing statistics and the content of a validation are left
out; whether one is due is kept. A turn of the monitor without effect is left
out. `MaxFailures` bounds the requests that raise.

### FullyAsyncTrainer and FullyAsyncPolicy

The trainer blocks in every remote call, so one label is its control state. What
it receives from a call is a parameter of the action, and `FullyAsyncPolicy`
conjoins the actions of the actors that take part in a call: `PutSample` is the
consumer's put and the queue's, `GetSample` the trainer's request and the
queue's answer, `WaitLastValid` the end of the wait and the call of `pause()`.
The initial state is the one after the synchronisation of version 0.

### PartialRollout

`FullyAsyncRollouter` has one server that answers a sample as a whole; here are
several servers with their request tables, and one sample with several responses.
An attempt at a response is a call in flight (`call[r]`): `sent` may reach any
server at any later time, so the call may pass `cancel()`; `waiting` until the
engine has finished or the event is set; `woken` before the second
`async with self.lock`; `answered` before the agent loop has it. `entry` merges
`cancel_event` and `req_output`, whose keys differ in nothing a property sees.
The lock matters only to `reset_prefix_cache`, the one method that suspends while
it has it (`resetting`). A token is its position in its context and the weight
version that made it, so that a lost, repeated or shifted token, or one of the
wrong version, is visible; a log probability is named by its token. `phase` and
`todo` are `sync_weights` with the rollouter's `pause()` and `resume()`, which call
every server; they have the rollouter's lock while they wait (`LockFree`). A
generation that raises ends the task of the sample while the sample's other
calls go on, as `asyncio.gather` leaves them.

The rollouter's own `paused` and the servers' are two flags. A monitor that has
tested `monitor_loop_trigger` before `pause()` reset it lifts the first once
`pause()` has returned (`MonitorResumes`; the run `fully_async_monitor_race` shows
the same of the pipeline), and the sample may start again while weights are loaded.
Its calls wait, or are turned away by servers that are still paused. The version of
the weights (`version`) and the one the rollouter knows and labels samples with
(`current_param_version`) differ from the load to `update_param_version()`.

Abstractions. The server an attempt goes to is arbitrary (`ServerChoice` models
the choice). The engine may hand out a last token at any time, or never. The
processor's own pauses (full queue, limit reached) are left out, as they only delay
a start; so is the turn of the event loop between the creation of a task and its first
step, which delays its label like a later start.

### ServerChoice, RateLimit, NaiveRouter

`ServerChoice`: the heap is the function `weight`, from which a least element is
taken (which one among equals depends on heap order; any); the LRU cache is the
sequence of its keys in order of use. `last` and `since` are history. `RateLimit`:
the actor's two concurrency groups, one thread that serves `acquire` in order and
blocks in the semaphore, others that serve `release`; both tools ask for the actor
by one name. That a later tool's limit is ignored is part of the model. `NaiveRouter`:
a request is at the choice of its worker, reading its body, trying, or sleeping
between attempts; the router's methods without an await are one step.

### ToolAgent

One action per handler of the state machine; `_call_tool` is split at its awaits,
since the calls run in parallel. Tokens are named by their origin. What a tool, a
user or the model says is left out, its length and whether it has an image are
kept; texts that are cut off before they are tokenized have any length up to
`MaxAnswer`. A first prompt may be longer than `prompt_length`: the data set filters
prompts without the schemas of the tools, if it filters at all, the loop adds the
schemas and cuts nothing. (What the padding of the outputs does with such a prompt is
not modelled.) `tool.release` does not raise (the tools of the repository delete the
instance they created).

### TrainingRecovery

The loops of `RayPPOTrainer.fit` and of `OneStepOffRayTrainer.fit`, told apart by
`pipelined`; they share `_save_checkpoint` and `_load_checkpoint`. Weights are the
sequence of batches they were trained on, a rank's file is the weights it was
written from, `Partial` while it is being written. `Crash` may come between any
two steps, also between the truncation of the tracker and the write to it; what
survives is `tracker`, `shard` and `data`. The restart reads what the code reads
(`resume_mode = auto`): `int("")` of an empty tracker raises, which is
`LoadFails`. The ranks write their files in any order, between the barriers of
`fsdp_checkpoint_manager.py`: after rotating and before the path is remembered.

Abstractions. `critic_warmup = 0`; actor alone or actor and critic, both with the
same number of checkpoints to keep; the data loader does not raise (an exception
in the pipelined loop ends its data early, a hazard without a property), and
`total_training_steps` is that of the epochs; a save
because of an expiring machine (`esi`) is possible in any step of the synchronous
loop; a file is half written or written, a directory half removed counts as
removed, since neither can be loaded.

### StepDataflow, ModeReward

`StepDataflow` follows one batch from its generation to its advantages, with the
three settings that decide the order of events. `karmarkar_karp` is modelled on
sets of rows, one merge per step; Python orders equal sums by their members, the
model takes either order. A reward is named by the row it was computed from.
`ModeReward` is one call of the batch reward function. Numbers are named by the
response they were computed from, penalties are left out (they belong to one
response), what may raise may raise: the model's scoring, a future, the
combination of one item. Each info has a prompt (or question) or none (`prompted`):
`BatchRewardManager` always passes a list of infos, with empty ones where the batch has
none, and then all items form one group. The failure to precompute sentence embeddings ends in
fallback computation per item and changes nothing here.

### TrainingStack

These eight parts do not share state: they meet in the code only through values
they return (a response, a score, a server). `TrainingStack` is their disjoint sum:
`component` says which part runs, the other parts rest in one of their initial
states, so that one run checks all of them without multiplying their states. It
extends the modules and adds no behaviour to them. `PartialRollout` is where they do
interact with the pipeline, and has the pipeline's `pause` and `resume` as its caller.

## 3. What the runs check

| run | constants that matter | shows |
|---|---|---|
| `message_queue` | 2 getters, capacity 2, 3 puts, any order of calls | window of puts, order, no lost wake-up, shutdown releases everyone, refinement of `DropOldestFifo` |
| `fully_async_on_policy` | `Max = R*T` (staleness 0), 2 batches per version, 2 versions, partial rollout on | each sample is trained on by the version that began it, nothing is left at a synchronisation, partial rollout interrupts nothing, both `fit()` return |
| `fully_async_stale` | `Max = 2*R*T`, 5 samples, 2 concurrent | samples are neither lost nor duplicated, all delivered at the end, at most two more than `max_required_samples` ahead, versions in step, no lost wake-up |
| `fully_async_partial` | `R = 2`, `Max = 3`, 5 samples, partial rollout, one failure, `pending_queue` of 3 so that the feeder blocks | the same accounting with interruption and failure, bounded concurrency, nothing but a failed generation ends the processor, no generation while weights are loaded |
| `fully_async_live` | 2 samples, partial rollout, one failure | every synchronisation completes |
| `training_stack` | see below | the properties of the eight parts |

What `training_stack` checks, part by part:

| part | instance | shows |
|---|---|---|
| PartialRollout | 2 servers, 2 responses of up to 2 tokens in 2 attempts each, 2 synchronisations, 1 failure | a paused server serves nobody; weights are loaded while nobody generates, though the sample may have started again; a spliced response is one run of tokens of versions that never fall and are at most one above its labels, with their log probabilities; a finished response is final; `pause()` drains |
| ServerChoice | 2 servers, 3 episodes, memory of 2, 8 calls | even load; an episode keeps its server while fewer than `max_cache_size` others have called |
| RateLimit | 2 tools with limits 2 and 1, 2 executions each | permits are conserved; whoever waits gets to run |
| NaiveRouter | 2 workers, 3 requests, 2 attempts | counts are exactly the requests worked on and those failed for good |
| ToolAgent | `prompt_length` 2, first prompts of 1, 2, 3 and 6, response of 4, up to 3 calls of which 2 run | the mask marks the model's tokens; tools leave room for the next turn, unless a user talks too or the first prompt was too long; instances are released |
| TrainingRecovery | 2 epochs of 2 batches, 2 ranks, actor and critic, keep 0, 1 or 2, 2 crashes | the tracked checkpoint is complete; no batch is trained on twice; a job ends on its last step |
| StepDataflow | 4 rows, 2 responses each, 2 ranks, 3 lengths, all settings | no row is lost, ranks differ by no more than neighbours; advantages keep their rewards, but for one setting |
| ModeReward | 3 items of 2 prompts, interleaved, each named by its info or not, micro-batches of 2 | a response's reward is made of its own numbers, and of its own prompt where that is named, whatever fails |

The bounds. With one sample per batch and twice the required samples, a version
of the stale run can begin with samples of the last one; five samples give
several versions with overlooked samples, and an excess of one. The excess of two
that `BudgetSlack` allows takes six samples (2.1 million states, the same
properties hold; with the bound lowered by one TLC finds it exceeded), which is
more than a routine run should cost; that it stays at two for any number of
samples is proved (`BudgetSlackCorrect`). The partial run has five samples in
batches of two, so that the last batch stays incomplete.
`PendingCapacity` exceeds `MaxConcurrentSamples` in the passing runs, as the
code's 128 does with fewer than eight servers; with less the processor can block on an
empty `pending_queue` before its first wait, and `done_tasks` is read unbound.
Temporal properties are checked on small instances because the fairness
conditions, one per coroutine, dominate the cost.

Bounds of `training_stack`. Two attempts at two tokens let a response be interrupted
before its first token, between its tokens, and after a sibling has finished, and let
it start in the window after a load; the second synchronisation meets what the first
one left. A prompt shorter than `prompt_length` would let the response outgrow
`response_length`, so that it is cut: that instance has 1.0 million states (the same
properties hold) and is no routine run; the theorems cover it. A first prompt of 3 is
longer than `prompt_length`, one of 6 leaves the engine no room at all. Three episodes overflow a memory of two. Three
requests on two workers meet a worker that has a failed one. A response of 4 after
answers of up to 2 puts the limit before, within and behind an answer. With two
crashes the second may hit the run that resumed; with `save_freq = 1` and four
steps even the larger `keep` rotates twice. Rows in two prompts on two ranks are the
smallest batch in which balancing moves a row away from its sibling.

Fairness. asyncio runs its ready coroutines in turn, so a coroutine that is
ready again and again runs: strong fairness for each, since whether it is ready
depends on the loop being free. Servers, queue and trainer are processes of
their own: weak fairness. The monitor polls, so it acts on what stays true:
weak. No fairness is assumed of failures or interruptions. In `training_stack`,
`PartialFairness` is weak fairness of what the event loops do for a call other than
generate (`Serving`) and of the rollouter's pause (`Pausing`): an event loop runs
what is ready. No engine has to produce another token and nobody has to
synchronise. `LimitFairness` is weak fairness of the limiter's progress: remote
calls are served and the tools' functions have timeouts.

Deadlock is checked in `training_stack` (a part that is through stutters
explicitly) and in every other run but `fully_async_live` (and the
`no_signal` run), since with staleness or a failure the pipeline may really stop
(below).

### Where the code departs from what it says

Each of these is a run that TLC must find violated; the trace is the story.

- `fully_async_monitor_race`: the monitor tests "may I resume?", then queues for
  the lock that `pause()` holds, and gets it once `pause()` has returned: it
  resets `paused` during the weight synchronisation and the processor adds
  tasks. The README of the recipe says none are added.
- `fully_async_interrupted`: with partial rollout, samples interrupted after the
  processor has taken `DONE` stay in `cancel_queue` for ever. The README says
  interrupted samples continue. (Without partial rollout `AllDelivered` holds:
  run `fully_async_stale`.)
- `fully_async_final_metrics`: the final synchronisation and validation are
  skipped when the last validation result read, possibly of an older version,
  has metrics.
- `fully_async_hang`: `update_param_version` can count one sample twice (its
  finished, unreaped task and its place in `cancel_queue` or `result_queue`,
  even a third time in the message queue, for the sum is interrupted by an
  await). The count may then stay at the limit with nothing running; processor
  and trainer wait for each other and the monitor has no reason to resume. With
  partial rollout three samples show it. Without, it takes eight
  (`TotalRolloutSteps = 8`, `RequiredSamples = 2`, `MaxRequiredSamples = 3`),
  where TLC reports a deadlock after about a minute; so termination is claimed
  only for staleness 0, and `fully_async_live` claims the completion of
  synchronisations and no more.
- `fully_async_no_signal`: main awaits the feeder before the processor. When a
  generation raises while more prompts are left than `pending_queue` holds, the
  feeder blocks, main never notices, and the trainer never gets its end signal.
- `step_dataflow_early_reward`: with `launch_reward_fn_async` the one-step-off
  trainer starts the rewards with the generation, on the rows in the order of the
  generation; `fit()` then reorders the rows (`balance_batch`) and attaches the
  rewards by position. A row is trained with the reward of another. The comment at
  the reordering says that it does not affect the advantages. The passing run
  checks that this setting is the only one in which it does
  (`AdvantagesKeptUnlessEarly`).

`training_stack` also had to except what the code does not promise.
`TrackedIsComplete` excepts `max_ckpt_to_keep = 1`: the only checkpoint is removed
before its successor is written. Opening the tracker truncates it, so a crash at
that moment leaves checkpoints that are complete and a job that cannot start
(`LoadFails`); no property promises that a restart succeeds. `EachBatchOnce` and
`EndsOnLastStep` allow the pipelined trainer one lost batch for each restart: the
batch in generation has already been taken from the loader whose position is
saved. `IdleDuringUpdate` excepts a sample one of whose responses raised.
`ResponseIsContinuation` lets tokens be one version newer than
`param_version_start..param_version_end`, which `agent_loop.py` documents as the
versions the response is generated with: a task that starts between the load and
`update_param_version()` takes the old label. `ToolsLeaveRoom` excepts first prompts
longer than `prompt_length`, which nothing cuts. `RewardIsOwn` states that items whose
infos name no prompt are compared with one another, whatever they respond to.
`CountIsBurden` states that a request that failed for good stays on its worker's
count.

The rollout budget of the recipe's README is exceeded too, by at most two
samples: those in the processor's and the consumer's hands when
`update_param_version` adds up. `BudgetSlack` states what does hold.

## 4. What is proved

TLAPS checks the theorems below for every value of the constants that meets the
stated assumptions. `MessageQueueProofs` is about the actor under any sequence of
calls, `FullyAsyncProofs` and `FullyAsyncSampleProofs` about `Spec` of the whole
pipeline, without fairness. Where a theorem has a hypothesis of its own, it is named
and justified with the theorem.

**MessageQueueProofs** (assumes `QueueSizeAssumption`, `BoundsAssumption`,
`NoSampleAssumption`). `TypeCorrect`, `WindowCorrect` and `NoLostWakeupCorrect`
share one inductive invariant, the conjunction of the three formulas. The
window, and the counters with it, need no help beyond the types. `RefinesFifo`
maps the initial states and then every step to a step of `DropOldestFifo` or to a
stutter; the case that matters is the wake-up, which may find the queue emptied
by another reader and goes to sleep again.

**FullyAsyncProofs** (assumes `RollouterAssumption` and `TrainerAssumption`).
One lemma per kind of step says which coroutines it moves (`ProcessorMoves`,
`PauseMoves`, ...); the invariants build on these.

| theorem | inductive invariant | why it has to be stronger |
|---|---|---|
| `TypeCorrect` | `TypeInv`: the types, by group of variables, with those of the message queue | a batch receives what the queue holds, so the queue's elements are needed |
| `NoLostWakeupCorrect` | `WakeupInv`: the property and the labels | it is inductive: a step that resets `paused` notifies in the same step |
| `VersionSkewCorrect` | `VersionInv` | the trainer is one version ahead exactly between its decision and the broadcast; the rollouter lags only while `update_param_version` has been called and has not run, and the trainer pauses the rollouter only when it has |
| `ConcurrencyCorrect` | `TypeInv`, `ConcurrencyInv`: from its test of the limit to the submission the processor has room for one task | the lock is given up in between, and after a sleep the limit is not tested again |
| `BudgetSlackCorrect` | `TypeInv`, `LockInv`, `BudgetInv` | see below |
| `NoGenerationDuringSyncCorrect` (if `PartialRollout`) | `TypeInv`, `LockInv`, `GenerationInv`: from the reset of the caches to the load the servers are paused and generate nothing; `pause` has returned when the load begins, and no `resume` is still on its way | `resume` of the last synchronisation and `pause` of this one set the servers' flag in opposite ways; only their order, which the trainer's wait and the lock enforce, keeps the later one in force |

The hypothesis `PartialRollout` is needed: without it the servers are never paused,
and what the run `fully_async_monitor_race` shows lets tasks generate during a load.

`BudgetInv` says that the outstanding samples are at most `staleness_samples + 2`
and at most `MaxRequiredSamples + 2`, at most `MaxRequiredSamples + 1` while the
processor waits for a prompt it will take without a new test, and that the half
sum of `update_param_version` is still an upper bound when the other half comes.
The last part needs `LockInv`, the mutual exclusion of `self.lock` (whoever
suspends inside `async with self.lock` owns it): the processor submits only with
the lock, so no task is added between the two halves, and what has moved in the
meantime has moved on to the message queue, which is counted later. That the sum
overlooks two samples at most (`OverlooksTwo`) is a fact about cardinalities: the
sum may count a sample twice, but only `held` and `putting` are in no summand.
That the overlooked samples do not add up over the versions is the point of the
theorem: every version counts anew, and the test at the top of the loop compares
with the new count.

**FullyAsyncSampleProofs** follows the samples through the same specification.

| theorem | hypotheses | inductive invariant | why it has to be stronger |
|---|---|---|---|
| `ProcessorSurvivesCorrect` | `CapacityAssumption` | `TypeInv`, `ConcurrencyInv`, `Served`, `SurvivesInv`: a failed task in `active_tasks` has been counted; `done_tasks` has a value, or the processor is in its first run, before anybody else has moved | `for task in done_tasks` would read an unbound local; that this cannot happen in the first run needs all that the first run has created: a task for every sample taken |
| `SampleAccountingCorrect` | `MaxRequiredSamples > 1` or `CapacityAssumption` | `TypeInv`, `Served`, `AccountingInv`: the property; no queue lists a sample twice; the processor is empty-handed but between taking and submitting; the end signal is the last in the message queue, or the one before when the consumer was still putting | removing the head of a queue removes the sample only if it is not listed again; a full queue drops its oldest, which must be a sample and not the signal; for a queue of one sample `FlowInv`, see below |
| `AllDeliveredCorrect` | `CapacityAssumption`, no partial rollout, `MaxFailures = 0` | the above and `DeliveredInv`, that is `NoneCancelled` (`cancel_queue` is empty and the servers are never paused) and `EndInv`: main signals when processor, tasks, `result_queue` and consumer are through; the end signal is the last in the message queue, and taken from it leaves it empty | the wait for the processor, `result_queue.join()` and the trainer's last read are steps of three processes; each has to find what the one before left |
| `OnPolicyCorrect` | `StalenessZero`, `CapacityAssumption` | `FlowInv`, that is `TypeInv`, `ConcurrencyInv`, `Served`, `SurvivesInv`, `AccountingInv`, `LastInv`, `CallsInv`, `PolicyInv`, `SignalInv`; and `VersionInv`, `BegunInv` | see below |
| `FixedRolloutNumberCorrect`, `PartialHasNoEffectCorrect` | the same and `MaxFailures = 0` | `EmptyInv`: the above without the versions, and `LockInv`, `EndInv`, `HaltInv` | see below |

`CapacityAssumption` (`PendingCapacity > MaxConcurrentSamples`) holds of the code with
fewer than eight servers or at most 127 required samples: `pending_queue` holds 128
samples, and `max_concurrent_samples` is 16 for each server but not more than
`max_required_samples`. Beyond, the theorem is false (section 3, the bounds).
The message queue of one sample is the hard case of `SampleAccounting`: a sample put
after the end signal would push the signal out, and be counted as dropped though none
is. `pending_queue` then always satisfies `CapacityAssumption`, and one sample required
means staleness 0, so the balance explained below applies. If the processor finished,
main has waited for the consumer (`SignalInv`). If it died, a failed sample and the one
still put are two that the trainer lacks, where the balance leaves one
(`SignalIsSafe`).
`AllDelivered` is stated for whole samples: with partial rollout the run
`fully_async_interrupted` shows what is lost.

The last three are about `staleness_threshold = 0`, which makes `MaxRequiredSamples`
exactly what one version consumes (`StalenessZero`). Their core is `PolicyInv`, a
balance that holds until the end signal: samples received and `staleness_samples`
together are the samples taken and the trainer's progress towards its next
synchronisation. As `staleness_samples` never exceeds `MaxRequiredSamples`, at least
as many samples have been received as were taken when that progress is complete; the
ones received are among the ones taken, so they are all of them (`AllReceived`).
Nothing is in the rollouter, in the queue or lost, and the processor cannot take
more. That the trainer's counter is complete whenever it synchronises, and that
`update_param_version` then counts 0, takes one lemma for each kind of step. From
this:

- `OnPolicy`: a sample somewhere on its way either has not begun or was begun by the
  version the trainer is at (`BegunInv`). A new version comes only when nothing is on
  its way, and between the broadcast and `update_param_version` no task can start
  because there is none.
- `FixedRolloutNumber`: before the end signal by `AllReceived`, after it by `EndInv`.
- `PartialHasNoEffect`: a request is interrupted only while the servers are paused, so
  no task may be live then. `HaltInv` follows the pause from `pause` to the second half
  of `resume`. The danger is the monitor, which tests the limit before it asks for the
  lock and lifts the pause after (the run `fully_async_monitor_race` shows it doing
  harm with another threshold). Here it asks only when no `pause` is at the lock, the
  lock serves in turn, so it has gone when `pause` gets in (`WatchInv`); afterwards
  the limit is reached, and then the monitor is told to keep away.

`MaxFailures = 0` is needed in the last two: after a failed request the processor
dies, main signals the end while tasks run, and the last synchronisation finds them.

The other proof modules but the last are about the specification of one part each,
without fairness, and assume the `ASSUME` of its module.

| theorems | inductive invariant | why it has to be stronger |
|---|---|---|
| `PartialTypeCorrect` | `PartialTypes`: the types, and a call its server has taken is in the table | the entry of a call is read and updated by request id |
| `PausedServerServesNobodyCorrect`, `IdleDuringUpdateCorrect`, `FinishedStaysCorrect` | `SyncInv`: types, the first property, `Quiet` | no call is under way for a sample that waits or is done; no sample runs while caches are reset, and from `cancel()` to `resume()` every server is paused, so that what starts in between is taken by none; a call is only under way for an unfinished response, else a late answer could be spliced to a finished one |
| `ResponseIsContinuationCorrect` | `ContinuationInv`: `SyncInv`; the rollouter's version is behind that of the weights only from the load to its update (`Labels`); every output is a run of tokens with its labels, every entry and answer of a running sample a run that begins where its output ends, of the present weights, which are those of the call's label or one newer | the splice joins two runs; that the second is of one version needs that when weights change under a running sample its calls have produced nothing, and that only a cut makes the log probabilities longer |
| `TrackedIsCompleteCorrect` | `CheckpointInv`: the tracked step holds one model of its own length; the present step is ahead of the tracked one until it is tracked; what this save has written holds the weights; each manager's paths increase and end with the tracked step until it saves the present one | rotation removes the oldest paths of one manager at a time; that the tracked one is not among them needs the order of the paths in every manager |
| `EachBatchOnceCorrect`, `EndsOnLastStepCorrect` | `BatchInv`: the weights have seen increasing batches, none beyond the position of the loader; position and number of updates differ by the restarts and by the batch in generation at most, in memory and in the checkpoint the tracker names; what the present save has written of the actor are the weights, and of the data the position | a crash may fall between the writes of weights, data and tracker, and the next start takes whatever the tracker names |
| `RecoveryTypeCorrect` | `RecoveryTypes`: the types, a step within what the crashes allow, and `RestartInv`: a job that waits to be resumed has crashed once more than it has been resumed | a finished job that is started again makes a step more, and its number must still be one of `Steps`; that `resumed` is bounded needs that the first checkpoint is made by the job itself |
| `InstancesReleasedCorrect` | `CallInv`: a call holds an instance exactly from its creation to its release, and outside the processing of tools every call has come to its end | the property says nothing while calls run |
| `ToolsLeaveRoomCorrect`, `MaskMarksGeneratedCorrect` | `TextInv`: behind the first prompt, mask, log probabilities and origins agree position by position; without a user a generating episode has room in the response, and it is rejected only with a user or an over-long first prompt | `run()` cuts three sequences apart from each other |
| `LoadSpreadCorrect` | the property and the type of `weight` | it is inductive |
| `CountIsBurdenCorrect` | the property, the types, and: a request has a worker once one is selected, only an attempt that is not the last sleeps | the burden of a worker is the cardinality of a set that one request joins or leaves |
| `StickySessionCorrect` | `StickyInv`: the cache lists different requests, in the order in which they called last; the server it remembers is that of the last call; who is forgotten has been followed by `max_cache_size` others | the property speaks of calls long ago, the LRU order is all that is left of them |
| `PermitsConservedCorrect` | the property, the types, `CallsMatch`: the calls of `acquire` are those of different executions that still wait, a release that of an execution that has ended | else one execution could be counted twice |
| `ChoiceTypeCorrect`, `RouterTypeCorrect`, `LimitTypeCorrect`, `AgentTypeCorrect` | the invariants above of the same module, with the bounds and counters they do not mention | the remembered server of a request is one of the servers only if what is remembered is what the cache lists |
| `RewardIsOwnCorrect`, `RewardTypeCorrect` | `RewardInv`: the scores so far are those of the items to be scored, in their order; what is stored by index, or is still computed, is the item's own | scores are assigned to items by position, after micro-batches of any size, distinctness by index, in the order in which its tasks complete; that positions and indices fit (`ScoredInOrder`) is a fact about the rank of an item among the scored ones |
| `AdvantagesKeptUnlessEarlyCorrect`, `EveryRowKeptCorrect`, `DataflowTypeCorrect` | `StepInv`: the states of the heap partition the rows into equally large sets; the order names every row; each column lists the rows its values were computed from, in the order of that moment | the differencing method merges the lists of two states, largest with smallest; `fit()` reorders, and columns join by position: each step is right only if the order so far names every row once |
| `RanksBalancedCorrect` | `BalanceInv`: `StepInv`; every state of the heap lists its sums from the largest to the smallest and spreads no wider than `WidestChunk`; once the order is made, so do the ranks | merging pairs the heaviest set of one state with the lightest of the other, so that the spread of the result is at most the larger of the two: this needs both in decreasing order, after every merge |

`RanksBalancedCorrect` rests on facts about the sum over a set, which is a recursive
function on subsets: that it exists (`SumsExist`), does not depend on the order in which
`CHOOSE` takes the members, and is additive (`SumOfRest`, `SumOfUnion`). The library's
induction theorems take an operator and cannot be used; each of these facts is proved
by the least counterexample instead (`LeastNumber`, `SmallestSet`), from the fact that
the natural numbers are well-founded.

**TrainingStackProofs** is about `StackSpec`, the specification that the run
`training_stack` checks. `StackImplementsParts`: it implements the specification of
each part, with the fairness of those that have one, as a step of the stack is a step
of the part that runs and a stutter of the others. `StackTypeCorrect` and
`StackCorrect` follow: all invariants and step properties of the run, for all values of
the constants.

Only model-checked is liveness (`Termination`, `SyncCompletes`,
`ShutdownReleasesGetters`, `CancelDrains`, `EveryoneRuns`): liveness under fairness is
out of the prover's reach. Every invariant and step property of a passing run is a
theorem; `SampleAccounting` and the theorems for staleness 0 have the hypotheses named
above.

`ModeReward!skyreward_indices`, `StepDataflow!Reorder` and `ServerChoice!UsedNow` are
written by rank and by position rather than with a selection that takes a test as an
argument, because the provers cannot reason about such arguments.

## 5. What is left

Modelled and proved in the order of the plan: the pipeline; then the servers below
it, checkpointing and the one-step-off pipeline, the rate limiter, router and
server choice, the tool agent, the dataflow of a step, the mode-conditioned reward.
What could follow, most important first:

1. padding and chunking of `DataProto`, and the dispatch to worker groups, against
   reference definitions over bounded inputs;
2. the Megatron checkpoint manager, `resume_mode = resume_path`, and remote copies.

### Not modelled

- Losses, advantage estimators other than the grouping of GRPO, kernels, reward
  metrics, embedding models: floating-point tensor arithmetic with no state of its
  own to go wrong in an order nobody tested.
- Workers, engines and inference back ends (`fsdp_workers.py`,
  `megatron_workers.py`, `sglang_rollout.py`, the resharding): their control flow is
  a sequence of collective calls whose effect lies in libraries outside the
  repository; modelling them from their call sites would assume what is to be
  checked.
- The remaining recipes (`transfer_queue`, `spin`, `sppo`, `entropy`, `r1` and
  others): variations of the synchronous `fit()`, whose loop, checkpoints and row
  order are modelled once.
- The token bucket of the MCP clients: its state is real time.
- The single-turn agent loop, validation, data sets, scoring of answers against
  references: sequential, covered by the repository's tests.
- Examples, documentation, launch scripts, configuration files.

Most of the repository's lines are in the first three groups, so the modules cover
a small share of its lines, and most of those that coordinate concurrent parts.
`PROJECT.json` lists every component with its status, and every hazard with the
properties that would catch it.
