-------------------------- MODULE PartialRollout --------------------------
(***************************************************************************)
(* Partial rollout below the rollouter: the vLLM servers that can be       *)
(* interrupted (vLLMHttpServerForPartial), the agent loop that splices an  *)
(* interrupted response to its continuation (PartialSingleTurnAgentLoop),  *)
(* and pause / resume of the rollouter as the caller of cancel(),          *)
(* reset_prefix_cache() and resume() on every server.                      *)
(*                                                                         *)
(* One sample asks for the responses Rollouts.  Each attempt at a response *)
(* is a remote call with a fresh request id: it may reach its server at    *)
(* any later time, before, during or after a synchronisation.  A token is  *)
(* the position in its context at which it was generated and the weight    *)
(* version that generated it; a log probability is named by its token.     *)
(*                                                                         *)
(* The server is an asyncio actor.  A step here ends where a coroutine     *)
(* suspends.  Only reset_prefix_cache suspends with self.lock in its hands.*)
(***************************************************************************)
EXTENDS Integers, Sequences, SequencesExt

CONSTANTS
    Servers,          \* the servers of all replicas
    Rollouts,         \* rollout.n: the responses of the sample
    PromptLengths,    \* the lengths the prompt may have
    PromptLength,     \* rollout.prompt_length
    ResponseLength,   \* rollout.response_length
    MaxSyncs,         \* bound: weight synchronisations
    MaxAttempts,      \* bound: attempts at one response
    MaxFailures       \* bound: generations that raise

ASSUME PartialRolloutAssumption ==
    /\ PromptLength \in Nat /\ ResponseLength \in Nat \ {0}
    /\ PromptLengths \subseteq 0..PromptLength
    /\ MaxSyncs \in Nat /\ MaxAttempts \in Nat /\ MaxFailures \in Nat

VARIABLES
    paused,       \* paused[s]
    resetting,    \* the servers whose lock is held by reset_prefix_cache
    entry,        \* cancel_event and req_output: the requests a server knows
    call,         \* call[r]: the attempt at response r in progress
    output,       \* output[r]: the FullyAsyncAgentLoopOutput of response r
    prompt,       \* the length of the prompt
    sample,       \* the task of the rollouter that generates the sample
    phase, todo,  \* where the synchronisation is, and the servers not yet called
    rollout_paused,         \* the rollouter's own paused
    current_param_version,  \* the version with which it labels what it starts
    version,                \* the version of the weights in the engines
    engine_failures

serverVars == <<paused, resetting, entry, engine_failures>>
callerVars == <<phase, todo, rollout_paused, current_param_version, version>>
partialVars == <<serverVars, call, output, prompt, sample, callerVars>>

max_model_len == PromptLength + ResponseLength
NoOutput == [response |-> <<>>, log_probs |-> <<>>, is_cancel |-> TRUE, start |-> -1, end |-> -1]
Request(r) == <<r, call[r].attempt>>
EntryOf(r) == entry[Request(r)]
\* The prompt_ids of the next attempt: the prompt and what has been generated.
Context(r) == prompt + Len(output[r].response)
InFlight(r) == call[r].at # "idle"

PartialInit ==
    /\ paused = [s \in Servers |-> FALSE] /\ resetting = {}
    /\ entry = [q \in {} |-> q]
    /\ call = [r \in Rollouts |-> [at |-> "idle", attempt |-> 0, param_version |-> 0,
                                   is_cancel |-> FALSE, answer |-> <<>>]]
    /\ output = [r \in Rollouts |-> NoOutput]
    /\ prompt \in PromptLengths
    /\ sample = "waiting"
    /\ phase = "serving" /\ todo = {} /\ rollout_paused = FALSE
    /\ current_param_version = 0 /\ version = 0 /\ engine_failures = 0

-----------------------------------------------------------------------------
(* The agent loop.  A response that was not interrupted is returned as it   *)
(* is; for every other one a request is sent.                               *)

\* Mutant of Attempts: every response is generated again.
AllAttempts == Rollouts
Attempts == {r \in Rollouts : output[r].is_cancel}

\* pause() and resume() have the rollouter's lock while they wait for servers and tasks.
LockFree == phase \notin {"cancelling", "draining", "resetting", "resuming"}
AttemptsLeft == \A r \in Attempts : call[r].attempt < MaxAttempts

\* The processor starts, or starts again, the task of the sample, whether or not the
\* servers are paused: it asks for the rollouter's paused alone.  The task labels
\* the sample with the version the rollouter knows.
StartSample ==
    /\ sample = "waiting" /\ ~rollout_paused /\ LockFree /\ AttemptsLeft
    /\ sample' = "running"
    /\ call' = [r \in Rollouts |->
                  IF r \in Attempts
                  THEN [call[r] EXCEPT !.at = "sent", !.attempt = @ + 1,
                                       !.param_version = current_param_version]
                  ELSE call[r]]
    /\ UNCHANGED <<serverVars, output, prompt, callerVars>>

\* Mutant of Kept: what a continuation generates replaces what there was.
NothingKept(o) == NoOutput
Kept(o) == o

Cut(response) == SubSeq(response, 1, IF Len(response) < ResponseLength THEN Len(response) ELSE ResponseLength)

Spliced(r) ==
    LET old == Kept(output[r]) IN
    [response |-> Cut(old.response \o call[r].answer),
     log_probs |-> old.log_probs \o call[r].answer,
     is_cancel |-> call[r].is_cancel,
     start |-> IF old.start = -1 THEN call[r].param_version ELSE old.start,
     end |-> call[r].param_version]

\* The answer reaches the agent loop.  Nobody takes it when the gather over the
\* responses of the sample has already raised.
Splice(r) ==
    /\ call[r].at = "answered"
    /\ output' = IF sample = "running" THEN [output EXCEPT ![r] = Spliced(r)] ELSE output
    /\ call' = [call EXCEPT ![r].at = "idle", ![r].answer = <<>>]
    /\ UNCHANGED <<serverVars, prompt, sample, callerVars>>

\* All responses of the sample are back: it is put in the result queue, or in
\* the cancel queue when one of them was interrupted.
EndSample ==
    /\ sample = "running" /\ \A r \in Rollouts : ~InFlight(r)
    /\ sample' = IF \E r \in Rollouts : output[r].is_cancel THEN "waiting" ELSE "done"
    /\ UNCHANGED <<serverVars, call, output, prompt, callerVars>>

-----------------------------------------------------------------------------
(* generate_for_partial on a server.                                        *)

\* Mutant of RefusedBy: a paused server takes requests.
NeverRefusedBy(s) == FALSE
RefusedBy(s) == paused[s]

\* The call gets the lock of the server it was sent to: it is turned away, or
\* registered, and the engine's request is created.
Arrive(r, s) ==
    /\ call[r].at = "sent" /\ s \notin resetting
    /\ IF RefusedBy(s)
       THEN /\ call' = [call EXCEPT ![r].at = "answered", ![r].is_cancel = TRUE]
            /\ UNCHANGED entry
       ELSE /\ entry' = [q \in DOMAIN entry \union {Request(r)} |->
                           IF q = Request(r)
                           THEN [server |-> s, event |-> FALSE, output |-> <<>>, finished |-> FALSE]
                           ELSE entry[q]]
            /\ call' = [call EXCEPT ![r].at = "waiting"]
    /\ UNCHANGED <<paused, resetting, engine_failures, output, prompt, sample, callerVars>>

max_tokens(r) == max_model_len - Context(r)

\* The engine hands out the next token, perhaps the last one.
Generate(r) ==
    /\ call[r].at = "waiting" /\ ~EntryOf(r).finished
    /\ Len(EntryOf(r).output) < max_tokens(r)
    /\ LET token == [pos |-> Context(r) + Len(EntryOf(r).output) + 1, version |-> version]
       IN  \E last \in BOOLEAN :
             /\ (Len(EntryOf(r).output) + 1 = max_tokens(r)) => last
             /\ entry' = [entry EXCEPT ![Request(r)].output = Append(@, token),
                                       ![Request(r)].finished = last]
    /\ UNCHANGED <<paused, resetting, engine_failures, call, output, prompt, sample, callerVars>>

\* The generation raises, and with it the call and the task of the sample; the
\* entry stays, and so do the sample's other requests.
GenerationFails(r) ==
    /\ engine_failures < MaxFailures
    /\ call[r].at = "waiting" /\ ~EntryOf(r).finished
    /\ engine_failures' = engine_failures + 1
    /\ call' = [call EXCEPT ![r].at = "idle"]
    /\ sample' = "failed"
    /\ UNCHANGED <<paused, resetting, entry, output, prompt, callerVars>>

Interrupted(r) == ~EntryOf(r).finished

\* asyncio.wait returns: the generation has finished or the event is set.  What
\* is still pending is cancelled and writes no more.
Woken(r) ==
    /\ call[r].at = "waiting"
    /\ EntryOf(r).finished \/ EntryOf(r).event
    /\ call' = [call EXCEPT ![r].at = "woken", ![r].is_cancel = Interrupted(r)]
    /\ UNCHANGED <<serverVars, output, prompt, sample, callerVars>>

WithoutEntry(r) == [q \in DOMAIN entry \ {Request(r)} |-> entry[q]]

\* The second `async with self.lock`.  A request with no output yet returns
\* before its entries are removed.
Answer(r) ==
    /\ call[r].at = "woken" /\ EntryOf(r).server \notin resetting
    /\ IF EntryOf(r).output = <<>>
       THEN /\ call' = [call EXCEPT ![r].at = "answered", ![r].is_cancel = TRUE]
            /\ UNCHANGED entry
       ELSE /\ call' = [call EXCEPT ![r].at = "answered", ![r].answer = EntryOf(r).output]
            /\ entry' = WithoutEntry(r)
    /\ UNCHANGED <<paused, resetting, engine_failures, output, prompt, sample, callerVars>>

-----------------------------------------------------------------------------
(* sync_weights: pause(), new weights, update_param_version() and resume(). *)
(* Each server is called and answers on its own; the phases of pause() and  *)
(* resume() end with the last answer.                                       *)

\* One more server has answered in the present phase.
ServerDone(s, next) ==
    IF todo = {s} THEN phase' = next /\ todo' = {}
                  ELSE phase' = phase /\ todo' = todo \ {s}

StartPause ==
    /\ phase = "serving" /\ version < MaxSyncs
    /\ rollout_paused' = TRUE
    /\ phase' = "cancelling" /\ todo' = Servers
    /\ UNCHANGED <<serverVars, call, output, prompt, sample, current_param_version, version>>

\* Mutant of EventsSet: cancel() sets no event.
NoEventSet(s) == entry
EventsSet(s) == [q \in DOMAIN entry |-> [entry[q] EXCEPT !.event = @ \/ entry[q].server = s]]

OnlyPhase == UNCHANGED <<rollout_paused, current_param_version, version>>

cancel(s) ==
    /\ phase = "cancelling" /\ s \in todo
    /\ paused' = [paused EXCEPT ![s] = TRUE]
    /\ entry' = EventsSet(s)
    /\ ServerDone(s, "draining") /\ OnlyPhase
    /\ UNCHANGED <<resetting, engine_failures, call, output, prompt, sample>>

\* Mutant of Drained: the running tasks are not waited for.
NotDrained == TRUE
\* gather(*active_tasks, return_exceptions=True)
Drained == sample # "running"

StartReset ==
    /\ phase = "draining" /\ Drained
    /\ phase' = "resetting" /\ todo' = Servers /\ resetting' = Servers
    /\ OnlyPhase /\ UNCHANGED <<paused, entry, engine_failures, call, output, prompt, sample>>

\* With the last server pause() returns and releases the rollouter's lock.
reset_prefix_cache(s) ==
    /\ phase = "resetting" /\ s \in todo
    /\ resetting' = resetting \ {s}
    /\ ServerDone(s, "updating") /\ OnlyPhase
    /\ UNCHANGED <<paused, entry, engine_failures, call, output, prompt, sample>>

\* The monitor has seen monitor_loop_trigger before pause() reset it, and gets the
\* lock when pause() releases it, before update_param_version() asks for it.
MonitorResumes ==
    /\ phase \in {"updating", "loaded"} /\ rollout_paused
    /\ rollout_paused' = FALSE
    /\ UNCHANGED <<serverVars, call, output, prompt, sample, phase, todo, current_param_version, version>>

UpdateWeights ==
    /\ phase = "updating"
    /\ version' = version + 1
    /\ phase' = "loaded"
    /\ UNCHANGED <<serverVars, call, output, prompt, sample, todo, rollout_paused, current_param_version>>

update_param_version ==
    /\ phase = "loaded"
    /\ current_param_version' = version
    /\ phase' = "updated"
    /\ UNCHANGED <<serverVars, call, output, prompt, sample, todo, rollout_paused, version>>

StartResume ==
    /\ phase = "updated"
    /\ rollout_paused' = FALSE
    /\ phase' = "resuming" /\ todo' = Servers
    /\ UNCHANGED <<serverVars, call, output, prompt, sample, current_param_version, version>>

resume(s) ==
    /\ phase = "resuming" /\ s \in todo
    /\ paused' = [paused EXCEPT ![s] = FALSE]
    /\ ServerDone(s, "serving") /\ OnlyPhase
    /\ UNCHANGED <<resetting, entry, engine_failures, call, output, prompt, sample>>

Over ==
    /\ phase = "serving" /\ version = MaxSyncs
    /\ sample \in {"done", "failed"} \/ (sample = "waiting" /\ ~AttemptsLeft)
    /\ UNCHANGED partialVars

PartialStep ==
    \/ StartSample \/ EndSample
    \/ StartPause \/ StartReset \/ MonitorResumes \/ UpdateWeights \/ update_param_version \/ StartResume
    \/ \E r \in Rollouts : \/ Splice(r) \/ Generate(r) \/ GenerationFails(r)
                           \/ Woken(r) \/ Answer(r)
    \/ \E r \in Rollouts, s \in Servers : Arrive(r, s)
    \/ \E s \in Servers : cancel(s) \/ reset_prefix_cache(s) \/ resume(s)

PartialNext == PartialStep \/ Over

\* What the event loops of the servers and of the agent loop do for a call, other
\* than to generate for it, and what the rollouter does to pause.
Serving == \E r \in Rollouts : \/ Woken(r) \/ Answer(r) \/ Splice(r)
                              \/ \E s \in Servers : Arrive(r, s)
Pausing == EndSample \/ StartReset \/ \E s \in Servers : cancel(s)

\* Event loops and remote calls get on, in whatever order; an engine need not
\* produce another token, and nobody has to synchronise.
PartialFairness == WF_partialVars(Serving) /\ WF_partialVars(Pausing)

PartialSpec == PartialInit /\ [][PartialNext]_partialVars
FairPartialSpec == PartialSpec /\ PartialFairness

-----------------------------------------------------------------------------

OutputTokens == [pos : 1..max_model_len, version : 0..MaxSyncs]
Versions == -1..MaxSyncs

PartialTypeOK ==
    /\ paused \in [Servers -> BOOLEAN] /\ resetting \subseteq Servers
    /\ DOMAIN entry \subseteq Rollouts \X Nat
    /\ \A q \in DOMAIN entry : entry[q] \in [server : Servers, event : BOOLEAN,
                                             output : Seq(OutputTokens), finished : BOOLEAN]
    /\ call \in [Rollouts -> [at : {"idle", "sent", "waiting", "woken", "answered"}, attempt : Nat,
                              param_version : 0..MaxSyncs, is_cancel : BOOLEAN, answer : Seq(OutputTokens)]]
    /\ output \in [Rollouts -> [response : Seq(OutputTokens), log_probs : Seq(OutputTokens), is_cancel : BOOLEAN,
                                start : Versions, end : Versions]]
    /\ prompt \in PromptLengths
    /\ sample \in {"waiting", "running", "done", "failed"}
    /\ phase \in {"serving", "cancelling", "draining", "resetting", "updating", "loaded", "updated", "resuming"}
    /\ todo \subseteq Servers /\ rollout_paused \in BOOLEAN
    /\ current_param_version \in 0..MaxSyncs
    /\ version \in 0..MaxSyncs /\ engine_failures \in 0..MaxFailures

\* A request that a paused server still knows has its event set, however late it
\* arrived: no interruption is missed between cancel() and the next resume().
PausedServerServesNobody ==
    \A q \in DOMAIN entry : paused[entry[q].server] => entry[q].event

\* Prefix caches are reset and weights loaded while the engines generate for nobody,
\* although the monitor may have let the sample start again: what is sent meanwhile
\* waits, or has been turned away.  A request that failed is the exception: the task
\* of its sample ends without waiting for its siblings.
IdleDuringUpdate ==
    phase \in {"resetting", "updating"} /\ sample # "failed" =>
        \A r \in Rollouts : call[r].at \in {"idle", "sent", "answered"}

\* However often it was interrupted, a response is one run of tokens, each generated
\* in the context of those before it, by weights that never get older; its log
\* probabilities are those of the same tokens, whatever is left over behind them.
\* A token is never of weights older than the versions the response is labelled with,
\* and newer by one at most: a task that starts between the load of new weights and
\* update_param_version() takes the old label.
ResponseIsContinuation ==
    \A r \in Rollouts :
        LET o == output[r] IN
        /\ IsPrefix(o.response, o.log_probs)
        /\ \A i \in 1..Len(o.response) :
             /\ o.response[i].pos = prompt + i
             /\ o.response[i].version \in o.start..(o.end + 1)
             /\ i > 1 => o.response[i - 1].version <= o.response[i].version

\* A finished response is final: no synchronisation and no further attempt at
\* the other responses of its sample touches it.
FinishedStays ==
    [][\A r \in Rollouts : ~output[r].is_cancel => output'[r] = output[r]]_partialVars

\* pause() gets to the end of the running sample although no engine produces
\* another token.
CancelDrains == (phase = "cancelling") ~> (phase = "resetting")
=============================================================================
