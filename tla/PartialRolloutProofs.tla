------------------------ MODULE PartialRolloutProofs ------------------------
(***************************************************************************)
(* Partial rollout for any number of servers, responses, interruptions and *)
(* failures: types, the safety of the synchronisation, the finished        *)
(* responses, and the continuation of the interrupted ones.                *)
(***************************************************************************)
EXTENDS PartialRollout, SequenceTheorems, TLAPS

USE PartialRolloutAssumption

EntryRecords == [server : Servers, event : BOOLEAN, output : Seq(OutputTokens), finished : BOOLEAN]
CallRecords == [at : {"idle", "sent", "waiting", "woken", "answered"}, attempt : Nat,
                param_version : 0..MaxSyncs, is_cancel : BOOLEAN, answer : Seq(OutputTokens)]
OutputRecords == [response : Seq(OutputTokens), log_probs : Seq(OutputTokens), is_cancel : BOOLEAN,
                  start : Versions, end : Versions]

EntryType ==
    /\ DOMAIN entry \subseteq Rollouts \X Nat
    /\ \A q \in DOMAIN entry : entry[q] \in EntryRecords
CallType == call \in [Rollouts -> CallRecords]
OutputType == output \in [Rollouts -> OutputRecords]
\* The rest, and that a synchronisation under way is one that may be.
StateType ==
    /\ paused \in [Servers -> BOOLEAN] /\ resetting \subseteq Servers
    /\ prompt \in PromptLengths
    /\ sample \in {"waiting", "running", "done", "failed"}
    /\ phase \in {"serving", "cancelling", "draining", "resetting", "updating", "loaded", "updated", "resuming"}
    /\ todo \subseteq Servers /\ rollout_paused \in BOOLEAN
    /\ current_param_version \in 0..MaxSyncs
    /\ version \in 0..MaxSyncs /\ engine_failures \in 0..MaxFailures
    /\ phase \in {"cancelling", "draining", "resetting", "updating"} => version < MaxSyncs
\* A call that its server has taken is in the table.
Registered == \A r \in Rollouts : call[r].at \in {"waiting", "woken"} => Request(r) \in DOMAIN entry

PartialTypes == EntryType /\ CallType /\ OutputType /\ StateType /\ Registered

LEMMA PartialTypesInit == PartialInit => PartialTypes
<1> SUFFICES ASSUME PartialInit PROVE PartialTypes
  OBVIOUS
<1>1. EntryType
  BY DEF PartialInit, EntryType
<1>2. CallType /\ Registered
  BY DEF PartialInit, CallType, CallRecords, Registered
<1>3. OutputType
  BY DEF PartialInit, OutputType, OutputRecords, NoOutput, Versions
<1>4. StateType
  <2>1. /\ paused \in [Servers -> BOOLEAN] /\ resetting \subseteq Servers
        /\ prompt \in PromptLengths /\ sample = "waiting"
        /\ phase = "serving" /\ todo \subseteq Servers /\ rollout_paused \in BOOLEAN
    BY DEF PartialInit
  <2>2. /\ current_param_version \in 0..MaxSyncs /\ version \in 0..MaxSyncs
        /\ engine_failures \in 0..MaxFailures
    BY DEF PartialInit
  <2> QED  BY <2>1, <2>2 DEF StateType
<1> QED  BY <1>1, <1>2, <1>3, <1>4 DEF PartialTypes

LEMMA CutType ==
    ASSUME NEW T, NEW whole \in Seq(T)
    PROVE  Cut(whole) \in Seq(T)
<1>1. Len(whole) \in Nat
  OBVIOUS
<1>2. CASE Len(whole) < ResponseLength
  <2>1. SubSeq(whole, 1, Len(whole)) \in Seq(T)
    BY SubSeqProperties
  <2> QED  BY <2>1, <1>2 DEF Cut
<1>3. CASE ~(Len(whole) < ResponseLength)
  <2>1. SubSeq(whole, 1, ResponseLength) \in Seq(T)
    BY <1>1, <1>3, SubSeqProperties
  <2> QED  BY <2>1, <1>3 DEF Cut
<1> QED  BY <1>2, <1>3

\* What is left to show of an action that changes one call, once its new record is
\* known: the others, and their places in the table.
LEMMA CallChanged ==
    ASSUME PartialTypes, NEW r \in Rollouts, NEW c \in CallRecords, call' = [call EXCEPT ![r] = c],
           c.attempt = call[r].attempt,
           DOMAIN entry \ {Request(r)} \subseteq DOMAIN entry',
           c.at \in {"waiting", "woken"} => Request(r) \in DOMAIN entry'
    PROVE  /\ CallType' /\ Registered'
           /\ call'[r] = c /\ Request(r)' = Request(r)
           /\ \A t \in Rollouts : t # r => call'[t] = call[t] /\ Request(t)' = Request(t)
<1>1. call'[r] = c /\ \A t \in Rollouts : t # r => call'[t] = call[t]
  BY DEF PartialTypes, CallType
<1>2. CallType'
  BY DEF PartialTypes, CallType
<1>3. Request(r)' = Request(r)
  BY <1>1 DEF Request
<1>4. \A t \in Rollouts : t # r => Request(t)' = Request(t) /\ Request(t) # Request(r)
  BY <1>1 DEF Request
<1>5. Registered'
  <2> SUFFICES ASSUME NEW t \in Rollouts, call'[t].at \in {"waiting", "woken"}
               PROVE  Request(t)' \in DOMAIN entry'
    BY DEF Registered
  <2>1. CASE t = r
    BY <2>1, <1>1, <1>3
  <2>2. CASE t # r
    BY <2>2, <1>1, <1>4 DEF PartialTypes, Registered
  <2> QED  BY <2>1, <2>2
<1> QED  BY <1>1, <1>2, <1>3, <1>4, <1>5

\* Every response of the sample is asked for, or kept.
LEMMA PartialTypesStart == PartialTypes /\ StartSample => PartialTypes'
<1> SUFFICES ASSUME PartialTypes, StartSample PROVE PartialTypes'
  OBVIOUS
<1> DEFINE sent(r) == [call[r] EXCEPT !.at = "sent", !.attempt = @ + 1, !.param_version = current_param_version]
<1>1. ASSUME NEW r \in Rollouts
      PROVE  sent(r) \in CallRecords /\ sent(r).at = "sent" /\ call[r] \in CallRecords
  <2>1. call[r] \in CallRecords /\ current_param_version \in 0..MaxSyncs
    BY DEF PartialTypes, CallType, StateType
  <2>2. call[r].attempt + 1 \in Nat
    BY <2>1 DEF CallRecords
  <2>3. sent(r) = [call[r] EXCEPT !.at = "sent", !.attempt = call[r].attempt + 1,
                                  !.param_version = current_param_version]
    OBVIOUS
  <2>4. sent(r) \in CallRecords
    BY <2>1, <2>2, <2>3 DEF CallRecords
  <2>5. sent(r).at = "sent"
    BY <2>1, <2>3 DEF CallRecords
  <2> QED  BY <2>1, <2>4, <2>5
<1>2. call' = [r \in Rollouts |-> IF r \in Attempts THEN sent(r) ELSE call[r]] /\ entry' = entry
  BY DEF StartSample, serverVars
<1> HIDE DEF sent
<1>3. CallType'
  BY <1>1, <1>2 DEF CallType
<1>4. StateType' /\ EntryType' /\ OutputType'
  BY DEF PartialTypes, StateType, EntryType, OutputType, StartSample, serverVars, callerVars
<1>5. Registered'
  <2> SUFFICES ASSUME NEW r \in Rollouts, call'[r].at \in {"waiting", "woken"}
               PROVE  Request(r)' \in DOMAIN entry'
    BY DEF Registered
  <2>1. call'[r] = call[r]
    BY <1>1, <1>2
  <2> QED  BY <2>1, <1>2 DEF PartialTypes, Registered, Request
<1> QED  BY <1>3, <1>4, <1>5 DEF PartialTypes

LEMMA PartialTypesSplice == ASSUME PartialTypes, NEW r \in Rollouts, Splice(r) PROVE PartialTypes'
<1> DEFINE c == [call[r] EXCEPT !.at = "idle", !.answer = <<>>]
<1>a. call[r] \in CallRecords /\ <<>> \in Seq(OutputTokens)
  BY DEF PartialTypes, CallType
<1>b. c \in CallRecords /\ c.at = "idle" /\ c.attempt = call[r].attempt
  BY <1>a DEF CallRecords
<1>c. call' = [call EXCEPT ![r] = c] /\ entry' = entry
  BY DEF Splice, serverVars
<1> HIDE DEF c
<1>1. CallType' /\ Registered'
  BY <1>b, <1>c, CallChanged
<1>2. Spliced(r) \in OutputRecords
  <2> DEFINE old == output[r]
  <2>1. old \in OutputRecords /\ call[r] \in CallRecords
    BY DEF PartialTypes, OutputType, CallType
  <2>2. old.response \o call[r].answer \in Seq(OutputTokens) /\ old.log_probs \o call[r].answer \in Seq(OutputTokens)
    BY <2>1 DEF OutputRecords, CallRecords
  <2>3. Cut(old.response \o call[r].answer) \in Seq(OutputTokens)
    BY <2>2, CutType
  <2>4. /\ call[r].is_cancel \in BOOLEAN /\ call[r].param_version \in Versions
        /\ old.start \in Versions
    BY <2>1 DEF OutputRecords, CallRecords, Versions
  <2> QED  BY <2>2, <2>3, <2>4 DEF Spliced, Kept, OutputRecords
<1>3. OutputType'
  BY <1>2 DEF PartialTypes, OutputType, Splice
<1>4. StateType' /\ EntryType'
  BY DEF PartialTypes, StateType, EntryType, Splice, serverVars, callerVars
<1> QED  BY <1>1, <1>3, <1>4 DEF PartialTypes

LEMMA PartialTypesArrive == ASSUME PartialTypes, NEW r \in Rollouts, NEW s \in Servers, Arrive(r, s) PROVE PartialTypes'
<1>1. call[r] \in CallRecords /\ Request(r) \in Rollouts \X Nat
  <2>1. call[r] \in CallRecords
    BY DEF PartialTypes, CallType
  <2> QED  BY <2>1 DEF CallRecords, Request
<1>2. StateType' /\ OutputType'
  BY DEF PartialTypes, StateType, OutputType, Arrive, callerVars
<1>3. CASE RefusedBy(s)
  <2> DEFINE c == [call[r] EXCEPT !.at = "answered", !.is_cancel = TRUE]
  <2>1. c \in CallRecords /\ c.at = "answered" /\ c.attempt = call[r].attempt
    BY <1>1 DEF CallRecords
  <2>2. call' = [call EXCEPT ![r] = c] /\ entry' = entry
    BY <1>3 DEF Arrive
  <2> HIDE DEF c
  <2>3. CallType' /\ Registered'
    BY <2>1, <2>2, CallChanged
  <2> QED  BY <1>2, <2>2, <2>3 DEF PartialTypes, EntryType
<1>4. CASE ~RefusedBy(s)
  <2> DEFINE c == [call[r] EXCEPT !.at = "waiting"]
             new == [server |-> s, event |-> FALSE, output |-> <<>>, finished |-> FALSE]
  <2>1. c \in CallRecords /\ c.attempt = call[r].attempt
    BY <1>1 DEF CallRecords
  <2>2. call' = [call EXCEPT ![r] = c]
    BY <1>4 DEF Arrive
  <2>3. new \in EntryRecords
    BY DEF EntryRecords
  <2>4. entry' = [q \in DOMAIN entry \union {Request(r)} |-> IF q = Request(r) THEN new ELSE entry[q]]
    BY <1>4 DEF Arrive
  <2> HIDE DEF c, new
  <2>5. CallType' /\ Registered'
    BY <2>1, <2>2, <2>4, CallChanged
  <2>6. EntryType'
    BY <1>1, <2>3, <2>4 DEF PartialTypes, EntryType
  <2> QED  BY <1>2, <2>5, <2>6 DEF PartialTypes
<1> QED  BY <1>3, <1>4

\* The next token's place is within the context of the model.
LEMMA PartialTypesGenerate == ASSUME PartialTypes, NEW r \in Rollouts, Generate(r) PROVE PartialTypes'
<1> DEFINE token == [pos |-> Context(r) + Len(EntryOf(r).output) + 1, version |-> version]
<1>1. Request(r) \in DOMAIN entry /\ EntryOf(r) \in EntryRecords
  BY DEF Generate, PartialTypes, Registered, EntryType, EntryOf
<1>2. token \in OutputTokens
  <2>1. Context(r) \in Nat /\ Len(EntryOf(r).output) \in Nat
    BY <1>1 DEF Context, PartialTypes, StateType, OutputType, OutputRecords, EntryRecords
  <2>2. Len(EntryOf(r).output) < max_model_len - Context(r) /\ max_model_len \in Nat
    BY DEF Generate, max_tokens, max_model_len
  <2> QED  BY <2>1, <2>2 DEF OutputTokens, PartialTypes, StateType
<1>3. PICK last \in BOOLEAN :
        entry' = [entry EXCEPT ![Request(r)].output = Append(@, token), ![Request(r)].finished = last]
  BY DEF Generate
<1> HIDE DEF token
<1>4. EntryType'
  <2> DEFINE e == [EntryOf(r) EXCEPT !.output = Append(@, token), !.finished = last]
  <2>1. e \in EntryRecords
    <3>1. Append(EntryOf(r).output, token) \in Seq(OutputTokens)
      BY <1>1, <1>2 DEF EntryRecords
    <3>2. e = [EntryOf(r) EXCEPT !.output = Append(EntryOf(r).output, token), !.finished = last]
      OBVIOUS
    <3> QED  BY <1>1, <3>1, <3>2 DEF EntryRecords
  <2>2. entry' = [entry EXCEPT ![Request(r)] = e]
    BY <1>3 DEF EntryOf
  <2> HIDE DEF e
  <2> QED  BY <2>1, <2>2, <1>1 DEF PartialTypes, EntryType
<1>5. DOMAIN entry' = DOMAIN entry
  BY <1>3
<1>6. CallType' /\ OutputType' /\ StateType' /\ Registered'
  BY <1>5 DEF PartialTypes, CallType, OutputType, StateType, Registered, Request, Generate, callerVars
<1> QED  BY <1>4, <1>6 DEF PartialTypes

LEMMA PartialTypesFails == ASSUME PartialTypes, NEW r \in Rollouts, GenerationFails(r) PROVE PartialTypes'
<1> DEFINE c == [call[r] EXCEPT !.at = "idle"]
<1>1. call[r] \in CallRecords
  BY DEF PartialTypes, CallType
<1>2. c \in CallRecords /\ c.at = "idle" /\ c.attempt = call[r].attempt
  BY <1>1 DEF CallRecords
<1>3. call' = [call EXCEPT ![r] = c] /\ entry' = entry
  BY DEF GenerationFails
<1> HIDE DEF c
<1>4. CallType' /\ Registered'
  BY <1>2, <1>3, CallChanged
<1>5. EntryType' /\ OutputType' /\ StateType'
  BY DEF PartialTypes, EntryType, OutputType, StateType, GenerationFails, callerVars
<1> QED  BY <1>4, <1>5 DEF PartialTypes

LEMMA PartialTypesWoken == ASSUME PartialTypes, NEW r \in Rollouts, Woken(r) PROVE PartialTypes'
<1> DEFINE c == [call[r] EXCEPT !.at = "woken", !.is_cancel = Interrupted(r)]
<1>1. call[r] \in CallRecords /\ Request(r) \in DOMAIN entry
  BY DEF Woken, PartialTypes, CallType, Registered
<1>2. Interrupted(r) \in BOOLEAN
  BY DEF Interrupted
<1>3. c \in CallRecords /\ c.attempt = call[r].attempt
  BY <1>1, <1>2 DEF CallRecords
<1>4. call' = [call EXCEPT ![r] = c] /\ entry' = entry
  BY DEF Woken, serverVars
<1> HIDE DEF c
<1>5. CallType' /\ Registered'
  BY <1>1, <1>3, <1>4, CallChanged
<1> QED  BY <1>5 DEF PartialTypes, EntryType, OutputType, StateType, Woken, serverVars, callerVars

LEMMA PartialTypesAnswer == ASSUME PartialTypes, NEW r \in Rollouts, Answer(r) PROVE PartialTypes'
<1>1. /\ call[r] \in CallRecords
      /\ EntryOf(r) \in EntryRecords /\ Request(r) \in DOMAIN entry
  BY DEF Answer, PartialTypes, CallType, Registered, EntryType, EntryOf
<1>2. OutputType' /\ StateType'
  BY DEF PartialTypes, OutputType, StateType, Answer, callerVars
<1>3. CASE EntryOf(r).output = <<>>
  <2> DEFINE c == [call[r] EXCEPT !.at = "answered", !.is_cancel = TRUE]
  <2>1. c \in CallRecords /\ c.at = "answered" /\ c.attempt = call[r].attempt
    BY <1>1 DEF CallRecords
  <2>2. call' = [call EXCEPT ![r] = c] /\ entry' = entry
    BY <1>3 DEF Answer
  <2> HIDE DEF c
  <2>3. CallType' /\ Registered'
    BY <2>1, <2>2, CallChanged
  <2> QED  BY <1>2, <2>2, <2>3 DEF PartialTypes, EntryType
<1>4. CASE EntryOf(r).output # <<>>
  <2> DEFINE c == [call[r] EXCEPT !.at = "answered", !.answer = EntryOf(r).output]
  <2>1. EntryOf(r).output \in Seq(OutputTokens)
    BY <1>1 DEF EntryRecords
  <2>2. c \in CallRecords /\ c.at = "answered" /\ c.attempt = call[r].attempt
    BY <1>1, <2>1 DEF CallRecords
  <2>3. call' = [call EXCEPT ![r] = c]
    BY <1>4 DEF Answer
  <2>4. entry' = [q \in DOMAIN entry \ {Request(r)} |-> entry[q]]
    BY <1>4 DEF Answer, WithoutEntry
  <2> HIDE DEF c
  <2>5. CallType' /\ Registered'
    BY <2>2, <2>3, <2>4, CallChanged
  <2>6. EntryType'
    BY <2>4 DEF PartialTypes, EntryType
  <2> QED  BY <1>2, <2>5, <2>6 DEF PartialTypes
<1> QED  BY <1>3, <1>4

\* The rollouter's side: no call, no response and no entry is touched, but for the
\* events that cancel() sets.
LEMMA PartialTypesCancel == ASSUME PartialTypes, NEW s \in Servers, cancel(s) PROVE PartialTypes'
<1>1. entry' = [q \in DOMAIN entry |-> [entry[q] EXCEPT !.event = @ \/ entry[q].server = s]]
  BY DEF cancel, EventsSet
<1>2. ASSUME NEW q \in DOMAIN entry
      PROVE  [entry[q] EXCEPT !.event = @ \/ entry[q].server = s] \in EntryRecords
  <2>1. entry[q] \in EntryRecords /\ (entry[q].event \/ entry[q].server = s) \in BOOLEAN
    BY DEF PartialTypes, EntryType
  <2> QED  BY <2>1 DEF EntryRecords
<1>3. EntryType'
  BY <1>1, <1>2 DEF PartialTypes, EntryType
<1>4. CallType' /\ OutputType' /\ Registered'
  BY <1>1 DEF PartialTypes, CallType, OutputType, Registered, Request, cancel
<1>5. StateType'
  BY DEF PartialTypes, StateType, cancel, ServerDone, OnlyPhase
<1> QED  BY <1>3, <1>4, <1>5 DEF PartialTypes

LEMMA PartialTypesCaller ==
    ASSUME PartialTypes,
           \/ EndSample \/ StartPause \/ StartReset
           \/ MonitorResumes \/ UpdateWeights \/ update_param_version \/ StartResume
           \/ \E s \in Servers : reset_prefix_cache(s) \/ resume(s)
    PROVE  PartialTypes'
<1>1. UNCHANGED <<entry, call, output>>
  BY DEF EndSample, StartPause, StartReset, MonitorResumes, UpdateWeights, update_param_version, StartResume,
         reset_prefix_cache, resume, serverVars
<1>2. EntryType' /\ CallType' /\ OutputType' /\ Registered'
  BY <1>1 DEF PartialTypes, EntryType, CallType, OutputType, Registered, Request
<1>3. StateType'
  <2>1. CASE EndSample
    BY <2>1 DEF PartialTypes, StateType, EndSample, serverVars, callerVars
  <2>2. CASE StartPause
    BY <2>2 DEF PartialTypes, StateType, StartPause, serverVars
  <2>3. CASE StartReset
    BY <2>3 DEF PartialTypes, StateType, StartReset, OnlyPhase
  <2>4. CASE UpdateWeights
    BY <2>4 DEF PartialTypes, StateType, UpdateWeights, serverVars
  <2>5. ASSUME NEW s \in Servers, reset_prefix_cache(s) PROVE StateType'
    BY <2>5 DEF PartialTypes, StateType, reset_prefix_cache, ServerDone, OnlyPhase
  <2>6. ASSUME NEW s \in Servers, resume(s) PROVE StateType'
    BY <2>6 DEF PartialTypes, StateType, resume, ServerDone, OnlyPhase
  <2>7. CASE MonitorResumes
    BY <2>7 DEF PartialTypes, StateType, MonitorResumes, serverVars
  <2>8. CASE update_param_version
    BY <2>8 DEF PartialTypes, StateType, update_param_version, serverVars
  <2>9. CASE StartResume
    BY <2>9 DEF PartialTypes, StateType, StartResume, serverVars
  <2> QED  BY <2>1, <2>2, <2>3, <2>4, <2>5, <2>6, <2>7, <2>8, <2>9
<1> QED  BY <1>2, <1>3 DEF PartialTypes

LEMMA PartialTypesNext == PartialTypes /\ [PartialNext]_partialVars => PartialTypes'
<1> SUFFICES ASSUME PartialTypes, [PartialNext]_partialVars PROVE PartialTypes'
  OBVIOUS
<1>1. CASE UNCHANGED partialVars
  BY <1>1 DEF partialVars, serverVars, callerVars, PartialTypes, EntryType, CallType, OutputType, StateType,
              Registered, Request
<1>2. CASE PartialStep
  BY <1>2, PartialTypesStart, PartialTypesSplice, PartialTypesArrive, PartialTypesGenerate, PartialTypesFails, PartialTypesWoken, PartialTypesAnswer,
     PartialTypesCancel, PartialTypesCaller DEF PartialStep
<1> QED  BY <1>1, <1>2 DEF PartialNext, Over

\* Every variable of the servers, the agent loop and their caller keeps its type;
\* no token is generated beyond the context of the model.
THEOREM PartialTypeCorrect == PartialSpec => []PartialTypeOK
<1>1. PartialTypes => PartialTypeOK
  BY DEF PartialTypes, EntryType, EntryRecords, CallType, CallRecords, OutputType, OutputRecords, StateType,
         PartialTypeOK
<1> QED  BY PartialTypesInit, PartialTypesNext, <1>1, PTL DEF PartialSpec

-----------------------------------------------------------------------------
(* Synchronisation and finished responses.                                  *)

\* No call is under way for a sample that waits or is done, and one is only ever
\* under way for a response that is not finished.  No sample runs while the prefix
\* caches are reset.  From the end of cancel() to resume() every server is paused; so
\* no server takes a call that is sent once the caches are reset.
Quiet ==
    /\ sample \in {"waiting", "done"} => \A r \in Rollouts : ~InFlight(r)
    /\ \A r \in Rollouts : InFlight(r) => output[r].is_cancel
    /\ phase = "resetting" => sample # "running"
    /\ phase = "cancelling" => \A s \in Servers \ todo : paused[s]
    /\ phase \in {"draining", "resetting", "updating", "loaded", "updated"} => \A s \in Servers : paused[s]
    /\ phase \in {"resetting", "updating"} /\ sample # "failed" =>
           \A r \in Rollouts : call[r].at \notin {"waiting", "woken"}

SyncInv == PartialTypes /\ PausedServerServesNobody /\ Quiet

LEMMA SyncInit == PartialInit => SyncInv
<1> SUFFICES ASSUME PartialInit PROVE SyncInv
  OBVIOUS
<1>1. PausedServerServesNobody
  BY DEF PartialInit, PausedServerServesNobody
<1>2. Quiet
  BY DEF PartialInit, Quiet, InFlight
<1> QED  BY <1>1, <1>2, PartialTypesInit DEF SyncInv

\* A request is registered by a server that is not paused.
LEMMA PausedArrive ==
    ASSUME SyncInv, NEW r \in Rollouts, NEW s \in Servers, Arrive(r, s)
    PROVE  PausedServerServesNobody'
<1>1. CASE RefusedBy(s)
  BY <1>1 DEF Arrive, SyncInv, PausedServerServesNobody
<1>2. CASE ~RefusedBy(s)
  <2> DEFINE new == [server |-> s, event |-> FALSE, output |-> <<>>, finished |-> FALSE]
  <2>1. entry' = [q \in DOMAIN entry \union {Request(r)} |-> IF q = Request(r) THEN new ELSE entry[q]]
    BY <1>2 DEF Arrive
  <2>2. paused' = paused /\ ~paused[s] /\ new.server = s
    BY <1>2 DEF Arrive, RefusedBy
  <2> HIDE DEF new
  <2> QED  BY <2>1, <2>2 DEF SyncInv, PausedServerServesNobody
<1> QED  BY <1>1, <1>2

\* Generating a token leaves the entry's server and event alone.
LEMMA PausedGenerate ==
    ASSUME SyncInv, NEW r \in Rollouts, Generate(r)
    PROVE  PausedServerServesNobody'
<1>1. Request(r) \in DOMAIN entry /\ entry[Request(r)] \in EntryRecords
  BY DEF Generate, SyncInv, PartialTypes, Registered, EntryType
<1>2. PICK x, last :
        entry' = [entry EXCEPT ![Request(r)] = [entry[Request(r)] EXCEPT !.output = x, !.finished = last]]
  BY DEF Generate
<1> DEFINE e == [entry[Request(r)] EXCEPT !.output = x, !.finished = last]
<1>3. e.server = entry[Request(r)].server /\ e.event = entry[Request(r)].event
  BY <1>1 DEF EntryRecords
<1>4. entry' = [entry EXCEPT ![Request(r)] = e] /\ paused' = paused
  BY <1>2 DEF Generate
<1> HIDE DEF e
<1> QED  BY <1>1, <1>3, <1>4 DEF SyncInv, PausedServerServesNobody

\* cancel() sets the events of the server it pauses, and resets none.
LEMMA PausedCancel ==
    ASSUME SyncInv, NEW s \in Servers, cancel(s)
    PROVE  PausedServerServesNobody'
<1>1. entry' = [q \in DOMAIN entry |-> [entry[q] EXCEPT !.event = @ \/ entry[q].server = s]]
  BY DEF cancel, EventsSet
<1>2. paused' = [paused EXCEPT ![s] = TRUE] /\ paused \in [Servers -> BOOLEAN]
  BY DEF cancel, SyncInv, PartialTypes, StateType
<1> SUFFICES ASSUME NEW q \in DOMAIN entry, paused'[entry'[q].server]
             PROVE  entry'[q].event
  BY <1>1 DEF PausedServerServesNobody
<1>3. entry[q] \in EntryRecords
  BY DEF SyncInv, PartialTypes, EntryType
<1>4. /\ entry'[q].server = entry[q].server
      /\ entry'[q].event = (entry[q].event \/ entry[q].server = s)
  BY <1>1, <1>3 DEF EntryRecords
<1>5. CASE entry[q].server = s
  BY <1>4, <1>5
<1>6. CASE entry[q].server # s
  <2>1. paused'[entry'[q].server] = paused[entry[q].server]
    BY <1>2, <1>3, <1>4, <1>6 DEF EntryRecords
  <2> QED  BY <2>1, <1>4 DEF SyncInv, PausedServerServesNobody
<1> QED  BY <1>5, <1>6

LEMMA PausedAnswer ==
    ASSUME SyncInv, NEW r \in Rollouts, Answer(r)
    PROVE  PausedServerServesNobody'
<1>1. paused' = paused /\ (entry' = entry \/ entry' = [q \in DOMAIN entry \ {Request(r)} |-> entry[q]])
  BY DEF Answer, WithoutEntry
<1> QED  BY <1>1 DEF SyncInv, PausedServerServesNobody

LEMMA PausedNext == SyncInv /\ [PartialNext]_partialVars => PausedServerServesNobody'
<1> SUFFICES ASSUME SyncInv, [PartialNext]_partialVars PROVE PausedServerServesNobody'
  OBVIOUS
<1> USE DEF SyncInv
<1>1. ASSUME UNCHANGED <<paused, entry>> PROVE PausedServerServesNobody'
  BY <1>1 DEF PausedServerServesNobody
<1>2. ASSUME NEW s \in Servers, resume(s) PROVE PausedServerServesNobody'
  <2>1. ASSUME NEW q \in DOMAIN entry, paused'[entry[q].server] PROVE paused[entry[q].server]
    <3>1. entry[q] \in EntryRecords /\ paused \in [Servers -> BOOLEAN]
      BY DEF PartialTypes, EntryType, StateType
    <3>2. entry[q].server \in Servers
      BY <3>1 DEF EntryRecords
    <3> QED  BY <1>2, <2>1, <3>1, <3>2 DEF resume
  <2> QED  BY <1>2, <2>1 DEF PausedServerServesNobody, resume
<1>3. CASE UNCHANGED partialVars
  BY <1>1, <1>3 DEF partialVars, serverVars
<1>4. CASE \/ StartSample \/ EndSample \/ StartPause \/ StartReset
            \/ MonitorResumes \/ UpdateWeights \/ update_param_version \/ StartResume
  BY <1>1, <1>4 DEF StartSample, EndSample, StartPause, StartReset, MonitorResumes, UpdateWeights,
                    update_param_version, StartResume, serverVars
<1>5. ASSUME NEW r \in Rollouts, Splice(r) \/ GenerationFails(r) \/ Woken(r)
      PROVE  PausedServerServesNobody'
  BY <1>1, <1>5 DEF Splice, GenerationFails, Woken, serverVars
<1>6. ASSUME NEW s \in Servers, reset_prefix_cache(s) PROVE PausedServerServesNobody'
  BY <1>1, <1>6 DEF reset_prefix_cache
<1> QED  BY <1>2, <1>3, <1>4, <1>5, <1>6, PausedArrive, PausedGenerate, PausedAnswer, PausedCancel
         DEF PartialNext, PartialStep, Over

\* Nothing of this depends on more of a call than where it is.
LEMMA QuietKept ==
    ASSUME SyncInv, \A r \in Rollouts : call'[r].at = call[r].at, UNCHANGED <<output, sample, phase, todo, paused>>
    PROVE  Quiet'
BY DEF SyncInv, Quiet, InFlight

\* A step of a server or of a call under way starts no other call, and a paused
\* server takes none.
LEMMA QuietCall ==
    ASSUME SyncInv, NEW r \in Rollouts,
           \/ \E s \in Servers : Arrive(r, s)
           \/ Generate(r) \/ GenerationFails(r) \/ Woken(r) \/ Answer(r)
    PROVE  Quiet'
<1>1. InFlight(r)
  BY DEF Arrive, Generate, GenerationFails, Woken, Answer, InFlight
<1>2. \A t \in Rollouts : t # r => call'[t] = call[t]
  BY DEF Arrive, Generate, GenerationFails, Woken, Answer, SyncInv, PartialTypes, CallType
<1>3. output' = output /\ phase' = phase /\ todo' = todo /\ paused' = paused /\ sample' \in {sample, "failed"}
  BY DEF Arrive, Generate, GenerationFails, Woken, Answer, callerVars, serverVars
<1>4. ASSUME phase \in {"resetting", "updating"}, call[r].at \notin {"waiting", "woken"}
      PROVE  call'[r].at \notin {"waiting", "woken"}
  <2>1. PICK s \in Servers : Arrive(r, s)
    BY <1>4 DEF Generate, GenerationFails, Woken, Answer
  <2>2. RefusedBy(s)
    BY <1>4 DEF RefusedBy, SyncInv, Quiet
  <2>3. call \in [Rollouts -> CallRecords] /\ call[r] \in CallRecords
    BY DEF SyncInv, PartialTypes, CallType
  <2>4. call'[r] = [call[r] EXCEPT !.at = "answered", !.is_cancel = TRUE]
    BY <2>1, <2>2, <2>3 DEF Arrive
  <2> QED  BY <2>3, <2>4 DEF CallRecords
<1>5. phase \in {"resetting", "updating"} /\ sample' # "failed" =>
        \A t \in Rollouts : call'[t].at \notin {"waiting", "woken"}
  BY <1>2, <1>3, <1>4 DEF SyncInv, Quiet
<1> QED  BY <1>1, <1>2, <1>3, <1>5 DEF SyncInv, Quiet, InFlight

\* Only unfinished responses are asked for.
LEMMA QuietStart == SyncInv /\ StartSample => Quiet'
<1> SUFFICES ASSUME SyncInv, StartSample PROVE Quiet'
  OBVIOUS
<1>1. /\ phase' = phase /\ todo' = todo /\ paused' = paused /\ sample' = "running" /\ output' = output
      /\ phase # "resetting"
      /\ \A r \in Rollouts : ~InFlight(r)
  BY DEF StartSample, LockFree, SyncInv, Quiet, callerVars, serverVars
<1>2. ASSUME NEW r \in Rollouts
      PROVE  \/ call'[r].at = "idle"
             \/ call'[r].at = "sent" /\ output[r].is_cancel
  <2>1. call[r] \in CallRecords /\ call[r].at = "idle"
    BY <1>1 DEF InFlight, SyncInv, PartialTypes, CallType
  <2>2. CASE r \in Attempts
    <3>1. \E n, v : call'[r] = [call[r] EXCEPT !.at = "sent", !.attempt = n, !.param_version = v]
      BY <2>2 DEF StartSample
    <3> QED  BY <3>1, <2>1, <2>2 DEF CallRecords, Attempts
  <2>3. CASE r \notin Attempts
    BY <2>1, <2>3 DEF StartSample
  <2> QED  BY <2>2, <2>3
<1> QED  BY <1>1, <1>2 DEF SyncInv, Quiet, InFlight

LEMMA QuietSplice == ASSUME SyncInv, NEW r \in Rollouts, Splice(r) PROVE Quiet'
<1>1. /\ call \in [Rollouts -> CallRecords] /\ output \in [Rollouts -> OutputRecords]
      /\ call[r] \in CallRecords /\ call[r].at = "answered"
  BY DEF SyncInv, PartialTypes, CallType, OutputType, Splice
<1>2. call'[r].at = "idle" /\ \A t \in Rollouts : t # r => call'[t] = call[t] /\ output'[t] = output[t]
  <2>1. call'[r] = [call[r] EXCEPT !.at = "idle", !.answer = <<>>]
    BY <1>1 DEF Splice
  <2> QED  BY <1>1, <2>1 DEF Splice, CallRecords
<1>3. UNCHANGED <<sample, phase, todo, paused>> /\ InFlight(r)
  BY <1>1 DEF Splice, InFlight, callerVars, serverVars
<1> QED  BY <1>2, <1>3 DEF SyncInv, Quiet, InFlight

LEMMA QuietCancel == ASSUME SyncInv, NEW s \in Servers, cancel(s) PROVE Quiet'
<1>1. /\ UNCHANGED <<call, output, sample>>
      /\ paused' = [paused EXCEPT ![s] = TRUE] /\ paused \in [Servers -> BOOLEAN]
      /\ \A t \in Servers \ todo : paused[t]
  BY DEF cancel, SyncInv, Quiet, PartialTypes, StateType
<1>2. \A t \in (Servers \ todo) \union {s} : paused'[t]
  BY <1>1
<1>3. \/ phase' = "draining" /\ todo = {s}
      \/ phase' = "cancelling" /\ todo' = todo \ {s}
  BY DEF cancel, ServerDone
<1> QED  BY <1>1, <1>2, <1>3 DEF SyncInv, Quiet, InFlight

LEMMA QuietCaller ==
    ASSUME SyncInv,
           \/ EndSample \/ StartPause \/ StartReset
           \/ MonitorResumes \/ UpdateWeights \/ update_param_version \/ StartResume
           \/ \E s \in Servers : reset_prefix_cache(s) \/ resume(s)
    PROVE  Quiet'
<1>1. call' = call /\ output' = output
  BY DEF EndSample, StartPause, StartReset, MonitorResumes, UpdateWeights, update_param_version, StartResume,
         reset_prefix_cache, resume, serverVars
<1>2. CASE EndSample
  BY <1>1, <1>2 DEF EndSample, SyncInv, Quiet, InFlight, callerVars, serverVars
<1>3. CASE StartPause
  BY <1>1, <1>3 DEF StartPause, SyncInv, Quiet, InFlight
<1>4. CASE StartReset
  BY <1>1, <1>4 DEF StartReset, Drained, SyncInv, Quiet, InFlight, PartialTypes, StateType
<1>5. ASSUME NEW s \in Servers, reset_prefix_cache(s) PROVE Quiet'
  <2>1. phase = "resetting" /\ phase' \in {"resetting", "updating"} /\ UNCHANGED <<sample, paused>>
    BY <1>5 DEF reset_prefix_cache, ServerDone
  <2> QED  BY <1>1, <2>1 DEF SyncInv, Quiet, InFlight
<1>6. ASSUME NEW s \in Servers, resume(s) PROVE Quiet'
  <2>1. phase' \in {"resuming", "serving"} /\ sample' = sample
    BY <1>6 DEF resume, ServerDone
  <2> QED  BY <1>1, <2>1 DEF SyncInv, Quiet, InFlight
<1>7. CASE MonitorResumes
  BY <1>7, QuietKept DEF MonitorResumes, serverVars
<1>8. CASE UpdateWeights \/ update_param_version \/ StartResume
  BY <1>1, <1>8 DEF UpdateWeights, update_param_version, StartResume, serverVars, SyncInv, Quiet, InFlight
<1> QED  BY <1>2, <1>3, <1>4, <1>5, <1>6, <1>7, <1>8

LEMMA SyncNext == SyncInv /\ [PartialNext]_partialVars => SyncInv'
<1> SUFFICES ASSUME SyncInv, [PartialNext]_partialVars PROVE SyncInv'
  OBVIOUS
<1>1. ASSUME UNCHANGED partialVars PROVE Quiet'
  BY <1>1 DEF partialVars, serverVars, callerVars, SyncInv, Quiet, InFlight
<1>2. ASSUME PartialStep PROVE Quiet'
  BY <1>2, QuietCall, QuietStart, QuietSplice, QuietCancel, QuietCaller DEF PartialStep
<1>3. Quiet'
  BY <1>1, <1>2 DEF PartialNext, Over
<1> QED  BY <1>3, PartialTypesNext, PausedNext DEF SyncInv

\* vLLMHttpServerForPartial: a request that a paused server knows, however late it
\* came, has its event set.
THEOREM PausedServerServesNobodyCorrect == PartialSpec => []PausedServerServesNobody
<1>1. SyncInv => PausedServerServesNobody  BY DEF SyncInv
<1> QED  BY SyncInit, SyncNext, <1>1, PTL DEF PartialSpec

\* pause() and cancel(): caches are reset and weights loaded while no server serves a
\* call, whatever the monitor starts meanwhile, unless a call has failed.
THEOREM IdleDuringUpdateCorrect == PartialSpec => []IdleDuringUpdate
<1>1. SyncInv => IdleDuringUpdate
  BY DEF SyncInv, PartialTypes, CallType, CallRecords, Quiet, IdleDuringUpdate
<1> QED  BY SyncInit, SyncNext, <1>1, PTL DEF PartialSpec

\* PartialSingleTurnAgentLoop.run: a finished response is returned as it is, through
\* every later attempt at its siblings.
THEOREM FinishedStaysCorrect == PartialSpec => FinishedStays
<1> DEFINE Kept1 == \A r \in Rollouts : ~output[r].is_cancel => output'[r] = output[r]
<1>1. SyncInv /\ [PartialNext]_partialVars => [Kept1]_partialVars
  <2> SUFFICES ASSUME SyncInv, PartialStep PROVE Kept1
    BY DEF PartialNext, Over
  <2>1. ASSUME NEW r \in Rollouts, Splice(r) PROVE Kept1
    <3>1. output[r].is_cancel /\ output \in [Rollouts -> OutputRecords]
      BY <2>1 DEF SyncInv, PartialTypes, OutputType, Quiet, InFlight, Splice
    <3> QED  BY <2>1, <3>1 DEF Splice
  <2>2. CASE output' = output
    BY <2>2
  <2> QED  BY <2>1, <2>2 DEF PartialStep, StartSample, EndSample, StartPause, StartReset, MonitorResumes,
              UpdateWeights, update_param_version, StartResume, Generate, GenerationFails, Woken, Answer,
              Arrive, cancel, reset_prefix_cache, resume
<1> QED  BY SyncInit, SyncNext, <1>1, PTL DEF PartialSpec, FinishedStays

-----------------------------------------------------------------------------
(* A continuation goes on where the response was interrupted.               *)

\* The version the rollouter knows falls behind that of the weights when they are
\* loaded, and only until it is told.
Labels == version = IF phase = "loaded" THEN current_param_version + 1 ELSE current_param_version

\* A response of a prompt of p tokens, once weights v are reached.  It is shorter
\* than its log probabilities only where it was cut.
GoodOutput(o, p, v) ==
    /\ Len(o.response) <= Len(o.log_probs)
    /\ \A i \in 1..Len(o.response) :
         /\ o.response[i] = o.log_probs[i]
         /\ o.response[i].pos = p + i
         /\ o.response[i].version \in o.start..(o.end + 1) /\ o.response[i].version <= v
         /\ i > 1 => o.response[i - 1].version <= o.response[i].version
    /\ Len(o.response) = ResponseLength \/ Len(o.response) = Len(o.log_probs)
    /\ o.start <= v /\ o.end <= v
    /\ o.start = -1 => o.response = <<>>

\* Tokens that weights v generate behind a context of p tokens.
Produced(tokens, p, v) == \A i \in 1..Len(tokens) : tokens[i].pos = p + i /\ tokens[i].version = v

\* While the sample runs the weights are those its calls are labelled with, or one
\* version newer; a call sent before they are loaded has been answered with nothing
\* when they are.
GoodCall(r) ==
    /\ call[r].at # "answered" => call[r].answer = <<>>
    /\ sample = "running" =>
         /\ InFlight(r) => version \in call[r].param_version..(call[r].param_version + 1)
         /\ InFlight(r) /\ phase = "updating" => call[r].param_version = version /\ call[r].answer = <<>>
         /\ call[r].at \in {"waiting", "woken"} => Produced(EntryOf(r).output, Context(r), version)
         /\ call[r].at = "answered" => Produced(call[r].answer, Context(r), version)

Continues == \A r \in Rollouts : GoodOutput(output[r], prompt, version) /\ GoodCall(r)

ContinuationInv == SyncInv /\ Labels /\ Continues

LEMMA CutKeeps ==
    ASSUME NEW T, NEW whole \in Seq(T)
    PROVE  /\ Len(Cut(whole)) = IF Len(whole) < ResponseLength THEN Len(whole) ELSE ResponseLength
           /\ \A i \in 1..Len(Cut(whole)) : Cut(whole)[i] = whole[i]
<1>1. Len(whole) \in Nat
  OBVIOUS
<1>2. CASE Len(whole) < ResponseLength
  <2>1. /\ Len(SubSeq(whole, 1, Len(whole))) = Len(whole)
        /\ \A i \in 1..Len(whole) : SubSeq(whole, 1, Len(whole))[i] = whole[i]
    BY <1>1
  <2> QED  BY <2>1, <1>2 DEF Cut
<1>3. CASE ~(Len(whole) < ResponseLength)
  <2>1. /\ Len(SubSeq(whole, 1, ResponseLength)) = ResponseLength
        /\ \A i \in 1..ResponseLength : SubSeq(whole, 1, ResponseLength)[i] = whole[i]
    BY <1>1, <1>3
  <2> QED  BY <2>1, <1>3 DEF Cut
<1> QED  BY <1>2, <1>3

\* Splicing what weights v generated to a response keeps it one run of tokens, if the
\* call is labelled with the version v or the one before.
LEMMA SpliceGood ==
    ASSUME NEW p \in Nat, NEW v \in 0..MaxSyncs, NEW l \in 0..MaxSyncs, v \in l..(l + 1), NEW old \in OutputRecords, NEW answer \in Seq(OutputTokens),
           GoodOutput(old, p, v), Produced(answer, p + Len(old.response), v),
           NEW new, new.response = Cut(old.response \o answer), new.log_probs = old.log_probs \o answer,
           new.start = IF old.start = -1 THEN l ELSE old.start, new.end = l
    PROVE  GoodOutput(new, p, v)
<1> DEFINE whole == old.response \o answer
           m == Len(old.response)
           k == Len(new.response)
<1>1. /\ old.response \in Seq(OutputTokens) /\ old.log_probs \in Seq(OutputTokens)
      /\ old.start \in Versions /\ old.end \in Versions
  BY DEF OutputRecords
<1>2. /\ m \in Nat /\ Len(answer) \in Nat /\ Len(old.log_probs) \in Nat
      /\ whole \in Seq(OutputTokens) /\ Len(whole) = m + Len(answer)
      /\ \A i \in 1..m : whole[i] = old.response[i]
      /\ \A i \in 1..Len(answer) : whole[m + i] = answer[i]
  BY <1>1
<1>3. /\ k = IF Len(whole) < ResponseLength THEN Len(whole) ELSE ResponseLength
      /\ \A i \in 1..k : new.response[i] = whole[i]
  <2>1. new.response = Cut(whole)
    OBVIOUS
  <2> HIDE DEF whole
  <2>2. /\ Len(Cut(whole)) = IF Len(whole) < ResponseLength THEN Len(whole) ELSE ResponseLength
        /\ \A i \in 1..Len(Cut(whole)) : Cut(whole)[i] = whole[i]
    BY <1>2, CutKeeps
  <2> QED  BY <2>1, <2>2
<1>0. k \in Nat /\ ResponseLength \in Nat /\ k <= Len(whole)
  <2> HIDE DEF whole, k, m
  <2> QED  BY <1>2, <1>3, PartialRolloutAssumption
<1>4. Len(new.log_probs) = Len(old.log_probs) + Len(answer)
  BY <1>1
<1>5. \A i \in 1..Len(old.log_probs) : new.log_probs[i] = old.log_probs[i]
  BY <1>1
<1>6. \A i \in 1..Len(answer) : new.log_probs[Len(old.log_probs) + i] = answer[i]
  BY <1>1
<1> HIDE DEF whole, m, k
<1>7. \A i \in 1..k : i <= m \/ (i - m \in 1..Len(answer) /\ whole[i] = answer[i - m])
  <2> TAKE i \in 1..k
  <2>1. CASE i > m
    <3>1. i - m \in 1..Len(answer)
      BY <2>1, <1>2, <1>3
    <3>2. whole[m + (i - m)] = answer[i - m] /\ m + (i - m) = i
      BY <3>1, <1>2
    <3> QED  BY <3>1, <3>2
  <2> QED  BY <2>1, <1>2
<1>8. m = ResponseLength \/ m = Len(old.log_probs)
  BY DEF GoodOutput, m
<1>9. Len(new.response) <= Len(new.log_probs)
  BY <1>2, <1>3, <1>4 DEF GoodOutput, m, k
<1>10. k = ResponseLength \/ k = Len(new.log_probs)
  <2>1. CASE Len(whole) < ResponseLength
    <3>1. k = Len(whole) /\ Len(whole) = m + Len(answer)
      BY <2>1, <1>2, <1>3
    <3>2. m < ResponseLength
      BY <3>1, <2>1, <1>2, <1>0
    <3> QED  BY <3>1, <3>2, <1>8, <1>4, <1>0
  <2>2. CASE ~(Len(whole) < ResponseLength)
    BY <2>2, <1>3
  <2> QED  BY <2>1, <2>2
<1>11. ASSUME NEW i \in 1..k
       PROVE  /\ new.response[i] = new.log_probs[i]
              /\ new.response[i].pos = p + i
              /\ i <= m => new.response[i] = old.response[i]
              /\ i > m => new.response[i].version = v
  <2>0. i \in Int
    BY <1>0
  <2>1. CASE i <= m
    <3>1. i \in 1..Len(old.response) /\ i \in 1..Len(old.log_probs)
      BY <2>1, <1>2, <1>0 DEF GoodOutput, m
    <3>2. new.response[i] = old.response[i] /\ new.log_probs[i] = old.log_probs[i]
      BY <2>1, <3>1, <1>2, <1>3, <1>5, <1>0 DEF m
    <3>3. old.response[i] = old.log_probs[i] /\ old.response[i].pos = p + i
      BY <3>1 DEF GoodOutput
    <3> QED  BY <2>1, <3>2, <3>3, <1>2, <1>0
  <2>2. CASE i > m
    <3>1. i - m \in 1..Len(answer) /\ new.response[i] = answer[i - m]
      <4>1. new.response[i] = whole[i]
        BY <1>3
      <4>2. ~(i <= m)
        BY <2>0, <2>2, <1>2
      <4> QED  BY <4>1, <4>2, <1>7
    <3>2. m = Len(old.log_probs)
      BY <2>2, <1>2, <1>3, <1>8, <1>0
    <3>3. new.log_probs[i] = answer[i - m]
      <4>1. new.log_probs[m + (i - m)] = answer[i - m] /\ m + (i - m) = i
        BY <3>1, <3>2, <1>2, <1>6, <1>0
      <4> QED  BY <4>1
    <3>4. answer[i - m].pos = (p + m) + (i - m) /\ answer[i - m].version = v
      BY <3>1 DEF Produced, m
    <3>5. new.response[i].pos = p + i
      BY <3>1, <3>4, <1>2, <1>0
    <3>6. ~(i <= m)
      BY <2>0, <2>2, <1>2
    <3> QED  BY <3>1, <3>3, <3>4, <3>5, <3>6
  <2>3. i <= m \/ i > m
    BY <2>0, <1>2
  <2> QED  BY <2>1, <2>2, <2>3
<1>12. ASSUME NEW i \in 1..k
       PROVE  /\ new.response[i].version \in new.start..(new.end + 1) /\ new.response[i].version <= v
              /\ i > 1 => new.response[i - 1].version <= new.response[i].version
  <2>1. /\ old.start \in Int /\ old.end \in Int /\ v \in Int /\ l \in Nat /\ l <= v /\ v <= l + 1
        /\ old.start <= v /\ old.end <= v
    BY <1>1 DEF Versions, GoodOutput
  <2>2. ASSUME NEW j \in 1..k, j <= m
        PROVE  /\ new.response[j].version \in old.start..(old.end + 1) /\ old.start # -1
               /\ new.response[j].version <= v
               /\ j > 1 => old.response[j - 1].version <= old.response[j].version
    <3>1. j \in 1..Len(old.response) /\ new.response[j] = old.response[j]
      BY <2>2, <1>2, <1>0, <1>11 DEF m
    <3>2. old.response # <<>>
      BY <3>1
    <3> QED  BY <3>1, <3>2 DEF GoodOutput
  <2>3. CASE i <= m
    <3>1. /\ new.response[i].version \in old.start..(old.end + 1) /\ new.response[i].version <= v
          /\ new.start = old.start /\ new.end = l
      BY <2>2, <2>3
    <3>2. new.response[i].version \in new.start..(new.end + 1)
      BY <2>1, <3>1
    <3>3. ASSUME i > 1 PROVE new.response[i - 1].version <= new.response[i].version
      <4>1. i - 1 \in 1..k /\ i - 1 <= m
        BY <2>3, <3>3, <1>2, <1>3, <1>0
      <4>2. new.response[i - 1] = old.response[i - 1] /\ new.response[i] = old.response[i]
        BY <4>1, <2>3, <1>11
      <4> QED  BY <4>2, <2>2, <2>3, <3>3
    <3> QED  BY <3>1, <3>2, <3>3
  <2>4. CASE i > m
    <3>1. new.response[i].version = v
      BY <2>4, <1>11
    <3>2. ASSUME i > 1 PROVE new.response[i - 1].version <= v
      <4>1. i - 1 \in 1..k
        BY <3>2, <1>2, <1>3, <1>0
      <4>2. CASE i - 1 <= m
        BY <4>1, <4>2, <2>2
      <4>3. CASE i - 1 > m
        BY <4>1, <4>3, <2>1, <1>11
      <4> QED  BY <4>1, <4>2, <4>3, <1>2, <1>0
    <3>3. v \in new.start..(new.end + 1)
      BY <2>1
    <3> QED  BY <3>1, <3>2, <3>3, <2>1
  <2> QED  BY <2>3, <2>4, <1>2, <1>0
<1>13. new.start <= v /\ new.end <= v /\ new.start # -1
  BY <1>1 DEF Versions, GoodOutput
<1> QED  BY <1>9, <1>10, <1>11, <1>12, <1>13 DEF GoodOutput, k

\* What is true of a response at weights v is true of it at later ones.
LEMMA OlderOutput ==
    ASSUME NEW o \in OutputRecords, NEW p, NEW v \in Int, NEW w \in Int, v <= w, GoodOutput(o, p, v)
    PROVE  GoodOutput(o, p, w)
<1>1. o.start \in Int /\ o.end \in Int /\ o.response \in Seq(OutputTokens)
  BY DEF OutputRecords, Versions
<1>2. \A i \in 1..Len(o.response) : o.response[i].version \in Int
  <2>1. \A i \in 1..Len(o.response) : o.response[i] \in OutputTokens
    BY <1>1
  <2> QED  BY <2>1 DEF OutputTokens
<1>3. \A i \in 1..Len(o.response) : o.response[i].version <= w
  BY <1>2 DEF GoodOutput
<1>4. o.start <= w /\ o.end <= w
  BY <1>1 DEF GoodOutput
<1> QED  BY <1>3, <1>4 DEF GoodOutput

\* Nothing happens to a response whose call, output and entry stay as they are,
\* unless its sample starts, the update or a load of weights while it runs.
LEMMA ResponseKept ==
    ASSUME ContinuationInv, PartialTypes', NEW t \in Rollouts,
           call'[t] = call[t], output'[t] = output[t], prompt' = prompt, version <= version',
           sample' = "running" =>
             sample = "running" /\ version' = version /\ (phase' = "updating" => phase = "updating"),
           call[t].at \in {"waiting", "woken"} => EntryOf(t)'.output = EntryOf(t).output
    PROVE  GoodOutput(output[t], prompt, version)' /\ GoodCall(t)'
<1>1. GoodOutput(output[t], prompt, version) /\ GoodCall(t)
  BY DEF ContinuationInv, Continues
<1>2. output[t] \in OutputRecords /\ version \in Int /\ version' \in Int
  BY DEF ContinuationInv, SyncInv, PartialTypes, OutputType, StateType
<1>3. GoodOutput(output[t], prompt, version')
  BY <1>1, <1>2, OlderOutput
<1>4. GoodOutput(output[t], prompt, version)'
  BY <1>3
<1>5. InFlight(t)' = InFlight(t) /\ Context(t)' = Context(t)
  BY DEF InFlight, Context
<1>6. GoodCall(t)'
  BY <1>1, <1>5 DEF GoodCall
<1> QED  BY <1>4, <1>6

\* So a step of one call leaves that call's own part to show.
LEMMA OneCall ==
    ASSUME ContinuationInv, PartialTypes', NEW r \in Rollouts,
           \A t \in Rollouts : t # r => call'[t] = call[t] /\ Request(t)' = Request(t),
           output' = output, prompt' = prompt, version' = version, phase' = phase,
           sample' \in {sample, "failed"},
           \A q \in DOMAIN entry : q # Request(r) => entry'[q].output = entry[q].output,
           GoodCall(r)'
    PROVE  Continues'
<1>1. ASSUME NEW t \in Rollouts PROVE GoodOutput(output[t], prompt, version)' /\ GoodCall(t)'
  <2>1. CASE t = r
    BY <2>1 DEF ContinuationInv, Continues
  <2>2. CASE t # r
    <3>1. call'[t] = call[t] /\ Request(t)' = Request(t) /\ Request(t) # Request(r)
      BY <2>2 DEF Request
    <3>2. call[t].at \in {"waiting", "woken"} => EntryOf(t)'.output = EntryOf(t).output
      BY <3>1 DEF EntryOf, ContinuationInv, SyncInv, PartialTypes, Registered
    <3>3. version <= version' /\ (sample' = "running" => sample = "running")
      BY DEF ContinuationInv, SyncInv, PartialTypes, StateType
    <3> QED  BY <3>1, <3>2, <3>3, ResponseKept
  <2> QED  BY <2>1, <2>2
<1> QED  BY <1>1 DEF Continues

LEMMA ContinuationInit == PartialInit => ContinuationInv
<1> SUFFICES ASSUME PartialInit, NEW r \in Rollouts
             PROVE  GoodOutput(output[r], prompt, version) /\ GoodCall(r)
  BY SyncInit DEF ContinuationInv, Continues, Labels, PartialInit
<1>1. output[r] = NoOutput /\ version = 0
  BY DEF PartialInit
<1>2. GoodOutput(NoOutput, prompt, 0)
  <2>1. NoOutput.response = <<>> /\ NoOutput.log_probs = <<>> /\ NoOutput.start = -1 /\ NoOutput.end = -1
    BY DEF NoOutput
  <2> QED  BY <2>1 DEF GoodOutput
<1>3. GoodCall(r)
  BY DEF PartialInit, GoodCall
<1> QED  BY <1>1, <1>2, <1>3

\* The sample takes the label the rollouter knows.
LEMMA ContinuesStart ==
    ASSUME ContinuationInv, PartialTypes', StartSample
    PROVE  Continues'
<1>0. /\ current_param_version \in Nat /\ version \in Nat
      /\ version \in current_param_version..(current_param_version + 1)
      /\ phase = "updating" => current_param_version = version
  BY DEF ContinuationInv, Labels, SyncInv, PartialTypes, StateType
<1>1. ASSUME NEW r \in Rollouts PROVE GoodOutput(output[r], prompt, version)' /\ GoodCall(r)'
  <2>1. /\ output' = output /\ prompt' = prompt /\ version' = version /\ phase' = phase
        /\ call[r].at = "idle" /\ call[r] \in CallRecords
    BY DEF StartSample, callerVars, ContinuationInv, SyncInv, Quiet, InFlight, PartialTypes, CallType
  <2>2. call[r].answer = <<>> /\ GoodOutput(output[r], prompt, version)
    BY <2>1 DEF ContinuationInv, Continues, GoodCall
  <2>3. \/ call'[r] = call[r]
        \/ call'[r].at = "sent" /\ call'[r].answer = <<>> /\ call'[r].param_version = current_param_version
    <3>1. \/ call'[r] = call[r]
          \/ \E n : call'[r] = [call[r] EXCEPT !.at = "sent", !.attempt = n,
                                               !.param_version = current_param_version]
      BY DEF StartSample
    <3> QED  BY <3>1, <2>1, <2>2 DEF CallRecords
  <2> QED  BY <1>0, <2>1, <2>2, <2>3 DEF GoodCall, InFlight
<1> QED  BY <1>1 DEF Continues

\* A new entry has no output yet; a call that is turned away has no answer.
LEMMA ContinuesArrive ==
    ASSUME ContinuationInv, PartialTypes', NEW r \in Rollouts, NEW s \in Servers, Arrive(r, s)
    PROVE  Continues'
<1>1. /\ call[r].at = "sent" /\ call[r] \in CallRecords /\ GoodCall(r)
      /\ UNCHANGED <<output, prompt, version, phase, sample>>
  BY DEF Arrive, callerVars, ContinuationInv, SyncInv, PartialTypes, CallType, Continues
<1>2. \A t \in Rollouts : t # r => call'[t] = call[t] /\ Request(t)' = Request(t)
  BY DEF Arrive, ContinuationInv, SyncInv, PartialTypes, CallType, Request
<1>3. \A q \in DOMAIN entry : q # Request(r) => entry'[q].output = entry[q].output
  BY DEF Arrive
<1>4. /\ call'[r].answer = <<>> /\ call'[r].param_version = call[r].param_version
      /\ call'[r].attempt = call[r].attempt
      /\ \/ call'[r].at = "answered"
         \/ call'[r].at = "waiting" /\ entry'[Request(r)].output = <<>>
  <2>1. call[r].answer = <<>>
    BY <1>1 DEF GoodCall
  <2>2. CASE RefusedBy(s)
    <3>1. call'[r] = [call[r] EXCEPT !.at = "answered", !.is_cancel = TRUE]
      BY <2>2 DEF Arrive, ContinuationInv, SyncInv, PartialTypes, CallType
    <3> QED  BY <3>1, <2>1, <1>1 DEF CallRecords
  <2>3. CASE ~RefusedBy(s)
    <3>1. call'[r] = [call[r] EXCEPT !.at = "waiting"]
      BY <2>3 DEF Arrive, ContinuationInv, SyncInv, PartialTypes, CallType
    <3>2. entry'[Request(r)] = [server |-> s, event |-> FALSE, output |-> <<>>, finished |-> FALSE]
      BY <2>3 DEF Arrive
    <3> QED  BY <3>1, <3>2, <2>1, <1>1 DEF CallRecords
  <2> QED  BY <2>2, <2>3
<1>5. GoodCall(r)'
  <2>1. Request(r)' = Request(r)
    BY <1>4 DEF Request
  <2>2. InFlight(r)
    BY <1>1 DEF InFlight
  <2> QED  BY <1>1, <1>4, <2>1, <2>2 DEF GoodCall, EntryOf, Produced
<1> QED  BY <1>1, <1>2, <1>3, <1>5, OneCall

\* The next token is generated in the context of those before it.
LEMMA ContinuesGenerate ==
    ASSUME ContinuationInv, PartialTypes', NEW r \in Rollouts, Generate(r)
    PROVE  Continues'
<1> DEFINE made == EntryOf(r).output
           token == [pos |-> Context(r) + Len(made) + 1, version |-> version]
<1>1. /\ call[r].at = "waiting" /\ GoodCall(r)
      /\ UNCHANGED <<call, output, prompt, version, phase, sample>>
  BY DEF Generate, callerVars, ContinuationInv, Continues
<1>2. Request(r) \in DOMAIN entry /\ EntryOf(r) \in EntryRecords /\ made \in Seq(OutputTokens)
  <2>1. Request(r) \in DOMAIN entry /\ EntryOf(r) \in EntryRecords
    BY <1>1 DEF ContinuationInv, SyncInv, PartialTypes, Registered, EntryType, EntryOf
  <2> QED  BY <2>1 DEF EntryRecords
<1>3. PICK last \in BOOLEAN :
        entry' = [entry EXCEPT ![Request(r)].output = Append(@, token), ![Request(r)].finished = last]
  BY DEF Generate
<1>4. \A q \in DOMAIN entry : q # Request(r) => entry'[q].output = entry[q].output
  BY <1>3
<1>5. EntryOf(r)'.output = Append(made, token)
  <2>1. entry'[Request(r)] = [EntryOf(r) EXCEPT !.output = Append(made, token), !.finished = last]
    BY <1>2, <1>3 DEF EntryOf
  <2>2. Request(r)' = Request(r)
    BY <1>1 DEF Request
  <2> QED  BY <2>1, <2>2, <1>2 DEF EntryOf, EntryRecords
<1>6. Context(r) \in Nat
  BY DEF Context, ContinuationInv, SyncInv, PartialTypes, StateType, OutputType, OutputRecords
<1>7. ASSUME Produced(made, Context(r), version)
      PROVE  Produced(Append(made, token), Context(r), version)
  <2>1. /\ Len(Append(made, token)) = Len(made) + 1 /\ Len(made) \in Nat
        /\ Append(made, token)[Len(made) + 1] = token
        /\ \A i \in 1..Len(made) : Append(made, token)[i] = made[i]
    BY <1>2
  <2>2. token.pos = Context(r) + (Len(made) + 1) /\ token.version = version
    BY <2>1, <1>6
  <2> HIDE DEF made, token
  <2>3. ASSUME NEW i \in 1..(Len(made) + 1) PROVE i \in 1..Len(made) \/ i = Len(made) + 1
    BY <2>1
  <2> QED  BY <1>7, <2>1, <2>2, <2>3 DEF Produced
<1>8. GoodCall(r)'
  <2>1. Context(r)' = Context(r) /\ InFlight(r)' = InFlight(r)
    BY <1>1 DEF Context, InFlight
  <2> HIDE DEF made, token
  <2> QED  BY <1>1, <1>5, <1>7, <2>1 DEF GoodCall, made
<1>9. \A t \in Rollouts : t # r => call'[t] = call[t] /\ Request(t)' = Request(t)
  BY <1>1 DEF Request
<1> QED  BY <1>1, <1>4, <1>8, <1>9, OneCall

LEMMA ContinuesFails ==
    ASSUME ContinuationInv, PartialTypes', NEW r \in Rollouts, GenerationFails(r)
    PROVE  Continues'
<1>1. /\ call[r].at = "waiting" /\ call[r] \in CallRecords /\ GoodCall(r)
      /\ UNCHANGED <<output, prompt, version, phase, entry>> /\ sample' = "failed"
  BY DEF GenerationFails, callerVars, ContinuationInv, SyncInv, PartialTypes, CallType, Continues
<1>2. \A t \in Rollouts : t # r => call'[t] = call[t] /\ Request(t)' = Request(t)
  BY DEF GenerationFails, ContinuationInv, SyncInv, PartialTypes, CallType, Request
<1>3. call'[r] = [call[r] EXCEPT !.at = "idle"]
  BY DEF GenerationFails, ContinuationInv, SyncInv, PartialTypes, CallType
<1>4. GoodCall(r)'
  BY <1>1, <1>3 DEF GoodCall, CallRecords
<1> QED  BY <1>1, <1>2, <1>4, OneCall

LEMMA ContinuesWoken ==
    ASSUME ContinuationInv, PartialTypes', NEW r \in Rollouts, Woken(r)
    PROVE  Continues'
<1>1. /\ call[r].at = "waiting" /\ call[r] \in CallRecords /\ GoodCall(r)
      /\ UNCHANGED <<output, prompt, version, phase, sample, entry>>
  BY DEF Woken, serverVars, callerVars, ContinuationInv, SyncInv, PartialTypes, CallType, Continues
<1>2. \A t \in Rollouts : t # r => call'[t] = call[t] /\ Request(t)' = Request(t)
  BY DEF Woken, ContinuationInv, SyncInv, PartialTypes, CallType, Request
<1>3. call'[r] = [call[r] EXCEPT !.at = "woken", !.is_cancel = Interrupted(r)]
  BY DEF Woken, ContinuationInv, SyncInv, PartialTypes, CallType
<1>4. /\ call'[r].at = "woken" /\ call'[r].answer = call[r].answer
      /\ call'[r].param_version = call[r].param_version /\ call'[r].attempt = call[r].attempt
  BY <1>1, <1>3 DEF CallRecords
<1>5. Request(r)' = Request(r) /\ Context(r)' = Context(r) /\ InFlight(r)
  BY <1>1, <1>4 DEF Request, Context, InFlight
<1>6. GoodCall(r)'
  BY <1>1, <1>4, <1>5 DEF GoodCall, EntryOf
<1> QED  BY <1>1, <1>2, <1>6, OneCall

\* The answer is what the entry held, or nothing.
LEMMA ContinuesAnswer ==
    ASSUME ContinuationInv, PartialTypes', NEW r \in Rollouts, Answer(r)
    PROVE  Continues'
<1>1. /\ call[r].at = "woken" /\ call[r] \in CallRecords /\ GoodCall(r)
      /\ UNCHANGED <<output, prompt, version, phase, sample>>
  BY DEF Answer, callerVars, ContinuationInv, SyncInv, PartialTypes, CallType, Continues
<1>2. \A t \in Rollouts : t # r => call'[t] = call[t] /\ Request(t)' = Request(t)
  BY DEF Answer, ContinuationInv, SyncInv, PartialTypes, CallType, Request
<1>3. \A q \in DOMAIN entry : q # Request(r) => entry'[q].output = entry[q].output
  BY DEF Answer, WithoutEntry
<1>4. /\ call'[r].at = "answered" /\ call'[r].answer = EntryOf(r).output
      /\ call'[r].param_version = call[r].param_version
  <2>1. CASE EntryOf(r).output = <<>>
    <3>1. call'[r] = [call[r] EXCEPT !.at = "answered", !.is_cancel = TRUE]
      BY <2>1 DEF Answer, ContinuationInv, SyncInv, PartialTypes, CallType
    <3> QED  BY <3>1, <2>1, <1>1 DEF CallRecords, GoodCall
  <2>2. CASE EntryOf(r).output # <<>>
    <3>1. call'[r] = [call[r] EXCEPT !.at = "answered", !.answer = EntryOf(r).output]
      BY <2>2 DEF Answer, ContinuationInv, SyncInv, PartialTypes, CallType
    <3> QED  BY <3>1, <1>1 DEF CallRecords
  <2> QED  BY <2>1, <2>2
<1>5. Context(r)' = Context(r) /\ InFlight(r)
  BY <1>1 DEF Context, InFlight
<1>6. GoodCall(r)'
  <2>1. sample = "running" => phase # "updating"
    BY <1>1 DEF ContinuationInv, SyncInv, Quiet
  <2> QED  BY <1>1, <1>4, <1>5, <2>1 DEF GoodCall
<1> QED  BY <1>1, <1>2, <1>3, <1>6, OneCall

LEMMA ContinuesSplice ==
    ASSUME ContinuationInv, PartialTypes', NEW r \in Rollouts, Splice(r)
    PROVE  Continues'
<1>1. /\ call[r].at = "answered" /\ call[r] \in CallRecords /\ output[r] \in OutputRecords
      /\ GoodCall(r) /\ GoodOutput(output[r], prompt, version)
      /\ UNCHANGED <<prompt, version, phase, sample, entry>>
  BY DEF Splice, serverVars, callerVars, ContinuationInv, SyncInv, PartialTypes, CallType, OutputType, Continues
<1>2. \A t \in Rollouts : t # r => /\ call'[t] = call[t] /\ Request(t)' = Request(t)
                                   /\ output'[t] = output[t]
  BY DEF Splice, ContinuationInv, SyncInv, PartialTypes, CallType, OutputType, Request
<1>3. GoodCall(r)'
  <2>1. call'[r] = [call[r] EXCEPT !.at = "idle", !.answer = <<>>]
    BY DEF Splice, ContinuationInv, SyncInv, PartialTypes, CallType
  <2>2. call'[r].at = "idle" /\ call'[r].answer = <<>>
    BY <2>1, <1>1 DEF CallRecords
  <2> QED  BY <2>2 DEF GoodCall, InFlight
<1>4. GoodOutput(output[r], prompt, version)'
  <2>1. CASE sample = "running"
    <3>1. output'[r] = Spliced(r)
      BY <2>1 DEF Splice, ContinuationInv, SyncInv, PartialTypes, OutputType
    <3> DEFINE label == call[r].param_version
    <3>2. /\ version \in label..(label + 1) /\ label \in 0..MaxSyncs
          /\ Produced(call[r].answer, Context(r), version)
      BY <2>1, <1>1 DEF GoodCall, InFlight, CallRecords
    <3>3. /\ prompt \in Nat /\ version \in 0..MaxSyncs /\ call[r].answer \in Seq(OutputTokens)
          /\ Context(r) = prompt + Len(output[r].response)
      <4>1. prompt \in PromptLengths /\ version \in 0..MaxSyncs
        BY DEF ContinuationInv, SyncInv, PartialTypes, StateType
      <4>2. call[r].answer \in Seq(OutputTokens)
        BY <1>1 DEF CallRecords
      <4> QED  BY <4>1, <4>2 DEF Context
    <3>4. /\ output'[r].response = Cut(output[r].response \o call[r].answer)
          /\ output'[r].log_probs = output[r].log_probs \o call[r].answer
          /\ output'[r].start = (IF output[r].start = -1 THEN label ELSE output[r].start)
          /\ output'[r].end = label
      <4> DEFINE longer == Cut(output[r].response \o call[r].answer)
                 more == output[r].log_probs \o call[r].answer
                 first == IF output[r].start = -1 THEN label ELSE output[r].start
      <4>1. Spliced(r) = [response |-> longer, log_probs |-> more, is_cancel |-> call[r].is_cancel,
                          start |-> first, end |-> label]
        BY Zenon DEF Spliced, Kept
      <4> HIDE DEF longer, more, first
      <4>2. /\ output'[r].response = longer /\ output'[r].log_probs = more
            /\ output'[r].start = first /\ output'[r].end = label
        BY <3>1, <4>1
      <4> QED  BY <4>2 DEF longer, more, first
    <3> HIDE DEF label
    <3>5. GoodOutput(output'[r], prompt, version)
      BY <1>1, <3>2, <3>3, <3>4, SpliceGood
    <3> QED  BY <3>5, <1>1
  <2>2. CASE sample # "running"
    BY <2>2, <1>1 DEF Splice
  <2> QED  BY <2>1, <2>2
<1>5. ASSUME NEW t \in Rollouts, t # r PROVE GoodOutput(output[t], prompt, version)' /\ GoodCall(t)'
  <2>1. call'[t] = call[t] /\ output'[t] = output[t] /\ EntryOf(t)' = EntryOf(t) /\ version <= version'
    BY <1>1, <1>2, <1>5 DEF EntryOf, ContinuationInv, SyncInv, PartialTypes, StateType
  <2> QED  BY <1>1, <2>1, ResponseKept
<1> QED  BY <1>3, <1>4, <1>5 DEF Continues

\* The rollouter touches no call, no response and no output of a server.
LEMMA ContinuesCaller ==
    ASSUME ContinuationInv, PartialTypes',
           \/ EndSample \/ StartPause \/ StartReset \/ MonitorResumes \/ update_param_version \/ StartResume
           \/ \E s \in Servers : cancel(s) \/ reset_prefix_cache(s) \/ resume(s)
    PROVE  Continues'
<1>1. UNCHANGED <<call, output, prompt, version>>
  BY DEF EndSample, StartPause, StartReset, MonitorResumes, update_param_version, StartResume, OnlyPhase,
         callerVars, cancel, reset_prefix_cache, resume, serverVars
<1>2. sample' = "running" => sample = "running" /\ (phase' = "updating" => phase = "updating")
  <2>1. ASSUME NEW s \in Servers, cancel(s) \/ reset_prefix_cache(s) \/ resume(s)
        PROVE  sample' = "running" => sample = "running" /\ (phase' = "updating" => phase = "updating")
    BY <2>1 DEF cancel, reset_prefix_cache, resume, ServerDone, ContinuationInv, SyncInv, Quiet
  <2> QED  BY <2>1 DEF EndSample, StartPause, StartReset, MonitorResumes, update_param_version, StartResume,
              callerVars
<1>3. \A q \in DOMAIN entry : entry'[q].output = entry[q].output
  <2>1. \/ entry' = entry
        \/ \E s \in Servers :
             entry' = [q \in DOMAIN entry |-> [entry[q] EXCEPT !.event = @ \/ entry[q].server = s]]
    BY DEF EndSample, StartPause, StartReset, MonitorResumes, update_param_version, StartResume, cancel,
           reset_prefix_cache, resume, serverVars, EventsSet
  <2>2. \A q \in DOMAIN entry : entry[q] \in EntryRecords
    BY DEF ContinuationInv, SyncInv, PartialTypes, EntryType
  <2> QED  BY <2>1, <2>2 DEF EntryRecords
<1>4. ASSUME NEW t \in Rollouts PROVE GoodOutput(output[t], prompt, version)' /\ GoodCall(t)'
  <2>1. call[t].at \in {"waiting", "woken"} => EntryOf(t)'.output = EntryOf(t).output
    BY <1>1, <1>3 DEF EntryOf, Request, ContinuationInv, SyncInv, PartialTypes, Registered
  <2>2. version <= version' /\ version' = version
    BY <1>1 DEF ContinuationInv, SyncInv, PartialTypes, StateType
  <2> QED  BY <1>1, <1>2, <2>1, <2>2, ResponseKept
<1> QED  BY <1>4 DEF Continues

\* Nothing that was generated is under way when new weights are loaded, so what is
\* under way is one version behind from now on.
LEMMA ContinuesUpdate == ASSUME ContinuationInv, PartialTypes', UpdateWeights PROVE Continues'
<1>1. /\ UNCHANGED <<call, output, prompt, sample, entry>> /\ phase = "updating" /\ phase' = "loaded"
      /\ version \in Nat /\ version' = version + 1
  BY DEF UpdateWeights, serverVars, ContinuationInv, SyncInv, PartialTypes, StateType
<1>2. ASSUME NEW r \in Rollouts PROVE GoodOutput(output[r], prompt, version)' /\ GoodCall(r)'
  <2>1. GoodOutput(output[r], prompt, version) /\ GoodCall(r) /\ output[r] \in OutputRecords
    BY DEF ContinuationInv, Continues, SyncInv, PartialTypes, OutputType
  <2>2. GoodOutput(output[r], prompt, version + 1)
    <3>1. version \in Int /\ version + 1 \in Int /\ version <= version + 1
      BY <1>1
    <3> QED  BY <2>1, <3>1, OlderOutput
  <2>3. InFlight(r)' = InFlight(r) /\ Context(r)' = Context(r)
    BY <1>1 DEF InFlight, Context
  <2>4. ASSUME sample = "running"
        PROVE  /\ InFlight(r) => call[r].param_version = version /\ call[r].answer = <<>>
               /\ call[r].at \notin {"waiting", "woken"}
    BY <1>1, <2>1, <2>4 DEF GoodCall, ContinuationInv, SyncInv, Quiet
  <2>5. call[r].at = "answered" /\ sample = "running" => Produced(call[r].answer, Context(r), version + 1)
    BY <2>4 DEF Produced, InFlight
  <2>6. GoodCall(r)'
    BY <1>1, <2>1, <2>3, <2>4, <2>5 DEF GoodCall
  <2> QED  BY <1>1, <2>2, <2>6
<1> QED  BY <1>2 DEF Continues

LEMMA LabelsNext ==
    ASSUME ContinuationInv, [PartialNext]_partialVars
    PROVE  Labels'
<1>0. version \in Nat /\ current_param_version \in Nat
  BY DEF ContinuationInv, SyncInv, PartialTypes, StateType
<1>1. ASSUME UNCHANGED <<version, current_param_version>>, (phase' = "loaded") = (phase = "loaded") PROVE Labels'
  BY <1>1 DEF ContinuationInv, Labels
<1>2. CASE UpdateWeights \/ update_param_version
  BY <1>0, <1>2 DEF UpdateWeights, update_param_version, ContinuationInv, Labels
<1>3. ASSUME NEW s \in Servers, cancel(s) \/ reset_prefix_cache(s) \/ resume(s) PROVE Labels'
  BY <1>1, <1>3 DEF cancel, reset_prefix_cache, resume, ServerDone, OnlyPhase
<1>4. CASE StartSample \/ EndSample \/ StartPause \/ StartReset \/ MonitorResumes \/ StartResume
  BY <1>1, <1>4 DEF StartSample, EndSample, StartPause, StartReset, MonitorResumes, StartResume, OnlyPhase,
     callerVars
<1>5. ASSUME NEW r \in Rollouts,
             \/ Splice(r) \/ Generate(r) \/ GenerationFails(r) \/ Woken(r) \/ Answer(r)
             \/ \E s \in Servers : Arrive(r, s)
      PROVE  Labels'
  BY <1>1, <1>5 DEF Splice, Generate, GenerationFails, Woken, Answer, Arrive, callerVars
<1>6. CASE UNCHANGED partialVars
  BY <1>1, <1>6 DEF partialVars, callerVars
<1> QED  BY <1>2, <1>3, <1>4, <1>5, <1>6 DEF PartialNext, PartialStep, Over

LEMMA ContinuationNext == ContinuationInv /\ [PartialNext]_partialVars => ContinuationInv'
<1> SUFFICES ASSUME ContinuationInv, [PartialNext]_partialVars PROVE ContinuationInv'
  OBVIOUS
<1>1. SyncInv' /\ PartialTypes'
  BY SyncNext DEF ContinuationInv, SyncInv
<1>2. ASSUME UNCHANGED partialVars PROVE Continues'
  BY <1>2 DEF partialVars, serverVars, callerVars, ContinuationInv, Continues, GoodCall, InFlight, EntryOf,
              Request, Context
<1>3. ASSUME PartialStep PROVE Continues'
  BY <1>3, <1>1, ContinuesStart, ContinuesArrive, ContinuesGenerate, ContinuesFails, ContinuesWoken,
     ContinuesAnswer, ContinuesSplice, ContinuesCaller, ContinuesUpdate DEF PartialStep
<1>4. Continues'
  BY <1>2, <1>3 DEF PartialNext, Over
<1> QED  BY <1>1, <1>4, LabelsNext DEF ContinuationInv

\* PartialSingleTurnAgentLoop.run and generate_for_partial: however often it was
\* interrupted, a response is one run of tokens, of weights that never get older,
\* of the versions it is labelled with or of the one after them, and its log
\* probabilities are its own.
THEOREM ResponseIsContinuationCorrect == PartialSpec => []ResponseIsContinuation
<1>1. ContinuationInv => ResponseIsContinuation
  <2> SUFFICES ASSUME ContinuationInv, NEW r \in Rollouts
               PROVE  /\ IsPrefix(output[r].response, output[r].log_probs)
                      /\ \A i \in 1..Len(output[r].response) :
                           /\ output[r].response[i].pos = prompt + i
                           /\ output[r].response[i].version \in output[r].start..(output[r].end + 1)
                           /\ i > 1 => output[r].response[i - 1].version <= output[r].response[i].version
    BY DEF ResponseIsContinuation
  <2>1. GoodOutput(output[r], prompt, version) /\ output[r] \in OutputRecords
    BY DEF ContinuationInv, Continues, SyncInv, PartialTypes, OutputType
  <2> DEFINE s == output[r].response
             t == output[r].log_probs
  <2>2. s \in Seq(OutputTokens) /\ t \in Seq(OutputTokens) /\ Len(s) <= Len(t) /\ \A i \in 1..Len(s) : s[i] = t[i]
    BY <2>1 DEF OutputRecords, GoodOutput
  <2> HIDE DEF s, t
  <2>3. SubSeq(s, 1, Len(s)) = SubSeq(t, 1, Len(s))
    BY <2>2
  <2>4. IsPrefix(s, t)
    BY <2>2, <2>3 DEF IsPrefix
  <2> QED  BY <2>1, <2>4 DEF GoodOutput, s, t
<1> QED  BY ContinuationInit, ContinuationNext, <1>1, PTL DEF PartialSpec
=============================================================================
