----------------------------- MODULE ToolAgent -----------------------------
(***************************************************************************)
(* One episode of ToolAgentLoop: the model generates, its tool calls run   *)
(* in parallel, their answers are appended to the prompt, or a user (an    *)
(* interaction) answers, until a limit ends the episode.  A token is the   *)
(* word for where it comes from; an answer that has an image has one token *)
(* of its own for it.                                                      *)
(***************************************************************************)
EXTENDS Integers, Sequences, FiniteSets, SequencesExt

CONSTANTS
    prompt_length, response_length,
    InitialPrompts,       \* the numbers of tokens a first prompt may have: the data set
                          \* filters prompts without the schemas of the tools, if at all
    max_assistant_turns,  \* 0: no limit
    max_user_turns,       \* 0: no limit
    max_parallel_calls,
    MaxToolCalls,         \* bound: tool calls in one turn of the model
    MaxAnswer             \* bound: text tokens of a tool's or a user's answer

ASSUME ToolAgentAssumption ==
    /\ prompt_length \in Nat /\ response_length \in Nat \ {0}
    /\ InitialPrompts \subseteq Nat
    /\ max_assistant_turns \in Nat /\ max_user_turns \in Nat
    /\ max_parallel_calls \in Nat \ {0}
    /\ MaxToolCalls \in Nat /\ MaxAnswer \in Nat \ {0}

VARIABLES
    setup,              \* length of the first prompt; is there an interaction, a
                        \* processor, and are log probabilities asked for
    state,              \* the AgentState, or how the episode was aborted
    prompt_ids, response_mask, response_logprobs,
    user_turns, assistant_turns,
    image_data,         \* how many images agent_data has
    tool_call,          \* tool_call[i]: where the i-th parallel call stands
    instances           \* the tool instances created and not released

textVars == <<prompt_ids, response_mask, response_logprobs>>
turnVars == <<user_turns, assistant_turns>>
toolVars == <<tool_call, instances>>
agentVars == <<setup, state, textVars, turnVars, image_data, toolVars>>

Tokens(origin, n) == [i \in 1..n |-> origin]
\* The engine's limit on the whole sequence, and what it leaves for an answer.
model_len == prompt_length + response_length
Room == model_len - Len(prompt_ids)

Setups == [prompt : InitialPrompts, interaction : BOOLEAN, processor : BOOLEAN, logprobs : BOOLEAN]

AgentInit ==
    /\ setup \in Setups
    /\ state = "pending"
    /\ prompt_ids = <<>> /\ response_mask = <<>> /\ response_logprobs = <<>>
    /\ user_turns = 0 /\ assistant_turns = 0
    /\ image_data = 0
    /\ tool_call = <<>> /\ instances = {}

\* The prompt with the tools' schemas, whatever its length.
_handle_pending_state ==
    /\ state = "pending"
    /\ prompt_ids' = Tokens("prompt", setup.prompt)
    /\ state' = "generating"
    /\ UNCHANGED <<setup, response_mask, response_logprobs, turnVars, image_data, toolVars>>

-----------------------------------------------------------------------------
(* _handle_generating_state.                                                *)

TooManyTurns ==
    \/ max_assistant_turns > 0 /\ assistant_turns' >= max_assistant_turns
    \/ max_user_turns > 0 /\ user_turns >= max_user_turns

LongEnough == Len(response_mask') >= response_length

\* The model calls so many tools, of which the first max_parallel_calls are run.
AfterGenerating(called) ==
    IF LongEnough \/ TooManyTurns THEN state' = "terminated" /\ tool_call' = <<>>
    ELSE /\ tool_call' = Tokens("called", IF called < max_parallel_calls THEN called ELSE max_parallel_calls)
         /\ state' = IF called > 0 THEN "processing_tools"
                     ELSE IF setup.interaction THEN "interacting" ELSE "terminated"

_handle_generating_state ==
    /\ state = "generating" /\ Room >= 1
    /\ assistant_turns' = assistant_turns + 1
    /\ \E n \in 1..Room, called \in 0..MaxToolCalls :
         /\ prompt_ids' = prompt_ids \o Tokens("model", n)
         /\ response_mask' = response_mask \o Tokens(1, n)
         /\ response_logprobs' = IF setup.logprobs THEN response_logprobs \o Tokens(1, n)
                                                   ELSE response_logprobs
         /\ AfterGenerating(called)
    /\ UNCHANGED <<setup, user_turns, image_data, instances>>

\* The engine refuses max_tokens < 1, and the whole batch of episodes fails.
EngineRejects ==
    /\ state = "generating" /\ Room < 1
    /\ state' = "rejected"
    /\ UNCHANGED <<setup, textVars, turnVars, image_data, toolVars>>

-----------------------------------------------------------------------------
(* _call_tool, once for each call, in parallel.  Whatever raises becomes an *)
(* error text; the `finally` releases what was created.                     *)

Advances(i, from, to) == tool_call[i] = from /\ tool_call' = [tool_call EXCEPT ![i] = to]
OnlyTools == UNCHANGED <<setup, state, textVars, turnVars, image_data>>

\* tool.create, unless the name or the arguments are malformed, or it raises.
CreateInstance(i) ==
    \/ Advances(i, "called", "created") /\ instances' = instances \union {i} /\ OnlyTools
    \/ Advances(i, "called", "error") /\ UNCHANGED instances /\ OnlyTools

\* Mutant of AfterRaise: an error skips the release.
RaiseSkipsRelease == "error"
AfterRaise == "release_error"

ExecuteTool(i) ==
    /\ \/ Advances(i, "created", "release_answer")
       \/ Advances(i, "created", AfterRaise)
    /\ UNCHANGED instances /\ OnlyTools

ReleaseInstance(i) ==
    /\ Advances(i, "release_answer", "answer") \/ Advances(i, "release_error", "error")
    /\ instances' = instances \ {i} /\ OnlyTools

_call_tool(i) == CreateInstance(i) \/ ExecuteTool(i) \/ ReleaseInstance(i)

-----------------------------------------------------------------------------
(* _handle_processing_tools_state, once all calls have returned.            *)

CallsReturned == state = "processing_tools" /\ \A i \in DOMAIN tool_call : tool_call[i] \in {"answer", "error"}
Answers == {i \in DOMAIN tool_call : tool_call[i] = "answer"}

\* Mutant of Fits: the answers may fill the response.
FitsFilling(n) == Len(response_mask) + n <= response_length
Fits(n) == Len(response_mask) + n < response_length

MaskOf(n) == Tokens(0, n)

Appended(ids) ==
    /\ prompt_ids' = prompt_ids \o ids
    /\ response_mask' = response_mask \o MaskOf(Len(ids))
    /\ response_logprobs' = IF response_logprobs # <<>>
                            THEN response_logprobs \o Tokens(0, Len(ids)) ELSE response_logprobs

\* The images are kept before the length of the answers is known.
ImagesKept(images) == image_data + images

_handle_processing_tools_state ==
    /\ CallsReturned
    /\ \E images \in 0..Cardinality(Answers), n \in 1..MaxAnswer :
         /\ images > 0 => setup.processor
         /\ image_data' = ImagesKept(images)
         /\ IF Fits(images + n)
            THEN /\ Appended(Tokens("image", images) \o Tokens("tool", n))
                 /\ user_turns' = user_turns + 1
                 /\ state' = "generating"
            ELSE /\ UNCHANGED <<textVars, user_turns>>
                 /\ state' = "terminated"
    /\ tool_call' = <<>>
    /\ UNCHANGED <<setup, assistant_turns, instances>>

\* An image without a processor, or a video, raises.
MediaRaise ==
    /\ CallsReturned /\ Answers # {}
    /\ state' = "raised"
    /\ UNCHANGED <<setup, textVars, turnVars, image_data, toolVars>>

\* _handle_interacting_state: the user's answer is appended whatever its length.
_handle_interacting_state ==
    /\ state = "interacting"
    /\ user_turns' = user_turns + 1
    /\ \E n \in 1..MaxAnswer : Appended(Tokens("user", n))
    /\ \E next \in {"generating", "terminated"} : state' = next
    /\ UNCHANGED <<setup, assistant_turns, image_data, toolVars>>

\* The engine, or the interaction, raises.
ExternalRaise ==
    /\ state \in {"generating", "interacting"}
    /\ state' = "raised"
    /\ UNCHANGED <<setup, textVars, turnVars, image_data, toolVars>>

EpisodeOver == state \in {"terminated", "rejected", "raised"} /\ UNCHANGED agentVars

AgentStep ==
    \/ _handle_pending_state \/ _handle_generating_state \/ EngineRejects
    \/ \E i \in DOMAIN tool_call : _call_tool(i)
    \/ _handle_processing_tools_state \/ MediaRaise
    \/ _handle_interacting_state \/ ExternalRaise

AgentNext == AgentStep \/ EpisodeOver
AgentSpec == AgentInit /\ [][AgentNext]_agentVars

-----------------------------------------------------------------------------
(* What run() returns.                                                      *)

Limited(s) == SubSeq(s, 1, IF Len(s) < response_length THEN Len(s) ELSE response_length)

\* Mutant of Split: the response begins a token early.
SplitEarly == Len(prompt_ids) - Len(response_mask) - 1
Split == Len(prompt_ids) - Len(response_mask)

Response == Limited(SubSeq(prompt_ids, Split + 1, Len(prompt_ids)))
Prompt == SubSeq(prompt_ids, 1, Split)

Origins == {"prompt", "model", "tool", "image", "user"}

AgentTypeOK ==
    /\ setup \in Setups
    /\ state \in {"pending", "generating", "processing_tools", "interacting",
                  "terminated", "rejected", "raised"}
    /\ prompt_ids \in Seq(Origins) /\ response_mask \in Seq({0, 1}) /\ response_logprobs \in Seq({0, 1})
    /\ user_turns \in Nat /\ assistant_turns \in Nat /\ image_data \in Nat
    /\ tool_call \in Seq({"called", "created", "release_answer", "release_error", "answer", "error"})
    /\ instances \subseteq 1..max_parallel_calls

\* Of the response a terminated episode returns, exactly the tokens the model
\* generated are trained on: the mask has a 1 and the log probabilities have a
\* value there and nowhere else, whichever answers came in between and wherever
\* the cut falls; and the prompt is the one the episode began with.
MaskMarksGenerated ==
    state = "terminated" =>
        /\ Limited(response_mask) = [i \in DOMAIN Response |-> IF Response[i] = "model" THEN 1 ELSE 0]
        /\ setup.logprobs => Limited(response_logprobs) = Limited(response_mask)
        /\ Prompt = Tokens("prompt", setup.prompt)

\* Tools never drive an episode out of the engine's context: their answers leave room
\* for the next token, through all turns.  Only a user can, or a first prompt that is
\* longer than prompt_length, which nothing cuts.
ToolsLeaveRoom == state = "rejected" => setup.interaction \/ setup.prompt > prompt_length

\* Whatever fails in a tool call, its instance is released before the model
\* generates again or the episode ends.
InstancesReleased == state # "processing_tools" => instances = {}
=============================================================================
