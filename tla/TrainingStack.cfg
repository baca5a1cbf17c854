CONSTANTS
    Servers = {s1, s2}
    Rollouts = {r1, r2}
    PromptLengths = {1}
    PromptLength = 1
    ResponseLength = 2
    MaxSyncs = 2
    MaxAttempts = 2
    MaxFailures = 1
    LLMServers = {l1, l2}
    RequestIds = {q1, q2, q3}
    MaxCacheSize = 2
    MaxChoices = 8
    search = search
    sandbox = sandbox
    e1 = e1
    e2 = e2
    e3 = e3
    e4 = e4
    Tools = {search, sandbox}
    rate_limit <- Limits
    Executions = {e1, e2, e3, e4}
    ToolOf <- Calls
    Workers = {w1, w2}
    HttpRequests = {h1, h2, h3}
    max_attempts = 2
    NoWorker = NoWorker
    prompt_length = 2
    response_length = 4
    InitialPrompts = {1, 2, 3, 6}
    max_assistant_turns = 4
    max_user_turns = 3
    max_parallel_calls = 2
    MaxToolCalls = 3
    MaxAnswer = 2
    EpochLength = 2
    total_epochs = 2
    save_freq = 1
    Keeps = {0, 1, 2}
    Ranks = {0, 1}
    Groups <- ActorAndCritic
    MaxCrashes = 2
    BatchSize = 4
    n = 2
    world_size = 2
    SeqLens = {1, 2, 4}
    BatchPrompts <- Interleaved
    micro_batch_size = 2
SPECIFICATION StackSpec
INVARIANTS
    TypeOK
    PausedServerServesNobody
    IdleDuringUpdate
    ResponseIsContinuation
    LoadSpread
    PermitsConserved
    CountIsBurden
    MaskMarksGenerated
    ToolsLeaveRoom
    InstancesReleased
    TrackedIsComplete
    EachBatchOnce
    EndsOnLastStep
    RanksBalanced
    AdvantagesKeptUnlessEarly
    RewardIsOwn
PROPERTIES
    FinishedStays
    CancelDrains
    StickySession
    EveryoneRuns
