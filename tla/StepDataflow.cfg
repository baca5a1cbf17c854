CONSTANTS
    BatchSize = 4
    n = 2
    world_size = 2
    SeqLens = {1, 2}
SPECIFICATION DataflowSpec
INVARIANTS
    AdvantagesKept
