SPECIFICATION FairSpec
CONSTANTS
    Starts = {s1, s2}
INVARIANTS TypeOK OnePipeline ReadyIsEarned WorkIsKept
PROPERTIES PipelineSettles
