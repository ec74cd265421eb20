SPECIFICATION ForwarderSpec
CONSTANTS
    Queries = {q1, q2}
    MayAsk <- Questions
    Lists <- MCLists
    FirstList <- MCFirstList
    Pooled = {"a"}
    PoolSize = 1
    NoAnswer = NoAnswer
    MaxReplaces = 2
INVARIANTS RetirementSpares
PROPERTIES QueriesReturn RetiredAreClosed
CHECK_DEADLOCK FALSE
