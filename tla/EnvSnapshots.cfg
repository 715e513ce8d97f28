\* Two agents, a queue of two, three snapshots, two processes one after the other.
SPECIFICATION EnvFairSpec
CONSTANTS
    a1 = a1
    a2 = a2
    v1 = v1
    v2 = v2
    Agents = {a1, a2}
    Values = {v1, v2}
    Sends <- MCSends
    None = None
    MaxMsg = 2
    MaxSeq = 3
    MaxStarts = 2
CHECK_DEADLOCK FALSE
INVARIANT ViewCatchesUp
PROPERTY ImplementsStack
PROPERTY SendersGetOn
