\* Two initiators on one queue, two participants they compete for.
SPECIFICATION FairSpec
CONSTANTS
    Initiators = {i1, i2}
    Participants = {q1, q2}
    QueueOf <- OneQueue
CHECK_DEADLOCK FALSE
INVARIANT ResultsAreComplete
PROPERTY ImplementsTaskAward
PROPERTY EveryoneFinishes
