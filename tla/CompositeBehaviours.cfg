\* Three children of every type, in every composite.
SPECIFICATION FairSpec
CONSTANTS
    A = A
    B = B
    C = C
    Children = {A, B, C}
    First = A
    IsLast = {C}
    Transitions <- Table
    Defaults <- DefaultTable
    ExitValues = {0, 1, 2}
    NoState = NoState
    Unregistered = Unregistered
    MaxTimer = 2
CHECK_DEADLOCK FALSE
INVARIANT OneAtATime
INVARIANT EndIsDeserved
PROPERTY ImplementsContract
PROPERTY CompositeEnds
