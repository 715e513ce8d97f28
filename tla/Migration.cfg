\* Three processes, two machines (one knows the type), two moves, one fault.
SPECIFICATION Spec
CONSTANTS
    c1 = c1
    c2 = c2
    c3 = c3
    Procs = {c1, c2, c3}
    First = c1
    Machines = {A1, B1}
    Home = A1
    Known = {B1}
    Name = n
    MaxMoves = 2
    MaxCalls = 1
    MaxFaults = 1
    MaxCommands = 2
    NoRecord = NoRecord
    NoIP = NoIP
    NoProc = NoProc
SYMMETRY Symmetry
CHECK_DEADLOCK FALSE
INVARIANT AgentIsNeverLost
INVARIANT CopiesMeanTimeouts
INVARIANT RemoteStateIsTruthful
