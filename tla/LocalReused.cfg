\* Two processes share a name and may overlap; crashes at any moment.
SPECIFICATION FairSpec
CONSTANTS
    p1 = p1
    p2 = p2
    n1 = n1
    n2 = n2
    Procs = {p1, p2}
    Names = {n1, n2}
    NameOf <- Reused
    Binders = {p2}
    Managers = {m1}
    Overlap = TRUE
    MaxCommands = 1
    NoRecord = NoRecord
    NoIP = NoIP
INVARIANT OnlyAcceptedAreListed
PROPERTY DeadAreForgotten
