\* Every process has its own name; one manager; three commands.
SPECIFICATION Spec
CONSTANTS
    p1 = p1
    p2 = p2
    n1 = n1
    n2 = n2
    Procs = {p1, p2}
    Names = {n1, n2}
    NameOf <- Distinct
    Binders = {p2}
    Managers = {m1}
    Overlap = TRUE
    MaxCommands = 3
    NoRecord = NoRecord
    NoIP = NoIP
 
INVARIANT StateIsTruthful
