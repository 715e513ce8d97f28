\* Two machines that crash, stop, return and fall silent; an agent on one.
SPECIFICATION FairSpec
CONSTANTS
    s1 = s1
    s2 = s2
    a1 = a1
    i1 = i1
    i2 = i2
    i3 = i3
    Slaves = {s1, s2}
    IPs = {i1, i2, i3}
    Peer <- SeenAs
    Ip <- Announces
    Agents = {a1}
    Host <- Alone
    MaxJoins <- JoinBound
    MaxSilences = 1
    NoRecord = NoRecord
    NoIP = NoIP
CHECK_DEADLOCK FALSE
INVARIANT RejoinPurgesAMS
PROPERTY DeadSlaveIsForgotten
PROPERTY KnownDeadIsPurged
