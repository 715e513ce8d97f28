\* A main process and two children, in local mode and in a cluster; two ports,
\* each of which another program may have.
SPECIFICATION FairSpec
CONSTANTS
    Procs = {m, a, b}
    Main = m
    Receivers = {m, a}
    Senders = {m, b}
    Ports <- MCPorts
    p1 = p1
    p2 = p2
    Ipc = Ipc
    Queue = Queue
    None = None
CHECK_DEADLOCK FALSE
INVARIANT OwnSocketsOnly
INVARIANT AnnouncedIsBound
PROPERTY SendersFindReceiver
