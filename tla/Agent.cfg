\* Two behaviour threads, two requests from any thread or process, under fair
\* scheduling of the threads.
SPECIFICATION FairSpec
CONSTANTS
    Behaviours = {b1, b2}
    Main = main
    Listener = listener
    MaxRequests = 2
CHECK_DEADLOCK FALSE
INVARIANT LastRequestWins
INVARIANT NoLostWakeup
INVARIANT NaturalExitIsClean
PROPERTY DeleteTerminates
PROPERTY RequestIsTaken
PROPERTY SuspendQuiets
