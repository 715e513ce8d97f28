\* A requester and a subscriber on one queue, another subscriber on its own.
SPECIFICATION FairSpec
CONSTANTS
    x = x
    z = z
    server = server
    publisher = publisher
    s1 = s1
    s2 = s2
    Links <- MCLinks
    Requester = x
    Server = server
    MaxRequests = 2
    Subs = {s1, s2}
    NameOf <- MCNames
    Publisher = publisher
    MaxNotifies = 1
    NoSub = NoSub
CHECK_DEADLOCK FALSE
INVARIANT WrongAnswerMeansTimeout
INVARIANT InformAfterAgree
PROPERTY RequestsEnd
PROPERTY CancelIsFinal
PROPERTY SubscribersMoveOn
