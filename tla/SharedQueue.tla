---------------------------- MODULE SharedQueue -----------------------------
(***************************************************************************)
(* The request and the subscribe protocol at work in the same agents: a    *)
(* RequestInitiator and a SubscribeInitiator that use one name take from   *)
(* one queue, and drop each other's messages.                              *)
(***************************************************************************)
EXTENDS Request, Subscribe

\* The server and the publisher are two agents that do nothing else; the
\* requester may be one of the subscribers.  Conversation ids are apart.
ASSUME RolesApart ==
    /\ Server \notin SubNames
    /\ Publisher \notin {Requester, Server}
    /\ "req" \notin Subs

vars == <<inbox, requestVars, subscribeVars>>

Init ==
    /\ inbox = [l \in Links |-> <<>>]
    /\ RequestInit
    /\ SubscribeInit

Next ==
    \/ RequestNext /\ UNCHANGED subscribeVars
    \/ SubscribeNext /\ UNCHANGED requestVars

Spec == Init /\ [][Next]_vars

\* Every behaviour's thread runs, and each wait has a timeout.  Nobody has to
\* subscribe, cancel or notify.
FairSpec ==
    /\ Spec
    /\ WF_vars(InitiatorStep /\ UNCHANGED subscribeVars)
    /\ WF_vars(ServerStep /\ UNCHANGED subscribeVars)
    /\ \A s \in Subs : WF_vars(SubscriberWaits(s) /\ UNCHANGED requestVars)
    /\ WF_vars(PublisherStep /\ UNCHANGED requestVars)

Messages ==
    [conv : {"req"}, perf : Final \cup {"REQUEST", "AGREE"}, n : 1..MaxRequests]
    \cup [conv : Subs, perf : {"SUBSCRIBE", "AGREE", "REFUSE", "INFORM", "CANCEL"}, n : {0}]

TypeOK ==
    /\ inbox \in [Links -> Seq(Messages)]
    /\ RequestTypeOK
    /\ SubscribeTypeOK
=============================================================================
