------------------------------ MODULE Request -------------------------------
(***************************************************************************)
(* The FIPA request behaviours (src/include/gagent/protocols/Request.hpp): *)
(* RequestParticipant, and an agent that runs RequestInitiators under one  *)
(* name, one after the other.  All of them have the same conv_id_, which   *)
(* is made of the name and the pid.  The field n of a message says which   *)
(* request it belongs to; the code cannot see it.                          *)
(***************************************************************************)
EXTENDS AgentQueues

CONSTANTS
    Requester, Server,   \* the names of the two agents
    MaxRequests          \* bound: how many requests are made

ASSUME MaxRequestsIsNat == MaxRequests \in Nat \ {0}

\* The requester asks another agent, and each can send to the other.
ASSUME RequestLinks ==
    /\ Requester # Server
    /\ {<<Requester, Server>>, <<Server, Requester>>} \subseteq Links

VARIABLES
    rstate,    \* state_ of the current RequestInitiator; "over" after the last
    current,   \* history: which request it is
    outcome,   \* history: what ended each request: the n of an answer, a timeout
    serving    \* the request that handleRequest() is working on, or 0

requestVars == <<rstate, current, outcome, serving>>

\* Outcomes that are not the number of an answer.
Pending  == 0
TimedOut == -1

\* INFORM stands for the four performatives that end a request in the same way
\* (INFORM, REFUSE, FAILURE, NOT_UNDERSTOOD): only the callback differs.
Final == {"INFORM"}

Req(perf, n) == [conv |-> "req", perf |-> perf, n |-> n]

RequestTypeOK ==
    /\ rstate \in {"SEND_REQUEST", "WAIT_RESPONSE", "over"}
    /\ current \in 1..MaxRequests
    /\ outcome \in [1..MaxRequests -> TimedOut..MaxRequests]
    /\ serving \in 0..MaxRequests

RequestInit ==
    /\ rstate = "SEND_REQUEST"
    /\ current = 1
    /\ outcome = [n \in 1..MaxRequests |-> Pending]
    /\ serving = 0

-----------------------------------------------------------------------------
(* RequestInitiator                                                        *)

SendRequest ==
    /\ rstate = "SEND_REQUEST"
    /\ rstate' = "WAIT_RESPONSE"
    /\ inbox' \in Sent(inbox, <<Requester, Server>>, Req("REQUEST", current))
    /\ UNCHANGED <<current, outcome, serving>>

\* done_: the next RequestInitiator of the agent, if any, begins.
Ends(o) ==
    /\ outcome' = [outcome EXCEPT ![current] = o]
    /\ IF current < MaxRequests
       THEN current' = current + 1 /\ rstate' = "SEND_REQUEST"
       ELSE rstate' = "over" /\ UNCHANGED current

\* Mutant of RequestTimeout: done_ is not set, and the wait begins again.
TimeoutIgnored ==
    /\ rstate = "WAIT_RESPONSE"
    /\ UNCHANGED <<requestVars, inbox>>

\* receive() returned nothing: handleTimeout.
RequestTimeout ==
    /\ rstate = "WAIT_RESPONSE"
    /\ Ends(TimedOut)
    /\ UNCHANGED <<serving, inbox>>

\* Mutant of ReceiveResponse: an AGREE is taken for the answer.
AgreeEnds ==
    /\ rstate = "WAIT_RESPONSE"
    /\ \E l \in Into(Requester) :
          /\ inbox' = Taken(l)
          /\ LET m == Head(inbox[l]) IN
             IF m.conv = "req" THEN Ends(m.n) ELSE UNCHANGED <<rstate, current, outcome>>
    /\ UNCHANGED serving

\* A message of another conversation is dropped; AGREE is reported and the wait
\* goes on; any other answer ends the behaviour.
ReceiveResponse ==
    /\ rstate = "WAIT_RESPONSE"
    /\ \E l \in Into(Requester) :
          /\ inbox' = Taken(l)
          /\ LET m == Head(inbox[l]) IN
             IF m.conv = "req" /\ m.perf \in Final
             THEN Ends(m.n) ELSE UNCHANGED <<rstate, current, outcome>>
    /\ UNCHANGED serving

-----------------------------------------------------------------------------
(* RequestParticipant                                                      *)

\* A REQUEST, and an AGREE first if prepareAgree says so.
ServerReceives ==
    /\ serving = 0
    /\ \E l \in Into(Server) :
          LET m == Head(inbox[l]) IN
          /\ serving' = m.n
          /\ inbox' \in Sent(Taken(l), <<Server, Requester>>, Req("AGREE", m.n))
    /\ UNCHANGED <<rstate, current, outcome>>

\* handleRequest returns the answer.
ServerResponds ==
    /\ serving # 0
    /\ serving' = 0
    /\ \E perf \in Final :
          inbox' \in Sent(inbox, <<Server, Requester>>, Req(perf, serving))
    /\ UNCHANGED <<rstate, current, outcome>>

InitiatorStep == SendRequest \/ RequestTimeout \/ ReceiveResponse
ServerStep    == ServerReceives \/ ServerResponds
RequestNext   == InitiatorStep \/ ServerStep

-----------------------------------------------------------------------------
\* The conversation id does not tell the requests of an agent apart.  Still an
\* answer is never ahead of its request or handed out twice, and it ends a
\* request it was not meant for only after some request up to the one it was
\* meant for has timed out.
WrongAnswerMeansTimeout ==
    \A n, k \in 1..MaxRequests :
        outcome[n] = k =>
            /\ k <= n
            /\ \A j \in 1..n - 1 : outcome[j] # k
            /\ k < n => \E j \in 1..k : outcome[j] = TimedOut

\* Every request is answered or times out, whatever is lost or taken by another
\* behaviour of the agent.
RequestsEnd == <>(rstate = "over")
=============================================================================
