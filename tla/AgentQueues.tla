---------------------------- MODULE AgentQueues -----------------------------
(***************************************************************************)
(* The queues behind transport().send and transport().receive              *)
(* (src/include/gagent/messaging/AclMQ.hpp), as the request and subscribe  *)
(* protocols use them: what one agent sends to one name arrives in order   *)
(* or not at all; what several agents send to it arrives in any order.     *)
(* All behaviours of an agent that use one name take from one queue.       *)
(***************************************************************************)
EXTENDS Integers, Sequences

CONSTANT Links   \* <<sender, receiver>>

ASSUME LinksArePairs == \A l \in Links : l = <<l[1], l[2]>>

VARIABLE inbox   \* [Links -> Seq(message)]: sent and not yet received

\* The links that have something for a name.
Into(name) == {l \in Links : l[2] = name /\ inbox[l] # <<>>}

\* acl_receive: the queue after taking the first message of a link.
Taken(l) == [inbox EXCEPT ![l] = Tail(@)]

\* acl_send: the possible queues after sending m, which may be lost (no
\* endpoint, high-water mark, receiver gone).
Sent(q, l, m) == {q, [q EXCEPT ![l] = Append(@, m)]}
=============================================================================
