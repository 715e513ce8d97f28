---------------------------- MODULE Environment -----------------------------
(***************************************************************************)
(* The shared environment (src/src/env/Environnement.cpp): agents send     *)
(* their attributes through a bounded POSIX queue, one thread of the       *)
(* environment's process copies them into list_attr, and its event_loop    *)
(* pushes, pulls and clears snapshots of list_attr (NSAP).  Each access to *)
(* list_attr and the snapshots is one critical section of env_mutex_; the  *)
(* thread takes a message from the queue before it enters its own.         *)
(*                                                                         *)
(* The process starts, stops or crashes, and is started again.  A queue    *)
(* lives on after mq_unlink for those who have it open: queues are         *)
(* numbered, and /envqueuemsg is the name of one of them at most.  One     *)
(* thread of each agent updates its attributes.                            *)
(***************************************************************************)
EXTENDS Integers, Sequences, FiniteSets

CONSTANTS
    Agents,    \* agent ids
    Values,    \* what an agent's attributes can be
    Sends,     \* what each agent sends of them
    None,      \* no entry in list_attr
    MaxMsg,    \* mq_maxmsg (10 in the code)
    MaxSeq,    \* bound on nsap_seq_
    MaxStarts  \* bound on the processes of the environment

ASSUME BoundsAreNat == MaxMsg \in Nat /\ MaxSeq \in Nat /\ MaxStarts \in Nat
ASSUME NoneIsNoValue == None \notin Values
ASSUME SendsAreTexts == Sends \in [Agents -> SUBSET (Values \cup {"no id"})]

VARIABLES
    env,         \* the process: "off", "opening", "run", "stopping", "closing"
    starts,      \* processes so far
    queues,      \* the contents of every queue
    named,       \* the one called /envqueuemsg, or 0
    reading,     \* the one the environment has open, or 0
    received,    \* the message its thread has taken from there and not yet seen to
    sending,     \* what an agent is about to put into which queue
    sent,        \* history: the attributes each agent sent last
    into,        \* history: the queue they went to, or 0
    replaced,    \* history: agents whose entry a pull or a restart has replaced since
    list_attr,   \* Environnement::list_attr
    list_snaps,  \* sequence number -> snapshot
    nsap_seq     \* nsap_seq_

processVars == <<env, starts, named, reading, received>>
senderVars  == <<sending, sent, into>>
nsapVars    == <<list_snaps, nsap_seq>>
envVars == <<processVars, queues, senderVars, replaced, list_attr, nsapVars>>

Queues   == 1..MaxStarts
\* A message without the attribute that link_id names is of no use.
Texts    == Values \cup {"no id"}
Pictures == [Agents -> Values \cup {None}]
NoSend   == [mq |-> 0, text |-> "no id"]
Nothing  == <<>>

EnvTypeOK ==
    /\ env \in {"off", "opening", "run", "stopping", "closing"}
    /\ starts \in 0..MaxStarts
    /\ queues \in [Queues -> Seq(Agents \X Texts)]
    /\ \A q \in Queues : Len(queues[q]) <= MaxMsg
    /\ named \in 0..MaxStarts /\ reading \in 0..MaxStarts
    /\ received \in (Agents \X Texts) \cup {Nothing}
    /\ sending \in [Agents -> [mq : Queues, text : Texts] \cup {NoSend}]
    /\ sent \in Pictures /\ into \in [Agents -> 0..MaxStarts]
    /\ replaced \subseteq Agents
    /\ list_attr \in Pictures
    /\ DOMAIN list_snaps \subseteq 0..MaxSeq - 1
    /\ \A k \in DOMAIN list_snaps : list_snaps[k] \in Pictures
    /\ nsap_seq \in 0..MaxSeq

NoPicture == [a \in Agents |-> None]

EnvInit ==
    /\ env = "off" /\ starts = 0
    /\ queues = [q \in Queues |-> <<>>]
    /\ named = 0 /\ reading = 0 /\ received = Nothing
    /\ sending = [a \in Agents |-> NoSend]
    /\ sent = NoPicture /\ into = [a \in Agents |-> 0]
    /\ replaced = Agents
    /\ list_attr = NoPicture
    /\ list_snaps = <<>> /\ nsap_seq = 0

\* A queue that has no name and that nobody has open any more is destroyed.
Kept(qs, name) ==
    [q \in Queues |-> IF q = name \/ \E a \in Agents : sending'[a].mq = q THEN qs[q] ELSE <<>>]

-----------------------------------------------------------------------------
(* The agents                                                              *)

\* Agent::attributUpdated: mq_open, which fails when there is no queue ...
attributUpdated(a, t) ==
    /\ sending[a] = NoSend
    /\ sent' = IF t \in Values THEN [sent EXCEPT ![a] = t] ELSE sent
    /\ into' = IF t \in Values THEN [into EXCEPT ![a] = named] ELSE into
    /\ sending' = IF named = 0 THEN sending
                  ELSE [sending EXCEPT ![a] = [mq |-> named, text |-> t]]
    /\ UNCHANGED <<processVars, queues, replaced, list_attr, nsapVars>>

\* Mutant of mq_send: O_NONBLOCK.
mq_sendDrops(a) ==
    /\ sending[a] # NoSend
    /\ sending' = [sending EXCEPT ![a] = NoSend]
    /\ queues' = IF Len(queues[sending[a].mq]) = MaxMsg THEN queues
                 ELSE [queues EXCEPT ![sending[a].mq] = Append(@, <<a, sending[a].text>>)]
    /\ UNCHANGED <<processVars, sent, into, replaced, list_attr, nsapVars>>

\* ... and mq_send, which waits while the queue is full, unlinked or not.
mq_send(a) ==
    /\ sending[a] # NoSend
    /\ Len(queues[sending[a].mq]) < MaxMsg
    /\ sending' = [sending EXCEPT ![a] = NoSend]
    /\ queues' = Kept([queues EXCEPT ![sending[a].mq] = Append(@, <<a, sending[a].text>>)],
                      named)
    /\ UNCHANGED <<processVars, sent, into, replaced, list_attr, nsapVars>>

-----------------------------------------------------------------------------
(* The process of the environment                                          *)

\* The process ends, and its memory with it.
Ends ==
    /\ env' = "off" /\ reading' = 0 /\ received' = Nothing
    /\ list_attr' = NoPicture /\ replaced' = Agents
    /\ list_snaps' = <<>> /\ nsap_seq' = 0

\* initEnvironnementSystem forks, and start() runs in the new process.
start ==
    /\ env = "off" /\ starts < MaxStarts
    /\ env' = "opening" /\ starts' = starts + 1
    /\ UNCHANGED <<named, reading, received, queues, senderVars, replaced, list_attr, nsapVars>>

\* readDataFromQueueMsg: mq_open makes a queue, or finds the one that a process
\* has left, with what is in it.
mq_open ==
    /\ env = "opening"
    /\ env' = "run"
    /\ named' = IF named = 0 THEN starts ELSE named
    /\ reading' = named'
    /\ UNCHANGED <<starts, received, queues, senderVars, replaced, list_attr, nsapVars>>

\* readDataFromQueueMsg, the next message.  (The thread can be in mq_timedreceive
\* when mq_running_ becomes false.)
mq_timedreceive ==
    /\ env \in {"run", "stopping"} /\ received = Nothing
    /\ queues[reading] # <<>>
    /\ received' = Head(queues[reading])
    /\ queues' = [queues EXCEPT ![reading] = Tail(@)]
    /\ UNCHANGED <<env, starts, named, reading, senderVars, replaced, list_attr, nsapVars>>

\* Mutant of readDataFromQueueMsg: the thread ends at a message without an id.
readDataUntilNoId ==
    /\ received # Nothing
    /\ received[2] \in Values
    /\ list_attr' = [list_attr EXCEPT ![received[1]] = received[2]]
    /\ replaced' = replaced \ {received[1]}
    /\ received' = Nothing
    /\ env' = IF env = "run" THEN env ELSE "closing"
    /\ UNCHANGED <<starts, named, reading, queues, senderVars, nsapVars>>

\* ... which goes into list_attr under env_mutex_, if it has an id; in between
\* event_loop may have pushed or pulled a snapshot, or returned.  The thread
\* then tests mq_running_.
readDataFromQueueMsg ==
    /\ received # Nothing
    /\ IF received[2] \in Values
       THEN /\ list_attr' = [list_attr EXCEPT ![received[1]] = received[2]]
            /\ replaced' = replaced \ {received[1]}
       ELSE UNCHANGED <<list_attr, replaced>>
    /\ received' = Nothing
    /\ env' = IF env = "run" THEN env ELSE "closing"
    /\ UNCHANGED <<starts, named, reading, queues, senderVars, nsapVars>>

\* event_loop returns: mq_running_ is set to false.
event_loopEnds ==
    /\ env = "run"
    /\ env' = "stopping"
    /\ UNCHANGED <<starts, named, reading, received, queues, senderVars, replaced, list_attr,
                   nsapVars>>

\* The thread leaves its loop and unlinks the queue; start() joins it, _exit.
mq_unlink ==
    /\ env \in {"stopping", "closing"} /\ received = Nothing
    /\ Ends
    /\ named' = 0
    /\ UNCHANGED <<starts, senderVars>>
    /\ queues' = Kept(queues, 0)

\* The process dies, and the queue keeps its name.
Crash ==
    /\ env # "off"
    /\ Ends
    /\ UNCHANGED <<starts, named, queues, senderVars>>

-----------------------------------------------------------------------------
(* NSAP, called from event_loop                                            *)

\* The snapshot is stored under nsap_seq_++, whatever the size of the stack.
push_nsap ==
    /\ env = "run" /\ nsap_seq < MaxSeq
    /\ list_snaps' = [k \in DOMAIN list_snaps \cup {nsap_seq} |->
                        IF k = nsap_seq THEN list_attr ELSE list_snaps[k]]
    /\ nsap_seq' = nsap_seq + 1
    /\ UNCHANGED <<processVars, queues, senderVars, replaced, list_attr>>

\* Mutant of Newest: the snapshot with the smallest key.
Oldest == CHOOSE k \in DOMAIN list_snaps : \A j \in DOMAIN list_snaps : j >= k

\* The most recent snapshot is the one with the largest key.
Newest == CHOOSE k \in DOMAIN list_snaps : \A j \in DOMAIN list_snaps : j <= k

pull_nsap ==
    /\ env = "run" /\ DOMAIN list_snaps # {}
    /\ list_attr' = list_snaps[Newest]
    /\ list_snaps' = [k \in DOMAIN list_snaps \ {Newest} |-> list_snaps[k]]
    /\ replaced' = Agents
    /\ UNCHANGED <<processVars, queues, senderVars, nsap_seq>>

clear_nsap ==
    /\ env = "run"
    /\ list_snaps' = <<>> /\ nsap_seq' = 0
    /\ UNCHANGED <<processVars, queues, senderVars, replaced, list_attr>>

-----------------------------------------------------------------------------
Reader == mq_open \/ mq_timedreceive \/ readDataFromQueueMsg \/ mq_unlink

EnvNext ==
    \/ \E a \in Agents : \E t \in Sends[a] : attributUpdated(a, t)
    \/ \E a \in Agents : mq_send(a)
    \/ start \/ Reader \/ event_loopEnds \/ Crash
    \/ push_nsap \/ pull_nsap \/ clear_nsap

EnvSpec == EnvInit /\ [][EnvNext]_envVars

\* The environment's thread is scheduled, and the kernel serves the senders
\* that wait for room in turn.
EnvFairness == WF_envVars(Reader) /\ \A a \in Agents : SF_envVars(mq_send(a))

EnvFairSpec == EnvSpec /\ EnvFairness

-----------------------------------------------------------------------------
(* Properties                                                              *)

\* How many of the keys D are j at most, and the k-th of them in order.
Rank(D, j) == Cardinality({i \in D : i <= j})
Key(D, k)  == CHOOSE j \in D : Rank(D, j) = k

\* The snapshots, oldest first.
InOrder(snaps) == LET D == DOMAIN snaps IN [k \in 1..Cardinality(D) |-> snaps[Key(D, k)]]

Stack == InOrder(list_snaps)

Nsap == INSTANCE SnapshotStack WITH Blank <- NoPicture, picture <- list_attr, stack <- Stack

\* push_nsap, pull_nsap and clear_nsap are the operations of a stack, although
\* the keys have gaps after a pull and start again at 0 after a clear: no
\* snapshot is overwritten and the last one pushed is the one brought back.
ImplementsStack == Nsap!Spec

\* What the environment shows of an agent is what the agent sent last, once that
\* has left the queue and the thread has seen to it: a full queue, a restart that
\* finds the queue of a crashed process, senders that come while the environment
\* starts, and a pull while the thread has a message in hand delay an update but
\* lose and reorder nothing.  (An update that met no queue or one that was being
\* unlinked is lost, and a pull puts old entries back.)
ViewCatchesUp ==
    \A a \in Agents \ replaced :
        env = "run" /\ into[a] = reading /\ sending[a] = NoSend
        /\ (\A k \in DOMAIN queues[reading] : queues[reading][k][1] # a)
        /\ (received # Nothing => received[1] # a)
        => list_attr[a] = sent[a]

\* The environment reads this queue, or will.
HasReader(q) == q = named /\ env \in {"opening", "run"}

\* attributUpdated returns: mq_send waits for ever only in a full queue whose
\* reader has gone, however many agents send and whatever they send.
SendersGetOn ==
    \A a \in Agents :
        (sending[a] # NoSend) ~> (sending[a] = NoSend \/ ~HasReader(sending[a].mq))
=============================================================================
