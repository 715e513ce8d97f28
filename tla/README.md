# gAgent in TLA+

A verification project for gAgent, a C++ multi-agent platform (agents as forked
processes, AMS and DF directories, ACL messages over ZeroMQ, FIPA protocols, a
shared environment). Modules are translated from the source under `src/`;
`PROJECT.json` names, for every definition, the lines it stands for.

Run from this directory:

    tlc -workers 2 -config Agent.cfg MCAgentLifecycle           # any run
    tlapm AgentLifecycleProofs.tla                              # any proof module

## 1. Inventory

| Component | Code | State | Operations | Interacts with |
|---|---|---|---|---|
| Agent process | `src/src/core/Agent.cpp` | `agentStatus`, the mailbox `action_to_do`, `runingThred`, the behaviour threads | `_init`, `exthread`, `control_Thread`, the signal listener, `doAction` | AMS and DF by request, other processes by signal |
| Behaviours | `core/Behaviour.*` | timers, children, FSM state | `onStart`, `action`, `done`, `onEnd` | run by `exthread` |
| AgentFactory | `core/AgentFactory.cpp` | table of constructors, the migration server's socket | ARRIVE: make the agent, answer, start it | a departing Agent, AMS |
| AgentCore | `core/AgentCore.cpp` | none of its own | start agents and the environment (fork), kill the process group | Agent, Environment |
| AMS | `platform/ams` | `registry_` | REGISTER, DEREGISTER, LOOKUP, LIST, SETSTATE, REGISTER_ENDPOINT, slave requests | agents, managers, DF, SlaveRegistry |
| DF | `platform/df` | `services_` | REGISTER, DEREGISTER, SEARCH | agents, watchdog |
| SlaveRegistry | `platform/SlaveRegistry.cpp` | `slaves_` with heartbeat times | register, heartbeat, deregister, watchdog | AMS, DF |
| Platform process | `platform/main.cpp` | mode, heartbeat thread, control server | start, stop, heartbeats, KILL/SUSPEND/WAKE | master AMS |
| Agent manager | `platform/manager` | none between commands | list, search, kill, suspend, wake | AMS, DF, signals |
| ACL transport | `messaging/AclMQ.hpp`, `ZmqTransport.hpp` | PullCache and PushCache of each process | bind, send, receive, unlink, flush | AMS for endpoints, `fork()` |
| Contract net | `protocols/ContractNet.hpp` | state, counters, deadlines | initiator, participant | transport |
| Request, Subscribe | `protocols/Request.hpp`, `SubscribeNotify.hpp` | state, subscribers | initiator, participant | transport |
| Environment | `src/src/env/Environnement.cpp` | `list_attr`, `list_snaps`, `nsap_seq_`, the queue `/envqueuemsg` | start, stop, read the queue, push, pull, clear | agents by a POSIX queue |
| Python bridge | `src/src/python`, `src/python/gagent_py` | `done_`, `py_pid_`, two pipes, the child | `onStart`, `action`, `onEnd`; the script's event loop | run by `exthread`; transport, life-cycle requests |

Hard behaviours, and what has to be right about them:

* **Agent process.** Five kinds of threads share a one-slot mailbox and a flag
  under two mutexes and two condition variables; the control thread keeps the
  mailbox's mutex during a migration's network exchange; a deletion runs on
  whatever thread asked for it, without a lock. Correct means: the last request
  wins, no wake-up is lost, a DELETE signal always ends the process, a natural
  end runs every hook and leaves nothing behind in the directory.
* **AMS, DF, managers.** Requests name agents, not processes; processes die with
  requests in flight; LOOKUP is a read, a test and an erase in three steps; a
  manager's command is a LOOKUP, a signal and a SETSTATE. Correct means: a live,
  accepted agent is the one its name leads to, refused ones are not, the state
  shown is true, the dead disappear.
* **Master and slaves.** Machines crash and come back, heartbeats are late, a
  caller gives up while its handler goes on, and the watchdog works on a list it
  made under a lock it no longer holds. Correct means: the dead are purged from
  both directories, the living are not confused with their former lives.
* **Contract net.** Competing calls, several behaviours on one queue, lost and
  late messages, deadlines. Correct means: tasks are performed only by those they
  were awarded to, at most once; counters of messages count participants; everyone
  finishes.
* **Composite behaviours.** A child ends in its own round, a state of an FSM is
  entered again, `done()` of a OneShot is true from the start. Correct means: every
  child gets `onStart()`, then `action()` at least once, then `onEnd()` once; the
  composite ends when its kind says so, and not before.
* **Request and subscribe.** One conversation id for all requests of a name, one
  queue for all behaviours of a name, lost messages, `notify()` from another thread.
  Correct means: an answer goes astray only where a timeout explains it, an AGREE
  comes before its notifications, a CANCEL is final, nobody waits for ever.
* **Environment.** A bounded queue between agents and the picture, which outlives a
  crash and is unlinked by a stop with senders in it, and snapshot keys that get gaps
  and start again. Correct means: a stack, a picture that is what the agents sent, and
  no agent that waits for a reader that is there.
* **Migration and remote commands.** Two machines and the master, with a timeout on
  every exchange: an answer is given up while the server goes on, OK is written before
  the copy is started, both copies use one name, and a manager acts on a record that
  was true when it looked. Correct means: the agent is never lost, copies have an
  explanation, the AMS says what the agent does.
* **Python bridge.** A child that is slow, hangs or dies, and pipes that hold what was
  not read. Correct means: an answer belongs to a known event, a dead child ends the
  behaviour and not the agent, nothing waits for ever.
* **Transport.** Caches that are inherited by `fork()` and never refreshed, endpoints
  that move, socket files left by the dead. Correct means: a process uses its own
  sockets, and what the AMS hands out and what is cached lead to the receiver.

## 2. Modules

| Module | Models | Proofs | Instance |
|---|---|---|---|
| `AgentLifecycle` | one agent process | `AgentLifecycleProofs` | `MCAgentLifecycle` |
| `AMS`, `DF` | the registries' operations, as operators on their value | through the users | |
| `LocalPlatform` | `AMS` + `DF` + agent processes + managers, local mode | `LocalPlatformProofs` | `MCLocalPlatform` |
| `Cluster` | `AMS` + `DF` + SlaveRegistry + slave machines and their agents, master mode | `ClusterProofs` | `MCCluster` |
| `TaskAward` | what a contract net promises (abstract) | refined by `ContractNet` | |
| `ContractNet` | initiators and participants over a lossy transport | `ContractNetProofs` | `MCContractNet` |
| `BehaviourContract` | what a behaviour may expect of whoever runs it (abstract) | refined by `Behaviours` | |
| `Behaviours` | a composite, its children and its thread | `BehavioursProofs` | `MCBehaviours` |
| `AgentQueues` | queues that lose messages and keep the order of each sender | through the users | |
| `Request`, `Subscribe` | the two protocols, each on `AgentQueues` | `SharedQueueProofs` | |
| `SharedQueue` | `Request` + `Subscribe` in the same agents | `SharedQueueProofs` | `MCSharedQueue` |
| `SnapshotStack` | what NSAP promises (abstract) | refined by `Environment` | |
| `Environment` | the environment's process, the attribute queue, the NSAP snapshots | `AgentLifecycleProofs` | `MCEnvironment` |
| `PythonBridge` | a Python behaviour, its two pipes and its script | `BehavioursProofs` | `MCPythonBridge` |
| `Migration` | `AMS` + `DF` + the copies of an agent + migration servers | `MigrationProofs` | through `RemoteControl` |
| `RemoteControl` | `Migration` + the manager + the control servers | `MigrationProofs` | `MCMigration` |
| `Transport` | the socket caches of processes that fork, and what they reach | `TransportProofs` | `MCTransport` |

Definitions keep the names of the code where TLA+ allows it. Definitions whose
comment starts with "Mutant of" are not part of any specification: each is a
plausible bug in the definition that follows it, and shows that a property
notices it.

### AgentLifecycle

The state after `fork()` and after `_init` has detached the two service threads.
`mainPc`, `ctlPc`, `beh[b]` and `handling` say where the main thread, the control
thread, each behaviour thread and the signal listener are. Each section under
`mtxInterThred` is one step, because it neither blocks nor calls out. `mtx` is
held by the control thread for its whole switch, which is several steps for
AGENT_TRANSIT (connect and exchange, deregister from the AMS, from the DF, exit);
`MtxFree` says when another thread can post. The life-cycle codes keep their
numbers, because `control_Thread` compares the mailbox with 3. Conditions without a
predicate can wake spuriously. Signals that arrive before `signal_set.add` kill the
process; later ones are counted per signal and handled in any order, as asio does.
A behaviour that wakes spuriously
at the gate tests `runingThred` in the same critical section, as `wait` with a predicate
does, and sleeps on if it is false (`SpuriousWake`). What users write (`action()`, the
requests they make in it, DF registrations and binds) is any of the possibilities. A
request signal is sent by any other process. The platform answers for the whole life of
the process: what a call that times out leaves behind is in `Migration` and `Cluster`.

### AMS, DF, LocalPlatform

An operation on `registry_` or `services_` is an operator from the old value to the
new; each is one critical section. `LocalPlatform` puts handlers around them. A call
is in `requests` from when it is sent until its handler runs; the caller waits
(`phase[p]` is the call's name) and may be killed meanwhile, in which case the call is still
handled. LOOKUP is `LookupReads` under the lock, then `LookupDrops` or
`LookupReplies`. A command of the manager goes on with `SendSignal` and `SetState`.
A pid is never reused. What a signal does inside the agent is `AgentLifecycle`'s
subject; here the set `suspended` records what the last signal asked for.
`services_` is a vector that may hold duplicates; the operations do not tell them
apart, so it is a set.

### Cluster

Seen from the master. A machine has two addresses: `Peer`, the one its connections come
from, under which REGISTER_SLAVE purges and registers it, and `Ip`, which HEARTBEAT,
DEREGISTER_SLAVE and its agents' records carry. They are one (`Plain`) unless the platform
was started with `--ip`. `slaves`, `silent` and the watchdog's list are sets of addresses,
as in the code. The 15 s timeout is the set `silent`: an address that no platform process
announces gets into it sooner or later (`FallSilent`), one that is announced at most
`MaxSilences` times (`HeartbeatGap`).

REGISTER_SLAVE and DEREGISTER_SLAVE touch two registries with two locks and are two steps
(`Join`/`Joined`, `Leave`/`Left`); the slave may give up after 3 s (`PlatformDies`,
`GivesUp`) with the handler between them. The platform process may end alone at any moment
(`PlatformDies`), and its agents, which talk to the master themselves, live on; or the whole
machine fails (`MachineCrash`). Agents start whenever there is a `/tmp/gagent.cfg` (`cfg`),
which is written after REGISTER_SLAVE was answered and removed by a stop only. The watchdog
is scan, then for each address pick, AMS, DF, erase.

The pid of an agent is modelled by the number of REGISTER_SLAVEs of its machine that came
before it. Requests of agents are one step here; their life in flight is in `LocalPlatform`,
and their timeouts are in `Migration`. A machine does not start again before the handler of
its earlier request has returned (a start takes longer than a critical section).

### ContractNet and TaskAward

One action per branch of `action()`. The network is a set of messages that may lose
any of them and delivers in any order; `QueueOf` lets several initiators share one
queue, as two behaviours of one agent do, and `ReceiveForeign` drops the other's
message as the code does. `selectProposals`, `prepareProposal` and `executeTask` are
any result the user code can give. A deadline may pass at any time, which covers every
timing. `TaskAward` has no messages: participants offer, an initiator awards once and
only to those who offered, a participant performs only what it was awarded, and at most
one task. `ContractNet` implements it with `offered <- conv`, `awarded <- accepted` and
`performed <- executed`.

### Behaviours and BehaviourContract

One composite of any kind over children of any type, from `setup()` to the end of
`exthread`. A step is one callback of a child with the bookkeeping around it; `pc`
says where in the composite's `action()` the thread is, and `index`, `ended`, `state`
and `finished` are the members of the classes. A Waker has a timer that counts down;
what `done()` of a user's behaviour and `exitValue()` return is any of the
possibilities, exit values being within `ExitValues`. The FSM's tables are constants,
with an unregistered target, a self-loop, a default and a transition of a last state
among them. `life` is a history variable, and is all that `BehaviourContract` knows:
each child may be started when it is new or over, act when it was started, and end
when it has acted. The suspend gate in `exthread` is `AgentLifecycle`'s subject.

### AgentQueues, Request, Subscribe, SharedQueue

A link is a sender and a receiver, and keeps the order of what it delivers (one
ZeroMQ socket pair); `Sent` may lose the message, and a receiver takes from any of its
links. `Request` has the requests of one name, which share a `conv_id_`; messages
carry the number of their request so that properties can speak of it, and no guard
reads it. In `Subscribe` the publisher's `action()` is two steps where it sends and
then changes `subscribers_` (`work` is what it still has to do), since `notify()` may
come between them. A step of `notify` is one INFORM; its loop over `subscribers_` is
several of them, with entries and erasures in between. `SharedQueue` runs both: agent `x` of the instance has requests and
a subscription under one name, and each drops what it takes of the other's, as the
code does.

### Environment and SnapshotStack

`attributUpdated` is `mq_open`, which finds no queue when there is no environment, and
`mq_send`, which blocks on a full queue. The environment's process starts, opens the
queue (or the one a crashed process left), takes a message from it (`mq_timedreceive`,
`received`) and puts it into `list_attr` (`readDataFromQueueMsg`) in two steps, and on a stop
may do so once more before it unlinks the queue. Queues are numbered, because one that is
unlinked lives on for those who have it open. The NSAP operations work on a map from
sequence numbers to pictures. `SnapshotStack` has a picture and a sequence of pictures,
and `Environment` implements it when the map is read in the order of its keys (`Stack`):
picture `j` of the stack is that of the key that `j` keys do not exceed, itself included
(`Rank`, `Key`).

### PythonBridge

`pyPc` is where `exthread` is with the behaviour: at the gate, about to write an event,
waiting for the answer. The pipes are sequences of whole lines. `select()` may give up
whenever there is nothing to read, and a signal may interrupt a `write()` that waits for
room, which loses the event while the behaviour goes on to wait for an answer
(`SendInterrupted`). The child's loop reads, works and answers; it may crash or hang. `SIGPIPE` is part of the state, since ignoring it is what turns the death
of the child into an error of `write()`. Events and answers carry the number of the
event, which no guard reads. The mailbox and the suspend gate are reduced to what an
action of the script can set (`posted`, `runingThred`). How the script writes JSON is the
constant `Json`: the hand-written parser recognises an action only without a space after
the colon.

### Migration and RemoteControl

`phase[p]` is what a process of the agent does: register, run, wait for the answer to its
ARRIVE (`transit`), deregister from AMS and DF. Connections wait in the `backlog` of a
single-threaded server, also after the client has given up, and `Accept` answers OK
before `Arrive` starts the copy, as the code does. A call to the master is in `requests`
until it is handled; the caller may time out. `RemoteControl` adds one manager: LOOKUP,
the order to the machine that LOOKUP named, its answer or the timeout, SETSTATE by name;
and the control server, which answers OK whatever `sigqueue` returned. The agent's own
`doSuspend()`, `doWait()`, `doWake()` and `doActivate()`, and the signals its parent sends for
them, set `runingThred` without a SETSTATE (`SelfPosts`), and so does a migration that fails
(`ResumeStep`). Two history variables say when the record cannot be trusted: `disturbed` are
the processes that one of the causes named at `RemoteStateIsTruthful` has put out of step with
the AMS, and `clean` says that none of them has happened during the command under way. A
command that ends clean takes its process out of `disturbed` again.

### Transport

One name, and the processes of one machine. `pull` and `push` are the entries of the two
caches with the process that made the socket; `fork()` copies both, and `pullPid` and
`pushPid` are the `pid_` members that undo it. In a cluster `PullCache::get` tries ports
in order, some of which other programs have, and the AMS hands out the endpoint; locally
it unlinks the socket file and binds anew. ZeroMQ is external: a PUSH socket is linked to
whoever listens at its endpoint, and linked again when that process is gone. One process
receives at a time.

## 3. Runs

Times are with two workers.

| Run | Instance | Distinct states | Checks |
|---|---|---|---|
| `Agent` | 2 behaviours, 2 requests, fair | 597 k, 2½ min | `LastRequestWins`, `NoLostWakeup`, `NaturalExitIsClean`, `DeleteTerminates`, `RequestIsTaken`, `SuspendQuiets` |
| `LocalDistinct` | 2 processes, 2 names, 1 manager, 3 commands | 268 k, 5 s | `LiveStaysListed`, `StateIsTruthful` |
| `LocalReused` | 2 processes with one name, 1 manager, 1 command, fair | 61 k, 15 s | `OnlyAcceptedAreListed`, `DeadAreForgotten` |
| `Cluster` | 2 machines (one with `--ip`), 2 starts and 1 start, 1 agent, 1 gap, fair | 483 k, 1¾ min | `RejoinPurgesAMS`, `DeadSlaveIsForgotten`, `KnownDeadIsPurged` |
| `ContractNetAwards` | 2 initiators on one queue, 2 participants, fair | 116 k, 25 s | `ResultsAreComplete`, `ImplementsTaskAward`, `EveryoneFinishes` |
| `EnvSnapshots` | 2 agents (one without an id), 2 values, queue of 2, 3 snapshots, 2 starts, fair | 824 k, 2 min | `ViewCatchesUp`, `ImplementsStack`, `SendersGetOn` |
| `CompositeBehaviours` | 3 children of any type, 4 kinds of composites, fair | 151 k, 10 s | `OneAtATime`, `EndIsDeserved`, `ImplementsContract`, `CompositeEnds` |
| `SharedQueues` | 2 requests and 1 subscription of one name, 1 more subscriber, 1 INFORM, fair | 220 k, 1½ min | `WrongAnswerMeansTimeout`, `InformAfterAgree`, `RequestsEnd`, `CancelIsFinal`, `SubscribersMoveOn` |
| `PythonBridge` | pipes of 2 lines, compact JSON, fair | 832 k, 1½ min | `AnswersAreInStep`, `DeadChildEndsBehaviour`, `SlowChildIsSurvived`, `ChildEndsWithAgent`, `DeleteIsObeyed` |
| `Migration` | 3 processes, 2 machines (one knows the type), 2 moves, 2 commands, 1 fault, 1 call | 4.1 M, 1¼ min | `AgentIsNeverLost`, `CopiesMeanTimeouts`, `RemoteStateIsTruthful` |
| `Transport` | 3 processes, 2 receivers, 2 senders, 2 ports, local and cluster, fair | 480 k, 90 s | `OwnSocketsOnly`, `AnnouncedIsBound`, `SendersFindReceiver` |

One more run, `PythonJson`, ends in a counterexample: see Findings. The type invariant
of every system is proved, so no run spends time on it.

`CHECK_DEADLOCK FALSE` is in the configurations of all modules but `LocalPlatform`,
because a process ends, machines may stay off once `MaxJoins` is used up, a protocol
finishes, a behaviour ends, and an environment may stay away.

What the passing runs show:

* `LastRequestWins`: the mailbox overwrites requests, yet when the control thread
  sleeps the behaviours are gated as the last posted request asked, also after a
  failed migration and after spurious wake-ups. The exception is AGENT_ACTIVE left
  in the mailbox (section 5, Also seen).
* `NoLostWakeup`: the test in `exthread` and the `notify_all` leave no window.
* `NaturalExitIsClean`: an exit by the main thread comes after every `onEnd()` and
  `takeDown()`, and with the agent out of both directories: no behaviour thread is left
  that could advertise or bind after the deregistration.
* `DeleteTerminates`: also while the listener waits for the mutex that a migration
  holds, and while every behaviour is suspended.
* `SuspendQuiets`: with several behaviours too, each of which sleeps on when it wakes for
  nothing.
* `LiveStaysListed` holds when no two processes use one name, whatever crashes,
  purges and late requests others leave behind. With a reused name it fails (section 5).
* `StateIsTruthful` is for one manager and agents that do not bind.
* `OnlyAcceptedAreListed`: a duplicate that was refused is never what the name
  leads to, unless it binds, which overwrites.
* `DeadAreForgotten`: also a record or service that appears after its owner's
  death, because REGISTER was still in flight.
* `RejoinPurgesAMS`: whatever the platform process, its agents and the watchdog did, what the
  AMS lists of a machine that came back are processes that registered since, or that outlived
  the platform process and have bound again since (`rebound`), which is their right; a ghost of
  the earlier life is none of them. Machines with `--ip` are excepted (section 5).
* `DeadSlaveIsForgotten`, `KnownDeadIsPurged`: the watchdog gets to every slave that
  stays away, of either kind, and purges AMS and DF for those without `--ip` that the registry
  knew at their failure, however reconnections and rounds of the watchdog interleave. What the
  registry has erased before, because heartbeats were late, is not covered (section 5).
* `ImplementsTaskAward`, `ResultsAreComplete`: late proposals
  reach an initiator that already counts results, and competing calls reach a
  participant that already waits for a decision; neither confuses them.
* `ImplementsContract`, `OneAtATime`, `EndIsDeserved`: a OneShot child is run, in all
  composites; a child that ended is left alone while others go on; a state that an FSM
  returns to, or stays in by a self-loop, is started again; nothing ends early.
* `CompositeEnds`: OneShot and Waker children bring every composite to its end, ANY
  also if the other children never end.
* `WrongAnswerMeansTimeout`: with one `conv_id_` for all requests, an answer can end
  a later request than its own, but only after a request up to its own has timed out,
  and no answer is used twice.
* `InformAfterAgree`: the publisher sends the AGREE before it enters the subscriber,
  so no INFORM of `notify()` can be ahead of it, where the subscriber would drop it.
* `CancelIsFinal`, `RequestsEnd`, `SubscribersMoveOn`: whatever the other behaviour on
  the queue takes away.
* `ImplementsStack`: gaps after a pull and the restart at 0 after a clear overwrite
  nothing.
* `ViewCatchesUp`, `SendersGetOn`: an update is late but not lost or overtaken, through a
  full queue, a snapshot pulled while it is in the thread's hands, a crash of the environment
  and a restart that finds the old queue; a sender
  gets on as long as its queue has a reader, whatever the messages say.
* `AnswersAreInStep`: nobody drains the pipe, so after a timeout every answer is that of
  an earlier event; the property says that the lag is exactly the number of timeouts, less
  the events a signal kept from being written, so without one an event gets its own answer,
  and no answer is lost or used twice.
* `DeadChildEndsBehaviour`, `SlowChildIsSurvived`, `ChildEndsWithAgent`: `SIG_IGN`, the
  test of the child, EPIPE and end-of-file between them cover every moment the child can
  die in; a timeout covers a child that hangs, unless the pipe to it is full; and the end
  of its input ends the script, since no destructor kills it.
* `AgentIsNeverLost`: the original leaves only on an OK, and a server that says OK has
  the agent. The one way to lose it is a server that fails between OK and `init()`.
* `CopiesMeanTimeouts`: more than one copy runs only after an answer was given up, one
  more for each.
* `RemoteStateIsTruthful`: the state in the AMS is what the agent's `runingThred` says, but
  after five causes: the answer to an order was lost; SETSTATE met another copy than the order;
  the agent, its parent or a failed migration set `runingThred`; a suspended agent was
  registered anew; two commands crossed at one process. The first three are what the code is
  exposed to, and make the record wrong; what the property shows is that nothing else does, and
  that the next command none of them crosses puts it right.
* `OwnSocketsOnly`: the `pid_` tests catch every path on which a child could use a socket
  of its parent.
* `AnnouncedIsBound`: also when the first ports are taken and when the receiver came back.
* `SendersFindReceiver`: though a PUSH socket is never looked up again, it finds a receiver
  that restarts on the machine: the port is a function of the name, and the socket file
  is unlinked before it is bound.

### Bounds, and why they are enough

* `MaxRequests`: two requests are one and another that overwrites it or arrives while
  the control thread is busy with it. Two behaviours wake and act by turns; a third would be
  in the place of one of them.
* `MaxCommands`, two processes: the races need one LOOKUP in progress and one
  process that replaces another; StateIsTruthful needs a suspend followed by a wake,
  and one more.
* `MaxJoins`: a machine, its end in any way, and its return. A second machine, with two
  addresses and one start, makes the watchdog's list longer than one. No two machines share
  an address. `RejoinPurgesAMS` is proved for any number, and any addresses.
* `MaxSilences`: one gap of a live slave suffices for the watchdog to erase it.
* Three children: one that has ended, one at work and one to come, in any order. The
  types and the Wakers' timers (up to `MaxTimer` = 2) are all combinations, so children
  end in the same and in different rounds.
* `SharedQueue`: two requests, so that a late answer meets a successor (`MaxRequests`);
  one INFORM of `notify()` (`MaxNotifies`) at any time against two subscriptions, one of
  them on the queue of the requests. With two the run passes too, in twice the time; the
  theorems about `InformAfterAgree` and `CancelIsFinal` are for any number.
* `MaxMsg`: 10 in the code, 2 here, which is a full queue with two messages of two
  agents or of one. `MaxSeq`: three keys give a gap, a reuse of the stack's top and
  a restart. `MaxStarts`: an environment and its successor.
* `PipeCap`: two lines let an answer pile up behind another, and fill a pipe.
* `Migration`: three processes are the original, a copy, and a copy of either; two moves
  (`MaxMoves`) go there and back, or twice while the first is pending; `MaxFaults` = 1 is
  one timeout, crash or server failure at any point, `MaxCalls` = 1 a bind, a service
  registration or a life-cycle call of the agent, `MaxCommands` = 2 a suspend and a wake.
* `Transport`: a receiver and its successor, a sender that was a receiver's parent and one
  that was not; of two ports any may be taken.

The theorems of section 4 hold for every value of the constants.

### Fairness

* `AgentLifecycle`: every thread of the process is scheduled, `action()` returns and
  the socket timeouts end a migration's exchange (weak fairness of each thread). A
  handler that waits for `mtx` gets it if `mtx` is free again and again (strong
  fairness of `SignalPosts`): the control thread sleeps in `cv.wait`, and lets go of
  the mutex, whenever the mailbox is empty. No request has to be made and no wait
  has to wake spuriously.
* `LocalPlatform`: the servers handle what they accepted, a manager finishes its
  command, and LIST and SEARCH recur. The last two are assumptions on use: the code
  purges only when asked.
* `Cluster`: the watchdog's loop runs, handlers finish, time passes for an address
  that nobody announces. Nothing makes a machine return, fail or be on time.
* `ContractNet`: every behaviour's thread runs, and since each wait has a deadline
  (`receive` with a timeout), a behaviour that waits goes on. Delivery is not fair.
* `Behaviours`: the thread runs and the children's callbacks return (`WF(Run)`).
* `Environment`: the environment's reader thread runs, and the kernel serves senders that
  wait for room in turn (strong fairness of each `mq_send`). No process has to start,
  and none is kept from stopping or crashing.
* `PythonBridge`: the behaviour's and the control thread run, `select()` times out, and a
  script that is not hung goes on. A script may hang or die, nobody has to post, and no
  signal has to interrupt a `write()`.
* `Transport`: a call that was begun ends, ZeroMQ links a socket to a listener, a receive
  loop calls `acl_receive` again. `Migration` has no liveness property.
* `SharedQueue`: every behaviour's thread runs. An initiator's wait always can time
  out; the publisher and the server take what has arrived. Nobody has to subscribe,
  cancel or notify, and nothing has to be delivered.

## 4. Proofs

All by TLAPS, for every value of the constants, under the assumptions that the modules
name and TLC evaluates on every instance. Most say that constants have their types.
These say more:

* `ThreadsAreDistinct`, `NoneIsNoValue`, `NoRecordIsNone` and the like: a value that
  stands for nothing is none of the real ones.
* `EndpointsDiffer` (`Transport`): the ports that `bindTcp` tries are different numbers.
* `RolesApart` (`SharedQueue`): the server of the requests and the publisher are agents of
  their own. The requester and the subscribers share names in any way, so one agent may
  have the queue of several protocols, as behaviours of one agent do.
* `ParticipantsAreFinite` (`ContractNet`): counters count them.
* `PipeCapIsPositive` (`PythonBridge`): a pipe holds a line at least.
* `NamesAreUnique` and `OneManager` are hypotheses of two theorems of `LocalPlatform`, and
  no assumptions of the model: without them the properties fail, in ways section 5 lists.

| Theorem | Module | Argument |
|---|---|---|
| `TypeCorrect`, `EnvTypeCorrect`, `PythonTypeCorrect` | every proof module | the type invariant, or where that is not inductive `TypeInv`, `EnvTypeInv`; one step per action |
| `LastRequestWinsAlways` | `AgentLifecycleProofs` | `MailboxInv`: an empty mailbox means `runingThred = wanted`, a full one holds a request that asks for `wanted`, and the control thread never sleeps on a request above 3 |
| `NoLostWakeupAlways` | `AgentLifecycleProofs` | inductive with the types: whoever sets the flag wakes all in the same critical section |
| `NaturalExitIsCleanAlways` | `AgentLifecycleProofs` | `ExitInv`: from `takeDown` on every behaviour is over, so nobody registers again, and the deletion on the main thread has got as far as `deleting[Main]` says |
| `ImplementsStackAlways` | `AgentLifecycleProofs` | `StackInv`: keys are numbers below `nsap_seq`, and each rank up to their number has one key. A push adds a key above all others, so every other rank stays and the new picture is last; a pull takes the highest away |
| `ViewCatchesUpAlways` | `AgentLifecycleProofs` | `ViewInv`, on `EnvTypeInv`: the last update of an agent in the queue it sent to last is what it sent last, and if the environment reads that queue and no update is left in it, its thread has it in hand or `list_attr` has it, unless a pull or a restart replaced the entry |
| `OnlyAcceptedAreListedAlways` | `LocalPlatformProofs` | `RequestsInv` (a process that waits has its request in flight, once) and `RecordsInv` (a record is of a process the AMS accepted, or that bound, or that no longer works) |
| `LiveStaysListedAlways` | `LocalPlatformProofs` | assumes `NamesAreUnique`: under a name only its own process's requests are in flight, so a working agent has no DEREGISTER pending and LOOKUP never holds a dead copy of it |
| `StateIsTruthfulAlways` | `LocalPlatformProofs` | assumes `NamesAreUnique` and `OneManager`. `KnownInv`: nobody is suspended before the AMS has known it. `TruthInv`: between the signal and SETSTATE it is the command, not the record, that says what the agent was told |
| `RejoinPurgesAMSAlways` | `ClusterProofs` | `RejoinInv`: a record carries the announced address of its machine, so the purge of an equal peer address takes all of them away, and until the next one only processes that are new or that bind (`rebound`) add any |
| `ImplementsTaskAwardAlways` | `ContractNetProofs` | `BindingInv`: a participant is bound to one initiator at most, every proposal under way or kept is of a participant bound to its initiator, and an acceptance under way was awarded. With it each action is a step of `TaskAward` or a stutter |
| `ResultsAreCompleteAlways` | `ContractNetProofs` | `CountInv`: a result under way is the only one of its participant, who was accepted and has not been counted; the rest is arithmetic of cardinalities |
| `ImplementsContractAlways`, `OneAtATimeAlways`, `EndIsDeservedAlways` | `BehavioursProofs` | `CompositeInv`, a part for each kind: where `index`, `ended` and `state` stand is what `life` says of each child. The list never holds a child twice, whatever `setup()` adds and removes |
| `AnswersAreInStepAlways` | `BehavioursProofs` | `PipesInv`: what is in the pipe from the script, in its hands and in the pipe to it belongs to consecutive events, and there are as many of them as answers are late, one more while the behaviour waits. So the lag is bounded by the pipes, and numbers modulo `Rounds` are not mistaken for one another |
| `ChildKillsNobody` | `BehavioursProofs` | the safety half of `DeadChildEndsBehaviour`. `SignalInv`: SIGPIPE is ignored before anything is written, so a child's death never kills the agent's process |
| `InformAfterAgreeAlways` | `SharedQueueProofs` | `AgreeInv`: a SUBSCRIBE under way is alone in its subscription, hence the AGREE is the first message of it that the publisher sends, and nobody is in `subscribers_` whose AGREE is still to be sent |
| `WrongAnswerMeansTimeoutAlways` | `SharedQueueProofs` | `AnswerInv`: the answers taken, under way and being made and the requests under way are one increasing sequence of numbers. What ends a later request than its own was overtaken, and only timeouts overtake |
| `CancelledForGood` | `SharedQueueProofs` | the safety half of `CancelIsFinal`. `Out`, on `AgreeInv`: once the publisher has the CANCEL, nothing that could enter the subscription again is under way, and no step puts such a thing under way |
| `AgentIsNeverLostAlways` | `MigrationProofs` | `CopyInv` (attempts have different numbers, agents about to start have not started) and `LostInv`: a process that was answered OK no longer counts as the agent, its successor does |
| `CopiesMeanTimeoutsAlways` | `MigrationProofs` | `CountInv`: processes that hold the agent, and attempts in a backlog whose client has gone, together are at most `1 + abandoned`. Giving up moves one from the first to the second |
| `RemoteStateIsTruthfulAlways` | `MigrationProofs` | `TruthInv`: a process that is neither disturbed nor worked on is in step with its record and has nothing under way; and while a command is clean, what is under way to its process is the command's own order or signal, or has been handled, so that SETSTATE writes what the process obeys |
| `OwnSocketsOnlyAlways` | `TransportProofs` | `CacheInv`: a cache whose `pid_` is right holds what its process made, and `pid_` is never that of a process not yet forked |
| `AnnouncedIsBoundAlways` | `TransportProofs` | `BoundInv`: between the two halves of `acl_bind` the socket is there, between those of `acl_unlink` there is none, and the record shows the socket of its announcer until then |

Why strengthening is needed: each property speaks of one moment (the control thread
asleep, the process gone, a machine back, a result counted, a line taken from a queue),
and what makes it true then was established steps earlier by another thread, or process,
or by a message that is still under way; the invariants say what holds in between. TLC
checked each of them on the instance of its run before it was proved.

The lemmas are about what the models are built from, and are cited by name: what the
operations of AMS and DF leave of a record, what `Sent` and a receiver leave of a queue,
which update of an agent is the last one on a queue that gains or loses a message, the
ranks of numbers in a set that gains or loses its largest (which take the place of an
induction over the sorted sequence), that `bindTcp` returns an endpoint of its caller,
cardinalities of sets that gain or lose one member, sequences without duplicates under
`Append` and `RemoveAt`.

`AgentLifecycleProofs` has the proofs about `Environment` too, because agents are what it
hears of, and `BehavioursProofs` those about `PythonBridge`, whose behaviour is one of
those that `Behaviours` runs. Their variables are different ones: each theorem names the
specification it is about (`Spec`, `EnvSpec`, `PythonSpec`).

Model-checked only: the liveness properties, since fairness and ENABLED are outside the
prover. The runs check them on the instances of section 3. Of two of them,
`DeadChildEndsBehaviour` and `CancelIsFinal`, the table has the half that is safety.

## 5. Findings

`PythonJson` ends in a counterexample against the documentation; `PROJECT.json` quotes it.
`json_get_str` looks for the key, a colon and a quote with nothing in between, and
`agent.py` writes its answers with `json.dumps`, which puts a space after the colon. Every
action of a `gagent_py` script, `delete()` among them, is taken as a noop.

Also seen, in behaviours these models have, without a run of their own:

* `control_Thread` waits whenever `action_to_do <= 3`, and AGENT_ACTIVE is 3
  (`Agent.cpp:181`). A `doActivate()` posted while it is not in `cv.wait` is never acted
  upon, and a suspended agent stays suspended; `pages/agent_lifecycle.rst:181` says
  otherwise. `LastRequestWins` excepts it.
* A heartbeat of a slave the watchdog has erased is ignored and the slave does not
  register again (`SlaveRegistry.cpp:24`, `main.cpp:309`); when it dies, nothing is purged,
  against `tutorials/platform_multihost.rst:180`. `KnownDeadIsPurged` is about slaves the
  registry knows.
* A slave started with `--ip`, as `tutorials/platform_multihost.rst:73` advises for machines
  with several interfaces, is registered under the address its connections come from
  (`AMS.cpp:120-122`) but sends heartbeats and registers agents with the other
  (`main.cpp:278-313`). If they differ, its heartbeats are ignored and the watchdog erases it
  after 15 s although it is up; neither its return nor its death purges its agents; and
  DEREGISTER_SLAVE leaves it in the registry (`SlaveRegistry.cpp:31`).
* An agent that outlives its platform process stays registered, and is purged when a platform
  process starts again on its machine (`AMS.cpp:120`), though it is alive; only a bind brings it
  back. It may then crash with nobody to notice before the next purge.
* The "stop" event of `onEnd` never leaves, because `send_event` does nothing once `done_`
  is set (`PythonBehaviour.cpp:167`), so `on_stop()` is not called (`pages/python_agent.rst:170`).
  A control character in a message makes a line that is not JSON, which the script answers
  with a noop (`:256`). A script that reads nothing more blocks `write()` for ever once the
  pipe is full (`:169`); a signal that interrupts it there loses the event (`:174`). `delete` ends the behaviour, not the agent (`:215`).
* A migrated copy's REGISTER is refused while the original is still listed, and the
  original's DEREGISTER, by name, then leaves the copy unlisted, or removes the copy's record
  and services if they came first (`Agent.cpp:280-283`).
* OK is written before `init()` (`AgentFactory.cpp:98`): a fork that fails loses the agent.
  The line of ARRIVE is split at spaces, so attributes with spaces are cut off (`:66`).
* Behaviours are not suspended during a migration, and a failed one resumes an agent that
  was suspended while the AMS still shows "suspended" (`Agent.cpp:262-270`). An agent that
  suspends or wakes itself does not tell the AMS either (`Agent.cpp:365-375`).
* The control server answers OK whatever `sigqueue` returned (`main.cpp:112`).
* In a cluster a sender that resolves a name before it is announced caches the `ipc`
  fallback for ever (`AclMQ.hpp:215`), and one whose receiver moves to another machine or
  port keeps the old endpoint (`:195`). `PullCache::remove` unlinks the socket file whoever
  owns it by then, and has no `pid_` test (`:149`).
* An agent that waits in `mq_send` when the environment stops or crashes waits for ever if
  nobody takes over the queue; an update that finds no queue is lost (`Agent.cpp:553-560`).
  Two behaviours of one agent that update attributes at once can send them in the wrong
  order.
* LOOKUP copies a record, tests its pid and deregisters the name, whoever holds it by
  then (`AMS.cpp:50-54`): a restarted agent that was answered OK disappears. TLC shows
  it if `LiveStaysListed` is checked with the constants of `LocalReused.cfg`, even
  with `Binders = {}` and `Overlap = FALSE` (the second process starts after the first).
* REGISTER_SLAVE purges the AMS but not the DF (`AMS.cpp:120`). A machine that crashes
  and returns before the timeout leaves its dead services behind.
* `doDelete()` from a behaviour or a signal ends the process without `onEnd()` and
  `takeDown()` (`Agent.cpp:484`); `tutorials/lifecycle.rst:157` says they are called.
* A DELETE signal handled while the main thread registers leaves the exited agent in
  the AMS until the next LIST or LOOKUP (`Agent.cpp:93`, `Agent.cpp:467`).
* Two managers can interleave signal and SETSTATE so that the AMS shows the wrong
  state (`Manager.cpp:254-270`), and REGISTER_ENDPOINT resets the state of a suspended
  agent to "active" (`AMS.cpp:106`).
* The watchdog erases a slave that reconnected after the scan (`SlaveRegistry.cpp:76`).
* DEREGISTER_SLAVE does not purge the DF.
* `push_nsap` returns `nsap_seq_ + 1`, which is not the size of the stack once a
  pull has been made (`Environnement.cpp:123`, `:134`).
* A subscriber in WAIT_CANCEL_ACK takes one message: an INFORM that was under way
  stands in for the publisher's last one (`SubscribeNotify.hpp:203`).
* A subscriber that gives up on its AGREE, or whose CANCEL is lost, stays in
  `subscribers_` for ever (`SubscribeNotify.hpp:147`, `:186`); two subscriptions under one
  name overwrite each other (`:319`), and a CANCEL of either erases the entry (`:337`).
* ParallelBehaviour with ANY never calls `onEnd()` of the children that had not ended
  (`Behaviour.cpp:296`); a Waker that is a state an FSM returns to wakes at once, since
  its timer stays at 0 (`Behaviour.cpp:141`); an FSM without a first state never ends
  (`Behaviour.cpp:356`).

## 6. Not modelled, and abstractions

* In `Behaviours` children are added and removed before the start, as `setup()` does.
  While a ParallelBehaviour runs, a removal would shift `ended_`, which goes by
  position, and an added child would get no `onStart()`. A child is added at most once.
* In `Request` INFORM stands for the four performatives that end a request, and an
  AGREE that `prepareAgree` does not want is one that is lost. The participants of
  `Request` and `Subscribe` each have a name of their own, so messages of a kind they
  would drop do not reach them.
* In `Cluster` a HEARTBEAT is handled when it is sent, and a port that changes is not modelled;
  in `RemoteControl` a request of the agent itself is posted and taken in one step, what a
  request does when another overwrites it being `AgentLifecycle`'s subject, and AGENT_TRANSIT is
  `Depart`.
* In `Subscribe` `subscribers_` is one value: that `notify()` iterates over a map which
  `action()` may be changing on another thread is undefined in C++, and is only noted
  here. Each subscription has a conversation id of its own.
* Parsing and formatting (ACL text, JSON, configuration, arguments), logging, the
  monitor, the viewer, value classes: data without control.
* In `ContractNet` each conversation has an id of its own. The code takes the clock
  modulo 100000, so two conversations of one name can coincide.
* In `Environment` messages fit into the queue (the code's limit is 1000 bytes), and one
  thread of an agent updates its attributes. The JSON server (`serve`), `make_agent` and
  `EnvClient` copy `list_attr` for display under the same lock, and are left out.
* In `PythonBridge` lines are written and read whole; a script that stops in the middle of
  a line would block `read()`, and a signal can cut off a line longer than a pipe takes at
  once. The `send` action hands a message to the transport.
* In `Migration` attributes are left out, and an agent moves to other machines than its own.
  Signals that arrive before the listener is ready are `AgentLifecycle`'s subject.
* In `Transport` there is one name and one receiver at a time; two would take turns at the
  socket file. The `GAGENT_ENDPOINT_*` variables and the re-creation of the ZeroMQ context
  after `fork()` (`AclMQ.cpp:16`), whose effect on inherited sockets libzmq leaves undefined,
  are left out.
* `AgentCore` installs signal handlers that kill the process group, which is the crash of
  the other modules, and starts the environment (`start` of `Environment`).

## 7. Plan

Built: all components of section 1 but those it leaves out, their compositions and the
abstract specifications; proofs about ten systems, which state every safety invariant and
action property of their runs and all three refinements. What is left is modelling:

1. Children that change while a composite runs: `ended_` goes by position, so this needs
   children that end in the middle of a list that shifts.
2. Conversation ids of `ContractNet` that coincide: the clock modulo 100000 as a counter.
