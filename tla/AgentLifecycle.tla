--------------------------- MODULE AgentLifecycle ---------------------------
(***************************************************************************)
(* The process of one gAgent agent, after fork(): the main thread that     *)
(* runs Agent::_init, the detached control thread, the detached signal     *)
(* listener and one thread per behaviour (src/src/core/Agent.cpp).         *)
(*                                                                         *)
(* The threads share action_to_do (a one-slot mailbox under mtx, condition *)
(* cv) and runingThred (under mtxInterThred, condition cvInterThred).      *)
(* mtxInterThred is only held for sections that neither block nor call     *)
(* out, so each such section is one step.  mtx is held by the control      *)
(* thread across its whole switch, a migration's network exchange          *)
(* included: MtxFree says when another thread can take it.                 *)
(***************************************************************************)
EXTENDS Integers, FiniteSets

CONSTANTS
    Behaviours,   \* what setup() adds to behaviourList
    Main,         \* the thread that runs _init
    Listener,     \* listener_extern_signals_Thread
    MaxRequests   \* bound on the life-cycle requests issued, from anywhere

ASSUME ThreadsAreDistinct ==
    /\ Main \notin Behaviours /\ Listener \notin Behaviours /\ Main # Listener
    /\ Main \notin {"none", "control"}

ASSUME MaxRequestsIsNat == MaxRequests \in Nat

\* The life-cycle codes keep their values: control_Thread compares them to 3.
AGENT_UNKNOWN   == 0
AGENT_INITED    == 2
AGENT_ACTIVE    == 3
AGENT_SUSPENDED == 4
AGENT_TRANSIT   == 5
AGENT_WAITING   == 6
AGENT_DELETED   == 7
AGENT_WAKING    == 8

\* The requests that go through the mailbox, and all those a signal carries.
Posted   == {AGENT_ACTIVE, AGENT_SUSPENDED, AGENT_TRANSIT, AGENT_WAITING, AGENT_WAKING}
Requests == Posted \cup {AGENT_DELETED}

\* The threads that can run the local AGENT_DELETED branch of doAction.
Threads == Behaviours \cup {Main, Listener}

VARIABLES
    process,       \* "up", "exited" by _exit(0), or "killed" by a signal's default action
    agentStatus,   \* Agent::agentStatus
    action_to_do,  \* the mailbox
    runingThred,   \* may behaviours run?
    mainPc,        \* where _init is
    ctlPc,         \* where control_Thread is
    handling,      \* the request signal_handler is executing, or AGENT_UNKNOWN
    listening,     \* signal_set.add done for all six signals
    signals,       \* [Requests -> Nat], queued and not yet handled
    beh,           \* where each exthread is
    deleting,      \* how far each thread is in the local AGENT_DELETED branch
    platformUp,    \* AMS and DF answer, for the whole life of the process, or never
    ams, df,       \* is the agent listed by the AMS? by the DF?
    issued,        \* requests issued so far (bound)
    wanted,        \* history: what the last posted request asks of runingThred
    tookDown,      \* history: takeDown() was called
    exitBy         \* history: the thread that called _exit, or "none"

vars == <<process, agentStatus, action_to_do, runingThred, mainPc, ctlPc, handling,
          listening, signals, beh, deleting, platformUp, ams, df, issued, wanted,
          tookDown, exitBy>>

\* What the main thread and the environment change, grouped for UNCHANGED.
mailbox == <<action_to_do, wanted>>
sigVars == <<listening, signals, handling>>
history == <<tookDown, exitBy>>
listing == <<ams, df>>

CtlLocked == {"switch", "transit", "leaveAMS", "leaveDF", "leave"}
CtlPcs    == {"top", "waiting", "notified"} \cup CtlLocked
MainPcs   == {"register", "setup", "spawn", "join", "takeDown", "doDelete"}
BehPcs    == {"none", "onStart", "gate", "asleep", "action", "onEnd", "over"}
DelPcs    == {"no", "AMS", "DF", "exit"}

TypeOK ==
    /\ process \in {"up", "exited", "killed"}
    /\ agentStatus \in {AGENT_INITED, AGENT_ACTIVE}
    /\ action_to_do \in Posted \cup {AGENT_UNKNOWN}
    /\ runingThred \in BOOLEAN
    /\ mainPc \in MainPcs
    /\ ctlPc \in CtlPcs
    /\ handling \in Requests \cup {AGENT_UNKNOWN}
    /\ listening \in BOOLEAN
    /\ signals \in [Requests -> Nat]
    /\ beh \in [Behaviours -> BehPcs]
    /\ deleting \in [Threads -> DelPcs]
    /\ platformUp \in BOOLEAN
    /\ ams \in BOOLEAN
    /\ df \in BOOLEAN
    /\ issued \in 0..MaxRequests
    /\ wanted \in BOOLEAN
    /\ tookDown \in BOOLEAN
    /\ exitBy \in Threads \cup {"none", "control"}

Up      == process = "up"
MtxFree == ctlPc \notin CtlLocked

\* _init has set action_to_do and detached the two service threads.
Init ==
    /\ process = "up"
    /\ agentStatus = AGENT_INITED
    /\ action_to_do = AGENT_UNKNOWN
    /\ runingThred = TRUE
    /\ mainPc = "register"
    /\ ctlPc = "top"
    /\ handling = AGENT_UNKNOWN
    /\ listening = FALSE
    /\ signals = [r \in Requests |-> 0]
    /\ beh = [b \in Behaviours |-> "none"]
    /\ deleting = [t \in Threads |-> "no"]
    /\ platformUp \in BOOLEAN
    /\ ams = FALSE
    /\ df = FALSE
    /\ issued = 0
    /\ wanted = TRUE
    /\ tookDown = FALSE
    /\ exitBy = "none"

-----------------------------------------------------------------------------
(* doAction, called inside the agent's process                             *)

\* What a posted request asks of runingThred; a migration that fails resumes
\* the behaviours, one that succeeds leaves no process.
Resumes(r) == r \notin {AGENT_SUSPENDED, AGENT_WAITING}

\* Under mtx: overwrite the mailbox, cv.notify_all.
Post(r) ==
    /\ MtxFree
    /\ action_to_do' = r
    /\ wanted' = Resumes(r)
    /\ ctlPc' = IF ctlPc = "waiting" THEN "notified" ELSE ctlPc

\* The local AGENT_DELETED branch takes no lock: AMS, DF, flush, _exit(0).  Its
\* DEREGISTERs are answered or there is no platform: one that a master answers
\* too late is the subject of Migration.
DeleteAMS(t) ==
    /\ Up /\ deleting[t] = "AMS"
    /\ ams' = (ams /\ ~platformUp)
    /\ deleting' = [deleting EXCEPT ![t] = "DF"]
    /\ UNCHANGED <<process, agentStatus, runingThred, mainPc, ctlPc, beh, df, issued,
                   mailbox, sigVars, history, platformUp>>

DeleteDF(t) ==
    /\ Up /\ deleting[t] = "DF"
    /\ df' = (df /\ ~platformUp)
    /\ deleting' = [deleting EXCEPT ![t] = "exit"]
    /\ UNCHANGED <<process, agentStatus, runingThred, mainPc, ctlPc, beh, ams, issued,
                   mailbox, sigVars, history, platformUp>>

DeleteExit(t) ==
    /\ Up /\ deleting[t] = "exit"
    /\ process' = "exited"
    /\ exitBy' = t
    /\ UNCHANGED <<agentStatus, runingThred, mainPc, ctlPc, beh, deleting, issued,
                   tookDown, listing, mailbox, sigVars, platformUp>>

Delete(t) == DeleteAMS(t) \/ DeleteDF(t) \/ DeleteExit(t)

-----------------------------------------------------------------------------
(* The main thread: _init                                                  *)

\* registerAgent fails when the AMS is down or the name is taken: the agent
\* runs on, unlisted.
Register ==
    /\ Up /\ mainPc = "register"
    /\ mainPc' = "setup"
    /\ \E ok \in BOOLEAN :
          /\ ok => platformUp
          /\ ams' = ok
          /\ agentStatus' = IF ok THEN AGENT_ACTIVE ELSE agentStatus
    /\ UNCHANGED <<process, runingThred, ctlPc, beh, deleting, df, issued, mailbox,
                   sigVars, history, platformUp>>

Setup ==
    /\ Up /\ mainPc = "setup"
    /\ mainPc' = "spawn"
    /\ UNCHANGED <<process, agentStatus, runingThred, ctlPc, beh, deleting, issued,
                   listing, mailbox, sigVars, history, platformUp>>

Spawn(b) ==
    /\ Up /\ mainPc = "spawn" /\ beh[b] = "none"
    /\ beh' = [beh EXCEPT ![b] = "onStart"]
    /\ UNCHANGED <<process, agentStatus, runingThred, mainPc, ctlPc, deleting, issued,
                   listing, mailbox, sigVars, history, platformUp>>

AllSpawned ==
    /\ Up /\ mainPc = "spawn" /\ \A b \in Behaviours : beh[b] # "none"
    /\ mainPc' = "join"
    /\ UNCHANGED <<process, agentStatus, runingThred, ctlPc, beh, deleting, issued,
                   listing, mailbox, sigVars, history, platformUp>>

\* Mutant of Join: the main thread does not wait for the behaviours.
JoinForgotten ==
    /\ Up /\ mainPc = "join"
    /\ mainPc' = "takeDown"
    /\ UNCHANGED <<process, agentStatus, runingThred, ctlPc, beh, deleting, issued,
                   listing, mailbox, sigVars, history, platformUp>>

Join ==
    /\ Up /\ mainPc = "join" /\ \A b \in Behaviours : beh[b] = "over"
    /\ mainPc' = "takeDown"
    /\ UNCHANGED <<process, agentStatus, runingThred, ctlPc, beh, deleting, issued,
                   listing, mailbox, sigVars, history, platformUp>>

\* takeDown(), then doDelete() on the main thread.
TakeDown ==
    /\ Up /\ mainPc = "takeDown"
    /\ mainPc' = "doDelete"
    /\ tookDown' = TRUE
    /\ deleting' = [deleting EXCEPT ![Main] = "AMS"]
    /\ UNCHANGED <<process, agentStatus, runingThred, ctlPc, beh, issued, exitBy,
                   listing, mailbox, sigVars, platformUp>>

MainStep == Register \/ Setup \/ AllSpawned \/ Join \/ TakeDown \/ \E b \in Behaviours : Spawn(b)

-----------------------------------------------------------------------------
(* One thread per behaviour: exthread                                      *)

\* A behaviour thread inside doDelete never returns to its loop.
Runs(b, pc) == Up /\ beh[b] = pc /\ deleting[b] = "no"

Goto(b, pc) ==
    /\ beh' = [beh EXCEPT ![b] = pc]
    /\ UNCHANGED <<process, agentStatus, runingThred, mainPc, ctlPc, deleting, issued,
                   listing, mailbox, sigVars, history, platformUp>>

OnStart(b) == Runs(b, "onStart") /\ Goto(b, "gate")

\* Mutant of Gate: the flag is not tested.
GateOpen(b) == Runs(b, "gate") /\ Goto(b, "action")

\* Under mtxInterThred: test runingThred, and go to sleep if it is false.
Gate(b) ==
    /\ Runs(b, "gate")
    /\ Goto(b, IF runingThred THEN "action" ELSE "asleep")

\* cvInterThred.wait may also return without a notification: it tests the flag
\* again, and sleeps again, without letting go of the lock.
SpuriousWake(b) ==
    /\ Runs(b, "asleep")
    /\ Goto(b, IF runingThred THEN "action" ELSE "asleep")

\* action() returns; done() decides.
ActionReturns(b) == Runs(b, "action") /\ \E pc \in {"gate", "onEnd"} : Goto(b, pc)

OnEnd(b) == Runs(b, "onEnd") /\ Goto(b, "over")

\* User code in action(): announce a service to the DF.
Advertise(b) ==
    /\ Runs(b, "action") /\ platformUp
    /\ df' = TRUE
    /\ UNCHANGED <<process, agentStatus, runingThred, mainPc, ctlPc, beh, deleting, ams,
                   issued, mailbox, sigVars, history, platformUp>>

\* onStart() of the protocol behaviours, or user code: acl_bind, whose
\* REGISTER_ENDPOINT creates or overwrites the AMS record of the name.
Bind(b) ==
    /\ Runs(b, "onStart") \/ Runs(b, "action")
    /\ platformUp
    /\ ams' = TRUE
    /\ UNCHANGED <<process, agentStatus, runingThred, mainPc, ctlPc, beh, deleting, df,
                   issued, mailbox, sigVars, history, platformUp>>

\* User code in action(): doSuspend(), doWait(), doWake(), doActivate(), doMove().
BehaviourPosts(b) ==
    /\ Runs(b, "action") /\ issued < MaxRequests
    /\ \E r \in Posted : Post(r)
    /\ issued' = issued + 1
    /\ UNCHANGED <<process, agentStatus, runingThred, mainPc, beh, deleting, listing,
                   sigVars, history, platformUp>>

\* User code in action() or onEnd(): doDelete().
BehaviourDeletes(b) ==
    /\ Runs(b, "action") \/ Runs(b, "onEnd")
    /\ issued < MaxRequests
    /\ issued' = issued + 1
    /\ deleting' = [deleting EXCEPT ![b] = "AMS"]
    /\ UNCHANGED <<process, agentStatus, runingThred, mainPc, ctlPc, beh, listing,
                   mailbox, sigVars, history, platformUp>>

BehaviourStep(b) ==
    \/ OnStart(b) \/ Gate(b) \/ ActionReturns(b) \/ OnEnd(b)

BehaviourCall(b) ==
    Advertise(b) \/ Bind(b) \/ BehaviourPosts(b) \/ BehaviourDeletes(b) \/ SpuriousWake(b)

-----------------------------------------------------------------------------
(* Signals: another process's doAction, and signal_handler                 *)

\* sigqueue from the parent or the agent manager.  Until the listener has
\* called signal_set.add, the default action of the signal ends the process.
SendSignal(r) ==
    /\ Up /\ issued < MaxRequests
    /\ issued' = issued + 1
    /\ IF listening
       THEN /\ signals' = [signals EXCEPT ![r] = @ + 1]
            /\ UNCHANGED process
       ELSE /\ process' = "killed"
            /\ UNCHANGED signals
    /\ UNCHANGED <<agentStatus, runingThred, mainPc, ctlPc, beh, deleting, listening,
                   handling, listing, mailbox, history, platformUp>>

ListenerStarts ==
    /\ Up /\ ~listening
    /\ listening' = TRUE
    /\ UNCHANGED <<process, agentStatus, runingThred, mainPc, ctlPc, beh, deleting,
                   issued, signals, handling, listing, mailbox, history, platformUp>>

\* async_wait completes for one of the queued signals (asio keeps counts per
\* signal, not the order of arrival).
TakeSignal(r) ==
    /\ Up /\ handling = AGENT_UNKNOWN /\ signals[r] > 0
    /\ handling' = r
    /\ signals' = [signals EXCEPT ![r] = @ - 1]
    /\ UNCHANGED <<process, agentStatus, runingThred, mainPc, ctlPc, beh, deleting,
                   issued, listening, listing, mailbox, history, platformUp>>

\* signal_handler calls doAction in the agent's own process.
SignalPosts ==
    /\ Up /\ handling \in Posted
    /\ Post(handling)
    /\ handling' = AGENT_UNKNOWN
    /\ UNCHANGED <<process, agentStatus, runingThred, mainPc, beh, deleting, issued,
                   listening, signals, listing, history, platformUp>>

\* Mutant of SignalDeletes: a deletion goes through the mailbox, whose
\* AGENT_DELETED case does nothing.
SignalDeletePosted ==
    /\ Up /\ handling = AGENT_DELETED
    /\ Post(AGENT_DELETED)
    /\ handling' = AGENT_UNKNOWN
    /\ UNCHANGED <<process, agentStatus, runingThred, mainPc, beh, deleting, issued,
                   listening, signals, listing, history, platformUp>>

SignalDeletes ==
    /\ Up /\ handling = AGENT_DELETED /\ deleting[Listener] = "no"
    /\ deleting' = [deleting EXCEPT ![Listener] = "AMS"]
    /\ UNCHANGED <<process, agentStatus, runingThred, mainPc, ctlPc, beh, issued,
                   listing, mailbox, sigVars, history, platformUp>>

ListenerStep ==
    ListenerStarts \/ SignalPosts \/ SignalDeletes \/ \E r \in Requests : TakeSignal(r)

-----------------------------------------------------------------------------
(* control_Thread                                                          *)

ControlOnly ==
    UNCHANGED <<process, agentStatus, mainPc, deleting, issued, wanted, sigVars,
                listing, history, platformUp>>

\* Mutant of ControlTop: the threshold is off by one.
ControlTopOffByOne ==
    /\ Up /\ ctlPc = "top"
    /\ ctlPc' = IF action_to_do <= 4 THEN "waiting" ELSE "switch"
    /\ UNCHANGED <<action_to_do, runingThred, beh>>
    /\ ControlOnly

\* Lock mtx; `if (action_to_do <= 3) cv.wait(lck)`, which unlocks it again.
ControlTop ==
    /\ Up /\ ctlPc = "top"
    /\ ctlPc' = IF action_to_do <= 3 THEN "waiting" ELSE "switch"
    /\ UNCHANGED <<action_to_do, runingThred, beh>>
    /\ ControlOnly

\* cv.wait returns with mtx held, after a notification ...
ControlWakes ==
    /\ Up /\ ctlPc = "notified"
    /\ ctlPc' = "switch"
    /\ UNCHANGED <<action_to_do, runingThred, beh>>
    /\ ControlOnly

\* ... or for no reason: the wait has no predicate.
ControlSpuriousWake ==
    /\ Up /\ ctlPc = "waiting"
    /\ ctlPc' = "switch"
    /\ UNCHANGED <<action_to_do, runingThred, beh>>
    /\ ControlOnly

\* Mutant of SetRunning: without notify_all.
SetRunningNoNotify(on) ==
    /\ runingThred' = on
    /\ action_to_do' = AGENT_UNKNOWN
    /\ ctlPc' = "top"
    /\ UNCHANGED beh
    /\ ControlOnly

\* Under mtxInterThred: set the flag and notify_all; then empty the mailbox
\* and let go of mtx.
SetRunning(on) ==
    /\ runingThred' = on
    /\ beh' = [b \in Behaviours |-> IF beh[b] = "asleep" THEN "gate" ELSE beh[b]]
    /\ action_to_do' = AGENT_UNKNOWN
    /\ ctlPc' = "top"
    /\ ControlOnly

ControlRunsOrStops ==
    /\ Up /\ ctlPc = "switch"
    /\ action_to_do \in Posted \ {AGENT_TRANSIT}
    /\ SetRunning(action_to_do \in {AGENT_ACTIVE, AGENT_WAKING})

\* The default case: nothing in the mailbox.
ControlNothing ==
    /\ Up /\ ctlPc = "switch" /\ action_to_do = AGENT_UNKNOWN
    /\ ctlPc' = "top"
    /\ UNCHANGED <<action_to_do, runingThred, beh>>
    /\ ControlOnly

\* AGENT_TRANSIT without a type name: give up at once, resume the behaviours.
\* Which agents have one is left open: the step may be taken by any.
ControlTransitNoType ==
    /\ Up /\ ctlPc = "switch" /\ action_to_do = AGENT_TRANSIT
    /\ SetRunning(TRUE)

\* AGENT_TRANSIT: connect, write ARRIVE, read; mtx stays locked meanwhile.
ControlTransit ==
    /\ Up /\ ctlPc = "switch" /\ action_to_do = AGENT_TRANSIT
    /\ ctlPc' = "transit"
    /\ UNCHANGED <<action_to_do, runingThred, beh>>
    /\ ControlOnly

\* Mutant of TransitFails: the behaviours are not resumed.
TransitFailsSilently ==
    /\ Up /\ ctlPc = "transit"
    /\ action_to_do' = AGENT_UNKNOWN
    /\ ctlPc' = "top"
    /\ UNCHANGED <<runingThred, beh>>
    /\ ControlOnly

\* Refused, timed out, or an answer other than OK: resume the behaviours.
TransitFails ==
    /\ Up /\ ctlPc = "transit"
    /\ SetRunning(TRUE)

TransitOK ==
    /\ Up /\ ctlPc = "transit"
    /\ ctlPc' = "leaveAMS"
    /\ UNCHANGED <<action_to_do, runingThred, beh>>
    /\ ControlOnly

LeaveAMS ==
    /\ Up /\ ctlPc = "leaveAMS"
    /\ ctlPc' = "leaveDF"
    /\ ams' = (ams /\ ~platformUp)
    /\ UNCHANGED <<process, agentStatus, runingThred, mainPc, beh, deleting, df, issued,
                   mailbox, sigVars, history, platformUp>>

LeaveDF ==
    /\ Up /\ ctlPc = "leaveDF"
    /\ ctlPc' = "leave"
    /\ df' = (df /\ ~platformUp)
    /\ UNCHANGED <<process, agentStatus, runingThred, mainPc, beh, deleting, ams, issued,
                   mailbox, sigVars, history, platformUp>>

\* transport_->flush(); _exit(0)
Leave ==
    /\ Up /\ ctlPc = "leave"
    /\ process' = "exited"
    /\ exitBy' = "control"
    /\ UNCHANGED <<agentStatus, runingThred, mainPc, ctlPc, beh, deleting, issued,
                   tookDown, listing, mailbox, sigVars, platformUp>>

ControlStep ==
    \/ ControlTop \/ ControlWakes \/ ControlRunsOrStops \/ ControlNothing
    \/ ControlTransitNoType \/ ControlTransit \/ TransitFails \/ TransitOK
    \/ LeaveAMS \/ LeaveDF \/ Leave

-----------------------------------------------------------------------------
Next ==
    \/ MainStep
    \/ ListenerStep
    \/ ControlStep
    \/ ControlSpuriousWake
    \/ \E b \in Behaviours : BehaviourStep(b) \/ BehaviourCall(b)
    \/ \E t \in Threads : Delete(t)
    \/ \E r \in Requests : SendSignal(r)

Spec == Init /\ [][Next]_vars

\* Every thread of the process is scheduled, action() returns, and the socket
\* timeouts end a migration's exchange.  A handler that waits for mtx gets it
\* if mtx is free again and again (the control thread lets go of it in every
\* wait).  Nobody has to send a request, and no wait has to wake spuriously.
Fairness ==
    /\ WF_vars(MainStep)
    /\ WF_vars(ListenerStep)
    /\ SF_vars(SignalPosts)
    /\ WF_vars(ControlStep)
    /\ \A b \in Behaviours : WF_vars(BehaviourStep(b))
    /\ \A t \in Threads : WF_vars(Delete(t))

FairSpec == Spec /\ Fairness

-----------------------------------------------------------------------------
(* Safety                                                                  *)

\* The mailbox has one slot and requests overwrite each other, yet when the
\* control thread sleeps again runingThred is what the LAST request posted
\* asked for, whatever was overwritten, interrupted by a failed migration or
\* woken for nothing on the way.  Only doActivate() is excepted:
\* posted while the control thread is not in cv.wait, AGENT_ACTIVE = 3 is not
\* above its threshold and stays in the mailbox when it goes to sleep.
LastRequestWins ==
    ctlPc = "waiting" /\ action_to_do # AGENT_ACTIVE => (runingThred <=> wanted)

\* No behaviour thread sleeps on cvInterThred while runingThred is true: the
\* test in exthread and the notify_all of control_Thread leave no window in
\* which a resume is missed, the resume after a failed migration included.
NoLostWakeup ==
    runingThred => \A b \in Behaviours : beh[b] # "asleep"

\* When the process ends because its behaviours are done (not by doDelete()
\* from elsewhere, not by a migration), every behaviour had its onEnd(),
\* takeDown() ran, and neither the AMS nor the DF still lists the agent.
NaturalExitIsClean ==
    process = "exited" /\ exitBy = Main =>
        /\ \A b \in Behaviours : beh[b] = "over"
        /\ tookDown
        /\ ~ams /\ ~df

-----------------------------------------------------------------------------
(* Liveness                                                                *)

\* A DELETE signal that has been queued ends the process, even while the
\* listener waits for the mtx that a migration in progress holds, and even
\* when every behaviour is suspended.
DeleteTerminates ==
    (signals[AGENT_DELETED] > 0) ~> ~Up

\* Every posted request above the threshold of control_Thread is taken out of
\* the mailbox (or overwritten by a later one that is at or below it).
RequestIsTaken ==
    (action_to_do > 3) ~> (action_to_do <= 3 \/ ~Up)

\* A suspended agent falls quiet: unless it is resumed or ends, there comes a
\* time when no behaviour is at or past the gate of exthread.
SuspendQuiets ==
    ~runingThred ~>
        (runingThred \/ ~Up \/ \A b \in Behaviours : beh[b] \notin {"gate", "action"})
=============================================================================
