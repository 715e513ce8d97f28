---------------------------- MODULE PythonBridge ----------------------------
(***************************************************************************)
(* PythonBehaviour (src/src/python/PythonBehaviour.cpp) and the script it  *)
(* drives, an instance of gagent_py.Agent (src/python/gagent_py/agent.py). *)
(*                                                                         *)
(* The behaviour writes one event per line to the child's stdin and then   *)
(* waits, for 5 s at most, for one line on its stdout.  The two pipes hold *)
(* PipeCap lines here; lines are written and read whole.  An event and its *)
(* answer carry the number of the event, which exists in the model only    *)
(* and counts the events written, modulo Rounds: more than there can be on *)
(* their way.                                                              *)
(*                                                                         *)
(* The child can die, or hang in a handler, at any moment; so can the      *)
(* agent's process end.  Life-cycle requests go to the mailbox of the      *)
(* control thread, of which AgentLifecycle has the details.                *)
(***************************************************************************)
EXTENDS Integers, Sequences

CONSTANTS
    PipeCap,  \* lines a pipe holds
    Json      \* how the script writes JSON: "compact", or "spaced" as json.dumps does

ASSUME PipeCapIsPositive == PipeCap \in Nat \ {0}
ASSUME JsonIsAFormat == Json \in {"compact", "spaced"}

Rounds     == 2 * PipeCap + 2
Actions    == {"noop", "delete", "suspend", "wake", "send"}
\* A message whose text holds a control character makes a line that is not JSON.
EventKinds == {"start", "tick", "message", "unreadable", "stop"}
Events     == [kind : EventKinds, round : 0..(Rounds - 1)]
Answers    == [act : Actions, round : 0..(Rounds - 1)]
NoEvent    == [kind |-> "stop", round |-> 0]

VARIABLES
    pyPc,        \* where exthread is with the behaviour
    done_,
    py_pid_,     \* TRUE: positive
    sigpipe,     \* TRUE: SIGPIPE is ignored
    event,       \* the event action() is about to write
    child,       \* the Python process
    work,        \* the event its loop is busy with
    toPy,        \* the pipe to its stdin
    fromPy,      \* the pipe from its stdout
    process,     \* the agent's process
    runingThred, \* the suspend gate of exthread
    posted,      \* the request in the control thread's mailbox
    round,       \* the event written last, while its answer is awaited; else the next one
    late         \* the answers to earlier events that have not come

bridgeVars == <<pyPc, done_, py_pid_, sigpipe, event, round, late>>
childVars  == <<child, work>>
agentVars  == <<process, runingThred, posted>>
pythonVars == <<bridgeVars, childVars, toPy, fromPy, agentVars>>

PythonTypeOK ==
    /\ pyPc \in {"onStart", "gate", "write", "recv", "end", "over"}
    /\ done_ \in BOOLEAN /\ py_pid_ \in BOOLEAN /\ sigpipe \in BOOLEAN
    /\ event \in Events /\ work \in Events
    /\ child \in {"none", "idle", "busy", "hung", "exited"}
    /\ toPy \in Seq(Events) /\ Len(toPy) <= PipeCap
    /\ fromPy \in Seq(Answers) /\ Len(fromPy) <= PipeCap
    /\ process \in {"up", "exited", "killed"}
    /\ runingThred \in BOOLEAN
    /\ posted \in {"none", "suspend", "wake"}
    /\ round \in 0..(Rounds - 1) /\ late \in 0..(Rounds - 1)

PythonInit ==
    /\ pyPc = "onStart"
    /\ done_ = FALSE
    /\ py_pid_ = FALSE
    /\ sigpipe = FALSE
    /\ event = NoEvent
    /\ child = "none"
    /\ work = NoEvent
    /\ toPy = <<>>
    /\ fromPy = <<>>
    /\ process = "up"
    /\ runingThred = TRUE
    /\ posted = "none"
    /\ round = 0
    /\ late = 0

Up         == process = "up"
ChildRuns  == child \in {"idle", "busy", "hung"}
Advance(r) == (r + 1) % Rounds
Retreat(r) == IF r = 0 THEN Rounds - 1 ELSE r - 1

-----------------------------------------------------------------------------
(* The behaviour                                                           *)

\* waitpid(WNOHANG) reaps a child that has exited, and the pid is forgotten.
python_alive == py_pid_ /\ ChildRuns

\* Mutant of OnStart: SIGPIPE keeps its default action.
OnStartDefaultSignals ==
    /\ Up /\ pyPc = "onStart"
    /\ py_pid_' = TRUE /\ child' = "idle"
    /\ pyPc' = "write"
    /\ event' = [kind |-> "start", round |-> round]
    /\ UNCHANGED <<done_, sigpipe, round, late, work, toPy, fromPy, agentVars>>

\* onStart(): spawn() makes the pipes and forks, and the start event is next.
OnStart ==
    /\ Up /\ pyPc = "onStart"
    /\ sigpipe' = TRUE
    /\ py_pid_' = TRUE /\ child' = "idle"
    /\ pyPc' = "write"
    /\ event' = [kind |-> "start", round |-> round]
    /\ UNCHANGED <<done_, round, late, work, toPy, fromPy, agentVars>>

\* pipe() or fork() fails.
SpawnFails ==
    /\ Up /\ pyPc = "onStart"
    /\ sigpipe' = TRUE
    /\ done_' = TRUE
    /\ pyPc' = "gate"
    /\ UNCHANGED <<py_pid_, event, round, late, childVars, toPy, fromPy, agentVars>>

\* exthread passes its gate and calls action(): the child is looked at, then
\* receive() waits tick_ms for a message.
Action ==
    /\ Up /\ pyPc = "gate" /\ runingThred
    /\ IF ~done_ /\ python_alive
       THEN /\ \E k \in {"tick", "message", "unreadable"} :
                  event' = [kind |-> k, round |-> round]
            /\ pyPc' = "write"
            /\ UNCHANGED <<done_, py_pid_>>
       ELSE /\ done_' = TRUE
            /\ py_pid_' = (done_ /\ py_pid_)
            /\ pyPc' = "end"
            /\ UNCHANGED event
    /\ UNCHANGED <<sigpipe, round, late, childVars, toPy, fromPy, agentVars>>

\* onStart() or action() returns; exthread tests done() after action() only.
Return(done) ==
    /\ pyPc' = IF done /\ event.kind # "start" THEN "end" ELSE "gate"
    /\ event' = NoEvent

\* send_event: write() waits while the pipe is full.
SendEvent ==
    /\ Up /\ pyPc = "write" /\ ChildRuns /\ Len(toPy) < PipeCap
    /\ toPy' = Append(toPy, event)
    /\ pyPc' = "recv"
    /\ UNCHANGED <<done_, py_pid_, sigpipe, event, round, late, childVars, fromPy, agentVars>>

\* send_event: nobody reads the pipe any more.
SendBroken ==
    /\ Up /\ pyPc = "write" /\ ~ChildRuns
    /\ IF sigpipe
       THEN done_' = TRUE /\ Return(TRUE) /\ UNCHANGED process
       ELSE process' = "killed" /\ UNCHANGED <<done_, pyPc, event>>
    /\ UNCHANGED <<py_pid_, sigpipe, round, late, childVars, toPy, fromPy,
                   runingThred, posted>>

\* send_event: a signal interrupts write() while it waits for room.  The event is
\* lost, and what the behaviour waits for next is the answer to an earlier one.
SendInterrupted ==
    /\ Up /\ pyPc = "write" /\ ChildRuns /\ Len(toPy) = PipeCap
    /\ pyPc' = "recv"
    /\ round' = Retreat(round) /\ late' = Retreat(late)
    /\ UNCHANGED <<done_, py_pid_, sigpipe, event, childVars, toPy, fromPy, agentVars>>

\* Mutant of RecvTimeout: select() is called again.
RecvRetries ==
    /\ Up /\ pyPc = "recv" /\ fromPy = <<>> /\ ChildRuns
    /\ UNCHANGED pythonVars

\* recv_response: select() gives up after 5 s, or is interrupted by a signal.
RecvTimeout ==
    /\ Up /\ pyPc = "recv" /\ fromPy = <<>> /\ ChildRuns
    /\ Return(done_)
    /\ round' = Advance(round)
    /\ late' = Advance(late)
    /\ UNCHANGED <<done_, py_pid_, sigpipe, childVars, toPy, fromPy, agentVars>>

\* recv_response: end of file, the child has gone.
RecvEOF ==
    /\ Up /\ pyPc = "recv" /\ fromPy = <<>> /\ ~ChildRuns
    /\ done_' = TRUE
    /\ Return(TRUE)
    /\ UNCHANGED <<py_pid_, sigpipe, round, late, childVars, toPy, fromPy, agentVars>>

\* json_get_str(line, "action") looks for the key, a colon and a quote with
\* nothing between them; an action it does not find is a noop.
Parsed(answer) == IF Json = "compact" THEN answer.act ELSE "noop"

\* Mutant of Execute: "delete" is not handled.
ExecuteNoDelete(act) ==
    /\ posted' = IF act \in {"suspend", "wake"} THEN act ELSE posted
    /\ UNCHANGED done_

\* execute(): a "send" leaves through the transport and changes nothing here;
\* "delete" ends the behaviour, not the agent.
Execute(act) ==
    /\ done_' = (done_ \/ act = "delete")
    /\ posted' = IF act \in {"suspend", "wake"} THEN act ELSE posted

\* Mutant of RecvLine: what has piled up is skipped.
RecvLast ==
    /\ Up /\ pyPc = "recv" /\ fromPy # <<>>
    /\ fromPy' = <<>>
    /\ Execute(Parsed(fromPy[Len(fromPy)]))
    /\ Return(done_')
    /\ round' = Advance(round)
    /\ UNCHANGED <<py_pid_, sigpipe, late, childVars, toPy, process, runingThred>>

\* recv_response: one line is read, and executed.
RecvLine ==
    /\ Up /\ pyPc = "recv" /\ fromPy # <<>>
    /\ fromPy' = Tail(fromPy)
    /\ Execute(Parsed(Head(fromPy)))
    /\ Return(done_')
    /\ round' = Advance(round)
    /\ UNCHANGED <<py_pid_, sigpipe, late, childVars, toPy, process, runingThred>>

\* done() is true: exthread calls onEnd().  Its stop event never leaves, for
\* send_event does nothing once done_ is set.
OnEnd ==
    /\ Up /\ pyPc = "end"
    /\ pyPc' = "over"
    /\ py_pid_' = python_alive
    /\ UNCHANGED <<done_, sigpipe, event, round, late, childVars, toPy, fromPy, agentVars>>

BehaviourStep ==
    \/ OnStart \/ SpawnFails \/ Action \/ SendEvent \/ SendBroken
    \/ RecvTimeout \/ RecvEOF \/ RecvLine \/ OnEnd

-----------------------------------------------------------------------------
(* The script: gagent_py.Agent.run                                         *)

ChildReads ==
    /\ child = "idle" /\ toPy # <<>>
    /\ work' = Head(toPy)
    /\ toPy' = Tail(toPy)
    /\ child' = "busy"
    /\ UNCHANGED <<bridgeVars, fromPy, agentVars>>

\* What a handler may answer; a line that is not JSON gets a noop at once.
MayAnswer(e) == IF e.kind = "unreadable" THEN {"noop"} ELSE Actions

\* _respond: the handler has returned.  If nobody reads stdout any more the
\* script ends with an exception.
ChildAnswers ==
    /\ child = "busy"
    /\ \/ /\ Up /\ Len(fromPy) < PipeCap
          /\ \E a \in MayAnswer(work) :
                fromPy' = Append(fromPy, [act |-> a, round |-> work.round])
          /\ child' = "idle"
       \/ /\ ~Up
          /\ child' = "exited"
          /\ UNCHANGED fromPy
    /\ work' = NoEvent
    /\ UNCHANGED <<bridgeVars, toPy, agentVars>>

\* Mutant of ChildEnds: the loop survives the end of its input.
ChildSpins ==
    /\ child = "idle" /\ toPy = <<>> /\ ~Up
    /\ UNCHANGED pythonVars

\* End of stdin: every copy of the pipe's writing end is closed.
ChildEnds ==
    /\ child = "idle" /\ toPy = <<>> /\ ~Up
    /\ child' = "exited"
    /\ UNCHANGED <<bridgeVars, work, toPy, fromPy, agentVars>>

ChildStep == ChildReads \/ ChildAnswers \/ ChildEnds

\* The interpreter dies, or was never started (execl fails).
ChildCrash ==
    /\ ChildRuns
    /\ child' = "exited"
    /\ UNCHANGED <<bridgeVars, work, toPy, fromPy, agentVars>>

\* A handler does not return.
ChildHangs ==
    /\ child = "busy"
    /\ child' = "hung"
    /\ UNCHANGED <<bridgeVars, work, toPy, fromPy, agentVars>>

-----------------------------------------------------------------------------
(* The rest of the agent                                                   *)

\* A request from another behaviour or, by signal, from another process.
Post ==
    /\ Up
    /\ \E r \in {"suspend", "wake"} : posted' = r
    /\ UNCHANGED <<bridgeVars, childVars, toPy, fromPy, process, runingThred>>

\* The control thread acts upon the mailbox.
ControlTakes ==
    /\ Up /\ posted # "none"
    /\ runingThred' = (posted = "wake")
    /\ posted' = "none"
    /\ UNCHANGED <<bridgeVars, childVars, toPy, fromPy, process>>

\* _exit, for whatever reason; the kernel closes the pipes.
Exit ==
    /\ Up
    /\ process' = "exited"
    /\ UNCHANGED <<bridgeVars, childVars, toPy, fromPy, runingThred, posted>>

PythonNext ==
    \/ BehaviourStep \/ ChildStep
    \/ SendInterrupted \/ ChildCrash \/ ChildHangs \/ Post \/ ControlTakes \/ Exit

PythonSpec == PythonInit /\ [][PythonNext]_pythonVars

\* The threads of the agent are scheduled, and a script whose handlers return
\* goes on.  Nobody has to post a request, and nothing has to fail.
PythonFairness == WF_pythonVars(BehaviourStep) /\ WF_pythonVars(ControlTakes) /\ WF_pythonVars(ChildStep)

PythonFairSpec == PythonSpec /\ PythonFairness

-----------------------------------------------------------------------------
(* Properties                                                              *)

\* "One event, one action" (python_agent.rst): the line that recv_response would
\* execute now answers the event that was written as many events ago as there
\* were timeouts, less the events that were never written because a signal came
\* while write() waited.  Without a timeout it answers the current event; after
\* one, every later action is one event late, but no answer is lost or executed
\* twice.
AnswersAreInStep ==
    pyPc = "recv" /\ fromPy # <<>> =>
        (Head(fromPy).round + late) % Rounds = round

\* python_agent.rst, "Robustesse": the death of the child, before, between or
\* during a write, a read or a wait, ends the behaviour and never the agent's
\* process, unless the agent is suspended or exits by itself.
DeadChildEndsBehaviour ==
    (child = "exited") ~> (pyPc = "over" \/ ~runingThred \/ process = "exited")

\* A script that hangs or is slow costs rounds, but action() returns: the
\* behaviour waits for ever only for room in a full pipe.
SlowChildIsSurvived ==
    (Up /\ pyPc \in {"write", "recv"}) ~>
        (pyPc = "gate" \/ pyPc = "end" \/ ~Up \/ (pyPc = "write" /\ Len(toPy) = PipeCap))

\* The script does not outlive the agent, whatever was in the pipes: unless a
\* handler hangs it ends.  Nothing else ends it, for the destructor that would
\* kill it never runs.
ChildEndsWithAgent ==
    (~Up) ~> (child \in {"none", "hung", "exited"})

\* gagent_py.Agent.delete: a script that answers "delete" has its behaviour
\* ended.  It holds for a script that writes compact JSON; json.dumps puts a
\* space after the colon, and then no action is ever recognised.
DeleteIsObeyed ==
    (\E i \in DOMAIN fromPy : fromPy[i].act = "delete") ~>
        (done_ \/ ~Up \/ ~runingThred \/ child \in {"hung", "exited"})
=============================================================================
