---------------------------- MODULE ContractNet -----------------------------
(***************************************************************************)
(* The FIPA contract-net behaviours                                        *)
(* (src/include/gagent/protocols/ContractNet.hpp): ContractNetInitiator    *)
(* and ContractNetParticipant, one action per branch of their action().    *)
(*                                                                         *)
(* A conversation is identified by its initiator: conv_id_ is built from   *)
(* the name and the clock, and two behaviours that run under one name have *)
(* different ones but receive from the same queue (QueueOf).  The          *)
(* transport may lose a message and does not order messages of different   *)
(* senders; a deadline may pass at any moment.                             *)
(***************************************************************************)
EXTENDS Integers, FiniteSets

CONSTANTS
    Initiators,
    Participants,   \* every initiator calls all of them
    QueueOf         \* the queue (my_name_) that each initiator receives from

ASSUME ParticipantsAreFinite == IsFiniteSet(Participants)

Queues == {QueueOf[i] : i \in Initiators}

VARIABLES
    istate,           \* ContractNetInitiator::state_, "over" once done_
    proposals,        \* senders of the PROPOSE messages kept
    responded,        \* responded_
    accepted,         \* accepted_
    results_pending,  \* results_pending_
    results,          \* history: senders of the results handed to the user
    pstate,           \* ContractNetParticipant::state_, "over" once done_
    conv,             \* its conv_id_, {} before the first CFP
    executed,         \* history: the conversations it ran executeTask for
    net               \* messages sent, not yet received or lost

vars == <<istate, proposals, responded, accepted, results_pending, results, pstate, conv,
          executed, net>>
iVars == <<istate, proposals, responded, accepted, results_pending, results>>
pVars == <<pstate, conv, executed>>

Answers   == {"PROPOSE", "REFUSE", "NOT_UNDERSTOOD"}
Decisions == {"ACCEPT_PROPOSAL", "REJECT_PROPOSAL"}
Outcomes  == {"INFORM", "FAILURE"}

\* A message between participant p and initiator i, in the conversation of i.
Messages == [p : Participants, i : Initiators, perf : {"CFP"} \cup Answers \cup Decisions \cup Outcomes]
ToInitiator == [p : Participants, i : Initiators, perf : Answers \cup Outcomes]
Msg(p, i, perf) == [p |-> p, i |-> i, perf |-> perf]

TypeOK ==
    /\ istate \in [Initiators -> {"SEND_CFP", "WAIT_PROPOSALS", "HANDLE_PROPOSALS",
                                  "WAIT_RESULTS", "DONE", "over"}]
    /\ proposals \in [Initiators -> SUBSET Participants]
    /\ responded \in [Initiators -> 0..Cardinality(Participants)]
    /\ accepted \in [Initiators -> SUBSET Participants]
    /\ results_pending \in [Initiators -> 0..Cardinality(Participants)]
    /\ results \in [Initiators -> SUBSET Participants]
    /\ pstate \in [Participants -> {"WAIT_CFP", "WAIT_DECISION", "over"}]
    /\ conv \in [Participants -> SUBSET Initiators]
    /\ executed \in [Participants -> SUBSET Initiators]
    /\ net \subseteq Messages

\* onStart of every behaviour has bound its queue.
Init ==
    /\ istate = [i \in Initiators |-> "SEND_CFP"]
    /\ proposals = [i \in Initiators |-> {}]
    /\ responded = [i \in Initiators |-> 0]
    /\ accepted = [i \in Initiators |-> {}]
    /\ results_pending = [i \in Initiators |-> 0]
    /\ results = [i \in Initiators |-> {}]
    /\ pstate = [p \in Participants |-> "WAIT_CFP"]
    /\ conv = [p \in Participants |-> {}]
    /\ executed = [p \in Participants |-> {}]
    /\ net = {}

-----------------------------------------------------------------------------
(* The initiator                                                           *)

SendCFP(i) ==
    /\ istate[i] = "SEND_CFP"
    /\ net' = net \cup {Msg(p, i, "CFP") : p \in Participants}
    /\ responded' = [responded EXCEPT ![i] = 0]
    /\ istate' = [istate EXCEPT ![i] = "WAIT_PROPOSALS"]
    /\ UNCHANGED <<proposals, accepted, results_pending, results, pVars>>

\* The deadline passes, or everyone has answered.
ProposalsClose(i) ==
    /\ istate[i] = "WAIT_PROPOSALS"
    /\ istate' = [istate EXCEPT ![i] = "HANDLE_PROPOSALS"]
    /\ UNCHANGED <<proposals, responded, accepted, results_pending, results, pVars, net>>

\* Initiator i takes m, a message of conversation m.i, out of its queue.
Takes(i, m) ==
    /\ m \in net \cap ToInitiator
    /\ QueueOf[m.i] = QueueOf[i]
    /\ net' = net \ {m}

\* A message of another conversation is lost to everyone.
ReceiveForeign(i, m) ==
    /\ istate[i] \in {"WAIT_PROPOSALS", "WAIT_RESULTS"}
    /\ Takes(i, m) /\ m.i # i
    /\ UNCHANGED <<iVars, pVars>>

ReceiveAnswer(i, m) ==
    /\ istate[i] = "WAIT_PROPOSALS"
    /\ responded[i] < Cardinality(Participants)
    /\ Takes(i, m) /\ m.i = i
    /\ IF m.perf \in Answers
       THEN /\ responded' = [responded EXCEPT ![i] = @ + 1]
            /\ proposals' = IF m.perf = "PROPOSE"
                            THEN [proposals EXCEPT ![i] = @ \cup {m.p}] ELSE proposals
            /\ istate' = IF responded'[i] >= Cardinality(Participants)
                         THEN [istate EXCEPT ![i] = "HANDLE_PROPOSALS"] ELSE istate
       ELSE UNCHANGED <<responded, proposals, istate>>
    /\ UNCHANGED <<accepted, results_pending, results, pVars>>

\* selectProposals chooses; every proposer kept is told.
HandleProposals(i) ==
    /\ istate[i] = "HANDLE_PROPOSALS"
    /\ \E S \in SUBSET proposals[i] :
          /\ accepted' = [accepted EXCEPT ![i] = S]
          /\ net' = net \cup {Msg(p, i, IF p \in S THEN "ACCEPT_PROPOSAL" ELSE "REJECT_PROPOSAL")
                              : p \in proposals[i]}
          /\ results_pending' = [results_pending EXCEPT ![i] = Cardinality(S)]
          /\ istate' = [istate EXCEPT ![i] = IF S = {} THEN "DONE" ELSE "WAIT_RESULTS"]
    /\ UNCHANGED <<proposals, responded, results, pVars>>

\* The result deadline passes, or nothing is pending.
ResultsClose(i) ==
    /\ istate[i] = "WAIT_RESULTS"
    /\ istate' = [istate EXCEPT ![i] = "DONE"]
    /\ UNCHANGED <<proposals, responded, accepted, results_pending, results, pVars, net>>

\* Mutant of ReceiveResult: every message counts as a result.
CountEveryMessage(i, m) ==
    /\ istate[i] = "WAIT_RESULTS" /\ results_pending[i] > 0
    /\ Takes(i, m) /\ m.i = i
    /\ results_pending' = [results_pending EXCEPT ![i] = @ - 1]
    /\ results' = IF m.perf \in Outcomes THEN [results EXCEPT ![i] = @ \cup {m.p}] ELSE results
    /\ istate' = IF results_pending'[i] <= 0 THEN [istate EXCEPT ![i] = "DONE"] ELSE istate
    /\ UNCHANGED <<proposals, responded, accepted, pVars>>

\* A late PROPOSE or REFUSE is dropped here, without an answer.
ReceiveResult(i, m) ==
    /\ istate[i] = "WAIT_RESULTS" /\ results_pending[i] > 0
    /\ Takes(i, m) /\ m.i = i
    /\ IF m.perf \in Outcomes
       THEN /\ results_pending' = [results_pending EXCEPT ![i] = @ - 1]
            /\ results' = [results EXCEPT ![i] = @ \cup {m.p}]
            /\ istate' = IF results_pending'[i] <= 0
                         THEN [istate EXCEPT ![i] = "DONE"] ELSE istate
       ELSE UNCHANGED <<results_pending, results, istate>>
    /\ UNCHANGED <<proposals, responded, accepted, pVars>>

InitiatorDone(i) ==
    /\ istate[i] = "DONE"
    /\ istate' = [istate EXCEPT ![i] = "over"]
    /\ UNCHANGED <<proposals, responded, accepted, results_pending, results, pVars, net>>

InitiatorStep(i) ==
    \/ SendCFP(i) \/ ProposalsClose(i) \/ HandleProposals(i) \/ ResultsClose(i)
    \/ InitiatorDone(i)
    \/ \E m \in net : ReceiveForeign(i, m) \/ ReceiveAnswer(i, m) \/ ReceiveResult(i, m)

-----------------------------------------------------------------------------
(* The participant                                                         *)

\* Mutant of ParticipantGivesUp: no timeout while it waits for a decision.
GivesUpBeforeCFP(p) ==
    /\ pstate[p] = "WAIT_CFP"
    /\ pstate' = [pstate EXCEPT ![p] = "over"]
    /\ UNCHANGED <<conv, executed, iVars, net>>

\* receive() times out, in either state.
ParticipantGivesUp(p) ==
    /\ pstate[p] # "over"
    /\ pstate' = [pstate EXCEPT ![p] = "over"]
    /\ UNCHANGED <<conv, executed, iVars, net>>

\* prepareProposal decides what to answer; only a refusal ends the behaviour.
ReceiveCFP(p, m) ==
    /\ pstate[p] = "WAIT_CFP"
    /\ m.p = p /\ m.perf = "CFP"
    /\ \E a \in Answers :
          /\ net' = (net \ {m}) \cup {Msg(p, m.i, a)}
          /\ IF a = "REFUSE"
             THEN /\ pstate' = [pstate EXCEPT ![p] = "over"]
                  /\ UNCHANGED conv
             ELSE /\ pstate' = [pstate EXCEPT ![p] = "WAIT_DECISION"]
                  /\ conv' = [conv EXCEPT ![p] = {m.i}]
    /\ UNCHANGED <<executed, iVars>>

\* Mutant of ReceiveDecision: the performative is not looked at.
ExecuteAnyDecision(p, m) ==
    /\ pstate[p] = "WAIT_DECISION"
    /\ m.p = p /\ m.i \in conv[p] /\ m.perf \in Decisions
    /\ executed' = [executed EXCEPT ![p] = @ \cup conv[p]]
    /\ \E o \in Outcomes : net' = (net \ {m}) \cup {Msg(p, m.i, o)}
    /\ pstate' = [pstate EXCEPT ![p] = "over"]
    /\ UNCHANGED <<conv, iVars>>

\* executeTask, and its result to the initiator; or a rejection.
ReceiveDecision(p, m) ==
    /\ pstate[p] = "WAIT_DECISION"
    /\ m.p = p /\ m.i \in conv[p] /\ m.perf \in Decisions
    /\ IF m.perf = "ACCEPT_PROPOSAL"
       THEN /\ executed' = [executed EXCEPT ![p] = @ \cup conv[p]]
            /\ \E o \in Outcomes : net' = (net \ {m}) \cup {Msg(p, m.i, o)}
       ELSE net' = net \ {m} /\ UNCHANGED executed
    /\ pstate' = [pstate EXCEPT ![p] = "over"]
    /\ UNCHANGED <<conv, iVars>>

\* Anything else that arrives is dropped: no CFP while it waits for one, or a
\* CFP of another initiator while it waits for a decision.
Expected(p, m) ==
    \/ pstate[p] = "WAIT_CFP" /\ m.perf = "CFP"
    \/ pstate[p] = "WAIT_DECISION" /\ m.i \in conv[p] /\ m.perf \in Decisions

ParticipantIgnores(p, m) ==
    /\ m.p = p /\ m \notin ToInitiator
    /\ pstate[p] # "over" /\ ~Expected(p, m)
    /\ net' = net \ {m}
    /\ UNCHANGED <<iVars, pVars>>

ParticipantStep(p) ==
    \/ ParticipantGivesUp(p)
    \/ \E m \in net : ReceiveCFP(p, m) \/ ReceiveDecision(p, m) \/ ParticipantIgnores(p, m)

-----------------------------------------------------------------------------
\* The transport loses a message (no peer, high-water mark, receiver over).
Lose(m) ==
    /\ net' = net \ {m}
    /\ UNCHANGED <<iVars, pVars>>

Next ==
    \/ \E i \in Initiators : InitiatorStep(i)
    \/ \E p \in Participants : ParticipantStep(p)
    \/ \E m \in net : Lose(m)

Spec == Init /\ [][Next]_vars

\* Each behaviour's thread runs; its deadline passes if nothing else happens.
FairSpec ==
    /\ Spec
    /\ \A i \in Initiators : WF_vars(InitiatorStep(i))
    /\ \A p \in Participants : WF_vars(ParticipantStep(p))

-----------------------------------------------------------------------------
(* Properties                                                              *)

\* The protocol implements TaskAward: each initiator awards once, only to
\* participants that proposed to it and are bound to no other, and executeTask
\* runs only for a task awarded to that participant, at most once, although
\* several calls for proposals compete for the participants and messages are
\* lost, late or taken by another behaviour.
Contract == INSTANCE TaskAward WITH offered <- conv, awarded <- accepted, performed <- executed
ImplementsTaskAward == Contract!Spec

\* responded_ and results_pending_ are counters over messages, yet they count
\* participants: an initiator that stops waiting for results because none is
\* pending has had a result from every participant it accepted, and only from
\* those.
ResultsAreComplete ==
    \A i \in Initiators :
        /\ results[i] \subseteq accepted[i]
        /\ istate[i] \in {"WAIT_RESULTS", "DONE", "over"} =>
              results_pending[i] = Cardinality(accepted[i] \ results[i])

\* Both sides always finish, whatever is lost: no one waits for the other
\* for ever.
EveryoneFinishes ==
    /\ \A i \in Initiators : <>(istate[i] = "over")
    /\ \A p \in Participants : <>(pstate[p] = "over")
=============================================================================
