------------------------- MODULE ContractNetProofs -------------------------
(***************************************************************************)
(* Machine-checked proofs about ContractNet, for any number of initiators, *)
(* participants and shared queues: the counters, and the refinement of     *)
(* TaskAward.                                                              *)
(***************************************************************************)
EXTENDS ContractNet, FiniteSetTheorems, TLAPS

-----------------------------------------------------------------------------
(* Counting participants                                                   *)

\* The size of a set of participants is a number, at most that of all.
LEMMA SizeIsBounded ==
    ASSUME NEW S \in SUBSET Participants
    PROVE  IsFiniteSet(S) /\ Cardinality(S) \in 0..Cardinality(Participants)
  BY ParticipantsAreFinite, FS_Subset, FS_CardinalityType

\* A result that was missing and comes in leaves one less to come.
LEMMA OneLessToCome ==
    ASSUME NEW S \in SUBSET Participants, NEW T \in SUBSET S, NEW p \in S \ T
    PROVE  Cardinality(S \ (T \cup {p})) = Cardinality(S \ T) - 1
  <1>1. IsFiniteSet(S \ T) /\ p \in S \ T
    <2>1. S \ T \in SUBSET Participants
      OBVIOUS
    <2>2. QED
      BY <2>1, SizeIsBounded
  <1>2. S \ (T \cup {p}) = (S \ T) \ {p}
    OBVIOUS
  <1>3. QED
    <2> DEFINE U == S \ T
    <2>1. Cardinality(U \ {p}) = Cardinality(U) - 1
      BY <1>1, FS_RemoveElement
    <2>2. QED
      BY <1>2, <2>1

-----------------------------------------------------------------------------
(* Types                                                                   *)

\* Every variable keeps its type: in particular the counters of messages,
\* responded_ and results_pending_, stay between zero and the number of
\* participants.
THEOREM TypeCorrect == Spec => []TypeOK
<1>1. Init => TypeOK
  BY SizeIsBounded DEF Init, TypeOK
<1>2. TypeOK /\ [Next]_vars => TypeOK'
  <2> SUFFICES ASSUME TypeOK, [Next]_vars PROVE TypeOK'
    OBVIOUS
  <2> USE SizeIsBounded
      DEF TypeOK, iVars, pVars, Messages, ToInitiator, Answers, Decisions, Outcomes, Msg
  <2>1. ASSUME NEW i \in Initiators, SendCFP(i) PROVE TypeOK'
    BY <2>1 DEF SendCFP
  <2>2. ASSUME NEW i \in Initiators, ProposalsClose(i) PROVE TypeOK'
    BY <2>2 DEF ProposalsClose
  <2>3. ASSUME NEW i \in Initiators, HandleProposals(i) PROVE TypeOK'
    BY <2>3 DEF HandleProposals
  <2>4. ASSUME NEW i \in Initiators, ResultsClose(i) PROVE TypeOK'
    BY <2>4 DEF ResultsClose
  <2>5. ASSUME NEW i \in Initiators, InitiatorDone(i) PROVE TypeOK'
    BY <2>5 DEF InitiatorDone
  <2>6. ASSUME NEW i \in Initiators, NEW m \in net, ReceiveForeign(i, m) PROVE TypeOK'
    BY <2>6 DEF ReceiveForeign, Takes
  <2>7. ASSUME NEW i \in Initiators, NEW m \in net, ReceiveAnswer(i, m) PROVE TypeOK'
    BY <2>7 DEF ReceiveAnswer, Takes
  <2>8. ASSUME NEW i \in Initiators, NEW m \in net, ReceiveResult(i, m) PROVE TypeOK'
    BY <2>8 DEF ReceiveResult, Takes
  <2>9. ASSUME NEW p \in Participants, ParticipantGivesUp(p) PROVE TypeOK'
    BY <2>9 DEF ParticipantGivesUp
  <2>10. ASSUME NEW p \in Participants, NEW m \in net, ReceiveCFP(p, m) PROVE TypeOK'
    BY <2>10 DEF ReceiveCFP
  <2>11. ASSUME NEW p \in Participants, NEW m \in net, ReceiveDecision(p, m) PROVE TypeOK'
    BY <2>11 DEF ReceiveDecision
  <2>12. ASSUME NEW p \in Participants, NEW m \in net, ParticipantIgnores(p, m) PROVE TypeOK'
    BY <2>12 DEF ParticipantIgnores
  <2>13. ASSUME NEW m \in net, Lose(m) PROVE TypeOK'
    BY <2>13 DEF Lose
  <2>14. CASE UNCHANGED vars
    BY <2>14 DEF vars
  <2>15. QED
    BY <2>1, <2>2, <2>3, <2>4, <2>5, <2>6, <2>7, <2>8, <2>9, <2>10, <2>11,
       <2>12, <2>13, <2>14
       DEF Next, InitiatorStep, ParticipantStep
<1>3. QED
  BY <1>1, <1>2, PTL DEF Spec

-----------------------------------------------------------------------------
(* Who is bound to whom                                                    *)

\* What the refinement needs.  A participant is bound to one initiator at most
\* and to none while it waits for a call; a proposal, under way or kept, is of
\* a participant bound to its initiator; an initiator has awarded nothing before
\* it has handled the proposals; an acceptance under way was awarded; and a
\* participant that has performed a task is over.
BindingInv ==
    /\ \A p \in Participants :
          /\ pstate[p] = "WAIT_CFP" => conv[p] = {}
          /\ \A i, j \in conv[p] : i = j
          /\ executed[p] # {} => pstate[p] = "over"
    /\ \A i \in Initiators :
          /\ \A p \in proposals[i] : i \in conv[p]
          /\ istate[i] \in {"SEND_CFP", "WAIT_PROPOSALS", "HANDLE_PROPOSALS"} => accepted[i] = {}
    /\ \A m \in net :
          /\ m.perf = "PROPOSE" => m.i \in conv[m.p]
          /\ m.perf = "ACCEPT_PROPOSAL" => m.p \in accepted[m.i]

\* BindingInv is an invariant.
LEMMA BindingInvariant == Spec => []BindingInv
<1>1. Init => BindingInv
  BY DEF Init, BindingInv
<1>2. TypeOK /\ BindingInv /\ [Next]_vars => BindingInv'
  <2> SUFFICES ASSUME TypeOK, BindingInv, [Next]_vars PROVE BindingInv'
    OBVIOUS
  <2> USE DEF TypeOK, iVars, pVars, Messages, ToInitiator, Answers, Decisions, Outcomes, Msg, BindingInv
  <2>1. ASSUME NEW i \in Initiators, SendCFP(i) PROVE BindingInv'
    BY <2>1 DEF SendCFP
  <2>2. ASSUME NEW i \in Initiators, ProposalsClose(i) PROVE BindingInv'
    BY <2>2 DEF ProposalsClose
  <2>3. ASSUME NEW i \in Initiators, HandleProposals(i) PROVE BindingInv'
    BY <2>3 DEF HandleProposals
  <2>4. ASSUME NEW i \in Initiators, ResultsClose(i) PROVE BindingInv'
    BY <2>4 DEF ResultsClose
  <2>5. ASSUME NEW i \in Initiators, InitiatorDone(i) PROVE BindingInv'
    BY <2>5 DEF InitiatorDone
  <2>6. ASSUME NEW i \in Initiators, NEW m \in net, ReceiveForeign(i, m) PROVE BindingInv'
    BY <2>6 DEF ReceiveForeign, Takes
  <2>7. ASSUME NEW i \in Initiators, NEW m \in net, ReceiveAnswer(i, m) PROVE BindingInv'
    BY <2>7 DEF ReceiveAnswer, Takes
  <2>8. ASSUME NEW i \in Initiators, NEW m \in net, ReceiveResult(i, m) PROVE BindingInv'
    BY <2>8 DEF ReceiveResult, Takes
  <2>9. ASSUME NEW p \in Participants, ParticipantGivesUp(p) PROVE BindingInv'
    BY <2>9 DEF ParticipantGivesUp
  <2>10. ASSUME NEW p \in Participants, NEW m \in net, ReceiveCFP(p, m) PROVE BindingInv'
    BY <2>10 DEF ReceiveCFP
  <2>11. ASSUME NEW p \in Participants, NEW m \in net, ReceiveDecision(p, m) PROVE BindingInv'
    BY <2>11 DEF ReceiveDecision
  <2>12. ASSUME NEW p \in Participants, NEW m \in net, ParticipantIgnores(p, m) PROVE BindingInv'
    BY <2>12 DEF ParticipantIgnores
  <2>13. ASSUME NEW m \in net, Lose(m) PROVE BindingInv'
    BY <2>13 DEF Lose
  <2>14. CASE UNCHANGED vars
    BY <2>14 DEF vars
  <2>15. QED
    BY <2>1, <2>2, <2>3, <2>4, <2>5, <2>6, <2>7, <2>8, <2>9, <2>10, <2>11,
       <2>12, <2>13, <2>14
       DEF Next, InitiatorStep, ParticipantStep
<1>3. QED
  BY <1>1, <1>2, TypeCorrect, PTL DEF Spec

-----------------------------------------------------------------------------
(* The refinement                                                          *)

\* ContractNet implements TaskAward, whatever messages are lost, late or taken
\* by another behaviour, for any number of initiators and participants: an
\* initiator awards once and to those bound to it only, and a task is performed
\* only by those it was awarded to, and one at most by each.
THEOREM ImplementsTaskAwardAlways == Spec => ImplementsTaskAward
<1>1. Init => Contract!Init
  BY DEF Init, Contract!Init
<1>2. TypeOK /\ BindingInv /\ [Next]_vars => [Contract!Next]_Contract!vars
  <2> SUFFICES ASSUME TypeOK, BindingInv, [Next]_vars
               PROVE  [Contract!Next]_Contract!vars
    OBVIOUS
  <2> USE DEF TypeOK, iVars, pVars, Messages, ToInitiator, Answers, Decisions, Outcomes, Msg, Contract!vars
  <2>1. ASSUME NEW i \in Initiators, SendCFP(i) PROVE [Contract!Next]_Contract!vars
    BY <2>1 DEF SendCFP
  <2>2. ASSUME NEW i \in Initiators, ProposalsClose(i) PROVE [Contract!Next]_Contract!vars
    BY <2>2 DEF ProposalsClose
  <2>3. ASSUME NEW i \in Initiators, HandleProposals(i) PROVE [Contract!Next]_Contract!vars
    <3>1. accepted[i] = {} /\ \A p \in proposals[i] : i \in conv[p]
      BY <2>3 DEF HandleProposals, BindingInv
    <3>2. Contract!Award(i)
      BY <2>3, <3>1 DEF HandleProposals, Contract!Award
    <3>3. QED
      BY <3>2 DEF Contract!Next
  <2>4. ASSUME NEW i \in Initiators, ResultsClose(i) PROVE [Contract!Next]_Contract!vars
    BY <2>4 DEF ResultsClose
  <2>5. ASSUME NEW i \in Initiators, InitiatorDone(i) PROVE [Contract!Next]_Contract!vars
    BY <2>5 DEF InitiatorDone
  <2>6. ASSUME NEW i \in Initiators, NEW m \in net, ReceiveForeign(i, m)
        PROVE  [Contract!Next]_Contract!vars
    BY <2>6 DEF ReceiveForeign, Takes
  <2>7. ASSUME NEW i \in Initiators, NEW m \in net, ReceiveAnswer(i, m)
        PROVE  [Contract!Next]_Contract!vars
    BY <2>7 DEF ReceiveAnswer, Takes
  <2>8. ASSUME NEW i \in Initiators, NEW m \in net, ReceiveResult(i, m)
        PROVE  [Contract!Next]_Contract!vars
    BY <2>8 DEF ReceiveResult, Takes
  <2>9. ASSUME NEW p \in Participants, ParticipantGivesUp(p) PROVE [Contract!Next]_Contract!vars
    BY <2>9 DEF ParticipantGivesUp
  <2>10. ASSUME NEW p \in Participants, NEW m \in net, ReceiveCFP(p, m)
         PROVE  [Contract!Next]_Contract!vars
    <3>1. m \in Messages /\ m.i \in Initiators /\ conv[p] = {}
      BY <2>10 DEF ReceiveCFP, BindingInv
    <3>2. CASE UNCHANGED conv
      BY <2>10, <3>2 DEF ReceiveCFP
    <3>3. CASE conv' = [conv EXCEPT ![p] = {m.i}]
      BY <2>10, <3>1, <3>3 DEF ReceiveCFP, Contract!Offer, Contract!Next
    <3>4. QED
      BY <2>10, <3>2, <3>3 DEF ReceiveCFP
  <2>11. ASSUME NEW p \in Participants, NEW m \in net, ReceiveDecision(p, m)
         PROVE  [Contract!Next]_Contract!vars
    <3>1. m \in Messages /\ m.i \in Initiators /\ m.p = p /\ executed[p] = {}
      BY <2>11 DEF ReceiveDecision, BindingInv
    <3>2. conv[p] = {m.i}
      BY <2>11, <3>1 DEF ReceiveDecision, BindingInv
    <3>3. CASE m.perf = "ACCEPT_PROPOSAL"
      <4>1. p \in accepted[m.i]
        BY <3>1, <3>3 DEF BindingInv
      <4>2. executed' = [executed EXCEPT ![p] = {m.i}]
        BY <2>11, <3>1, <3>2, <3>3 DEF ReceiveDecision
      <4>3. Contract!Perform(p, m.i)
        BY <2>11, <3>1, <4>1, <4>2 DEF ReceiveDecision, Contract!Perform
      <4>4. QED
        BY <3>1, <4>3 DEF Contract!Next
    <3>4. CASE m.perf # "ACCEPT_PROPOSAL"
      BY <2>11, <3>4 DEF ReceiveDecision
    <3>5. QED
      BY <3>3, <3>4
  <2>12. ASSUME NEW p \in Participants, NEW m \in net, ParticipantIgnores(p, m)
         PROVE  [Contract!Next]_Contract!vars
    BY <2>12 DEF ParticipantIgnores
  <2>13. ASSUME NEW m \in net, Lose(m) PROVE [Contract!Next]_Contract!vars
    BY <2>13 DEF Lose
  <2>14. CASE UNCHANGED vars
    BY <2>14 DEF vars
  <2>15. QED
    BY <2>1, <2>2, <2>3, <2>4, <2>5, <2>6, <2>7, <2>8, <2>9, <2>10, <2>11,
       <2>12, <2>13, <2>14
       DEF Next, InitiatorStep, ParticipantStep
<1>3. QED
  BY <1>1, <1>2, TypeCorrect, BindingInvariant, PTL DEF Spec, ImplementsTaskAward, Contract!Spec

-----------------------------------------------------------------------------
(* The counters                                                            *)

\* Inductive strengthening of ResultsAreComplete.  A result under way is the only
\* one of its participant for that initiator, which has accepted the participant
\* and not yet had its result; who has sent a result is over and sends no other.
CountInv ==
    /\ \A m \in net : m.perf \in Outcomes =>
          /\ m.p \in accepted[m.i] \ results[m.i] /\ pstate[m.p] = "over"
          /\ \A n \in net : n.perf \in Outcomes /\ n.p = m.p /\ n.i = m.i => n = m
    /\ \A i \in Initiators :
          /\ \A p \in results[i] : p \in accepted[i] /\ pstate[p] = "over"
          /\ istate[i] \in {"WAIT_RESULTS", "DONE", "over"} =>
                results_pending[i] = Cardinality(accepted[i] \ results[i])

\* CountInv is an invariant.
LEMMA CountInvariant == Spec => []CountInv
<1>1. Init => CountInv
  BY DEF Init, CountInv
<1>2. TypeOK /\ BindingInv /\ CountInv /\ [Next]_vars => CountInv'
  <2> SUFFICES ASSUME TypeOK, BindingInv, CountInv, [Next]_vars PROVE CountInv'
    OBVIOUS
  <2> USE DEF TypeOK, iVars, pVars, Messages, ToInitiator, Answers, Decisions, Outcomes, Msg, CountInv
  <2>1. ASSUME NEW i \in Initiators, SendCFP(i) PROVE CountInv'
    BY <2>1 DEF SendCFP
  <2>2. ASSUME NEW i \in Initiators, ProposalsClose(i) PROVE CountInv'
    BY <2>2 DEF ProposalsClose
  <2>3. ASSUME NEW i \in Initiators, HandleProposals(i) PROVE CountInv'
    <3>1. accepted[i] = {} /\ results[i] = {}
      BY <2>3 DEF HandleProposals, BindingInv
    <3>2. PICK S \in SUBSET proposals[i] :
            /\ accepted' = [accepted EXCEPT ![i] = S]
            /\ net' = net \cup {Msg(p, i, IF p \in S THEN "ACCEPT_PROPOSAL" ELSE "REJECT_PROPOSAL")
                                : p \in proposals[i]}
            /\ results_pending' = [results_pending EXCEPT ![i] = Cardinality(S)]
      BY <2>3 DEF HandleProposals
    <3>3. /\ istate[i] = "HANDLE_PROPOSALS" /\ UNCHANGED <<results, pstate>>
          /\ \A j \in Initiators \ {i} : /\ istate'[j] = istate[j] /\ accepted'[j] = accepted[j]
                                         /\ results_pending'[j] = results_pending[j]
          /\ results_pending'[i] = Cardinality(S) /\ accepted'[i] = S
      BY <2>3, <3>2 DEF HandleProposals
    <3>4. \A n \in net' : n.perf \in Outcomes => n \in net /\ n \in Messages /\ n.i # i
      BY <3>1, <3>2
    <3>5. S \ results[i] = S
      BY <3>1
    <3>6. \A m \in net' : m.perf \in Outcomes =>
            /\ m.p \in accepted'[m.i] \ results'[m.i] /\ pstate'[m.p] = "over"
            /\ \A n \in net' : n.perf \in Outcomes /\ n.p = m.p /\ n.i = m.i => n = m
      <4>1. \A j \in Initiators \ {i} : accepted'[j] = accepted[j]
        BY <3>3
      <4>2. QED
        BY <3>3, <3>4, <4>1
    <3>7. \A j \in Initiators :
            /\ \A p \in results'[j] : p \in accepted'[j] /\ pstate'[p] = "over"
            /\ istate'[j] \in {"WAIT_RESULTS", "DONE", "over"} =>
                  results_pending'[j] = Cardinality(accepted'[j] \ results'[j])
      BY <3>1, <3>3, <3>5
    <3>8. QED
      BY <3>6, <3>7
  <2>4. ASSUME NEW i \in Initiators, ResultsClose(i) PROVE CountInv'
    BY <2>4 DEF ResultsClose
  <2>5. ASSUME NEW i \in Initiators, InitiatorDone(i) PROVE CountInv'
    BY <2>5 DEF InitiatorDone
  <2>6. ASSUME NEW i \in Initiators, NEW m \in net, ReceiveForeign(i, m) PROVE CountInv'
    BY <2>6 DEF ReceiveForeign, Takes
  <2>7. ASSUME NEW i \in Initiators, NEW m \in net, ReceiveAnswer(i, m) PROVE CountInv'
    <3>1. \A j \in Initiators : istate'[j] \in {"WAIT_RESULTS", "DONE", "over"} =>
                                     istate[j] \in {"WAIT_RESULTS", "DONE", "over"}
      BY <2>7 DEF ReceiveAnswer
    <3>2. net' \subseteq net /\ UNCHANGED <<accepted, results, results_pending, pstate>>
      BY <2>7 DEF ReceiveAnswer, Takes
    <3>3. QED
      BY <3>1, <3>2
  <2>8. ASSUME NEW i \in Initiators, NEW m \in net, ReceiveResult(i, m) PROVE CountInv'
    <3>1. m \in Messages /\ m.i = i /\ m \in net /\ net' = net \ {m}
      BY <2>8 DEF ReceiveResult, Takes
    <3>2. CASE m.perf \in Outcomes
      <4>1. /\ results' = [results EXCEPT ![i] = @ \cup {m.p}]
            /\ results_pending' = [results_pending EXCEPT ![i] = @ - 1]
            /\ istate[i] = "WAIT_RESULTS" /\ UNCHANGED <<accepted, pstate>>
            /\ \A j \in Initiators \ {i} : istate'[j] = istate[j]
        BY <2>8, <3>2 DEF ReceiveResult
      <4>2. m.p \in accepted[i] \ results[i] /\ pstate[m.p] = "over" /\ results[i] \in SUBSET accepted[i]
        BY <3>1, <3>2
      <4> HIDE DEF CountInv
      <4>3. Cardinality(accepted[i] \ (results[i] \cup {m.p})) = Cardinality(accepted[i] \ results[i]) - 1
        <5>1. accepted[i] \in SUBSET Participants
          OBVIOUS
        <5>2. QED
          BY <4>2, <5>1, OneLessToCome
      <4>4. \A n \in net' : n.perf \in Outcomes => ~(n.i = i /\ n.p = m.p)
        BY <3>1, <3>2 DEF CountInv
      <4>5. Cardinality(accepted[i] \ results[i]) = results_pending[i]
        BY <4>1 DEF CountInv
      <4>6. results_pending'[i] = Cardinality(accepted'[i] \ results'[i])
        BY <4>1, <4>3, <4>5
      <4>7. \A n \in net' : n.perf \in Outcomes =>
                /\ n.p \in accepted'[n.i] \ results'[n.i] /\ pstate'[n.p] = "over"
                /\ \A o \in net' : o.perf \in Outcomes /\ o.p = n.p /\ o.i = n.i => o = n
        <5> SUFFICES ASSUME NEW n \in net', n.perf \in Outcomes
                     PROVE  /\ n.p \in accepted'[n.i] \ results'[n.i] /\ pstate'[n.p] = "over"
                            /\ \A o \in net' : o.perf \in Outcomes /\ o.p = n.p /\ o.i = n.i => o = n
          OBVIOUS
        <5>1. n \in net /\ n \in Messages /\ ~(n.i = i /\ n.p = m.p)
          BY <3>1, <4>4
        <5>2. QED
          BY <3>1, <4>1, <5>1 DEF CountInv
      <4>8. \A j \in Initiators :
                /\ \A p \in results'[j] : p \in accepted'[j] /\ pstate'[p] = "over"
                /\ istate'[j] \in {"WAIT_RESULTS", "DONE", "over"} =>
                      results_pending'[j] = Cardinality(accepted'[j] \ results'[j])
        BY <4>1, <4>2, <4>6 DEF CountInv
      <4>9. QED
        BY <4>7, <4>8 DEF CountInv
    <3>3. CASE m.perf \notin Outcomes
      BY <2>8, <3>1, <3>3 DEF ReceiveResult
    <3>4. QED
      BY <3>2, <3>3
  <2>9. ASSUME NEW p \in Participants, ParticipantGivesUp(p) PROVE CountInv'
    BY <2>9 DEF ParticipantGivesUp
  <2>10. ASSUME NEW p \in Participants, NEW m \in net, ReceiveCFP(p, m) PROVE CountInv'
    BY <2>10 DEF ReceiveCFP
  <2>11. ASSUME NEW p \in Participants, NEW m \in net, ReceiveDecision(p, m) PROVE CountInv'
    <3>1. /\ m \in Messages /\ m.p = p /\ pstate[p] = "WAIT_DECISION"
          /\ pstate' = [pstate EXCEPT ![p] = "over"]
          /\ UNCHANGED <<istate, accepted, results, results_pending>>
      BY <2>11 DEF ReceiveDecision
    <3>2. CASE m.perf = "ACCEPT_PROPOSAL"
      <4>1. PICK o \in Outcomes : net' = (net \ {m}) \cup {Msg(p, m.i, o)}
        BY <2>11, <3>2 DEF ReceiveDecision
      <4>2. m.p \in accepted[m.i] \ results[m.i]
        BY <3>1, <3>2 DEF BindingInv
      <4>3. QED
        BY <3>1, <4>1, <4>2
    <3>3. CASE m.perf # "ACCEPT_PROPOSAL"
      BY <2>11, <3>1, <3>3 DEF ReceiveDecision
    <3>4. QED
      BY <3>2, <3>3
  <2>12. ASSUME NEW p \in Participants, NEW m \in net, ParticipantIgnores(p, m) PROVE CountInv'
    BY <2>12 DEF ParticipantIgnores
  <2>13. ASSUME NEW m \in net, Lose(m) PROVE CountInv'
    <3>1. net' \subseteq net /\ UNCHANGED <<istate, accepted, results, results_pending, pstate>>
      BY <2>13 DEF Lose
    <3>2. QED
      BY <3>1
  <2>14. CASE UNCHANGED vars
    BY <2>14 DEF vars
  <2>15. QED
    BY <2>1, <2>2, <2>3, <2>4, <2>5, <2>6, <2>7, <2>8, <2>9, <2>10, <2>11,
       <2>12, <2>13, <2>14
       DEF Next, InitiatorStep, ParticipantStep
<1>3. QED
  BY <1>1, <1>2, TypeCorrect, BindingInvariant, PTL DEF Spec

\* ContractNet.hpp, responded_ and results_pending_: an initiator that waits no
\* longer because nothing is pending has a result of every participant it
\* accepted and of no other, for any number of them.
THEOREM ResultsAreCompleteAlways == Spec => []ResultsAreComplete
<1>1. TypeOK /\ CountInv => ResultsAreComplete
  BY DEF TypeOK, CountInv, ResultsAreComplete
<1>2. QED
  BY <1>1, TypeCorrect, CountInvariant, PTL
=============================================================================
