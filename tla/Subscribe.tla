----------------------------- MODULE Subscribe ------------------------------
(***************************************************************************)
(* The FIPA subscribe behaviours                                           *)
(* (src/include/gagent/protocols/SubscribeNotify.hpp): SubscribeInitiators *)
(* and the SubscribeParticipant they subscribe to.  notify() may be called *)
(* from another behaviour of the publisher, so it can come between the     *)
(* AGREE that action() sends and the entry it makes in subscribers_.       *)
(***************************************************************************)
EXTENDS AgentQueues

CONSTANTS
    Subs,         \* the SubscribeInitiators; each has a conv_id_ of its own
    NameOf,       \* [Subs -> names]: my_name_
    Publisher,
    MaxNotifies,  \* bound on the INFORMs of notify()
    NoSub         \* no entry in subscribers_, no subscription at work

ASSUME MaxNotifiesIsNat == MaxNotifies \in Nat

SubNames == {NameOf[s] : s \in Subs}

VARIABLES
    sstate,       \* SubscribeInitiator::state_, "over" once done_
    subscribers,  \* subscribers_: the conversation entered for each name
    work,         \* what action() of the publisher still has to do after a send
    notifies      \* INFORMs of notify() so far (bound)

subscribeVars == <<sstate, subscribers, work, notifies>>

Sub(perf, s) == [conv |-> s, perf |-> perf, n |-> 0]
ToPublisher(s)   == <<NameOf[s], Publisher>>
FromPublisher(s) == <<Publisher, NameOf[s]>>

\* Nobody subscribes to itself, and publisher and subscriber can send to each other.
ASSUME SubscribeLinks ==
    /\ NoSub \notin Subs
    /\ Publisher \notin SubNames
    /\ \A s \in Subs : {ToPublisher(s), FromPublisher(s)} \subseteq Links

SubscribeTypeOK ==
    /\ sstate \in [Subs -> {"SEND_SUBSCRIBE", "WAIT_AGREE", "WAIT_NOTIFY", "WAIT_CANCEL_ACK",
                            "over"}]
    /\ subscribers \in [SubNames -> Subs \cup {NoSub}]
    /\ work \in {"none", "enter", "erase"} \X (Subs \cup {NoSub})
    /\ notifies \in 0..MaxNotifies

SubscribeInit ==
    /\ sstate = [s \in Subs |-> "SEND_SUBSCRIBE"]
    /\ subscribers = [n \in SubNames |-> NoSub]
    /\ work = <<"none", NoSub>>
    /\ notifies = 0

-----------------------------------------------------------------------------
(* SubscribeInitiator                                                      *)

GoesTo(s, st) == sstate' = [sstate EXCEPT ![s] = st]

SendSubscribe(s) ==
    /\ sstate[s] = "SEND_SUBSCRIBE"
    /\ GoesTo(s, "WAIT_AGREE")
    /\ inbox' \in Sent(inbox, ToPublisher(s), Sub("SUBSCRIBE", s))
    /\ UNCHANGED <<subscribers, work, notifies>>

\* Mutant of AgreeTimeout: done_ is not set.
AgreeTimeoutIgnored(s) ==
    /\ sstate[s] = "WAIT_AGREE"
    /\ UNCHANGED <<subscribeVars, inbox>>

\* The deadline for the AGREE has passed.
AgreeTimeout(s) ==
    /\ sstate[s] = "WAIT_AGREE"
    /\ GoesTo(s, "over")
    /\ UNCHANGED <<subscribers, work, notifies, inbox>>

\* Anything but an AGREE or a refusal of this conversation is dropped.
ReceiveAgree(s) ==
    /\ sstate[s] = "WAIT_AGREE"
    /\ \E l \in Into(NameOf[s]) :
          /\ inbox' = Taken(l)
          /\ LET m == Head(inbox[l]) IN
             CASE m.conv = s /\ m.perf = "AGREE"  -> GoesTo(s, "WAIT_NOTIFY")
               [] m.conv = s /\ m.perf = "REFUSE" -> GoesTo(s, "over")
               [] OTHER                           -> UNCHANGED sstate
    /\ UNCHANGED <<subscribers, work, notifies>>

\* INFORMs of this conversation go to handleNotify, others are dropped.
ReceiveNotify(s) ==
    /\ sstate[s] = "WAIT_NOTIFY"
    /\ \E l \in Into(NameOf[s]) : inbox' = Taken(l)
    /\ UNCHANGED <<sstate, subscribers, work, notifies>>

\* shouldCancel() returned true.
SendCancel(s) ==
    /\ sstate[s] = "WAIT_NOTIFY"
    /\ GoesTo(s, "WAIT_CANCEL_ACK")
    /\ inbox' \in Sent(inbox, ToPublisher(s), Sub("CANCEL", s))
    /\ UNCHANGED <<subscribers, work, notifies>>

\* One receive(): the first message that comes, or nothing, is the end.
AwaitCancelAck(s) ==
    /\ sstate[s] = "WAIT_CANCEL_ACK"
    /\ GoesTo(s, "over")
    /\ inbox' \in {inbox} \cup {Taken(l) : l \in Into(NameOf[s])}
    /\ UNCHANGED <<subscribers, work, notifies>>

SubscriberWaits(s) == ReceiveAgree(s) \/ AgreeTimeout(s) \/ AwaitCancelAck(s)
SubscriberStep(s)  == SendSubscribe(s) \/ SubscriberWaits(s) \/ ReceiveNotify(s) \/ SendCancel(s)

-----------------------------------------------------------------------------
(* SubscribeParticipant                                                    *)

\* SUBSCRIBE: handleSubscribe decides; AGREE or REFUSE is sent ...
ReceiveSubscribe(l) ==
    LET s == Head(inbox[l]).conv IN
    /\ Head(inbox[l]).perf = "SUBSCRIBE"
    /\ \E accepted \in BOOLEAN :
          /\ inbox' \in Sent(Taken(l), FromPublisher(s),
                             Sub(IF accepted THEN "AGREE" ELSE "REFUSE", s))
          /\ work' = IF accepted THEN <<"enter", s>> ELSE work
    /\ UNCHANGED <<sstate, subscribers, notifies>>

\* ... and then, for an AGREE, subscribers_[sender] is set.
EnterSubscriber ==
    /\ work[1] = "enter"
    /\ subscribers' = [subscribers EXCEPT ![NameOf[work[2]]] = work[2]]
    /\ work' = <<"none", NoSub>>
    /\ UNCHANGED <<sstate, notifies, inbox>>

\* CANCEL: handleCancel may have a last INFORM sent ...
ReceiveCancel(l) ==
    LET s == Head(inbox[l]).conv IN
    /\ Head(inbox[l]).perf = "CANCEL"
    /\ inbox' \in Sent(Taken(l), FromPublisher(s), Sub("INFORM", s))
    /\ work' = <<"erase", s>>
    /\ UNCHANGED <<sstate, subscribers, notifies>>

\* Mutant of EraseSubscriber: subscribers_.erase is missing.
EraseNothing ==
    /\ work[1] = "erase"
    /\ work' = <<"none", NoSub>>
    /\ UNCHANGED <<sstate, subscribers, notifies, inbox>>

\* ... and the sender is erased, whatever conversation it is entered for.
EraseSubscriber ==
    /\ work[1] = "erase"
    /\ subscribers' = [subscribers EXCEPT ![NameOf[work[2]]] = NoSub]
    /\ work' = <<"none", NoSub>>
    /\ UNCHANGED <<sstate, notifies, inbox>>

\* One INFORM of notify() or notifyOne(), for the entry that the name has when the
\* loop comes to it: action() may enter and erase subscribers between two of them.
notify ==
    /\ notifies < MaxNotifies
    /\ notifies' = notifies + 1
    /\ \E n \in SubNames :
          /\ subscribers[n] # NoSub
          /\ inbox' \in Sent(inbox, <<Publisher, n>>, Sub("INFORM", subscribers[n]))
    /\ UNCHANGED <<sstate, subscribers, work>>

\* Mutant of PublisherStep, in three parts: the entry is made first, the AGREE follows.
EnterFirst(l) ==
    LET s == Head(inbox[l]).conv IN
    /\ Head(inbox[l]).perf = "SUBSCRIBE"
    /\ inbox' = Taken(l)
    /\ subscribers' = [subscribers EXCEPT ![NameOf[s]] = s]
    /\ work' = <<"enter", s>>
    /\ UNCHANGED <<sstate, notifies>>

AgreeAfter ==
    /\ work[1] = "enter"
    /\ inbox' \in Sent(inbox, FromPublisher(work[2]), Sub("AGREE", work[2]))
    /\ work' = <<"none", NoSub>>
    /\ UNCHANGED <<sstate, subscribers, notifies>>

PublisherEntersFirst ==
    \/ work[1] = "none" /\ \E l \in Into(Publisher) : EnterFirst(l) \/ ReceiveCancel(l)
    \/ AgreeAfter \/ EraseSubscriber

\* action(): nothing arrives, or the message is handled before the next receive().
PublisherStep ==
    \/ work[1] = "none" /\ \E l \in Into(Publisher) : ReceiveSubscribe(l) \/ ReceiveCancel(l)
    \/ EnterSubscriber \/ EraseSubscriber

SubscribeNext == (\E s \in Subs : SubscriberStep(s)) \/ PublisherStep \/ notify

-----------------------------------------------------------------------------
\* A notification never overtakes the AGREE of its subscription, even if
\* notify() runs while action() is between the AGREE and the entry: a subscriber
\* that still waits for its AGREE drops INFORMs.
InformAfterAgree ==
    \A s \in Subs :
        LET ch == inbox[FromPublisher(s)] IN
        \A i, j \in 1..Len(ch) : i < j => ~(ch[i] = Sub("INFORM", s) /\ ch[j] = Sub("AGREE", s))

\* A CANCEL that arrives ends the subscription for good.
CancelIsFinal ==
    \A s \in Subs :
        (\E k \in 1..Len(inbox[ToPublisher(s)]) : inbox[ToPublisher(s)][k] = Sub("CANCEL", s))
            ~> [](subscribers[NameOf[s]] # s)

\* No subscriber waits for an answer for ever.
SubscribersMoveOn ==
    \A s \in Subs :
        sstate[s] \in {"WAIT_AGREE", "WAIT_CANCEL_ACK"} ~> sstate[s] \in {"WAIT_NOTIFY", "over"}
=============================================================================
