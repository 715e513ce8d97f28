------------------------- MODULE SharedQueueProofs -------------------------
(***************************************************************************)
(* Machine-checked proofs about SharedQueue, for any number of requests,   *)
(* subscriptions and notifications, and any names, shared or not.          *)
(***************************************************************************)
EXTENDS SharedQueue, TLAPS

-----------------------------------------------------------------------------
(* Messages and links                                                      *)

\* The links of the two protocols are four different ones, whoever shares a name.
LEMMA LinksApart ==
    ASSUME NEW s \in Subs
    PROVE  /\ NameOf[s] \in SubNames
           /\ ToPublisher(s) \in Links /\ FromPublisher(s) \in Links
           /\ <<Requester, Server>> \in Links /\ <<Server, Requester>> \in Links
           /\ <<Requester, Server>> # <<Server, Requester>>
           /\ {ToPublisher(s), FromPublisher(s)} \cap {<<Requester, Server>>, <<Server, Requester>>} = {}
           /\ \A t \in Subs : ToPublisher(s) # FromPublisher(t)
  BY SubscribeLinks, RequestLinks, RolesApart DEF ToPublisher, FromPublisher, SubNames

\* What is sent is a message, and a message of a protocol has its fields.
LEMMA MessageFields ==
    /\ \A n \in 1..MaxRequests : \A perf \in Final \cup {"REQUEST", "AGREE"} :
          Req(perf, n) \in Messages
    /\ \A s \in Subs : \A perf \in {"SUBSCRIBE", "AGREE", "REFUSE", "INFORM", "CANCEL"} :
          Sub(perf, s) \in Messages
    /\ \A m \in Messages :
          /\ m.conv = "req" => m.n \in 1..MaxRequests /\ m = Req(m.perf, m.n)
          /\ m.conv # "req" => m.conv \in Subs /\ m = Sub(m.perf, m.conv)
<1>1. \A n \in 1..MaxRequests : \A perf \in Final \cup {"REQUEST", "AGREE"} :
        Req(perf, n) \in Messages
  BY DEF Messages, Req
<1>2. \A s \in Subs : \A perf \in {"SUBSCRIBE", "AGREE", "REFUSE", "INFORM", "CANCEL"} :
        Sub(perf, s) \in Messages
  BY DEF Messages, Sub
<1>3. ASSUME NEW m \in Messages
      PROVE  /\ m.conv = "req" => m.n \in 1..MaxRequests /\ m = Req(m.perf, m.n)
             /\ m.conv # "req" => m.conv \in Subs /\ m = Sub(m.perf, m.conv)
  BY RolesApart DEF Messages, Req, Sub
<1>4. QED
  BY <1>1, <1>2, <1>3

\* Taking a message from a link moves the others of it up.
LEMMA TakingOne ==
    ASSUME inbox \in [Links -> Seq(Messages)], NEW name, NEW l \in Into(name)
    PROVE  /\ l \in Links /\ l[2] = name
           /\ Len(inbox[l]) \in Nat /\ Len(inbox[l]) > 0
           /\ Head(inbox[l]) = inbox[l][1] /\ Head(inbox[l]) \in Messages
           /\ Taken(l) \in [Links -> Seq(Messages)]
           /\ Taken(l)[l] = Tail(inbox[l])
           /\ Len(Taken(l)[l]) = Len(inbox[l]) - 1
           /\ \A k \in 1..Len(inbox[l]) - 1 : Taken(l)[l][k] = inbox[l][k + 1]
           /\ \A h \in Links : h # l => Taken(l)[h] = inbox[h]
  BY DEF Into, Taken

\* Sending adds a message at the end of a link, or is lost.
LEMMA SendingOne ==
    ASSUME NEW q \in [Links -> Seq(Messages)], NEW l \in Links, NEW m \in Messages,
           NEW r \in Sent(q, l, m)
    PROVE  /\ r \in [Links -> Seq(Messages)]
           /\ \A h \in Links : h # l => r[h] = q[h]
           /\ r[l] = q[l] \/ r[l] = Append(q[l], m)
<1>1. CASE r = q
  BY <1>1
<1>2. CASE r = [q EXCEPT ![l] = Append(@, m)]
  BY <1>2
<1>3. QED
  BY <1>1, <1>2 DEF Sent

-----------------------------------------------------------------------------
(* Types                                                                   *)

\* What travels on which link.
Fits(l, m) ==
    \/ l = <<Requester, Server>> /\ m.conv = "req" /\ m.perf = "REQUEST"
    \/ l = <<Server, Requester>> /\ m.conv = "req" /\ m.perf # "REQUEST"
    \/ m.conv \in Subs /\ l = ToPublisher(m.conv) /\ m.perf \in {"SUBSCRIBE", "CANCEL"}
    \/ m.conv \in Subs /\ l = FromPublisher(m.conv) /\ m.perf \in {"AGREE", "REFUSE", "INFORM"}

AllFit(q) == \A l \in Links : \A k \in 1..Len(q[l]) : Fits(l, q[l][k])

\* Taking a message leaves only messages that fit, and it fits itself.
LEMMA TakingFits ==
    ASSUME inbox \in [Links -> Seq(Messages)], AllFit(inbox), NEW name, NEW l \in Into(name)
    PROVE  AllFit(Taken(l)) /\ Fits(l, Head(inbox[l]))
<1>1. /\ l \in Links /\ Len(inbox[l]) \in Nat /\ Len(inbox[l]) > 0
      /\ Head(inbox[l]) = inbox[l][1]
      /\ Len(Taken(l)[l]) = Len(inbox[l]) - 1
      /\ \A k \in 1..Len(inbox[l]) - 1 : Taken(l)[l][k] = inbox[l][k + 1]
      /\ \A h \in Links : h # l => Taken(l)[h] = inbox[h]
  BY TakingOne
<1> HIDE DEF Fits, Taken, Into
<1>2. Fits(l, Head(inbox[l]))
  BY <1>1 DEF AllFit
<1>3. ASSUME NEW h \in Links, NEW k \in 1..Len(Taken(l)[h]) PROVE Fits(h, Taken(l)[h][k])
  <2>1. CASE h = l
    <3>1. k + 1 \in 1..Len(inbox[l]) /\ Taken(l)[l][k] = inbox[l][k + 1]
      BY <1>1, <1>3, <2>1
    <3>2. QED
      BY <1>1, <2>1, <3>1 DEF AllFit
  <2>2. CASE h # l
    BY <1>1, <2>2 DEF AllFit
  <2>3. QED
    BY <2>1, <2>2
<1>4. QED
  BY <1>2, <1>3 DEF AllFit

\* Adding messages that fit, one to a link, leaves only messages that fit.
LEMMA AddingFits ==
    ASSUME NEW q \in [Links -> Seq(Messages)], AllFit(q), NEW r,
           \A l \in Links : r[l] = q[l] \/ \E m \in Messages : Fits(l, m) /\ r[l] = Append(q[l], m)
    PROVE  AllFit(r)
<1>1. SUFFICES ASSUME NEW l \in Links, NEW k \in 1..Len(r[l]) PROVE Fits(l, r[l][k])
  BY DEF AllFit
<1>2. CASE r[l] = q[l]
  BY <1>2 DEF AllFit
<1>3. ASSUME NEW m \in Messages, Fits(l, m), r[l] = Append(q[l], m) PROVE Fits(l, r[l][k])
  <2>1. k = Len(q[l]) + 1 => r[l][k] = m
    BY <1>3
  <2>2. k # Len(q[l]) + 1 => k \in 1..Len(q[l]) /\ r[l][k] = q[l][k]
    BY <1>3
  <2>3. QED
    BY <1>3, <2>1, <2>2 DEF AllFit
<1>4. QED
  BY <1>2, <1>3

\* Sending a message that fits leaves only messages that fit.
LEMMA SendingFits ==
    ASSUME NEW q \in [Links -> Seq(Messages)], AllFit(q), NEW l \in Links, NEW m \in Messages,
           Fits(l, m), NEW r \in Sent(q, l, m)
    PROVE  AllFit(r)
<1>1. \A h \in Links : r[h] = q[h] \/ (h = l /\ r[h] = Append(q[h], m))
  <2>1. /\ \A h \in Links : h # l => r[h] = q[h]
        /\ r[l] = q[l] \/ r[l] = Append(q[l], m)
    BY SendingOne
  <2>2. QED
    BY <2>1
<1>2. QED
  BY <1>1, AddingFits

\* TypeOK is not inductive: the receivers rely on what their peers send them,
\* and the publisher on what it has written down.
TypeInv ==
    /\ TypeOK
    /\ AllFit(inbox)
    /\ (work[1] = "none") <=> (work[2] = NoSub)
    /\ \A n \in SubNames : subscribers[n] # NoSub => NameOf[subscribers[n]] = n

\* A message for the requester that is of its conversation comes from the
\* server, and the server only gets requests.
LEMMA WhoseMessage ==
    ASSUME inbox \in [Links -> Seq(Messages)], AllFit(inbox), NEW name, NEW l \in Into(name)
    PROVE  LET m == Head(inbox[l]) IN
           /\ name = Requester /\ m.conv = "req" =>
                 l = <<Server, Requester>> /\ m.n \in 1..MaxRequests
           /\ name = Server => /\ l = <<Requester, Server>>
                               /\ m = Req("REQUEST", m.n) /\ m.n \in 1..MaxRequests
           /\ name \in SubNames /\ m.conv = "req" => l = <<Server, Requester>>
           /\ name \in SubNames /\ m.conv # "req" => l = FromPublisher(m.conv) /\ m.conv \in Subs
           /\ name = Publisher => /\ m.conv \in Subs /\ l = ToPublisher(m.conv)
                                  /\ m = Sub(m.perf, m.conv) /\ m.perf \in {"SUBSCRIBE", "CANCEL"}
<1> DEFINE m == Head(inbox[l])
<1>1. m \in Messages /\ l[2] = name /\ Fits(l, m)
  BY TakingOne, TakingFits
<1>2. \A s \in Subs : NameOf[s] \in SubNames /\ s # "req"
  BY RolesApart DEF SubNames
<1>3. QED
  BY <1>1, <1>2, MessageFields, RequestLinks, SubscribeLinks, RolesApart
     DEF Fits, ToPublisher, FromPublisher

\* notify adds at most one INFORM, for the subscription entered under the name
\* that its link leads to.
LEMMA NotifySends ==
    ASSUME inbox \in [Links -> Seq(Messages)], SubscribeTypeOK, notify,
           \A n \in SubNames : subscribers[n] # NoSub => NameOf[subscribers[n]] = n
    PROVE  /\ inbox' \in [Links -> Seq(Messages)]
           /\ \A l \in Links :
                 \/ inbox'[l] = inbox[l]
                 \/ \E s \in Subs : /\ l = FromPublisher(s) /\ subscribers[NameOf[s]] = s
                                    /\ inbox'[l] = Append(inbox[l], Sub("INFORM", s))
<1>1. PICK n \in SubNames :
        /\ subscribers[n] # NoSub
        /\ inbox' \in Sent(inbox, <<Publisher, n>>, Sub("INFORM", subscribers[n]))
  BY DEF notify
<1>2. PICK s \in Subs : s = subscribers[n] /\ NameOf[s] = n
  BY <1>1 DEF SubscribeTypeOK
<1>3. inbox' \in Sent(inbox, FromPublisher(s), Sub("INFORM", s))
  BY <1>1, <1>2 DEF FromPublisher
<1>4. FromPublisher(s) \in Links /\ Sub("INFORM", s) \in Messages
  BY LinksApart, MessageFields
<1>5. /\ inbox' \in [Links -> Seq(Messages)]
      /\ \A h \in Links : h # FromPublisher(s) => inbox'[h] = inbox[h]
      /\ \/ inbox'[FromPublisher(s)] = inbox[FromPublisher(s)]
         \/ inbox'[FromPublisher(s)] = Append(inbox[FromPublisher(s)], Sub("INFORM", s))
  BY <1>3, <1>4, SendingOne
<1>6. QED
  BY <1>2, <1>5

\* The end of a request leaves the types of the requester alone.
LEMMA EndsTypes ==
    ASSUME RequestTypeOK, NEW o \in TimedOut..MaxRequests, Ends(o), serving' = serving
    PROVE  RequestTypeOK'
<1>1. outcome' \in [1..MaxRequests -> TimedOut..MaxRequests]
  BY DEF RequestTypeOK, Ends
<1>2. rstate' \in {"SEND_REQUEST", "over"} /\ current' \in 1..MaxRequests
  BY MaxRequestsIsNat DEF RequestTypeOK, Ends
<1>3. QED
  BY <1>1, <1>2 DEF RequestTypeOK

\* TypeInv is an invariant.
LEMMA TypeInvariant == Spec => []TypeInv
<1>1. Init => TypeInv
  <2> SUFFICES ASSUME Init PROVE TypeInv
    OBVIOUS
  <2>1. RequestTypeOK
    BY MaxRequestsIsNat DEF Init, RequestInit, RequestTypeOK, Pending, TimedOut
  <2>2. SubscribeTypeOK
    BY MaxNotifiesIsNat DEF Init, SubscribeInit, SubscribeTypeOK
  <2>3. QED
    BY <2>1, <2>2, MaxRequestsIsNat, SubscribeLinks
       DEF Init, SubscribeInit, TypeInv, TypeOK, AllFit
<1>2. TypeInv /\ [Next]_vars => TypeInv'
  <2> SUFFICES ASSUME TypeInv, [Next]_vars PROVE TypeInv'
    OBVIOUS
  <2> USE DEF TypeInv
  <2>a. /\ inbox \in [Links -> Seq(Messages)] /\ AllFit(inbox)
        /\ RequestTypeOK /\ SubscribeTypeOK
    BY DEF TypeOK
  <2> DEFINE QueuesOK == inbox' \in [Links -> Seq(Messages)] /\ AllFit(inbox')
             Told     == /\ (work[1] = "none") <=> (work[2] = NoSub)
                         /\ \A n \in SubNames : subscribers[n] # NoSub => NameOf[subscribers[n]] = n
             RequestStep   == UNCHANGED subscribeVars /\ RequestTypeOK' /\ QueuesOK
             SubscribeStep == UNCHANGED requestVars /\ SubscribeTypeOK' /\ Told' /\ QueuesOK
  <2>b. RequestStep => TypeInv'
    BY <2>a DEF subscribeVars, SubscribeTypeOK, TypeOK, AllFit, ToPublisher, FromPublisher
  <2>c. SubscribeStep => TypeInv'
    BY <2>a DEF requestVars, RequestTypeOK, TypeOK, AllFit
  <2> HIDE DEF TypeInv
  <2>d. /\ \A n \in 1..MaxRequests : \A perf \in Final \cup {"REQUEST", "AGREE"} :
              Fits(IF perf = "REQUEST" THEN <<Requester, Server>> ELSE <<Server, Requester>>,
                   Req(perf, n))
        /\ \A s \in Subs : \A perf \in {"SUBSCRIBE", "CANCEL"} : Fits(ToPublisher(s), Sub(perf, s))
        /\ \A s \in Subs : \A perf \in {"AGREE", "REFUSE", "INFORM"} :
              Fits(FromPublisher(s), Sub(perf, s))
    BY DEF Fits, Req, Sub, Final
  <2>1. CASE RequestNext /\ UNCHANGED subscribeVars
    <3> USE <2>1
    <3>1. CASE SendRequest
      <4>1. current \in 1..MaxRequests /\ RequestTypeOK'
        BY <2>a, <3>1 DEF SendRequest, RequestTypeOK
      <4>2. QueuesOK
        BY <2>a, <2>d, <3>1, <4>1, SendingOne, SendingFits, MessageFields, RequestLinks
           DEF SendRequest
      <4>3. QED
        BY <2>b, <4>1, <4>2
    <3>2. CASE RequestTimeout
      <4>1. Ends(TimedOut) /\ UNCHANGED <<serving, inbox>>
        BY <3>2 DEF RequestTimeout
      <4>2. RequestTypeOK' /\ QueuesOK
        BY <2>a, <4>1, EndsTypes, MaxRequestsIsNat DEF TimedOut, AllFit
      <4>3. QED
        BY <2>b, <4>2
    <3>3. CASE ReceiveResponse
      <4>1. PICK l \in Into(Requester) :
              /\ inbox' = Taken(l)
              /\ LET m == Head(inbox[l]) IN
                 IF m.conv = "req" /\ m.perf \in Final
                 THEN Ends(m.n) ELSE UNCHANGED <<rstate, current, outcome>>
        BY <3>3 DEF ReceiveResponse
      <4>2. QueuesOK
        BY <2>a, <4>1, TakingOne, TakingFits
      <4>3. Head(inbox[l]).conv = "req" => Head(inbox[l]).n \in 1..MaxRequests
        BY <2>a, WhoseMessage
      <4>4. serving' = serving
        BY <3>3 DEF ReceiveResponse
      <4>5. RequestTypeOK'
        BY <2>a, <4>1, <4>3, <4>4, EndsTypes DEF RequestTypeOK, TimedOut
      <4>6. QED
        BY <2>b, <4>2, <4>5
    <3>4. CASE ServerReceives
      <4>1. PICK l \in Into(Server) :
              /\ serving' = Head(inbox[l]).n
              /\ inbox' \in Sent(Taken(l), <<Server, Requester>>, Req("AGREE", Head(inbox[l]).n))
        BY <3>4 DEF ServerReceives
      <4>2. Head(inbox[l]).n \in 1..MaxRequests
        BY <2>a, WhoseMessage
      <4>3. RequestTypeOK'
        BY <2>a, <3>4, <4>1, <4>2 DEF ServerReceives, RequestTypeOK
      <4>4. Taken(l) \in [Links -> Seq(Messages)] /\ AllFit(Taken(l))
        BY <2>a, TakingOne, TakingFits
      <4>5. QueuesOK
        BY <2>d, <4>1, <4>2, <4>4, SendingOne, SendingFits, MessageFields, RequestLinks
      <4>6. QED
        BY <2>b, <4>3, <4>5
    <3>5. CASE ServerResponds
      <4>1. PICK perf \in Final :
              inbox' \in Sent(inbox, <<Server, Requester>>, Req(perf, serving))
        BY <3>5 DEF ServerResponds
      <4>2. RequestTypeOK' /\ serving \in 1..MaxRequests
        BY <2>a, <3>5, MaxRequestsIsNat DEF ServerResponds, RequestTypeOK
      <4>3. perf # "REQUEST"
        BY DEF Final
      <4>4. QueuesOK
        BY <2>a, <2>d, <4>1, <4>2, <4>3, SendingOne, SendingFits, MessageFields, RequestLinks
      <4>5. QED
        BY <2>b, <4>2, <4>4
    <3>6. QED
      BY <3>1, <3>2, <3>3, <3>4, <3>5 DEF RequestNext, InitiatorStep, ServerStep
  <2>2. CASE SubscribeNext /\ UNCHANGED requestVars
    <3> USE <2>2
    <3>t. Told
      BY DEF TypeInv
    <3>1. ASSUME NEW s \in Subs, SendSubscribe(s) \/ SendCancel(s) PROVE TypeInv'
      <4>1. SubscribeTypeOK' /\ Told'
        BY <2>a, <3>t, <3>1 DEF SendSubscribe, SendCancel, GoesTo, SubscribeTypeOK
      <4>2. PICK perf \in {"SUBSCRIBE", "CANCEL"} : inbox' \in Sent(inbox, ToPublisher(s), Sub(perf, s))
        BY <3>1 DEF SendSubscribe, SendCancel
      <4>3. QueuesOK
        BY <2>a, <2>d, <4>2, SendingOne, SendingFits, MessageFields, LinksApart
      <4>4. QED
        BY <2>c, <4>1, <4>3
    <3>2. ASSUME NEW s \in Subs, AgreeTimeout(s) PROVE TypeInv'
      BY <2>a, <2>c, <3>t, <3>2 DEF AgreeTimeout, GoesTo, SubscribeTypeOK, AllFit
    <3>3. ASSUME NEW s \in Subs, ReceiveAgree(s) \/ ReceiveNotify(s) \/ AwaitCancelAck(s)
          PROVE  TypeInv'
      <4>1. sstate' \in [Subs -> {"SEND_SUBSCRIBE", "WAIT_AGREE", "WAIT_NOTIFY", "WAIT_CANCEL_ACK", "over"}]
        BY <2>a, <3>3 DEF ReceiveAgree, ReceiveNotify, AwaitCancelAck, GoesTo, SubscribeTypeOK
      <4>2. UNCHANGED <<subscribers, work, notifies>>
        BY <3>3 DEF ReceiveAgree, ReceiveNotify, AwaitCancelAck
      <4>3. inbox' = inbox \/ \E l \in Into(NameOf[s]) : inbox' = Taken(l)
        BY <3>3 DEF ReceiveAgree, ReceiveNotify, AwaitCancelAck
      <4>4. QueuesOK
        BY <2>a, <4>3, TakingOne, TakingFits
      <4>5. SubscribeTypeOK' /\ Told'
        BY <2>a, <3>t, <4>1, <4>2 DEF SubscribeTypeOK
      <4>6. QED
        BY <2>c, <4>4, <4>5
    <3>4. ASSUME NEW l \in Into(Publisher), ReceiveSubscribe(l) \/ ReceiveCancel(l), work[1] = "none"
          PROVE  TypeInv'
      <4> DEFINE s == Head(inbox[l]).conv
      <4>1. s \in Subs
        BY <2>a, WhoseMessage
      <4>2. PICK perf \in {"AGREE", "REFUSE", "INFORM"} :
              inbox' \in Sent(Taken(l), FromPublisher(s), Sub(perf, s))
        BY <3>4 DEF ReceiveSubscribe, ReceiveCancel
      <4>3. /\ work' \in {work, <<"enter", s>>, <<"erase", s>>}
            /\ UNCHANGED <<sstate, subscribers, notifies>>
        BY <3>4 DEF ReceiveSubscribe, ReceiveCancel
      <4>4. Taken(l) \in [Links -> Seq(Messages)] /\ AllFit(Taken(l))
        BY <2>a, TakingOne, TakingFits
      <4>5. QueuesOK
        BY <2>d, <4>1, <4>2, <4>4, SendingOne, SendingFits, MessageFields, LinksApart
      <4>6. SubscribeTypeOK' /\ Told'
        BY <2>a, <3>t, <4>1, <4>3, SubscribeLinks DEF SubscribeTypeOK
      <4>7. QED
        BY <2>c, <4>5, <4>6
    <3>5. CASE EnterSubscriber \/ EraseSubscriber
      <4>1. work[2] \in Subs
        BY <2>a, <3>t, <3>5 DEF EnterSubscriber, EraseSubscriber, SubscribeTypeOK
      <4>2. QueuesOK /\ UNCHANGED <<sstate, notifies>> /\ work' = <<"none", NoSub>>
        BY <2>a, <3>5 DEF EnterSubscriber, EraseSubscriber, AllFit
      <4>3. \E v \in {work[2], NoSub} : subscribers' = [subscribers EXCEPT ![NameOf[work[2]]] = v]
        BY <3>5 DEF EnterSubscriber, EraseSubscriber
      <4>4. SubscribeTypeOK' /\ Told'
        BY <2>a, <3>t, <4>1, <4>2, <4>3, LinksApart DEF SubscribeTypeOK
      <4>5. QED
        BY <2>c, <4>2, <4>4
    <3>6. CASE notify
      <4>1. SubscribeTypeOK' /\ Told'
        BY <2>a, <3>t, <3>6, MaxNotifiesIsNat DEF notify, SubscribeTypeOK
      <4>2. /\ inbox' \in [Links -> Seq(Messages)]
            /\ \A l \in Links :
                  \/ inbox'[l] = inbox[l]
                  \/ \E s \in Subs : /\ l = FromPublisher(s) /\ subscribers[NameOf[s]] = s
                                     /\ inbox'[l] = Append(inbox[l], Sub("INFORM", s))
        BY <2>a, <3>t, <3>6, NotifySends
      <4>3. \A l \in Links :
              \/ inbox'[l] = inbox[l]
              \/ \E m \in Messages : Fits(l, m) /\ inbox'[l] = Append(inbox[l], m)
        BY <2>d, <4>2, MessageFields
      <4>4. QueuesOK
        BY <2>a, <4>2, <4>3, AddingFits
      <4>5. QED
        BY <2>c, <4>1, <4>4
    <3>7. QED
      BY <3>1, <3>2, <3>3, <3>4, <3>5, <3>6
         DEF SubscribeNext, SubscriberStep, SubscriberWaits, PublisherStep
  <2>3. CASE UNCHANGED vars
    BY <2>3, <2>a DEF TypeInv, vars, requestVars, subscribeVars, TypeOK, RequestTypeOK,
          SubscribeTypeOK, AllFit
  <2>4. QED
    BY <2>1, <2>2, <2>3 DEF Next
<1>3. QED
  BY <1>1, <1>2, PTL DEF Spec

\* Every variable keeps its type in every reachable state.
THEOREM TypeCorrect == Spec => []TypeOK
<1>1. TypeInv => TypeOK
  BY DEF TypeInv
<1>2. QED
  BY <1>1, TypeInvariant, PTL

-----------------------------------------------------------------------------
(* Subscriptions                                                           *)

To(s)   == inbox[ToPublisher(s)]
From(s) == inbox[FromPublisher(s)]

\* No message of subscription s is on the link.
Silent(ch, s) == \A k \in 1..Len(ch) : ch[k].conv # s

\* A SUBSCRIBE of s is on the link ...
Asks(ch, s) == \E k \in 1..Len(ch) : ch[k] = Sub("SUBSCRIBE", s)

\* ... and then no other message of s is.
Alone(ch, s) ==
    \A j, k \in 1..Len(ch) : ch[k] = Sub("SUBSCRIBE", s) /\ j # k => ch[j].conv # s

\* No INFORM of s is ahead of an AGREE of s.
Ordered(ch, s) ==
    \A i, j \in 1..Len(ch) : i < j => ~(ch[i] = Sub("INFORM", s) /\ ch[j] = Sub("AGREE", s))

\* The publisher has not dealt with subscription s.
Unheard(s) ==
    /\ work[2] # s
    /\ \A n \in SubNames : subscribers[n] # s
    /\ Silent(From(s), s)

\* Inductive strengthening of InformAfterAgree.  A SUBSCRIBE is sent once, and
\* while it is under way nothing else of its subscription is, so that the AGREE
\* is the first message of the subscription that the publisher sends.
SubscriptionInv(s) ==
    /\ sstate[s] = "SEND_SUBSCRIBE" => Unheard(s) /\ Silent(To(s), s)
    /\ Asks(To(s), s) => Unheard(s) /\ sstate[s] \in {"WAIT_AGREE", "over"}
    /\ Alone(To(s), s)
    /\ Ordered(From(s), s)

AgreeInv == \A s \in Subs : SubscriptionInv(s)

\* Taking the first message of a link leaves no new order on it.
LEMMA TailKeeps ==
    ASSUME NEW ch \in Seq(Messages), ch # <<>>, NEW s
    PROVE  /\ Silent(ch, s) => Silent(Tail(ch), s)
           /\ Asks(Tail(ch), s) => Asks(ch, s)
           /\ Alone(ch, s) => Alone(Tail(ch), s)
           /\ Ordered(ch, s) => Ordered(Tail(ch), s)
           /\ Head(ch) = Sub("SUBSCRIBE", s) => Asks(ch, s) /\ (Alone(ch, s) => Silent(Tail(ch), s))
           /\ Silent(ch, s) => Head(ch).conv # s
<1>1. /\ Len(Tail(ch)) = Len(ch) - 1 /\ Len(ch) \in Nat /\ Len(ch) > 0 /\ Head(ch) = ch[1]
      /\ \A k \in 1..Len(ch) - 1 : Tail(ch)[k] = ch[k + 1]
  OBVIOUS
<1>2. Silent(ch, s) => Silent(Tail(ch), s) /\ Head(ch).conv # s
  BY <1>1 DEF Silent
<1>3. Asks(Tail(ch), s) => Asks(ch, s)
  BY <1>1 DEF Asks
<1>4. Alone(ch, s) => Alone(Tail(ch), s)
  <2>1. SUFFICES ASSUME Alone(ch, s), NEW j \in 1..Len(Tail(ch)), NEW k \in 1..Len(Tail(ch)),
                        Tail(ch)[k] = Sub("SUBSCRIBE", s), j # k
                 PROVE  Tail(ch)[j].conv # s
    BY DEF Alone
  <2>2. j + 1 \in 1..Len(ch) /\ k + 1 \in 1..Len(ch) /\ j + 1 # k + 1
    BY <1>1, <2>1
  <2>3. QED
    BY <1>1, <2>1, <2>2 DEF Alone
<1>5. Ordered(ch, s) => Ordered(Tail(ch), s)
  <2>1. SUFFICES ASSUME Ordered(ch, s), NEW i \in 1..Len(Tail(ch)), NEW j \in 1..Len(Tail(ch)), i < j
                 PROVE  ~(Tail(ch)[i] = Sub("INFORM", s) /\ Tail(ch)[j] = Sub("AGREE", s))
    BY DEF Ordered
  <2>2. i + 1 \in 1..Len(ch) /\ j + 1 \in 1..Len(ch) /\ i + 1 < j + 1
    BY <1>1, <2>1
  <2>3. QED
    BY <1>1, <2>1, <2>2 DEF Ordered
<1>6. ASSUME Head(ch) = Sub("SUBSCRIBE", s)
      PROVE  Asks(ch, s) /\ (Alone(ch, s) => Silent(Tail(ch), s))
  BY <1>1, <1>6 DEF Asks, Alone, Silent
<1>7. QED
  BY <1>2, <1>3, <1>4, <1>5, <1>6

\* What a message that is added to a link does to the order on it.
LEMMA AppendKeeps ==
    ASSUME NEW ch \in Seq(Messages), NEW s \in Subs, NEW m \in Messages
    PROVE  LET new == Append(ch, m) IN
           /\ Silent(ch, s) /\ m.conv # s => Silent(new, s)
           /\ m # Sub("SUBSCRIBE", s) => (Asks(new, s) => Asks(ch, s))
           /\ Alone(ch, s) /\ (m.conv # s \/ (~Asks(ch, s) /\ m # Sub("SUBSCRIBE", s))
                                \/ Silent(ch, s)) => Alone(new, s)
           /\ Ordered(ch, s) /\ (m # Sub("AGREE", s) \/ Silent(ch, s)) => Ordered(new, s)
<1> DEFINE new == Append(ch, m)
<1>1. /\ Len(new) = Len(ch) + 1 /\ Len(ch) \in Nat /\ new[Len(ch) + 1] = m
      /\ \A k \in 1..Len(ch) : new[k] = ch[k]
  OBVIOUS
<1> HIDE DEF new
<1>2. Silent(ch, s) /\ m.conv # s => Silent(new, s)
  BY <1>1 DEF Silent
<1>3. m # Sub("SUBSCRIBE", s) => (Asks(new, s) => Asks(ch, s))
  BY <1>1 DEF Asks
<1>4. ASSUME Alone(ch, s),
             m.conv # s \/ (~Asks(ch, s) /\ m # Sub("SUBSCRIBE", s)) \/ Silent(ch, s)
      PROVE  Alone(new, s)
  <2>1. SUFFICES ASSUME NEW j \in 1..Len(new), NEW k \in 1..Len(new),
                        new[k] = Sub("SUBSCRIBE", s), j # k
                 PROVE  new[j].conv # s
    BY DEF Alone
  <2>2. Sub("SUBSCRIBE", s).conv = s
    BY DEF Sub
  <2>3. CASE j \in 1..Len(ch) /\ k \in 1..Len(ch)
    BY <1>1, <1>4, <2>1, <2>3 DEF Alone
  <2>4. CASE j \in 1..Len(ch) /\ k = Len(ch) + 1
    BY <1>1, <1>4, <2>1, <2>2, <2>4 DEF Silent
  <2>5. CASE j = Len(ch) + 1 /\ k \in 1..Len(ch)
    BY <1>1, <1>4, <2>1, <2>2, <2>5 DEF Silent, Asks
  <2>6. QED
    BY <1>1, <2>1, <2>3, <2>4, <2>5
<1>5. ASSUME Ordered(ch, s), m # Sub("AGREE", s) \/ Silent(ch, s)
      PROVE  Ordered(new, s)
  <2>1. SUFFICES ASSUME NEW i \in 1..Len(new), NEW j \in 1..Len(new), i < j,
                        new[i] = Sub("INFORM", s), new[j] = Sub("AGREE", s)
                 PROVE  FALSE
    BY DEF Ordered
  <2>2. i \in 1..Len(ch)
    BY <1>1, <2>1
  <2>3. ch[i].conv = s
    BY <1>1, <2>1, <2>2 DEF Sub
  <2>4. j \in 1..Len(ch)
    BY <1>1, <1>5, <2>1, <2>2, <2>3 DEF Silent
  <2>5. QED
    BY <1>1, <1>5, <2>1, <2>2, <2>4 DEF Ordered
<1>6. QED
  BY <1>2, <1>3, <1>4, <1>5 DEF new

\* Steps that are not about subscription s, and the waits of its initiator,
\* keep its part of the invariant.
LEMMA Undisturbed ==
    ASSUME TypeInv, NEW s \in Subs, SubscriptionInv(s),
           \/ To(s)' = To(s)
           \/ To(s) # <<>> /\ To(s)' = Tail(To(s))
           \/ \E m \in Messages : /\ m.conv # s \/ (m # Sub("SUBSCRIBE", s) /\ ~Asks(To(s), s)
                                                     /\ sstate[s] # "SEND_SUBSCRIBE")
                                 /\ To(s)' = Append(To(s), m),
           \/ From(s)' = From(s)
           \/ From(s) # <<>> /\ From(s)' = Tail(From(s))
           \/ \E m \in Messages : m.conv # s /\ From(s)' = Append(From(s), m),
           work'[2] # s \/ work'[2] = work[2],
           \A n \in SubNames : subscribers'[n] = s => subscribers[n] = s,
           \/ sstate'[s] = sstate[s]
           \/ sstate'[s] = "over"
           \/ ~Asks(To(s), s) /\ sstate'[s] # "SEND_SUBSCRIBE"
    PROVE  SubscriptionInv(s)'
<1>1. To(s) \in Seq(Messages) /\ From(s) \in Seq(Messages)
  BY LinksApart DEF TypeInv, TypeOK, To, From
<1> DEFINE ToKept   == /\ Asks(To(s)', s) => Asks(To(s), s)
                       /\ Alone(To(s)', s)
                       /\ sstate[s] = "SEND_SUBSCRIBE" /\ Silent(To(s), s) => Silent(To(s)', s)
           FromKept == (Silent(From(s), s) => Silent(From(s)', s)) /\ Ordered(From(s)', s)
<1>2. ToKept
  <2>1. CASE To(s)' = To(s)
    BY <2>1 DEF SubscriptionInv
  <2>2. CASE To(s) # <<>> /\ To(s)' = Tail(To(s))
    BY <1>1, <2>2, TailKeeps DEF SubscriptionInv
  <2>3. ASSUME NEW m \in Messages, To(s)' = Append(To(s), m),
               m.conv # s \/ (m # Sub("SUBSCRIBE", s) /\ ~Asks(To(s), s)
                              /\ sstate[s] # "SEND_SUBSCRIBE")
        PROVE  ToKept
    <3>1. m # Sub("SUBSCRIBE", s)
      BY <2>3 DEF Sub
    <3>2. QED
      BY <1>1, <2>3, <3>1, AppendKeeps DEF SubscriptionInv
  <2>4. QED
    BY <2>1, <2>2, <2>3
<1>3. FromKept
  <2>1. CASE From(s)' = From(s)
    BY <2>1 DEF SubscriptionInv
  <2>2. CASE From(s) # <<>> /\ From(s)' = Tail(From(s))
    BY <1>1, <2>2, TailKeeps DEF SubscriptionInv
  <2>3. ASSUME NEW m \in Messages, m.conv # s, From(s)' = Append(From(s), m) PROVE FromKept
    <3>1. m # Sub("AGREE", s)
      BY <2>3 DEF Sub
    <3>2. QED
      BY <1>1, <2>3, <3>1, AppendKeeps DEF SubscriptionInv
  <2>4. QED
    BY <2>1, <2>2, <2>3
<1>4. Unheard(s) => Unheard(s)'
  BY <1>3 DEF Unheard
<1>5. QED
  BY <1>2, <1>3, <1>4 DEF SubscriptionInv

\* What a step of a behaviour that takes from a link or sends on one does to the
\* links of subscription s.
LEMMA LinksOfOne ==
    ASSUME TypeInv, NEW s \in Subs
    PROVE  /\ inbox' = inbox => To(s)' = To(s) /\ From(s)' = From(s)
           /\ \A name : \A l \in Into(name) : inbox' = Taken(l) =>
                 /\ To(s)' = To(s) \/ (To(s) # <<>> /\ To(s)' = Tail(To(s)))
                 /\ From(s)' = From(s) \/ (From(s) # <<>> /\ From(s)' = Tail(From(s)))
                 /\ name # Publisher => To(s)' = To(s)
           /\ \A l \in Links : \A m \in Messages : inbox' \in Sent(inbox, l, m) =>
                 /\ l # ToPublisher(s) => To(s)' = To(s)
                 /\ l # FromPublisher(s) => From(s)' = From(s)
                 /\ To(s)' = To(s) \/ To(s)' = Append(To(s), m)
                 /\ From(s)' = From(s) \/ From(s)' = Append(From(s), m)
<1>1. /\ inbox \in [Links -> Seq(Messages)]
      /\ ToPublisher(s) \in Links /\ FromPublisher(s) \in Links
      /\ ToPublisher(s)[2] = Publisher
  BY LinksApart DEF TypeInv, TypeOK, ToPublisher
<1>2. ASSUME NEW name, NEW l \in Into(name), inbox' = Taken(l)
      PROVE  /\ To(s)' = To(s) \/ (To(s) # <<>> /\ To(s)' = Tail(To(s)))
             /\ From(s)' = From(s) \/ (From(s) # <<>> /\ From(s)' = Tail(From(s)))
             /\ name # Publisher => To(s)' = To(s)
  <2>1. /\ l \in Links /\ l[2] = name /\ inbox[l] # <<>>
        /\ inbox'[l] = Tail(inbox[l])
        /\ \A h \in Links : h # l => inbox'[h] = inbox[h]
    BY <1>1, <1>2 DEF Into, Taken
  <2>2. \A h \in Links : inbox'[h] = inbox[h] \/ (h = l /\ inbox[h] # <<>> /\ inbox'[h] = Tail(inbox[h]))
    BY <2>1
  <2>3. QED
    BY <1>1, <2>1, <2>2 DEF To, From
<1>3. ASSUME NEW l \in Links, NEW m \in Messages, inbox' \in Sent(inbox, l, m)
      PROVE  /\ l # ToPublisher(s) => To(s)' = To(s)
             /\ l # FromPublisher(s) => From(s)' = From(s)
             /\ To(s)' = To(s) \/ To(s)' = Append(To(s), m)
             /\ From(s)' = From(s) \/ From(s)' = Append(From(s), m)
  <2>1. /\ \A h \in Links : h # l => inbox'[h] = inbox[h]
        /\ inbox'[l] = inbox[l] \/ inbox'[l] = Append(inbox[l], m)
    <3>1. CASE inbox' = inbox
      BY <3>1
    <3>2. CASE inbox' = [inbox EXCEPT ![l] = Append(@, m)]
      BY <1>1, <3>2
    <3>3. QED
      BY <1>3, <3>1, <3>2 DEF Sent
  <2>2. QED
    BY <1>1, <2>1 DEF To, From
<1>4. QED
  BY <1>2, <1>3 DEF To, From

\* A step of a request leaves the links of a subscription alone, or drops a message.
LEMMA RequestOnLinks ==
    ASSUME TypeInv, RequestNext, NEW s \in Subs
    PROVE  /\ \/ To(s)' = To(s)
              \/ To(s) # <<>> /\ To(s)' = Tail(To(s))
           /\ \/ From(s)' = From(s)
              \/ From(s) # <<>> /\ From(s)' = Tail(From(s))
<1>1. \A n \in 1..MaxRequests : \A perf \in Final \cup {"REQUEST", "AGREE"} :
        Req(perf, n) \in Messages
  BY MessageFields
<1>2. /\ inbox \in [Links -> Seq(Messages)] /\ AllFit(inbox)
      /\ current \in 1..MaxRequests /\ serving \in 0..MaxRequests
  BY DEF TypeInv, TypeOK, RequestTypeOK
<1>3. CASE SendRequest
  BY <1>1, <1>2, <1>3, LinksOfOne, LinksApart DEF SendRequest
<1>4. CASE RequestTimeout
  BY <1>4, LinksOfOne DEF RequestTimeout
<1>5. CASE ReceiveResponse
  BY <1>5, LinksOfOne DEF ReceiveResponse
<1>6. CASE ServerReceives
  <2>1. PICK l \in Into(Server) :
          inbox' \in Sent(Taken(l), <<Server, Requester>>, Req("AGREE", Head(inbox[l]).n))
    BY <1>6 DEF ServerReceives
  <2>2. l = <<Requester, Server>> /\ Req("AGREE", Head(inbox[l]).n) \in Messages
    BY <1>1, <1>2, WhoseMessage
  <2>3. /\ Taken(l) \in [Links -> Seq(Messages)]
        /\ \A h \in Links : h # l => Taken(l)[h] = inbox[h]
    BY <1>2, TakingOne
  <2>4. \A h \in Links : h # <<Server, Requester>> => inbox'[h] = Taken(l)[h]
    BY <2>1, <2>3, RequestLinks DEF Sent
  <2>5. QED
    BY <2>2, <2>3, <2>4, LinksApart DEF To, From
<1>7. CASE ServerResponds
  <2>1. PICK perf \in Final :
          inbox' \in Sent(inbox, <<Server, Requester>>, Req(perf, serving))
    BY <1>7 DEF ServerResponds
  <2>2. Req(perf, serving) \in Messages
    BY <1>1, <1>2, <1>7 DEF ServerResponds
  <2>3. QED
    BY <2>1, <2>2, LinksOfOne, LinksApart
<1>8. QED
  BY <1>3, <1>4, <1>5, <1>6, <1>7 DEF RequestNext, InitiatorStep, ServerStep

\* The requests of an agent do not disturb its subscriptions, though they drop
\* messages of them.
LEMMA RequestKeepsAgree ==
    ASSUME TypeInv, AgreeInv, RequestNext, UNCHANGED subscribeVars
    PROVE  AgreeInv'
<1>1. SUFFICES ASSUME NEW s \in Subs PROVE SubscriptionInv(s)'
  BY DEF AgreeInv
<1>2. SubscriptionInv(s) /\ UNCHANGED <<sstate, subscribers, work>>
  BY DEF AgreeInv, subscribeVars
<1>3. /\ \/ To(s)' = To(s)
         \/ To(s) # <<>> /\ To(s)' = Tail(To(s))
      /\ \/ From(s)' = From(s)
         \/ From(s) # <<>> /\ From(s)' = Tail(From(s))
  BY RequestOnLinks
<1>4. QED
  BY <1>2, <1>3, Undisturbed

\* A subscriber keeps the order on its links.
LEMMA SubscriberKeepsAgree ==
    ASSUME TypeInv, AgreeInv, NEW t \in Subs, SubscriberStep(t), NEW s \in Subs
    PROVE  SubscriptionInv(s)'
<1>1. /\ SubscriptionInv(s) /\ SubscriptionInv(t) /\ UNCHANGED <<subscribers, work>>
      /\ sstate \in [Subs -> {"SEND_SUBSCRIBE", "WAIT_AGREE", "WAIT_NOTIFY", "WAIT_CANCEL_ACK", "over"}]
      /\ NameOf[t] \in SubNames /\ NameOf[t] # Publisher
  BY LinksApart, SubscribeLinks
     DEF AgreeInv, TypeInv, TypeOK, SubscribeTypeOK, SubscriberStep, SubscriberWaits, SendSubscribe,
         AgreeTimeout, ReceiveAgree, ReceiveNotify, SendCancel, AwaitCancelAck
<1>2. /\ To(s) \in Seq(Messages) /\ From(s) \in Seq(Messages)
      /\ ToPublisher(t) \in Links /\ ToPublisher(t) # FromPublisher(s)
      /\ Sub("SUBSCRIBE", t) \in Messages /\ Sub("CANCEL", t) \in Messages
  BY LinksApart, MessageFields DEF TypeInv, TypeOK, To, From
<1>3. CASE SendSubscribe(t)
  <2>1. /\ inbox' \in Sent(inbox, ToPublisher(t), Sub("SUBSCRIBE", t))
        /\ sstate[t] = "SEND_SUBSCRIBE" /\ sstate' = [sstate EXCEPT ![t] = "WAIT_AGREE"]
    BY <1>3 DEF SendSubscribe, GoesTo
  <2>2. /\ From(s)' = From(s)
        /\ To(s)' = To(s) \/ To(s)' = Append(To(s), Sub("SUBSCRIBE", t))
    BY <1>2, <2>1, LinksOfOne
  <2>3. CASE s # t
    <3>1. Sub("SUBSCRIBE", t).conv # s
      BY <2>3 DEF Sub
    <3>2. sstate'[s] = sstate[s]
      BY <1>1, <2>1, <2>3
    <3>3. QED
      BY <1>1, <1>2, <2>2, <3>1, <3>2, Undisturbed
  <2>4. CASE s = t
    <3>1. Unheard(s) /\ Silent(To(s), s) /\ Alone(To(s), s) /\ Ordered(From(s), s)
      BY <1>1, <2>1, <2>4 DEF SubscriptionInv
    <3>2. sstate'[s] = "WAIT_AGREE"
      BY <1>1, <2>1, <2>4
    <3>3. Unheard(s)'
      BY <1>1, <2>2, <3>1 DEF Unheard
    <3>4. Alone(To(s)', s)
      BY <1>2, <2>2, <2>4, <3>1, AppendKeeps
    <3>5. QED
      BY <2>2, <3>1, <3>2, <3>3, <3>4 DEF SubscriptionInv
  <2>5. QED
    BY <2>3, <2>4
<1>4. CASE SendCancel(t)
  <2>1. /\ inbox' \in Sent(inbox, ToPublisher(t), Sub("CANCEL", t))
        /\ sstate[t] = "WAIT_NOTIFY" /\ sstate' = [sstate EXCEPT ![t] = "WAIT_CANCEL_ACK"]
    BY <1>4 DEF SendCancel, GoesTo
  <2>2. /\ From(s)' = From(s)
        /\ To(s)' = To(s) \/ To(s)' = Append(To(s), Sub("CANCEL", t))
    BY <1>2, <2>1, LinksOfOne
  <2>3. Sub("CANCEL", t) # Sub("SUBSCRIBE", s) /\ Sub("CANCEL", t).conv = t
    BY DEF Sub
  <2>4. ~Asks(To(t), t)
    BY <1>1, <2>1 DEF SubscriptionInv
  <2>5. sstate'[s] = sstate[s] \/ (s = t /\ sstate'[s] # "SEND_SUBSCRIBE")
    BY <1>1, <2>1
  <2>6. QED
    BY <1>1, <1>2, <2>1, <2>2, <2>3, <2>4, <2>5, Undisturbed
<1>5. CASE AgreeTimeout(t)
  <2>1. inbox' = inbox /\ sstate' = [sstate EXCEPT ![t] = "over"]
    BY <1>5 DEF AgreeTimeout, GoesTo
  <2>2. sstate'[s] = sstate[s] \/ sstate'[s] = "over"
    BY <1>1, <2>1
  <2>3. QED
    BY <1>1, <2>1, <2>2, LinksOfOne, Undisturbed
<1>6. CASE ReceiveAgree(t)
  <2>1. PICK l \in Into(NameOf[t]) :
          /\ inbox' = Taken(l)
          /\ LET m == Head(inbox[l]) IN
             CASE m.conv = t /\ m.perf = "AGREE"  -> GoesTo(t, "WAIT_NOTIFY")
               [] m.conv = t /\ m.perf = "REFUSE" -> GoesTo(t, "over")
               [] OTHER                           -> UNCHANGED sstate
    BY <1>6 DEF ReceiveAgree
  <2>2. /\ To(s)' = To(s)
        /\ From(s)' = From(s) \/ (From(s) # <<>> /\ From(s)' = Tail(From(s)))
    BY <1>1, <2>1, LinksOfOne
  <2>3. CASE UNCHANGED sstate
    BY <1>1, <2>2, <2>3, Undisturbed
  <2>4. CASE sstate' = [sstate EXCEPT ![t] = "over"]
    <3>1. sstate'[s] = sstate[s] \/ sstate'[s] = "over"
      BY <1>1, <2>4
    <3>2. QED
      BY <1>1, <2>2, <3>1, Undisturbed
  <2>5. CASE sstate' = [sstate EXCEPT ![t] = "WAIT_NOTIFY"] /\ Head(inbox[l]).conv = t
    <3>1. l = FromPublisher(t) /\ From(t) # <<>> /\ From(t) \in Seq(Messages)
      BY <1>1, <2>5, WhoseMessage, RolesApart, LinksApart DEF TypeInv, TypeOK, From, Into
    <3>2. ~Silent(From(t), t)
      BY <2>5, <3>1, TailKeeps DEF From
    <3>3. ~Asks(To(t), t)
      BY <1>1, <3>2 DEF SubscriptionInv, Unheard
    <3>4. sstate'[s] = sstate[s] \/ (s = t /\ sstate'[s] # "SEND_SUBSCRIBE")
      BY <1>1, <2>5
    <3>5. QED
      BY <1>1, <2>2, <3>3, <3>4, Undisturbed
  <2>6. QED
    BY <2>1, <2>3, <2>4, <2>5 DEF GoesTo
<1>7. CASE ReceiveNotify(t)
  <2>1. /\ To(s)' = To(s)
        /\ From(s)' = From(s) \/ (From(s) # <<>> /\ From(s)' = Tail(From(s)))
    BY <1>1, <1>7, LinksOfOne DEF ReceiveNotify
  <2>2. sstate' = sstate
    BY <1>7 DEF ReceiveNotify
  <2>3. QED
    BY <1>1, <2>1, <2>2, Undisturbed
<1>8. CASE AwaitCancelAck(t)
  <2>1. /\ To(s)' = To(s)
        /\ From(s)' = From(s) \/ (From(s) # <<>> /\ From(s)' = Tail(From(s)))
    BY <1>1, <1>8, LinksOfOne DEF AwaitCancelAck
  <2>2. sstate'[s] = sstate[s] \/ sstate'[s] = "over"
    BY <1>1, <1>8 DEF AwaitCancelAck, GoesTo
  <2>3. QED
    BY <1>1, <2>1, <2>2, Undisturbed
<1>9. QED
  BY <1>3, <1>4, <1>5, <1>6, <1>7, <1>8 DEF SubscriberStep, SubscriberWaits

\* So does the publisher: an AGREE follows a SUBSCRIBE, which is alone.
LEMMA PublisherKeepsAgree ==
    ASSUME TypeInv, AgreeInv, PublisherStep, NEW s \in Subs
    PROVE  SubscriptionInv(s)'
<1>1. /\ SubscriptionInv(s) /\ sstate' = sstate
      /\ inbox \in [Links -> Seq(Messages)] /\ AllFit(inbox)
      /\ work[2] \in Subs \cup {NoSub} /\ subscribers \in [SubNames -> Subs \cup {NoSub}]
      /\ (work[1] = "none") <=> (work[2] = NoSub)
      /\ To(s) \in Seq(Messages) /\ From(s) \in Seq(Messages)
      /\ ToPublisher(s) \in Links /\ FromPublisher(s) \in Links
  BY LinksApart DEF AgreeInv, TypeInv, TypeOK, SubscribeTypeOK, To, From, PublisherStep,
     ReceiveSubscribe, ReceiveCancel, EnterSubscriber, EraseSubscriber
<1>2. ASSUME NEW l \in Into(Publisher), ReceiveSubscribe(l) \/ ReceiveCancel(l)
      PROVE  SubscriptionInv(s)'
  <2> DEFINE m == Head(inbox[l])
             t == m.conv
  <2>1. /\ t \in Subs /\ l = ToPublisher(t) /\ m = Sub(m.perf, t) /\ m.perf \in {"SUBSCRIBE", "CANCEL"}
    BY <1>1, WhoseMessage
  <2>2. PICK perf \in {"AGREE", "REFUSE", "INFORM"} :
          /\ inbox' \in Sent(Taken(l), FromPublisher(t), Sub(perf, t))
          /\ m.perf # "SUBSCRIBE" => perf = "INFORM"
    BY <1>2 DEF ReceiveSubscribe, ReceiveCancel
  <2>3. work' \in {work, <<"enter", t>>, <<"erase", t>>} /\ subscribers' = subscribers
    BY <1>2 DEF ReceiveSubscribe, ReceiveCancel
  <2>4. /\ Taken(l) \in [Links -> Seq(Messages)] /\ Taken(l)[l] = Tail(inbox[l]) /\ inbox[l] # <<>>
        /\ \A h \in Links : h # l => Taken(l)[h] = inbox[h]
    BY <1>1, TakingOne DEF Into
  <2>5. /\ FromPublisher(t) \in Links /\ ToPublisher(s) # FromPublisher(t) /\ l # FromPublisher(s)
        /\ FromPublisher(t) # l /\ Sub(perf, t) \in Messages
    BY <2>1, LinksApart, MessageFields
  <2>6. /\ inbox'[ToPublisher(s)] = Taken(l)[ToPublisher(s)]
        /\ \/ inbox'[FromPublisher(s)] = inbox[FromPublisher(s)]
           \/ inbox'[FromPublisher(s)] = Append(inbox[FromPublisher(s)], Sub(perf, t))
    <3>1. CASE inbox' = Taken(l)
      BY <1>1, <2>4, <2>5, <3>1
    <3>2. CASE inbox' = [Taken(l) EXCEPT ![FromPublisher(t)] = Append(@, Sub(perf, t))]
      BY <1>1, <2>4, <2>5, <3>2
    <3>3. QED
      BY <2>2, <3>1, <3>2 DEF Sent
  <2>7. /\ To(s)' = To(s) \/ (To(s) # <<>> /\ To(s)' = Tail(To(s)))
        /\ t = s => To(s) # <<>> /\ To(s)' = Tail(To(s)) /\ Head(To(s)) = m
        /\ From(s)' = From(s) \/ From(s)' = Append(From(s), Sub(perf, t))
    BY <1>1, <2>1, <2>4, <2>6 DEF To, From
  <2>8. Sub(perf, t).conv = t /\ (Sub(perf, t) = Sub("AGREE", s) => perf = "AGREE" /\ t = s)
    BY DEF Sub
  <2> HIDE DEF m, t
  <2>9. CASE t # s
    <3>1. work'[2] # s \/ work'[2] = work[2]
      BY <2>3, <2>9
    <3>2. QED
      BY <1>1, <2>3, <2>5, <2>7, <2>8, <2>9, <3>1, Undisturbed
  <2>10. CASE t = s /\ m.perf = "SUBSCRIBE"
    <3>1. Asks(To(s), s) /\ Silent(Tail(To(s)), s)
      BY <1>1, <2>1, <2>7, <2>10, TailKeeps DEF SubscriptionInv
    <3>2. Silent(From(s), s) /\ sstate[s] # "SEND_SUBSCRIBE" /\ Ordered(From(s), s)
      BY <1>1, <3>1 DEF SubscriptionInv, Unheard
    <3>3. ~Asks(To(s)', s) /\ Alone(To(s)', s)
      <4>1. To(s)' = Tail(To(s)) /\ Sub("SUBSCRIBE", s).conv = s
        BY <2>7, <2>10 DEF Sub
      <4>2. QED
        BY <3>1, <4>1 DEF Asks, Alone, Silent
    <3>4. Ordered(From(s)', s)
      BY <1>1, <2>5, <2>7, <3>2, AppendKeeps
    <3>5. QED
      BY <1>1, <3>2, <3>3, <3>4 DEF SubscriptionInv
  <2>11. CASE t = s /\ m.perf # "SUBSCRIBE"
    <3>1. /\ ~Silent(To(s), s)
          /\ Asks(Tail(To(s)), s) => Asks(To(s), s)
          /\ Alone(Tail(To(s)), s)
      BY <1>1, <2>7, <2>11, TailKeeps DEF SubscriptionInv, t
    <3>2. ~Asks(To(s)', s)
      <4>1. SUFFICES ASSUME Asks(Tail(To(s)), s) PROVE FALSE
        BY <2>7, <2>11
      <4>2. PICK k \in 1..Len(To(s)) : To(s)[k] = Sub("SUBSCRIBE", s)
        BY <3>1, <4>1 DEF Asks
      <4>3. 1 \in 1..Len(To(s)) /\ To(s)[1] = m
        BY <1>1, <2>7, <2>11, <4>2
      <4>4. k # 1
        BY <2>11, <4>2, <4>3 DEF Sub
      <4>5. QED
        BY <1>1, <2>11, <4>2, <4>3, <4>4 DEF SubscriptionInv, Alone, t
    <3>3. sstate[s] # "SEND_SUBSCRIBE" /\ Ordered(From(s), s)
      BY <1>1, <3>1 DEF SubscriptionInv
    <3>4. Ordered(From(s)', s)
      BY <1>1, <2>2, <2>5, <2>7, <2>8, <2>11, <3>3, AppendKeeps
    <3>5. QED
      BY <1>1, <2>7, <2>11, <3>1, <3>2, <3>3, <3>4 DEF SubscriptionInv
  <2>12. QED
    BY <2>1, <2>9, <2>10, <2>11
<1>3. CASE EnterSubscriber \/ EraseSubscriber
  <2>1. /\ inbox' = inbox /\ work' = <<"none", NoSub>> /\ work[2] # NoSub
        /\ \E v \in {work[2], NoSub} : subscribers' = [subscribers EXCEPT ![NameOf[work[2]]] = v]
    BY <1>1, <1>3 DEF EnterSubscriber, EraseSubscriber
  <2>2. To(s)' = To(s) /\ From(s)' = From(s)
    BY <2>1, LinksOfOne
  <2>3. work'[2] # s
    BY <2>1, SubscribeLinks
  <2>4. CASE work[2] # s
    <3>1. \A n \in SubNames : subscribers'[n] = s => subscribers[n] = s
      BY <1>1, <2>1, <2>4, SubscribeLinks
    <3>2. QED
      BY <1>1, <2>2, <2>3, <3>1, Undisturbed
  <2>5. CASE work[2] = s
    <3>1. ~Unheard(s)
      BY <2>5 DEF Unheard
    <3>2. QED
      BY <1>1, <2>2, <3>1 DEF SubscriptionInv
  <2>6. QED
    BY <2>4, <2>5
<1>4. QED
  BY <1>2, <1>3 DEF PublisherStep

\* And notify, which only sends to those whose SUBSCRIBE has come.
LEMMA NotifyKeepsAgree ==
    ASSUME TypeInv, AgreeInv, notify, NEW s \in Subs
    PROVE  SubscriptionInv(s)'
<1>1. /\ SubscriptionInv(s) /\ UNCHANGED <<sstate, subscribers, work>>
      /\ To(s) \in Seq(Messages) /\ From(s) \in Seq(Messages)
      /\ ToPublisher(s) \in Links /\ FromPublisher(s) \in Links /\ NameOf[s] \in SubNames
      /\ \A t \in Subs : ToPublisher(s) # FromPublisher(t)
  BY LinksApart DEF AgreeInv, TypeInv, TypeOK, To, From, notify
<1>2. \A l \in Links :
         \/ inbox'[l] = inbox[l]
         \/ \E t \in Subs : /\ l = FromPublisher(t) /\ subscribers[NameOf[t]] = t
                            /\ inbox'[l] = Append(inbox[l], Sub("INFORM", t))
  BY NotifySends DEF TypeInv, TypeOK
<1>3. /\ To(s)' = To(s)
      /\ \/ From(s)' = From(s)
         \/ \E t \in Subs : /\ subscribers[NameOf[t]] = t
                            /\ From(s)' = Append(From(s), Sub("INFORM", t))
  BY <1>1, <1>2 DEF To, From
<1>4. CASE From(s)' = From(s)
  BY <1>1, <1>3, <1>4, Undisturbed
<1>5. ASSUME NEW t \in Subs, subscribers[NameOf[t]] = t, From(s)' = Append(From(s), Sub("INFORM", t))
      PROVE  SubscriptionInv(s)'
  <2>1. Sub("INFORM", t) \in Messages /\ Sub("INFORM", t).conv = t /\ Sub("INFORM", t) # Sub("AGREE", s)
    BY MessageFields DEF Sub
  <2>2. CASE t # s
    BY <1>1, <1>3, <1>5, <2>1, <2>2, Undisturbed
  <2>3. CASE t = s
    <3>1. ~Unheard(s)
      BY <1>1, <1>5, <2>3 DEF Unheard
    <3>2. Ordered(From(s)', s)
      BY <1>1, <1>5, <2>1, AppendKeeps DEF SubscriptionInv
    <3>3. QED
      BY <1>1, <1>3, <3>1, <3>2 DEF SubscriptionInv
  <2>4. QED
    BY <2>2, <2>3
<1>6. QED
  BY <1>3, <1>4, <1>5

\* AgreeInv is an invariant.
LEMMA AgreeInvariant == Spec => []AgreeInv
<1>1. Init => AgreeInv
  <2>1. SUFFICES ASSUME Init, NEW s \in Subs PROVE SubscriptionInv(s)
    BY DEF AgreeInv
  <2>2. To(s) = <<>> /\ From(s) = <<>>
    BY <2>1, LinksApart DEF Init, To, From
  <2>3. Unheard(s)
    BY <2>1, <2>2, SubscribeLinks DEF Init, SubscribeInit, Unheard, Silent
  <2>4. QED
    BY <2>2, <2>3 DEF SubscriptionInv, Silent, Asks, Alone, Ordered
<1>2. TypeInv /\ AgreeInv /\ [Next]_vars => AgreeInv'
  <2> SUFFICES ASSUME TypeInv, AgreeInv, [Next]_vars PROVE AgreeInv'
    OBVIOUS
  <2>1. CASE RequestNext /\ UNCHANGED subscribeVars
    BY <2>1, RequestKeepsAgree
  <2>2. CASE SubscribeNext
    BY <2>2, SubscriberKeepsAgree, PublisherKeepsAgree, NotifyKeepsAgree DEF SubscribeNext, AgreeInv
  <2>3. CASE UNCHANGED vars
    BY <2>3 DEF vars, subscribeVars, AgreeInv, SubscriptionInv, Unheard, To, From
  <2>4. QED
    BY <2>1, <2>2, <2>3 DEF Next
<1>3. QED
  BY <1>1, <1>2, TypeInvariant, PTL DEF Spec

\* In every reachable state no INFORM of a subscription is ahead of its AGREE
\* on the way from SubscribeParticipant to the subscriber.
THEOREM InformAfterAgreeAlways == Spec => []InformAfterAgree
<1>1. AgreeInv => InformAfterAgree
  BY DEF AgreeInv, SubscriptionInv, Ordered, From, InformAfterAgree
<1>2. QED
  BY <1>1, AgreeInvariant, PTL

\* The publisher has received the CANCEL of s, or s has lost its entry otherwise:
\* nothing that could enter s again is under way.
Out(s) ==
    /\ sstate[s] # "SEND_SUBSCRIBE" /\ ~Asks(To(s), s)
    /\ work # <<"enter", s>>
    /\ work = <<"erase", s>> \/ subscribers[NameOf[s]] # s

\* No step enters s again.
LEMMA StaysOut ==
    ASSUME TypeInv, NEW s \in Subs, Out(s), [Next]_vars
    PROVE  Out(s)'
<1>1. /\ To(s) \in Seq(Messages) /\ inbox \in [Links -> Seq(Messages)] /\ AllFit(inbox)
      /\ work \in {"none", "enter", "erase"} \X (Subs \cup {NoSub})
      /\ subscribers \in [SubNames -> Subs \cup {NoSub}]
      /\ NameOf[s] \in SubNames /\ s # NoSub
      /\ sstate \in [Subs -> {"SEND_SUBSCRIBE", "WAIT_AGREE", "WAIT_NOTIFY", "WAIT_CANCEL_ACK",
                              "over"}]
  BY LinksApart, SubscribeLinks DEF TypeInv, TypeOK, SubscribeTypeOK, To
<1>2. /\ sstate[s] # "SEND_SUBSCRIBE" /\ ~Asks(To(s), s)
      /\ work # <<"enter", s>>
      /\ work = <<"erase", s>> \/ subscribers[NameOf[s]] # s
  BY DEF Out
<1>3. ASSUME To(s)' = To(s) \/ (To(s) # <<>> /\ To(s)' = Tail(To(s))) PROVE ~Asks(To(s)', s)
  BY <1>1, <1>2, <1>3, TailKeeps
<1>4. ASSUME NEW t \in Subs, SubscriberStep(t) PROVE Out(s)'
  <2>1. UNCHANGED <<subscribers, work>> /\ sstate'[s] # "SEND_SUBSCRIBE"
    BY <1>1, <1>2, <1>4 DEF SubscriberStep, SubscriberWaits, SendSubscribe, AgreeTimeout,
       ReceiveAgree, ReceiveNotify, SendCancel, AwaitCancelAck, GoesTo
  <2>2. ~Asks(To(s)', s)
    <3>1. CASE SendSubscribe(t) \/ SendCancel(t)
      <4>1. PICK m \in {Sub("SUBSCRIBE", t), Sub("CANCEL", t)} :
              /\ inbox' \in Sent(inbox, ToPublisher(t), m)
              /\ m = Sub("SUBSCRIBE", t) => t # s
        BY <1>2, <3>1 DEF SendSubscribe, SendCancel, Sub
      <4>2. m # Sub("SUBSCRIBE", s)
        <5>1. /\ Sub("SUBSCRIBE", s).conv = s /\ Sub("SUBSCRIBE", s).perf = "SUBSCRIBE"
              /\ Sub("SUBSCRIBE", t).conv = t /\ Sub("CANCEL", t).perf = "CANCEL"
          BY DEF Sub
        <5>2. QED
          BY <4>1, <5>1
      <4>3. m \in Messages /\ ToPublisher(t) \in Links
        BY LinksApart, MessageFields
      <4>4. To(s)' = To(s) \/ To(s)' = Append(To(s), m)
        BY <4>1, <4>3, LinksOfOne
      <4>5. ~Asks(Append(To(s), m), s)
        BY <1>1, <1>2, <4>2, <4>3, AppendKeeps
      <4>6. QED
        BY <1>2, <4>4, <4>5
    <3>2. CASE ReceiveAgree(t) \/ ReceiveNotify(t) \/ AgreeTimeout(t) \/ AwaitCancelAck(t)
      <4>1. inbox' = inbox \/ \E l \in Into(NameOf[t]) : inbox' = Taken(l)
        BY <3>2 DEF ReceiveAgree, ReceiveNotify, AgreeTimeout, AwaitCancelAck
      <4>2. QED
        BY <1>3, <4>1, LinksOfOne
    <3>3. QED
      BY <1>4, <3>1, <3>2 DEF SubscriberStep, SubscriberWaits
  <2>3. QED
    BY <1>2, <2>1, <2>2 DEF Out
<1>5. ASSUME work[1] = "none", NEW l \in Into(Publisher), ReceiveSubscribe(l) \/ ReceiveCancel(l)
      PROVE  Out(s)'
  <2> DEFINE m == Head(inbox[l])
             t == m.conv
  <2>1. /\ t \in Subs /\ l = ToPublisher(t) /\ m = Sub(m.perf, t)
        /\ m.perf \in {"SUBSCRIBE", "CANCEL"}
    BY <1>1, WhoseMessage
  <2>2. PICK perf \in {"AGREE", "REFUSE", "INFORM"} :
          inbox' \in Sent(Taken(l), FromPublisher(t), Sub(perf, t))
    BY <1>5 DEF ReceiveSubscribe, ReceiveCancel
  <2>3. /\ Taken(l) \in [Links -> Seq(Messages)] /\ Taken(l)[l] = Tail(inbox[l]) /\ inbox[l] # <<>>
        /\ \A h \in Links : h # l => Taken(l)[h] = inbox[h]
        /\ ToPublisher(s) \in Links /\ ToPublisher(s) # FromPublisher(t)
    <3>1. ToPublisher(s) \in Links /\ ToPublisher(s) # FromPublisher(t)
      BY <2>1, LinksApart
    <3>2. QED
      BY <1>1, <3>1, TakingOne DEF Into
  <2>4. inbox'[ToPublisher(s)] = Taken(l)[ToPublisher(s)]
    BY <2>2, <2>3 DEF Sent
  <2>5. ~Asks(To(s)', s)
    BY <1>3, <2>3, <2>4 DEF To
  <2>6. t = s => m.perf # "SUBSCRIBE"
    <3>1. SUFFICES ASSUME t = s, m = Sub("SUBSCRIBE", s) PROVE FALSE
      BY <2>1
    <3>2. To(s) # <<>> /\ Head(To(s)) = Sub("SUBSCRIBE", s)
      BY <2>1, <2>3, <3>1 DEF To
    <3>3. QED
      BY <1>1, <1>2, <3>2, TailKeeps
  <2>7. /\ UNCHANGED <<subscribers, sstate>>
        /\ \/ work' = work \/ work' = <<"erase", t>>
           \/ m.perf = "SUBSCRIBE" /\ work' = <<"enter", t>>
    BY <1>5 DEF ReceiveSubscribe, ReceiveCancel
  <2> HIDE DEF m, t
  <2>8. work # <<"erase", s>> /\ work' # <<"enter", s>>
    BY <1>2, <1>5, <2>6, <2>7
  <2>9. QED
    BY <1>2, <2>5, <2>7, <2>8 DEF Out
<1>6. CASE EnterSubscriber \/ EraseSubscriber
  <2>1. /\ UNCHANGED <<inbox, sstate>> /\ work' = <<"none", NoSub>>
        /\ \/ work[1] = "enter" /\ subscribers' = [subscribers EXCEPT ![NameOf[work[2]]] = work[2]]
           \/ work[1] = "erase" /\ subscribers' = [subscribers EXCEPT ![NameOf[work[2]]] = NoSub]
    BY <1>6 DEF EnterSubscriber, EraseSubscriber
  <2>2. subscribers'[NameOf[s]] # s
    <3>1. work = <<work[1], work[2]>>
      BY <1>1
    <3>2. CASE work[1] = "enter"
      <4>1. work[2] # s /\ subscribers[NameOf[s]] # s
        BY <1>2, <3>1, <3>2
      <4>2. QED
        BY <1>1, <2>1, <3>2, <4>1
    <3>3. CASE work[1] = "erase"
      <4>1. work[2] = s \/ subscribers[NameOf[s]] # s
        BY <1>2, <3>1, <3>3
      <4>2. QED
        BY <1>1, <2>1, <3>3, <4>1
    <3>4. QED
      BY <2>1, <3>2, <3>3
  <2>3. QED
    BY <1>2, <2>1, <2>2 DEF Out, To
<1>7. CASE notify
  <2>1. UNCHANGED <<sstate, subscribers, work>>
    BY <1>7 DEF notify
  <2>2. To(s)' = To(s)
    <3>1. ToPublisher(s) \in Links /\ \A t \in Subs : ToPublisher(s) # FromPublisher(t)
      BY LinksApart
    <3>2. QED
      BY <1>1, <1>7, <3>1, NotifySends DEF To, TypeInv, TypeOK
  <2>3. QED
    BY <1>2, <2>1, <2>2 DEF Out
<1>8. CASE RequestNext /\ UNCHANGED subscribeVars
  BY <1>2, <1>3, <1>8, RequestOnLinks DEF Out, subscribeVars
<1>9. CASE UNCHANGED vars
  BY <1>2, <1>9 DEF vars, subscribeVars, Out, To
<1>10. QED
  BY <1>4, <1>5, <1>6, <1>7, <1>8, <1>9 DEF Next, SubscribeNext, PublisherStep

\* SubscribeParticipant::action: once the publisher has taken the CANCEL of a
\* subscription it only has to erase it, and the subscription is never entered
\* again, whatever SUBSCRIBEs of other behaviours with its name arrive.  (This is
\* what CancelIsFinal says from that moment on.)
THEOREM CancelledForGood ==
    ASSUME NEW s \in Subs
    PROVE  Spec => [](work = <<"erase", s>>
                        => [](work = <<"erase", s>> \/ subscribers[NameOf[s]] # s))
<1>1. TypeInv /\ AgreeInv /\ work = <<"erase", s>> => Out(s)
  BY DEF AgreeInv, SubscriptionInv, Unheard, Out
<1>2. TypeInv /\ Out(s) /\ [Next]_vars => Out(s)'
  BY StaysOut
<1>3. Out(s) => work = <<"erase", s>> \/ subscribers[NameOf[s]] # s
  BY DEF Out
<1>4. QED
  BY <1>1, <1>2, <1>3, TypeInvariant, AgreeInvariant, PTL DEF Spec

-----------------------------------------------------------------------------
(* Requests                                                                *)

\* The links of the request protocol.
Requested == inbox[<<Requester, Server>>]
Answered  == inbox[<<Server, Requester>>]

IsFinal(k) == Answered[k].perf \in Final

\* The last request that has been sent.
Latest == IF rstate = "SEND_REQUEST" THEN current - 1 ELSE current

\* n is behind the requests that have not been received, behind those that have
\* not been answered, and behind those whose answer has not been taken.
BehindRequested(n) == \A k \in 1..Len(Requested) : n < Requested[k].n
BehindServing(n)   == BehindRequested(n) /\ (serving # 0 => n < serving)
BehindAnswered(n)  ==
    BehindServing(n) /\ \A k \in 1..Len(Answered) : IsFinal(k) => n < Answered[k].n

\* The requests that have ended are those before the current one, and it too
\* when all is over.
EndedInv ==
    /\ \A n \in 1..MaxRequests : n < current => outcome[n] # Pending
    /\ rstate = "over" => outcome[current] # Pending /\ current = MaxRequests
    /\ rstate # "over" => \A n \in 1..MaxRequests : n >= current => outcome[n] = Pending

\* The requests under way are in the order in which they were made, ...
RequestedInOrder ==
    /\ \A k \in 1..Len(Requested) : Requested[k].n <= Latest
    /\ \A j, k \in 1..Len(Requested) : j < k => Requested[j].n < Requested[k].n
    /\ serving <= Latest /\ BehindRequested(serving)

\* ... the answers under way too, and they are behind the requests, ...
AnsweredInOrder ==
    /\ \A k \in 1..Len(Answered) :
          IsFinal(k) => Answered[k].n <= Latest /\ BehindServing(Answered[k].n)
    /\ \A j, k \in 1..Len(Answered) :
          j < k /\ IsFinal(j) /\ IsFinal(k) => Answered[j].n < Answered[k].n

\* ... and so are the answers that have been taken.
TakenInOrder ==
    /\ \A n \in 1..MaxRequests : outcome[n] > 0 => outcome[n] <= n /\ BehindAnswered(outcome[n])
    /\ \A j, n \in 1..MaxRequests :
          j < n /\ outcome[j] > 0 /\ outcome[n] > 0 => outcome[j] < outcome[n]

\* As long as nothing has timed out, the answers have kept up with the requests.
KeptUp ==
    \A n \in 1..MaxRequests :
        outcome[n] > 0 /\ (\A j \in 1..n : outcome[j] # TimedOut) => outcome[n] >= n

\* Inductive strengthening of WrongAnswerMeansTimeout.  What is under way and
\* what has been taken is one increasing sequence of requests, some of them
\* missing: so an answer that comes late is one that the requests have overtaken,
\* and only a timeout lets them do that.
AnswerInv ==
    /\ EndedInv /\ RequestedInOrder /\ AnsweredInOrder /\ TakenInOrder
    /\ KeptUp /\ WrongAnswerMeansTimeout

\* The requests under way are numbered.
LEMMA Numbers ==
    ASSUME TypeInv
    PROVE  /\ <<Requester, Server>> \in Links /\ <<Server, Requester>> \in Links
           /\ <<Requester, Server>> # <<Server, Requester>>
           /\ Requested \in Seq(Messages) /\ Answered \in Seq(Messages)
           /\ Len(Requested) \in Nat /\ Len(Answered) \in Nat
           /\ \A k \in 1..Len(Requested) : Requested[k].n \in 1..MaxRequests
           /\ \A k \in 1..Len(Answered) : Answered[k].n \in 1..MaxRequests
           /\ rstate \in {"SEND_REQUEST", "WAIT_RESPONSE", "over"}
           /\ current \in 1..MaxRequests /\ serving \in 0..MaxRequests
           /\ outcome \in [1..MaxRequests -> -1..MaxRequests]
           /\ MaxRequests \in Nat /\ MaxRequests >= 1 /\ Latest \in 0..MaxRequests
<1>1. /\ <<Requester, Server>> \in Links /\ <<Server, Requester>> \in Links
      /\ <<Requester, Server>> # <<Server, Requester>>
  BY RequestLinks
<1>2. /\ Requested \in Seq(Messages) /\ Answered \in Seq(Messages)
      /\ \A k \in 1..Len(Requested) : Fits(<<Requester, Server>>, Requested[k])
      /\ \A k \in 1..Len(Answered) : Fits(<<Server, Requester>>, Answered[k])
  BY <1>1 DEF TypeInv, TypeOK, AllFit, Requested, Answered
<1>3. \A m \in Messages : Fits(<<Requester, Server>>, m) \/ Fits(<<Server, Requester>>, m) => m.conv = "req"
  BY LinksApart DEF Fits
<1>4. /\ \A k \in 1..Len(Requested) : Requested[k] \in Messages
      /\ \A k \in 1..Len(Answered) : Answered[k] \in Messages
  BY <1>2
<1>5. /\ \A k \in 1..Len(Requested) : Requested[k].n \in 1..MaxRequests
      /\ \A k \in 1..Len(Answered) : Answered[k].n \in 1..MaxRequests
  BY <1>2, <1>3, <1>4, MessageFields
<1>6. /\ rstate \in {"SEND_REQUEST", "WAIT_RESPONSE", "over"}
      /\ current \in 1..MaxRequests /\ serving \in 0..MaxRequests
      /\ outcome \in [1..MaxRequests -> -1..MaxRequests]
      /\ MaxRequests \in Nat /\ MaxRequests >= 1 /\ Latest \in 0..MaxRequests
  BY MaxRequestsIsNat DEF TypeInv, TypeOK, RequestTypeOK, TimedOut, Latest
<1>7. QED
  BY <1>1, <1>2, <1>5, <1>6

\* Dropping a message that has come keeps the order, and so does doing nothing.
LEMMA DroppingKeepsAnswers ==
    ASSUME TypeInv, AnswerInv, UNCHANGED requestVars, Requested' = Requested,
           Answered' = Answered \/ (Answered # <<>> /\ Answered' = Tail(Answered))
    PROVE  AnswerInv'
<1>1. UNCHANGED <<rstate, current, outcome, serving>> /\ Latest' = Latest
  BY DEF requestVars, Latest
<1>2. EndedInv' /\ KeptUp' /\ WrongAnswerMeansTimeout' /\ RequestedInOrder'
  BY <1>1 DEF AnswerInv, EndedInv, KeptUp, WrongAnswerMeansTimeout, RequestedInOrder, BehindRequested
<1>3. \A n : BehindServing(n)' <=> BehindServing(n)
  BY <1>1 DEF BehindServing, BehindRequested
<1>4. CASE Answered' = Answered
  BY <1>1, <1>2, <1>3, <1>4 DEF AnswerInv, AnsweredInOrder, TakenInOrder, BehindAnswered, IsFinal
<1>5. CASE Answered # <<>> /\ Answered' = Tail(Answered)
  <2>1. /\ Len(Answered') = Len(Answered) - 1 /\ Len(Answered) \in Nat /\ Len(Answered) > 0
        /\ \A k \in 1..Len(Answered') : Answered'[k] = Answered[k + 1] /\ k + 1 \in 1..Len(Answered)
        /\ \A k \in 1..Len(Answered') : IsFinal(k)' <=> IsFinal(k + 1)
    BY <1>5, Numbers DEF IsFinal
  <2>2. AnsweredInOrder'
    <3>1. ASSUME NEW k \in 1..Len(Answered'), IsFinal(k)'
          PROVE  Answered'[k].n <= Latest /\ BehindServing(Answered'[k].n)
      BY <2>1, <3>1 DEF AnswerInv, AnsweredInOrder
    <3>2. ASSUME NEW j \in 1..Len(Answered'), NEW k \in 1..Len(Answered'), j < k, IsFinal(j)', IsFinal(k)'
          PROVE  Answered'[j].n < Answered'[k].n
      <4>1. j + 1 \in 1..Len(Answered) /\ k + 1 \in 1..Len(Answered) /\ j + 1 < k + 1
        BY <2>1, <3>2
      <4>2. QED
        BY <2>1, <3>2, <4>1 DEF AnswerInv, AnsweredInOrder
    <3>3. QED
      BY <1>1, <1>3, <3>1, <3>2 DEF AnsweredInOrder
  <2>3. \A n : BehindAnswered(n) => BehindAnswered(n)'
    BY <1>3, <2>1 DEF BehindAnswered
  <2>4. TakenInOrder'
    BY <1>1, <2>3 DEF AnswerInv, TakenInOrder
  <2>5. QED
    BY <1>2, <2>2, <2>4 DEF AnswerInv
<1>6. QED
  BY <1>4, <1>5

\* A new request is the last of all.
LEMMA SendingKeepsAnswers ==
    ASSUME TypeInv, AnswerInv, SendRequest PROVE AnswerInv'
<1>1. /\ rstate = "SEND_REQUEST" /\ rstate' = "WAIT_RESPONSE"
      /\ UNCHANGED <<current, outcome, serving>>
      /\ Latest = current - 1 /\ Latest' = current
  BY DEF SendRequest, Latest
<1>2. /\ Answered' = Answered
      /\ Requested' = Requested \/ Requested' = Append(Requested, Req("REQUEST", current))
  <2>1. CASE inbox' = inbox
    BY <2>1 DEF Answered, Requested
  <2>2. CASE inbox' = [inbox EXCEPT ![<<Requester, Server>>] = Append(@, Req("REQUEST", current))]
    BY <2>2, Numbers DEF TypeInv, TypeOK, Answered, Requested
  <2>3. QED
    BY <2>1, <2>2 DEF SendRequest, Sent
<1>3. EndedInv' /\ KeptUp' /\ WrongAnswerMeansTimeout'
  BY <1>1 DEF AnswerInv, EndedInv, KeptUp, WrongAnswerMeansTimeout
<1>4. /\ Len(Requested') \in Nat
      /\ \A k \in 1..Len(Requested') :
            \/ k \in 1..Len(Requested) /\ Requested'[k] = Requested[k]
            \/ k = Len(Requested) + 1 /\ Requested'[k].n = current
  BY <1>2, Numbers DEF Req
<1>5. \A n \in Int : n < current /\ BehindRequested(n) => BehindRequested(n)'
  BY <1>4 DEF BehindRequested
<1>6. RequestedInOrder'
  <2>1. /\ \A k \in 1..Len(Requested) : Requested[k].n \in Nat /\ Requested[k].n < current
        /\ \A j, k \in 1..Len(Requested) : j < k => Requested[j].n < Requested[k].n
        /\ serving < current /\ BehindRequested(serving)
        /\ current \in Nat /\ serving \in Nat /\ Len(Requested) \in Nat
    BY <1>1, Numbers DEF AnswerInv, RequestedInOrder
  <2>2. \A k \in 1..Len(Requested') : Requested'[k].n <= current
    BY <1>4, <2>1
  <2>3. ASSUME NEW j \in 1..Len(Requested'), NEW k \in 1..Len(Requested'), j < k
        PROVE  Requested'[j].n < Requested'[k].n
    <3>1. j \in 1..Len(Requested) /\ Requested'[j] = Requested[j]
      BY <1>4, <2>1, <2>3
    <3>2. CASE k \in 1..Len(Requested) /\ Requested'[k] = Requested[k]
      BY <2>1, <2>3, <3>1, <3>2
    <3>3. CASE Requested'[k].n = current
      BY <2>1, <3>1, <3>3
    <3>4. QED
      BY <1>4, <3>2, <3>3
  <2>4. BehindRequested(serving)'
    BY <1>1, <1>4, <2>1 DEF BehindRequested
  <2>5. QED
    BY <1>1, <2>1, <2>2, <2>3, <2>4 DEF RequestedInOrder
<1>7. \A n \in Int : n < current /\ BehindServing(n) => BehindServing(n)'
  BY <1>1, <1>5 DEF BehindServing
<1>8. \A n \in Int : n < current /\ BehindAnswered(n) => BehindAnswered(n)'
  BY <1>2, <1>7 DEF BehindAnswered, IsFinal
<1>9. AnsweredInOrder'
  <2>1. \A k \in 1..Len(Answered) : Answered[k].n \in Int /\ IsFinal(k)' = IsFinal(k)
    BY <1>2, Numbers DEF IsFinal
  <2>2. ASSUME NEW k \in 1..Len(Answered), IsFinal(k)
        PROVE  Answered[k].n <= Latest' /\ BehindServing(Answered[k].n)'
    <3>1. Answered[k].n <= Latest /\ BehindServing(Answered[k].n)
      BY <2>2 DEF AnswerInv, AnsweredInOrder
    <3>2. Answered[k].n < current /\ current \in Int
      BY <1>1, <2>1, <3>1, Numbers
    <3>3. BehindServing(Answered[k].n)'
      BY <1>2, <1>7, <2>1, <3>1, <3>2 DEF BehindServing, BehindRequested
    <3>4. QED
      BY <1>1, <2>1, <3>2, <3>3
  <2>3. \A j, k \in 1..Len(Answered) :
           j < k /\ IsFinal(j) /\ IsFinal(k) => Answered[j].n < Answered[k].n
    BY DEF AnswerInv, AnsweredInOrder
  <2> HIDE DEF IsFinal, Latest, BehindServing
  <2>4. QED
    BY <1>2, <2>1, <2>2, <2>3 DEF AnsweredInOrder
<1>10. TakenInOrder'
  <2>1. /\ \A n \in 1..MaxRequests : n >= current => outcome[n] = 0
        /\ \A n \in 1..MaxRequests : outcome[n] \in Int
        /\ current \in Nat
    BY <1>1, Numbers DEF AnswerInv, EndedInv, Pending
  <2>2. ASSUME NEW n \in 1..MaxRequests, outcome[n] > 0
        PROVE  outcome[n] <= n /\ outcome[n] < current /\ BehindAnswered(outcome[n])
    <3>1. outcome[n] <= n /\ BehindAnswered(outcome[n])
      BY <2>2 DEF AnswerInv, TakenInOrder
    <3>2. QED
      BY <2>1, <2>2, <3>1
  <2>3. \A n \in 1..MaxRequests : outcome'[n] > 0 => outcome'[n] <= n /\ BehindAnswered(outcome[n])'
    BY <1>1, <1>8, <2>1, <2>2
  <2>4. QED
    BY <1>1, <2>3 DEF AnswerInv, TakenInOrder
<1>11. QED
  BY <1>3, <1>6, <1>9, <1>10 DEF AnswerInv

\* What the end of a request does to the numbering.
LEMMA EndsNumbers ==
    ASSUME TypeInv, AnswerInv, rstate = "WAIT_RESPONSE", NEW o \in -1..MaxRequests, o # Pending, Ends(o)
    PROVE  /\ Latest = current /\ Latest' = current
           /\ outcome' \in [1..MaxRequests -> -1..MaxRequests]
           /\ outcome'[current] = o
           /\ \A n \in 1..MaxRequests : n # current => outcome'[n] = outcome[n]
           /\ \A n \in 1..MaxRequests : outcome'[n] # Pending <=> n <= current
           /\ EndedInv'
<1>1. /\ outcome' \in [1..MaxRequests -> -1..MaxRequests]
      /\ outcome'[current] = o
      /\ \A n \in 1..MaxRequests : n # current => outcome'[n] = outcome[n]
  BY Numbers DEF Ends
<1>2. Latest = current /\ Latest' = current
  BY Numbers DEF Ends, Latest
<1>3. ASSUME NEW n \in 1..MaxRequests PROVE outcome'[n] # Pending <=> n <= current
  <2>1. /\ n < current => outcome[n] # Pending
        /\ n >= current => outcome[n] = Pending
        /\ current \in 1..MaxRequests /\ MaxRequests \in Nat
    BY Numbers DEF AnswerInv, EndedInv
  <2>2. CASE n = current
    BY <1>1, <2>1, <2>2
  <2>3. CASE n # current
    BY <1>1, <2>1, <2>3
  <2>4. QED
    BY <2>2, <2>3
<1>4. EndedInv'
  <2>1. CASE current < MaxRequests /\ current' = current + 1 /\ rstate' = "SEND_REQUEST"
    BY <1>3, <2>1, Numbers DEF EndedInv
  <2>2. CASE ~(current < MaxRequests) /\ current' = current /\ rstate' = "over"
    BY <1>3, <2>2, Numbers DEF EndedInv
  <2>3. QED
    BY <2>1, <2>2 DEF Ends
<1>5. QED
  BY <1>1, <1>2, <1>3, <1>4

\* A timeout takes nothing.
LEMMA TimeoutKeepsAnswers ==
    ASSUME TypeInv, AnswerInv, RequestTimeout PROVE AnswerInv'
<1>1. /\ rstate = "WAIT_RESPONSE" /\ Ends(TimedOut) /\ UNCHANGED <<serving, inbox>>
      /\ TimedOut = -1 /\ Pending = 0 /\ TimedOut \in -1..MaxRequests
  BY Numbers DEF RequestTimeout, TimedOut, Pending
<1>2. /\ Latest' = Latest
      /\ outcome' \in [1..MaxRequests -> -1..MaxRequests]
      /\ outcome'[current] = TimedOut
      /\ \A n \in 1..MaxRequests : n # current => outcome'[n] = outcome[n]
      /\ \A n \in 1..MaxRequests : outcome'[n] # Pending <=> n <= current
      /\ EndedInv'
  BY <1>1, EndsNumbers
<1>3. /\ Requested' = Requested /\ Answered' = Answered
      /\ \A n : BehindRequested(n)' <=> BehindRequested(n)
      /\ \A n : BehindServing(n)' <=> BehindServing(n)
      /\ \A n : BehindAnswered(n)' <=> BehindAnswered(n)
  BY <1>1 DEF Requested, Answered, BehindRequested, BehindServing, BehindAnswered, IsFinal
<1>4. RequestedInOrder' /\ AnsweredInOrder'
  BY <1>1, <1>2, <1>3 DEF AnswerInv, RequestedInOrder, AnsweredInOrder, IsFinal, BehindRequested
<1>5. \A n \in 1..MaxRequests : outcome'[n] > 0 => outcome'[n] = outcome[n] /\ n < current
  BY <1>1, <1>2, Numbers
<1>6. TakenInOrder'
  BY <1>2, <1>3, <1>5 DEF AnswerInv, TakenInOrder
<1>7. KeptUp'
  <2>1. SUFFICES ASSUME NEW n \in 1..MaxRequests, outcome'[n] > 0, \A j \in 1..n : outcome'[j] # TimedOut
                 PROVE  outcome'[n] >= n
    BY DEF KeptUp, TimedOut
  <2>2. \A j \in 1..n : outcome[j] # TimedOut
    BY <1>2, <1>5, <2>1, Numbers
  <2>3. QED
    BY <1>5, <2>1, <2>2 DEF AnswerInv, KeptUp
<1>8. WrongAnswerMeansTimeout'
  <2>1. SUFFICES ASSUME NEW n \in 1..MaxRequests, NEW k \in 1..MaxRequests, outcome'[n] = k
                 PROVE  /\ k <= n
                        /\ \A j \in 1..n - 1 : outcome'[j] # k
                        /\ k < n => \E j \in 1..k : outcome'[j] = TimedOut
    BY DEF WrongAnswerMeansTimeout, TimedOut
  <2>2. /\ outcome[n] = k /\ n < current
        /\ \A j \in 1..n - 1 : j \in 1..MaxRequests /\ outcome'[j] = outcome[j]
        /\ \A j \in 1..k : j \in 1..MaxRequests /\ (outcome[j] = TimedOut => outcome'[j] = TimedOut)
    BY <1>1, <1>2, <1>5, <2>1, Numbers
  <2>3. QED
    BY <2>2 DEF AnswerInv, WrongAnswerMeansTimeout
<1>9. QED
  BY <1>2, <1>4, <1>6, <1>7, <1>8 DEF AnswerInv

\* An answer that is taken is the next in order.
LEMMA AnswerKeepsAnswers ==
    ASSUME TypeInv, AnswerInv, rstate = "WAIT_RESPONSE", Answered # <<>>, IsFinal(1),
           Ends(Answered[1].n), serving' = serving, Requested' = Requested, Answered' = Tail(Answered)
    PROVE  AnswerInv'
<1>o. PICK o : o = Answered[1].n
  OBVIOUS
<1>1. /\ Len(Answered) \in Nat /\ Len(Answered) > 0 /\ 1 \in 1..Len(Answered)
      /\ Len(Answered') = Len(Answered) - 1
      /\ \A k \in 1..Len(Answered') : Answered'[k] = Answered[k + 1] /\ k + 1 \in 1..Len(Answered)
      /\ \A k \in 1..Len(Answered') : IsFinal(k)' <=> IsFinal(k + 1)
  BY Numbers DEF IsFinal
<1>2. /\ o \in 1..MaxRequests /\ current \in 1..MaxRequests /\ MaxRequests \in Nat
      /\ o # Pending /\ o \in -1..MaxRequests
  BY <1>o, <1>1, Numbers DEF Pending
<1>3. /\ Latest = current /\ Latest' = current
      /\ outcome' \in [1..MaxRequests -> -1..MaxRequests]
      /\ outcome'[current] = o
      /\ \A n \in 1..MaxRequests : n # current => outcome'[n] = outcome[n]
      /\ \A n \in 1..MaxRequests : outcome'[n] # Pending <=> n <= current
      /\ EndedInv'
  BY <1>o, <1>2, EndsNumbers
<1>4. o <= current /\ BehindServing(o)
  BY <1>o, <1>1, <1>3 DEF AnswerInv, AnsweredInOrder
<1>5. /\ \A n : BehindRequested(n)' <=> BehindRequested(n)
      /\ \A n : BehindServing(n)' <=> BehindServing(n)
  BY DEF BehindRequested, BehindServing
<1>6. \A n : BehindAnswered(n) => BehindAnswered(n)' /\ n < o
  BY <1>o, <1>1, <1>5 DEF BehindAnswered
<1>7. BehindAnswered(o)'
  <2>1. ASSUME NEW k \in 1..Len(Answered'), IsFinal(k)' PROVE o < Answered'[k].n
    <3>1. k + 1 \in 1..Len(Answered) /\ 1 < k + 1 /\ IsFinal(k + 1)
      BY <1>1, <2>1
    <3>2. QED
      BY <1>o, <1>1, <3>1 DEF AnswerInv, AnsweredInOrder
  <2>2. QED
    BY <1>4, <1>5, <2>1 DEF BehindAnswered
<1>8. AnsweredInOrder'
  <2>1. ASSUME NEW k \in 1..Len(Answered'), IsFinal(k)'
        PROVE  Answered'[k].n <= current /\ BehindServing(Answered'[k].n)
    BY <1>1, <1>3, <2>1 DEF AnswerInv, AnsweredInOrder
  <2>2. ASSUME NEW j \in 1..Len(Answered'), NEW k \in 1..Len(Answered'), j < k, IsFinal(j)', IsFinal(k)'
        PROVE  Answered'[j].n < Answered'[k].n
    <3>1. j + 1 \in 1..Len(Answered) /\ k + 1 \in 1..Len(Answered) /\ j + 1 < k + 1
      BY <1>1, <2>2
    <3>2. QED
      BY <1>1, <2>2, <3>1 DEF AnswerInv, AnsweredInOrder
  <2>3. QED
    BY <1>3, <1>5, <2>1, <2>2 DEF AnsweredInOrder
<1>9. RequestedInOrder'
  BY <1>3, <1>5 DEF AnswerInv, RequestedInOrder, BehindRequested
<1>10. ASSUME NEW n \in 1..MaxRequests, outcome'[n] > 0, n # current
       PROVE  /\ outcome'[n] = outcome[n] /\ n < current
              /\ outcome[n] <= n /\ BehindAnswered(outcome[n]) /\ outcome[n] < o
  <2>1. outcome'[n] = outcome[n] /\ outcome[n] > 0
    BY <1>3, <1>10
  <2>2. n < current
    BY <1>2, <1>3, <1>10 DEF Pending
  <2>3. outcome[n] <= n /\ BehindAnswered(outcome[n])
    BY <2>1 DEF AnswerInv, TakenInOrder
  <2>4. QED
    BY <1>6, <2>1, <2>2, <2>3
<1>11. TakenInOrder'
  <2>1. ASSUME NEW n \in 1..MaxRequests, outcome'[n] > 0
        PROVE  outcome'[n] <= n /\ BehindAnswered(outcome[n])'
    <3>1. CASE n = current
      BY <1>3, <1>4, <1>7, <3>1
    <3>2. CASE n # current
      BY <1>6, <1>10, <2>1, <3>2
    <3>3. QED
      BY <3>1, <3>2
  <2>2. ASSUME NEW j \in 1..MaxRequests, NEW n \in 1..MaxRequests, j < n, outcome'[j] > 0, outcome'[n] > 0
        PROVE  outcome'[j] < outcome'[n]
    <3>1. CASE n = current
      <4>1. j # current
        BY <1>2, <2>2, <3>1
      <4>2. outcome'[j] = outcome[j] /\ outcome[j] < o
        BY <1>10, <2>2, <4>1
      <4>3. QED
        BY <1>3, <3>1, <4>2
    <3>2. CASE n # current
      <4>1. j # current
        BY <1>2, <1>10, <2>2, <3>2
      <4>2. outcome'[j] = outcome[j] /\ outcome'[n] = outcome[n]
        BY <1>10, <2>2, <3>2, <4>1
      <4>3. QED
        BY <2>2, <4>2 DEF AnswerInv, TakenInOrder
    <3>3. QED
      BY <3>1, <3>2
  <2>3. QED
    BY <2>1, <2>2 DEF TakenInOrder, BehindAnswered
<1>12. KeptUp'
  <2>1. SUFFICES ASSUME NEW n \in 1..MaxRequests, outcome'[n] > 0, \A j \in 1..n : outcome'[j] # TimedOut
                 PROVE  outcome'[n] >= n
    BY DEF KeptUp, TimedOut
  <2>2. CASE n # current
    <3>1. \A j \in 1..n : j \in 1..MaxRequests /\ j # current
      BY <1>2, <1>10, <2>1, <2>2
    <3>2. \A j \in 1..n : outcome[j] # TimedOut
      BY <1>3, <2>1, <3>1
    <3>3. QED
      BY <1>10, <2>1, <2>2, <3>2 DEF AnswerInv, KeptUp
  <2>3. CASE n = current /\ n = 1
    BY <1>2, <1>3, <2>3
  <2>4. CASE n = current /\ n > 1
    <3> DEFINE p == n - 1
    <3>1. p \in 1..MaxRequests /\ p < current /\ p # current /\ (\A j \in 1..p : j \in 1..n /\ j # current)
      BY <1>2, <2>4
    <3>2. outcome'[p] # Pending /\ outcome'[p] # TimedOut /\ outcome'[p] \in -1..MaxRequests
      <4>1. p <= current /\ p \in 1..n
        BY <1>2, <2>4, <3>1
      <4>2. QED
        BY <1>3, <2>1, <3>1, <4>1
    <3>3. outcome'[p] > 0
      BY <3>2 DEF Pending, TimedOut
    <3>4. outcome[p] < o /\ outcome'[p] = outcome[p]
      BY <1>10, <3>1, <3>3
    <3>5. \A j \in 1..p : outcome[j] # TimedOut
      BY <1>2, <1>3, <2>1, <3>1
    <3>6. outcome[p] >= p
      BY <3>1, <3>3, <3>4, <3>5 DEF AnswerInv, KeptUp
    <3>7. QED
      BY <1>2, <1>3, <2>4, <3>2, <3>4, <3>6
  <2>5. QED
    BY <2>2, <2>3, <2>4
<1>13. WrongAnswerMeansTimeout'
  <2>1. SUFFICES ASSUME NEW n \in 1..MaxRequests, NEW k \in 1..MaxRequests, outcome'[n] = k
                 PROVE  /\ k <= n
                        /\ \A j \in 1..n - 1 : outcome'[j] # k
                        /\ k < n => \E j \in 1..k : outcome'[j] = TimedOut
    BY DEF WrongAnswerMeansTimeout, TimedOut
  <2>2. k <= n
    BY <1>11, <2>1 DEF TakenInOrder
  <2>3. \A j \in 1..n - 1 : outcome'[j] # k
    <3>1. SUFFICES ASSUME NEW j \in 1..n - 1, outcome'[j] = k PROVE FALSE
      OBVIOUS
    <3>2. j \in 1..MaxRequests /\ j < n
      BY <1>2
    <3>3. outcome'[j] < outcome'[n]
      BY <1>11, <2>1, <3>1, <3>2 DEF TakenInOrder
    <3>4. QED
      BY <2>1, <3>1, <3>3
  <2>4. ASSUME k < n PROVE \E j \in 1..k : outcome'[j] = TimedOut
    <3>1. SUFFICES ASSUME \A j \in 1..k : outcome'[j] # TimedOut PROVE FALSE
      OBVIOUS
    <3>2. n <= current
      BY <1>3, <2>1 DEF Pending
    <3>3. outcome'[k] # Pending /\ outcome'[k] # TimedOut /\ outcome'[k] \in -1..MaxRequests
      BY <1>2, <1>3, <2>4, <3>1, <3>2
    <3>4. outcome'[k] > 0
      BY <3>3 DEF Pending, TimedOut
    <3>5. outcome'[k] >= k
      BY <1>12, <3>1, <3>4 DEF KeptUp, TimedOut
    <3>6. outcome'[k] < k
      BY <1>11, <2>1, <2>4, <3>4 DEF TakenInOrder
    <3>7. QED
      BY <3>3, <3>5, <3>6
  <2>5. QED
    BY <2>2, <2>3, <2>4
<1>14. QED
  BY <1>3, <1>8, <1>9, <1>11, <1>12, <1>13 DEF AnswerInv

\* What the initiator takes is dropped, or it is the next answer.
LEMMA ReceivingKeepsAnswers ==
    ASSUME TypeInv, AnswerInv, ReceiveResponse PROVE AnswerInv'
<1>1. PICK l \in Into(Requester) :
        /\ inbox' = Taken(l)
        /\ LET m == Head(inbox[l]) IN
           IF m.conv = "req" /\ m.perf \in Final
           THEN Ends(m.n) ELSE UNCHANGED <<rstate, current, outcome>>
  BY DEF ReceiveResponse
<1>2. rstate = "WAIT_RESPONSE" /\ serving' = serving
  BY DEF ReceiveResponse
<1>3. /\ inbox \in [Links -> Seq(Messages)] /\ l \in Links /\ inbox[l] # <<>>
      /\ l # <<Requester, Server>>
      /\ Taken(l)[l] = Tail(inbox[l]) /\ \A h \in Links : h # l => Taken(l)[h] = inbox[h]
  BY TakingOne, RequestLinks DEF TypeInv, TypeOK, Into
<1>4. /\ Requested' = Requested
      /\ Answered' = Answered \/ (Answered # <<>> /\ Answered' = Tail(Answered))
      /\ l = <<Server, Requester>> => Answered # <<>> /\ Answered' = Tail(Answered)
  BY <1>1, <1>3, Numbers DEF Requested, Answered
<1>5. CASE Head(inbox[l]).conv = "req" /\ Head(inbox[l]).perf \in Final
  <2>1. l = <<Server, Requester>>
    BY <1>5, WhoseMessage DEF TypeInv, TypeOK
  <2>2. Head(inbox[l]) = Answered[1]
    BY <1>3, <1>4, <2>1, Numbers DEF Answered
  <2>3. QED
    BY <1>1, <1>2, <1>4, <1>5, <2>1, <2>2, AnswerKeepsAnswers DEF IsFinal
<1>6. CASE ~(Head(inbox[l]).conv = "req" /\ Head(inbox[l]).perf \in Final)
  BY <1>1, <1>2, <1>4, <1>6, DroppingKeepsAnswers DEF requestVars
<1>7. QED
  BY <1>5, <1>6

\* The server takes up the first of the requests under way.
LEMMA ServingKeepsAnswers ==
    ASSUME TypeInv, AnswerInv, ServerReceives PROVE AnswerInv'
<1>1. PICK l \in Into(Server) :
        /\ serving' = Head(inbox[l]).n
        /\ inbox' \in Sent(Taken(l), <<Server, Requester>>, Req("AGREE", Head(inbox[l]).n))
  BY DEF ServerReceives
<1>2. /\ l = <<Requester, Server>> /\ Requested # <<>>
      /\ Taken(l) \in [Links -> Seq(Messages)]
      /\ Taken(l)[l] = Tail(inbox[l]) /\ \A h \in Links : h # l => Taken(l)[h] = inbox[h]
  BY TakingOne, WhoseMessage DEF TypeInv, TypeOK, Into, Requested
<1>3. PICK o : o = Requested[1].n
  OBVIOUS
<1> DEFINE OnLinks == /\ Requested' = Tail(Requested)
                      /\ Answered' = Answered \/ Answered' = Append(Answered, Req("AGREE", o))
<1>4. OnLinks
  <2>1. Head(inbox[l]).n = o
    BY <1>2, <1>3, Numbers DEF Requested
  <2>2. inbox' = Taken(l) => OnLinks
    BY <1>2, Numbers DEF Requested, Answered
  <2>3. inbox' = [Taken(l) EXCEPT ![<<Server, Requester>>] = Append(@, Req("AGREE", o))] => OnLinks
    BY <1>2, Numbers DEF Requested, Answered
  <2>4. QED
    BY <1>1, <2>1, <2>2, <2>3 DEF Sent
<1>a. /\ UNCHANGED <<rstate, current, outcome>> /\ serving = 0 /\ serving' = o /\ Latest' = Latest
      /\ Requested' = Tail(Requested)
  BY <1>1, <1>2, <1>3, <1>4, Numbers DEF ServerReceives, Latest, Requested
<1>5. /\ Len(Requested) \in Nat /\ 1 \in 1..Len(Requested)
      /\ Len(Requested') = Len(Requested) - 1
      /\ \A k \in 1..Len(Requested') :
            Requested'[k] = Requested[k + 1] /\ k + 1 \in 1..Len(Requested) /\ 1 < k + 1
  BY <1>2, <1>a, Numbers
<1>6. /\ Len(Answered) \in Nat /\ Len(Answered') \in Nat
      /\ \A k \in 1..Len(Answered') : IsFinal(k)' =>
            k \in 1..Len(Answered) /\ IsFinal(k) /\ Answered'[k] = Answered[k]
  <2>1. Req("AGREE", o).perf \notin Final
    BY DEF Req, Final
  <2>2. CASE Answered' = Answered
    BY <2>2, Numbers DEF IsFinal
  <2>3. CASE Answered' = Append(Answered, Req("AGREE", o))
    BY <2>1, <2>3, Numbers DEF IsFinal
  <2>4. QED
    BY <1>4, <2>2, <2>3
<1>7. \A k \in 1..Len(Requested') : o < Requested'[k].n
  BY <1>3, <1>5 DEF AnswerInv, RequestedInOrder
<1>8. \A n : BehindServing(n) => BehindServing(n)'
  BY <1>3, <1>a, <1>5 DEF BehindServing, BehindRequested
<1>9. \A n : BehindAnswered(n) => BehindAnswered(n)'
  BY <1>6, <1>8 DEF BehindAnswered
<1>10. RequestedInOrder'
  <2>1. \A k \in 1..Len(Requested') : Requested'[k].n <= Latest
    BY <1>5 DEF AnswerInv, RequestedInOrder
  <2>2. ASSUME NEW j \in 1..Len(Requested'), NEW k \in 1..Len(Requested'), j < k
        PROVE  Requested'[j].n < Requested'[k].n
    <3>1. j + 1 \in 1..Len(Requested) /\ k + 1 \in 1..Len(Requested) /\ j + 1 < k + 1
      BY <1>5, <2>2
    <3>2. QED
      BY <1>5, <3>1 DEF AnswerInv, RequestedInOrder
  <2>3. o <= Latest
    BY <1>3, <1>5 DEF AnswerInv, RequestedInOrder
  <2>4. QED
    BY <1>a, <1>7, <2>1, <2>2, <2>3 DEF RequestedInOrder, BehindRequested
<1>11. AnsweredInOrder'
  BY <1>a, <1>6, <1>8 DEF AnswerInv, AnsweredInOrder
<1>12. TakenInOrder'
  BY <1>a, <1>9 DEF AnswerInv, TakenInOrder
<1>13. EndedInv' /\ KeptUp' /\ WrongAnswerMeansTimeout'
  BY <1>a DEF AnswerInv, EndedInv, KeptUp, WrongAnswerMeansTimeout
<1>14. QED
  BY <1>10, <1>11, <1>12, <1>13 DEF AnswerInv

\* The answer of the server is the last of the answers under way.
LEMMA RespondingKeepsAnswers ==
    ASSUME TypeInv, AnswerInv, ServerResponds PROVE AnswerInv'
<1>1. PICK perf \in Final : inbox' \in Sent(inbox, <<Server, Requester>>, Req(perf, serving))
  BY DEF ServerResponds
<1>2. PICK o : o = serving
  OBVIOUS
<1> DEFINE OnLinks == /\ Requested' = Requested
                      /\ Answered' = Answered \/ Answered' = Append(Answered, Req(perf, o))
<1>a. OnLinks
  <2>1. inbox' = inbox => OnLinks
    BY DEF Requested, Answered
  <2>2. inbox' = [inbox EXCEPT ![<<Server, Requester>>] = Append(@, Req(perf, serving))] => OnLinks
    BY <1>2, Numbers DEF TypeInv, TypeOK, Requested, Answered
  <2>3. QED
    BY <1>1, <2>1, <2>2 DEF Sent
<1>3. /\ UNCHANGED <<rstate, current, outcome>> /\ Latest' = Latest
      /\ o \in 1..MaxRequests /\ serving # 0 /\ serving' = 0
      /\ Requested' = Requested
  BY <1>2, <1>a, Numbers DEF ServerResponds, Latest
<1>4. /\ Len(Answered) \in Nat /\ Len(Answered') \in Nat
      /\ \A k \in 1..Len(Answered') :
            \/ /\ k \in 1..Len(Answered) /\ Answered'[k] = Answered[k]
               /\ IsFinal(k)' <=> IsFinal(k)
            \/ k = Len(Answered) + 1 /\ Answered'[k].n = o
  BY <1>a, Numbers DEF IsFinal, Req
<1>5. \A n : BehindServing(n) => BehindServing(n)' /\ n < o
  BY <1>2, <1>3 DEF BehindServing, BehindRequested
<1>6. BehindServing(o)' /\ o <= Latest
  BY <1>2, <1>3 DEF AnswerInv, RequestedInOrder, BehindServing, BehindRequested
<1>7. \A n : BehindAnswered(n) => BehindAnswered(n)'
  BY <1>4, <1>5 DEF BehindAnswered
<1>8. RequestedInOrder'
  <2>1. \A k \in 1..Len(Requested) : 0 < Requested[k].n
    BY Numbers
  <2>2. 0 <= Latest
    BY Numbers
  <2>3. QED
    BY <1>3, <2>1, <2>2 DEF AnswerInv, RequestedInOrder, BehindRequested
<1>9. AnsweredInOrder'
  <2>1. ASSUME NEW k \in 1..Len(Answered'), IsFinal(k)'
        PROVE  Answered'[k].n <= Latest /\ BehindServing(Answered[k].n)'
    <3>1. CASE k \in 1..Len(Answered) /\ Answered'[k] = Answered[k] /\ IsFinal(k)
      BY <1>5, <3>1 DEF AnswerInv, AnsweredInOrder
    <3>2. CASE Answered'[k].n = o
      BY <1>6, <3>2
    <3>3. QED
      BY <1>4, <2>1, <3>1, <3>2
  <2>2. ASSUME NEW j \in 1..Len(Answered'), NEW k \in 1..Len(Answered'), j < k, IsFinal(j)', IsFinal(k)'
        PROVE  Answered'[j].n < Answered'[k].n
    <3>1. j \in 1..Len(Answered) /\ Answered'[j] = Answered[j] /\ IsFinal(j)
      BY <1>4, <2>2
    <3>2. CASE k \in 1..Len(Answered) /\ Answered'[k] = Answered[k] /\ IsFinal(k)
      BY <2>2, <3>1, <3>2 DEF AnswerInv, AnsweredInOrder
    <3>3. CASE Answered'[k].n = o
      BY <1>5, <3>1, <3>3 DEF AnswerInv, AnsweredInOrder
    <3>4. QED
      BY <1>4, <2>2, <3>2, <3>3
  <2>3. QED
    BY <1>3, <2>1, <2>2 DEF AnsweredInOrder
<1>10. TakenInOrder'
  BY <1>3, <1>7 DEF AnswerInv, TakenInOrder
<1>11. EndedInv' /\ KeptUp' /\ WrongAnswerMeansTimeout'
  BY <1>3 DEF AnswerInv, EndedInv, KeptUp, WrongAnswerMeansTimeout
<1>12. QED
  BY <1>8, <1>9, <1>10, <1>11 DEF AnswerInv

\* A subscription of the requester's name can only drop what the server sends.
LEMMA SubscribeKeepsAnswers ==
    ASSUME TypeInv, AnswerInv, SubscribeNext, UNCHANGED requestVars PROVE AnswerInv'
<1>1. /\ inbox \in [Links -> Seq(Messages)] /\ AllFit(inbox)
      /\ \A s \in Subs : NameOf[s] # Server /\ NameOf[s] # Publisher /\ Publisher # Requester
                         /\ Publisher # Server /\ Requester # Server
  BY LinksApart, SubscribeLinks, RolesApart, RequestLinks DEF TypeInv, TypeOK
<1> DEFINE Kept == /\ Requested' = Requested
                   /\ Answered' = Answered \/ (Answered # <<>> /\ Answered' = Tail(Answered))
<1>2. inbox' = inbox => Kept
  BY DEF Requested, Answered
<1>3. ASSUME NEW s \in Subs, NEW l \in Into(NameOf[s]), inbox' = Taken(l) PROVE Kept
  <2>1. /\ l \in Links /\ l[2] = NameOf[s] /\ inbox[l] # <<>>
        /\ Taken(l)[l] = Tail(inbox[l]) /\ \A h \in Links : h # l => Taken(l)[h] = inbox[h]
    BY <1>1, TakingOne DEF Into
  <2>2. l # <<Requester, Server>>
    BY <1>1, <2>1
  <2>3. QED
    BY <1>3, <2>1, <2>2, Numbers DEF Requested, Answered
<1>4. ASSUME NEW s \in Subs, NEW m \in Messages, inbox' \in Sent(inbox, ToPublisher(s), m) PROVE Kept
  <2>1. ToPublisher(s) # <<Requester, Server>> /\ ToPublisher(s) # <<Server, Requester>>
    BY LinksApart
  <2>2. QED
    BY <1>1, <1>2, <1>4, <2>1, Numbers DEF Sent, Requested, Answered
<1>5. ASSUME NEW l \in Into(Publisher), ReceiveSubscribe(l) \/ ReceiveCancel(l) PROVE Kept
  <2> DEFINE s == Head(inbox[l]).conv
  <2>1. s \in Subs /\ l = ToPublisher(s)
    BY <1>1, WhoseMessage
  <2>2. \E m : inbox' \in Sent(Taken(l), FromPublisher(s), m)
    BY <1>5 DEF ReceiveSubscribe, ReceiveCancel
  <2>3. \A h \in Links : h # l => Taken(l)[h] = inbox[h]
    BY <1>1, TakingOne
  <2>4. \A h \in {<<Requester, Server>>, <<Server, Requester>>} :
          h \in Links /\ h # l /\ h # FromPublisher(s)
    BY <2>1, LinksApart
  <2>5. \A h \in {<<Requester, Server>>, <<Server, Requester>>} : inbox'[h] = inbox[h]
    <3>1. PICK m : inbox' \in Sent(Taken(l), FromPublisher(s), m)
      BY <2>2
    <3>2. \A h \in Links : h # FromPublisher(s) => inbox'[h] = Taken(l)[h]
      BY <1>1, <3>1, TakingOne DEF Sent
    <3>3. QED
      BY <2>3, <2>4, <3>2
  <2>6. QED
    BY <2>5 DEF Requested, Answered
<1>6. ASSUME notify PROVE Kept
  <2>1. \A l \in Links : inbox'[l] = inbox[l] \/ \E s \in Subs : l = FromPublisher(s)
    BY <1>6, NotifySends DEF TypeInv, TypeOK
  <2>2. QED
    BY <2>1, LinksApart, RequestLinks DEF Requested, Answered
<1>7. Kept
  <2>1. ASSUME NEW s \in Subs, SubscriberStep(s) PROVE Kept
    <3>1. Sub("SUBSCRIBE", s) \in Messages /\ Sub("CANCEL", s) \in Messages
      BY MessageFields
    <3> HIDE DEF Kept
    <3>2. QED
      BY <1>2, <1>3, <1>4, <2>1, <3>1
         DEF SubscriberStep, SubscriberWaits, SendSubscribe, AgreeTimeout, ReceiveAgree,
             ReceiveNotify, SendCancel, AwaitCancelAck
  <2>2. ASSUME PublisherStep PROVE Kept
    BY <1>2, <1>5, <2>2 DEF PublisherStep, EnterSubscriber, EraseSubscriber
  <2> HIDE DEF Kept
  <2>3. QED
    BY <1>6, <2>1, <2>2 DEF SubscribeNext
<1>8. QED
  BY <1>7, DroppingKeepsAnswers

\* AnswerInv is an invariant.
LEMMA AnswerInvariant == Spec => []AnswerInv
<1>1. Init => AnswerInv
  <2> SUFFICES ASSUME Init PROVE AnswerInv
    OBVIOUS
  <2>1. /\ Requested = <<>> /\ Answered = <<>> /\ current = 1 /\ serving = 0
        /\ rstate = "SEND_REQUEST" /\ \A n \in 1..MaxRequests : outcome[n] = 0
    BY RequestLinks DEF Init, RequestInit, Pending, Requested, Answered
  <2>2. EndedInv
    BY <2>1 DEF EndedInv, Pending
  <2>3. RequestedInOrder /\ AnsweredInOrder /\ TakenInOrder /\ KeptUp
    BY <2>1 DEF RequestedInOrder, AnsweredInOrder, TakenInOrder, KeptUp, BehindRequested, Latest
  <2>4. WrongAnswerMeansTimeout
    BY <2>1 DEF WrongAnswerMeansTimeout
  <2>5. QED
    BY <2>2, <2>3, <2>4 DEF AnswerInv
<1>2. TypeInv /\ AnswerInv /\ [Next]_vars => AnswerInv'
  <2> SUFFICES ASSUME TypeInv, AnswerInv, [Next]_vars PROVE AnswerInv'
    OBVIOUS
  <2>1. CASE RequestNext
    BY <2>1, SendingKeepsAnswers, TimeoutKeepsAnswers, ReceivingKeepsAnswers, ServingKeepsAnswers,
       RespondingKeepsAnswers
       DEF RequestNext, InitiatorStep, ServerStep
  <2>2. CASE SubscribeNext /\ UNCHANGED requestVars
    BY <2>2, SubscribeKeepsAnswers
  <2>3. CASE UNCHANGED vars
    BY <2>3, DroppingKeepsAnswers DEF vars, Requested, Answered
  <2>4. QED
    BY <2>1, <2>2, <2>3 DEF Next
<1>3. QED
  BY <1>1, <1>2, TypeInvariant, PTL DEF Spec

\* In every reachable state, whatever is lost, timed out or dropped by another
\* behaviour: no answer is ahead of its request or taken twice, and one that ends
\* the wrong RequestInitiator means that an earlier one has timed out.
THEOREM WrongAnswerMeansTimeoutAlways == Spec => []WrongAnswerMeansTimeout
<1>1. AnswerInv => WrongAnswerMeansTimeout
  BY DEF AnswerInv
<1>2. QED
  BY <1>1, AnswerInvariant, PTL
=============================================================================
