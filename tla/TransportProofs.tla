-------------------------- MODULE TransportProofs --------------------------
(***************************************************************************)
(* Machine-checked proofs about Transport, for any number of processes and *)
(* ports, whichever of them receive or send.                               *)
(***************************************************************************)
EXTENDS Transport, TLAPS

-----------------------------------------------------------------------------
(* PullCache::get and the caches                                           *)

\* A socket is not the absence of one.
LEMMA SocketsAreSockets ==
    /\ NoSocket \notin Sockets
    /\ Ipc \in Endpoints /\ None \notin Endpoints /\ Queue \notin Endpoints
    /\ \A i \in DOMAIN Ports : Ports[i] \in Endpoints \ {Ipc}
  BY EndpointsDiffer, MainIsAProc DEF Sockets, NoSocket, Endpoints, ToSet

\* What get does to the variables: the cache of p holds s, which is the socket
\* that was there, of p's own making, or a new one, or none; and the socket
\* file is only touched to become p's.
LEMMA GetEffect ==
    ASSUME TypeOK, NEW p \in Procs, NEW s \in Sockets \cup {NoSocket}, get(p, s)
    PROVE  /\ pull' = [pull EXCEPT ![p] = s] /\ pullPid' = [pullPid EXCEPT ![p] = p]
           /\ \/ s = pull[p] /\ pullPid[p] = p /\ path' = path
              \/ /\ Cached(p) = NoSocket
                 /\ \/ s = NoSocket /\ path' = path
                    \/ s.maker = p /\ s \in Sockets /\ s.ep # Ipc /\ path' = path
                    \/ s = [ep |-> Ipc, maker |-> p] /\ s \in Sockets /\ path' = p
  <1>1. CASE Cached(p) # NoSocket /\ s = Cached(p)
    BY <1>1 DEF get, Cached
  <1>2. CASE Cached(p) = NoSocket /\ cluster
    BY <1>2, SocketsAreSockets DEF get, bindTcp, Sockets, NoSocket
  <1>3. QED
    BY <1>1, <1>2, SocketsAreSockets DEF get, bindIpc, Sockets

-----------------------------------------------------------------------------
(* Types                                                                   *)

\* TypeOK is not inductive: what is connected is a socket because a name was
\* resolved before.
TypeInv ==
    /\ TypeOK
    /\ \A p \in Procs : doing[p] = "connect" => found[p] # None

\* TypeInv is an invariant.
LEMMA TypeInvariant == Spec => []TypeInv
<1>1. Init => TypeInv
  BY MainIsAProc DEF Init, TypeInv, TypeOK, Pending
<1>2. TypeInv /\ [Next]_vars => TypeInv'
  <2> SUFFICES ASSUME TypeInv, [Next]_vars PROVE TypeInv'
    OBVIOUS
  <2> USE DEF TypeInv, TypeOK, Pending
  <2>1. ASSUME NEW p \in Procs, Bind(p) PROVE TypeInv'
    <3>1. PICK s \in Sockets \cup {NoSocket} : get(p, s)
      BY <2>1 DEF Bind
    <3>2. /\ path' \in Procs \cup {None} /\ pull' \in [Procs -> Sockets \cup {NoSocket}]
          /\ pullPid' \in [Procs -> Procs]
      BY <3>1, GetEffect, SocketsAreSockets
    <3>3. /\ \A q \in Procs : doing'[q] = "connect" => doing[q] = "connect"
          /\ doing' \in [Procs -> Pending]
          /\ UNCHANGED <<cluster, taken, life, push, pushPid, receiving, found, address, link,
                         foreign>>
      BY <2>1 DEF Bind
    <3>4. QED
      BY <3>2, <3>3
  <2>2. ASSUME NEW p \in Procs, Receive(p) PROVE TypeInv'
    <3>1. PICK s \in Sockets \cup {NoSocket} : get(p, s) /\ Uses(p, s)
      BY <2>2 DEF Receive
    <3>2. QED
      BY <2>2, <3>1, GetEffect, SocketsAreSockets DEF Receive, Uses
  <2>3. ASSUME NEW p \in Procs, Unlink(p) PROVE TypeInv'
    BY <2>3, SocketsAreSockets DEF Unlink, Links
  <2>4. ASSUME NEW p \in Procs, Announce(p) PROVE TypeInv'
    BY <2>4, SocketsAreSockets DEF Announce, Sockets, NoSocket
  <2>5. ASSUME NEW p \in Procs, Deregister(p) PROVE TypeInv'
    BY <2>5, SocketsAreSockets DEF Deregister
  <2>6. ASSUME NEW p \in Procs, Connect(p) PROVE TypeInv'
    BY <2>6, SocketsAreSockets DEF Connect, Uses, Sockets, Endpoints
  <2>7. ASSUME NEW p \in Procs, SendCached(p) PROVE TypeInv'
    BY <2>7, SocketsAreSockets DEF SendCached, Uses, procVars
  <2>8. ASSUME NEW p \in Procs, Resolve(p) PROVE TypeInv'
    BY <2>8, SocketsAreSockets DEF Resolve, Endpoints, NoSocket
  <2>9. ASSUME NEW p \in Procs, Flush(p) PROVE TypeInv'
    BY <2>9, SocketsAreSockets DEF Flush
  <2>10. ASSUME NEW p \in Procs, Attach(p) PROVE TypeInv'
    BY <2>10, SocketsAreSockets DEF Attach, procVars
  <2>11. ASSUME NEW p \in Procs, Register(p) PROVE TypeInv'
    BY <2>11, SocketsAreSockets DEF Register, procVars
  <2>12. ASSUME NEW p \in Procs, Die(p) PROVE TypeInv'
    BY <2>12, SocketsAreSockets DEF Die, Links
  <2>13. ASSUME NEW p \in Procs, NEW q \in Procs, Fork(p, q) PROVE TypeInv'
    BY <2>13, SocketsAreSockets DEF Fork
  <2>14. CASE UNCHANGED vars
    BY <2>14 DEF vars, procVars
  <2>15. QED
    BY <2>1, <2>2, <2>3, <2>4, <2>5, <2>6, <2>7, <2>8, <2>9, <2>10, <2>11,
       <2>12, <2>13, <2>14
       DEF Next, Finish
<1>3. QED
  BY <1>1, <1>2, PTL DEF Spec

\* Every variable keeps its type in every reachable state.
THEOREM TypeCorrect == Spec => []TypeOK
<1>1. TypeInv => TypeOK
  BY DEF TypeInv
<1>2. QED
  BY <1>1, TypeInvariant, PTL

-----------------------------------------------------------------------------
(* The pid_ of the caches                                                  *)

\* Inductive strengthening of OwnSocketsOnly.  The pid_ of a cache is that of a
\* process that has been forked already, so a child never takes the cache it
\* inherits for its own; and a cache whose pid_ is right holds what its process
\* has made.
CacheInv ==
    /\ foreign = {}
    /\ \A p \in Procs :
          /\ life[pullPid[p]] # "unborn" /\ life[pushPid[p]] # "unborn"
          /\ pullPid[p] = p => pull[p].maker \in {p, None}
          /\ pushPid[p] = p => push[p].maker \in {p, None}

\* CacheInv is an invariant.
LEMMA CacheInvariant == Spec => []CacheInv
<1>1. Init => CacheInv
  BY MainIsAProc DEF Init, CacheInv, NoSocket
<1>2. TypeOK /\ CacheInv /\ [Next]_vars => CacheInv'
  <2> SUFFICES ASSUME TypeOK, CacheInv, [Next]_vars PROVE CacheInv'
    OBVIOUS
  <2> USE DEF TypeOK, CacheInv, NoSocket
  <2>1. ASSUME NEW p \in Procs, Bind(p) PROVE CacheInv'
    <3>1. PICK s \in Sockets \cup {NoSocket} : get(p, s)
      BY <2>1 DEF Bind
    <3>2. QED
      BY <2>1, <3>1, GetEffect DEF Bind, MayReceive, Free, Up
  <2>2. ASSUME NEW p \in Procs, Receive(p) PROVE CacheInv'
    <3>1. PICK s \in Sockets \cup {NoSocket} : get(p, s) /\ Uses(p, s)
      BY <2>2 DEF Receive
    <3>2. /\ pull' = [pull EXCEPT ![p] = s] /\ pullPid' = [pullPid EXCEPT ![p] = p]
          /\ s.maker \in {p, None}
      BY <3>1, GetEffect
    <3>3. life[p] # "unborn" /\ UNCHANGED <<life, push, pushPid>> /\ foreign' = foreign
      BY <2>2, <3>1, <3>2 DEF Receive, Uses, MayReceive, Free, Up
    <3>4. QED
      BY <3>2, <3>3
  <2>3. ASSUME NEW p \in Procs, Unlink(p) PROVE CacheInv'
    BY <2>3 DEF Unlink
  <2>4. ASSUME NEW p \in Procs, Announce(p) PROVE CacheInv'
    BY <2>4 DEF Announce
  <2>5. ASSUME NEW p \in Procs, Deregister(p) PROVE CacheInv'
    BY <2>5 DEF Deregister
  <2>6. ASSUME NEW p \in Procs, Connect(p) PROVE CacheInv'
    BY <2>6 DEF Connect, Uses
  <2>7. ASSUME NEW p \in Procs, SendCached(p) PROVE CacheInv'
    BY <2>7 DEF SendCached, Connected, Uses, procVars
  <2>8. ASSUME NEW p \in Procs, Resolve(p) PROVE CacheInv'
    BY <2>8 DEF Resolve, Free, Up
  <2>9. ASSUME NEW p \in Procs, Flush(p) PROVE CacheInv'
    BY <2>9 DEF Flush
  <2>10. ASSUME NEW p \in Procs, Attach(p) PROVE CacheInv'
    BY <2>10 DEF Attach, procVars
  <2>11. ASSUME NEW p \in Procs, Register(p) PROVE CacheInv'
    BY <2>11 DEF Register, procVars
  <2>12. ASSUME NEW p \in Procs, Die(p) PROVE CacheInv'
    BY <2>12 DEF Die
  <2>13. ASSUME NEW p \in Procs, NEW q \in Procs, Fork(p, q) PROVE CacheInv'
    BY <2>13 DEF Fork, Free, Up
  <2>14. CASE UNCHANGED vars
    BY <2>14 DEF vars, procVars
  <2>15. QED
    BY <2>1, <2>2, <2>3, <2>4, <2>5, <2>6, <2>7, <2>8, <2>9, <2>10, <2>11,
       <2>12, <2>13, <2>14
       DEF Next, Finish
<1>3. QED
  BY <1>1, <1>2, TypeCorrect, PTL DEF Spec

\* AclMQ.hpp, the pid_ of both caches: no process ever uses a socket made by
\* another, for any number of processes that fork each other in any order.
THEOREM OwnSocketsOnlyAlways == Spec => []OwnSocketsOnly
<1>1. CacheInv => OwnSocketsOnly
  BY DEF CacheInv, OwnSocketsOnly
<1>2. QED
  BY <1>1, CacheInvariant, PTL

-----------------------------------------------------------------------------
(* Announced endpoints                                                     *)

\* Inductive strengthening of AnnouncedIsBound.  A socket that a process made is
\* in a cache with its pid_; between the two halves of acl_bind the socket is
\* there, between those of acl_unlink there is none; the socket file is that of
\* the receiver which has bound it; and the record of the AMS shows the socket of
\* its announcer until acl_unlink.
BoundInv ==
    /\ \A p \in Procs :
          /\ life[p] = "unborn" => doing[p] = "none" /\ p # address.by
          /\ pull[p].maker \in Procs => life[pull[p].maker] # "unborn"
          /\ pull[p].maker = p => pullPid[p] = p
          /\ doing[p] = "REGISTER_ENDPOINT" => pull[p].maker = p
          /\ doing[p] = "DEREGISTER" => pull[p] = NoSocket
          /\ Open(p) /\ pull[p].ep = Ipc => path = p
    /\ address.ep \in Endpoints =>
          /\ address.by \in Procs
          /\ Up(address.by) /\ doing[address.by] # "DEREGISTER" =>
                pull[address.by] = [ep |-> address.ep, maker |-> address.by]

\* BoundInv is an invariant.
LEMMA BoundInvariant == Spec => []BoundInv
<1>1. Init => BoundInv
  BY MainIsAProc, SocketsAreSockets DEF Init, BoundInv, NoSocket, Open
<1>2. TypeOK /\ CacheInv /\ BoundInv /\ [Next]_vars => BoundInv'
  <2> SUFFICES ASSUME TypeOK, CacheInv, BoundInv, [Next]_vars PROVE BoundInv'
    OBVIOUS
  <2> USE MainIsAProc, SocketsAreSockets
      DEF TypeOK, CacheInv, BoundInv, NoSocket, Open, Up, Free, MayReceive
  <2>1. ASSUME NEW p \in Procs, Bind(p) PROVE BoundInv'
    <3>1. PICK s \in Sockets \cup {NoSocket} :
            /\ get(p, s)
            /\ doing' = [doing EXCEPT ![p] = IF s = NoSocket THEN @ ELSE "REGISTER_ENDPOINT"]
      BY <2>1 DEF Bind
    <3>2. s = NoSocket \/ s.maker = p
      BY <3>1, GetEffect DEF Sockets
    <3>3. QED
      BY <2>1, <3>1, <3>2, GetEffect DEF Bind, Cached
  <2>2. ASSUME NEW p \in Procs, Receive(p) PROVE BoundInv'
    <3>1. PICK s \in Sockets \cup {NoSocket} : get(p, s) /\ Uses(p, s)
      BY <2>2 DEF Receive
    <3>2. QED
      BY <2>2, <3>1, GetEffect DEF Receive, Uses, Cached
  <2>3. ASSUME NEW p \in Procs, Unlink(p) PROVE BoundInv'
    BY <2>3 DEF Unlink
  <2>4. ASSUME NEW p \in Procs, Announce(p) PROVE BoundInv'
    BY <2>4 DEF Announce, Sockets
  <2>5. ASSUME NEW p \in Procs, Deregister(p) PROVE BoundInv'
    BY <2>5 DEF Deregister
  <2>6. ASSUME NEW p \in Procs, Connect(p) PROVE BoundInv'
    BY <2>6 DEF Connect
  <2>7. ASSUME NEW p \in Procs, SendCached(p) PROVE BoundInv'
    BY <2>7 DEF SendCached, procVars
  <2>8. ASSUME NEW p \in Procs, Resolve(p) PROVE BoundInv'
    BY <2>8 DEF Resolve
  <2>9. ASSUME NEW p \in Procs, Flush(p) PROVE BoundInv'
    BY <2>9 DEF Flush
  <2>10. ASSUME NEW p \in Procs, Attach(p) PROVE BoundInv'
    BY <2>10 DEF Attach, procVars
  <2>11. ASSUME NEW p \in Procs, Register(p) PROVE BoundInv'
    BY <2>11 DEF Register, procVars
  <2>12. ASSUME NEW p \in Procs, Die(p) PROVE BoundInv'
    BY <2>12 DEF Die
  <2>13. ASSUME NEW p \in Procs, NEW q \in Procs, Fork(p, q) PROVE BoundInv'
    BY <2>13 DEF Fork
  <2>14. CASE UNCHANGED vars
    BY <2>14 DEF vars, procVars
  <2>15. QED
    BY <2>1, <2>2, <2>3, <2>4, <2>5, <2>6, <2>7, <2>8, <2>9, <2>10, <2>11,
       <2>12, <2>13, <2>14
       DEF Next, Finish
<1>3. QED
  BY <1>1, <1>2, TypeCorrect, CacheInvariant, PTL DEF Spec

\* acl_bind and acl_unlink: an endpoint that the AMS hands out is bound by the
\* process that announced it, for any ports, in local mode and in a cluster.
THEOREM AnnouncedIsBoundAlways == Spec => []AnnouncedIsBound
<1>1. TypeOK /\ BoundInv => AnnouncedIsBound
  BY MainIsAProc DEF TypeOK, BoundInv, NoSocket, AnnouncedIsBound, Open, Listens, Up
<1>2. QED
  BY <1>1, TypeCorrect, BoundInvariant, PTL
=============================================================================
