----------------------------- MODULE EpollChat -----------------------------
(***************************************************************************)
(* lab3/4.cpp, the chat room on epoll: one thread waits for events and     *)
(* serves the clients they name.  Everything is registered edge-triggered  *)
(* (EPOLLET): the kernel puts a descriptor on the ready list when          *)
(* something happens to it, or when it is added with something to read,    *)
(* and takes it off when epoll_wait reports it.                            *)
(*                                                                         *)
(* epoll promises no order among the events it reports: the ready list and *)
(* the array events are sets.                                              *)
(***************************************************************************)
EXTENDS ServeOne

CONSTANTS Listener,    \* the listening descriptor
          Absent,      \* "no such key" in client_map
          EpollSize    \* EPOLL_SIZE

ASSUME EpollAssumption ==
  Listener \notin Fd /\ Absent \notin Slot /\ EpollSize \in Nat \ {0}

VARIABLES
  client_map,  \* client_map[f]: the slot of descriptor f, or Absent
  interest,    \* the descriptors registered with epoll
  ready,       \* those on the kernel's ready list
  events       \* those epoll_wait reported and the loop has not reached

epollVars == <<interest, ready>>
vars == <<sockVars, proc, tableVars, pc, loopVars, client_map, epollVars, events>>

Init ==
  /\ SockInit
  /\ ServeInit
  /\ pc = "next"
  /\ client_map = [f \in Fd |-> Absent]
  /\ interest = {Listener}
  /\ ready = {}
  /\ events = {}

-----------------------------------------------------------------------------
(* epoll in the kernel. *)

\* Whether a recv, or an accept on the listener, would not say EAGAIN.
Readable(e) ==
  IF e = Listener THEN backlog # <<>>
  ELSE fds[e] # NoConn /\ (HasData(fds[e]) \/ peer[fds[e]] \in Gone)

\* Something happened to the listener, or to the server's end of c.
Wake(es) == ready' = ready \cup (es \cap interest)
FdsOf(c) == {f \in Fd : fds[f] = c}

-----------------------------------------------------------------------------
(* The event loop. *)

\* epoll_wait returns when a descriptor of the ready list is readable.
EpollWait ==
  /\ Running
  /\ pc = "next"
  /\ events = {}
  /\ LET readable == {e \in ready : Readable(e)} IN
       \E batch \in SUBSET readable :
         /\ batch # {}
         /\ \/ batch = readable /\ Cardinality(batch) <= EpollSize
            \/ Cardinality(batch) = EpollSize
         /\ events' = batch
         /\ ready' = readable \ batch
  /\ UNCHANGED <<sockVars, proc, tableVars, pc, loopVars, client_map, interest>>

\* The loop over what epoll_wait reported gets to e.
TakeEvent(e) == e \in events /\ events' = events \ {e}

\* One accept per event of the listener, and client_add.
AcceptClient ==
  /\ Running
  /\ pc = "next"
  /\ TakeEvent(Listener)
  /\ \E f \in FreeFds, i \in Slot :
       /\ AcceptAs(f)
       /\ FirstFree(i)
       /\ Register(i, f)
       /\ client_map' = [client_map EXCEPT ![f] = i]
       /\ interest' = interest \cup {f}
       /\ ready' = IF Readable(f)' THEN ready \cup {f} ELSE ready
  /\ UNCHANGED <<proc, pc, loopVars>>

\* Mutant: epoll_ctl before the search for a slot.
AcceptWhenFullWatched ==
  /\ Running
  /\ pc = "next"
  /\ TakeEvent(Listener)
  /\ TableFull
  /\ \E f \in FreeFds : AcceptAs(f) /\ interest' = interest \cup {f}
  /\ UNCHANGED <<proc, tableVars, pc, loopVars, client_map, ready>>

\* client_add returns -1 and main does not look: the descriptor stays open,
\* in no table and not registered.
AcceptWhenFull ==
  /\ Running
  /\ pc = "next"
  /\ TakeEvent(Listener)
  /\ TableFull
  /\ \E f \in FreeFds : AcceptAs(f)
  /\ UNCHANGED <<proc, tableVars, pc, loopVars, client_map, epollVars>>

\* accept returns -1 for want of a descriptor: on to the next event.
AcceptFails ==
  /\ Running
  /\ pc = "next"
  /\ TakeEvent(Listener)
  /\ FreeFds = {}
  /\ UNCHANGED <<sockVars, proc, tableVars, pc, loopVars, client_map, epollVars>>

\* An event of a client's descriptor: client_map.at throws for an unknown
\* one, and main returns; a slot that is not in use is passed over.
Dispatch ==
  /\ Running
  /\ pc = "next"
  /\ \E f \in events \ {Listener} :
       /\ TakeEvent(f)
       /\ IF client_map[f] = Absent
            THEN proc' = "exited" /\ UNCHANGED <<pc, loopVars>>
            ELSE /\ IF clients_list[client_map[f]].first
                      THEN StartServing(client_map[f])
                      ELSE UNCHANGED <<pc, loopVars>>
                 /\ UNCHANGED proc
  /\ UNCHANGED <<sockVars, tableVars, client_map, epollVars>>

ServeRecv ==
  /\ Running
  /\ RecvChunk
  /\ UNCHANGED <<client_map, epollVars, events>>

\* recv failed, and has succeeded before: on to the next event.
ServeDone ==
  /\ Running
  /\ RecvFails
  /\ ~flag
  /\ LeaveLoop("next")
  /\ UNCHANGED <<sockVars, proc, tableVars, client_map, epollVars, events>>

\* The first recv failed: client_destroy.
ClientDestroy ==
  /\ Running
  /\ RecvFails
  /\ flag
  /\ interest' = interest \ {FdOfSlot(index)}
  /\ ready' = ready \ {FdOfSlot(index)}
  /\ Unregister(index)
  /\ client_map' = [f \in Fd |->
                      IF f = FdOfSlot(index) THEN Absent ELSE client_map[f]]
  /\ LeaveLoop("next")
  /\ UNCHANGED <<proc, events>>

ServeSend ==
  /\ Running
  /\ Send
  /\ UNCHANGED <<client_map, epollVars, events>>

ServeAborts ==
  /\ Running
  /\ SendAborts
  /\ UNCHANGED <<client_map, epollVars, events>>

Server == EpollWait \/ AcceptClient \/ AcceptWhenFull \/ AcceptFails \/ Dispatch
          \/ ServeRecv \/ ServeDone \/ ClientDestroy \/ ServeSend \/ ServeAborts

-----------------------------------------------------------------------------
(* The clients, and what the kernel makes of it. *)

ServerUnchanged ==
  UNCHANGED <<proc, tableVars, pc, loopVars, client_map, interest, events>>
ClientConnects(c) ==
  Running /\ Connect(c) /\ Wake({Listener}) /\ ServerUnchanged
ClientWrites(c) == Running /\ Write(c) /\ Wake(FdsOf(c)) /\ ServerUnchanged
ClientLeaves(c) == Running /\ Leave(c) /\ Wake(FdsOf(c)) /\ ServerUnchanged
ClientReads(c) == Running /\ Read(c) /\ ServerUnchanged /\ UNCHANGED ready
ResetArrives(c) == Running /\ Reset(c) /\ Wake(FdsOf(c)) /\ ServerUnchanged

Client(c) == ClientConnects(c) \/ ClientWrites(c) \/ ClientLeaves(c)
Network(c) == ClientReads(c) \/ ResetArrives(c)

Next == Server \/ \E c \in Conn : Client(c) \/ Network(c)

\* The server's thread keeps running, clients read what they are sent and
\* the network delivers its RSTs; nobody has to connect, write or leave.
Fairness == WF_vars(Server) /\ \A c \in Conn : WF_vars(Network(c))

Spec == Init /\ [][Next]_vars
FairSpec == Spec /\ Fairness

-----------------------------------------------------------------------------
(* Properties. *)

TypeOK ==
  /\ SockTypeOK
  /\ ServeTypeOK
  /\ pc \in {"next", "serve"}
  /\ client_map \in [Fd -> Slot \cup {Absent}]
  /\ interest \in SUBSET (Fd \cup {Listener})
  /\ ready \in SUBSET (Fd \cup {Listener})
  /\ events \in SUBSET (Fd \cup {Listener})

\* clients_list, client_map and epoll's registrations are three views of the
\* same set of clients, and each client has an open descriptor and a connection
\* of its own, after any sequence of joins, leaves and reused descriptors.  Of
\* open descriptors that are no client's see StrayOnlyWhenFull.
RegistryAgrees ==
  /\ \A f \in Fd, i \in Slot :
       client_map[f] = i <=> i \in Registered /\ FdOfSlot(i) = f
  /\ interest = {Listener} \cup {FdOfSlot(i) : i \in Registered}
  /\ SlotsApart

\* The descriptor table is a view of the same clients, too, until a connection
\* is accepted with the table full: main does not look at the -1 of client_add
\* (4.cpp:151-154).  Such a descriptor stays open for good, and its client is
\* never served.  Nothing else leaves a descriptor open that is not registered.
Stray == {f \in Fd : fds[f] # NoConn /\ f \notin interest}
StrayOnlyWhenFull ==
  [][Stray' = Stray \/ (TableFull /\ Stray \subseteq Stray')]_vars

\* No event is left for a descriptor that client_destroy closed, or that
\* accept has given to somebody else since: client_map.at never throws
\* (4.cpp:163-171), and the handler serves the client the event was for.
EventsCurrent ==
  /\ ready \cup events \subseteq interest
  /\ proc # "exited"

\* An edge is not lost: whoever has sent something that recv has not
\* returned is on the ready list, among the events, or being served.
NoLostEdge ==
  \A i \in Registered :
    HasData(ConnOfSlot(i)) =>
      FdOfSlot(i) \in ready \cup events \/ (pc = "serve" /\ index = i)

(* Stated by the README, and not what the code does. *)

\* README.md:51, on leaving: at every check, when the first recv fails the
\* user has left.  A registered client that left is destroyed.
LeaverDestroyed ==
  \A c \in Conn :
    (\E i \in Registered : ConnOfSlot(i) = c) /\ peer[c] \in Gone
      ~> (\A i \in Registered : ConnOfSlot(i) # c) \/ ~Running

-----------------------------------------------------------------------------
(* What the invariants above rest on: the inductive invariant of            *)
(* EpollProofs.                                                             *)

\* The slot being served has no second event in the batch.
ServeInv == LoopInv /\ (pc = "serve" => FdOfSlot(index) \notin events)

EpollInv == TypeOK /\ RegistryAgrees /\ EventsCurrent /\ NoLostEdge /\ ServeInv

\* What RoomPromise rests on besides: every connection is in one place,
\* chunks are received in the order they were written, nothing reaches who
\* has not connected, every call of send that is left is for a line of the
\* chunk, and no event is left of a descriptor that is not readable, so that
\* the first recv after an event does not say EAGAIN.
RoomInv ==
  /\ EpollInv
  /\ ConnsApart
  /\ OutboxOrdered
  /\ \A c \in Conn :
       Len(outbox[c]) <= wrote[c] /\ (peer[c] = "new" => inbox[c] = <<>>)
  /\ \A p \in sends : p[1] \in NonEmptyLines(chunk)
  /\ \A f \in events \ {Listener} : Readable(f)
  /\ pc = "serve" /\ flag => Readable(FdOfSlot(index))
=============================================================================
