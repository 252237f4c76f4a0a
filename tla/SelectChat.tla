----------------------------- MODULE SelectChat ----------------------------
(***************************************************************************)
(* lab3/3.cpp, the chat room on select: one thread goes round accepting at *)
(* most one client, asking select which clients are readable, and serving  *)
(* those.  select is level-triggered: a client that is still readable is   *)
(* reported again.  Its timeout runs out (and stays at zero: the kernel    *)
(* writes the rest back to the variable), so an empty round is an ordinary *)
(* step.                                                                   *)
(*                                                                         *)
(* Descriptors stay below FD_SETSIZE, as they do under the usual limit of  *)
(* 1024 open files.                                                        *)
(***************************************************************************)
EXTENDS ServeOne

VARIABLES
  clients,   \* the fd_set select left: the readable descriptors
  i_next     \* the slot the loop over clients_list looks at next

selectVars == <<clients, i_next>>
vars == <<sockVars, proc, tableVars, pc, loopVars, selectVars>>

Init ==
  /\ SockInit
  /\ ServeInit
  /\ pc = "accept"
  /\ clients = {}
  /\ i_next = 0

-----------------------------------------------------------------------------
(* The loop of main. *)

AcceptClient ==
  /\ Running
  /\ pc = "accept"
  /\ \E f \in FreeFds, i \in Slot : AcceptAs(f) /\ FirstFree(i) /\ Register(i, f)
  /\ pc' = "select"
  /\ UNCHANGED <<proc, loopVars, selectVars>>

\* client_add returns -1 and main does not look: the descriptor stays open,
\* in no table.
AcceptWhenFull ==
  /\ Running
  /\ pc = "accept"
  /\ TableFull
  /\ \E f \in FreeFds : AcceptAs(f)
  /\ pc' = "select"
  /\ UNCHANGED <<proc, tableVars, loopVars, selectVars>>

\* Nobody is waiting, or no descriptor is left: accept returns -1.
AcceptNothing ==
  /\ Running
  /\ pc = "accept"
  /\ backlog = <<>> \/ FreeFds = {}
  /\ pc' = "select"
  /\ UNCHANGED <<sockVars, proc, tableVars, loopVars, selectVars>>

\* Whether a recv on the descriptor would not say EAGAIN.
Readable(f) == HasData(ConnOf(f)) \/ (ConnOf(f) # NoConn /\ peer[ConnOf(f)] \in Gone)

\* Mutant: select waits as long as it takes.
SelectForever ==
  /\ Running
  /\ pc = "select"
  /\ clients' = {f \in {FdOfSlot(i) : i \in Registered} : Readable(f)}
  /\ clients' # {}
  /\ pc' = "check"
  /\ i_next' = 0
  /\ UNCHANGED <<sockVars, proc, tableVars, loopVars>>

\* select on the descriptors of the registered slots: it is over as soon as
\* one is readable, or when the time has run out.
Select ==
  /\ Running
  /\ pc = "select"
  /\ clients' = {f \in {FdOfSlot(i) : i \in Registered} : Readable(f)}
  /\ pc' = IF clients' # {} THEN "check" ELSE "accept"
  /\ i_next' = 0
  /\ UNCHANGED <<sockVars, proc, tableVars, loopVars>>

\* Mutant: the loop starts at slot 1.
LaterSlots == {i \in Registered : i > i_next /\ FdOfSlot(i) \in clients}

\* The slots the loop over clients_list would still serve.
ReadySlots == {i \in Registered : i >= i_next /\ FdOfSlot(i) \in clients}

\* Mutant: the loop stays at the slot it serves.
ServeSame ==
  /\ Running
  /\ pc = "check"
  /\ \E i \in ReadySlots :
       /\ \A j \in ReadySlots : i <= j
       /\ StartServing(i)
       /\ i_next' = i
  /\ UNCHANGED <<sockVars, proc, tableVars, clients>>

ServeNext ==
  /\ Running
  /\ pc = "check"
  /\ \E i \in ReadySlots :
       /\ \A j \in ReadySlots : i <= j
       /\ StartServing(i)
       /\ i_next' = i + 1
  /\ UNCHANGED <<sockVars, proc, tableVars, clients>>

RoundDone ==
  /\ Running
  /\ pc = "check"
  /\ ReadySlots = {}
  /\ pc' = "accept"
  /\ clients' = {}
  /\ UNCHANGED <<sockVars, proc, tableVars, loopVars, i_next>>

ServeRecv ==
  /\ Running
  /\ RecvChunk
  /\ UNCHANGED selectVars

\* recv failed, and has succeeded before: on to the next slot.
ServeDone ==
  /\ Running
  /\ RecvFails
  /\ ~flag
  /\ LeaveLoop("check")
  /\ UNCHANGED <<sockVars, proc, tableVars, selectVars>>

\* The first recv failed: client_destroy.
ClientDestroy ==
  /\ Running
  /\ RecvFails
  /\ flag
  /\ Unregister(index)
  /\ LeaveLoop("check")
  /\ UNCHANGED <<proc, selectVars>>

ServeSend ==
  /\ Running
  /\ Send
  /\ UNCHANGED selectVars

ServeAborts ==
  /\ Running
  /\ SendAborts
  /\ UNCHANGED selectVars

Server == AcceptClient \/ AcceptWhenFull \/ AcceptNothing \/ Select \/ ServeNext
          \/ RoundDone \/ ServeRecv \/ ServeDone \/ ClientDestroy \/ ServeSend
          \/ ServeAborts

-----------------------------------------------------------------------------
ServerUnchanged == UNCHANGED <<proc, tableVars, pc, loopVars, selectVars>>
Client(c) == Running /\ (Connect(c) \/ Write(c) \/ Leave(c)) /\ ServerUnchanged
Network(c) == Running /\ (Read(c) \/ Reset(c)) /\ ServerUnchanged

Next == Server \/ \E c \in Conn : Client(c) \/ Network(c)

\* The server's thread keeps running, clients read what they are sent and
\* the network delivers its RSTs; nobody has to connect, write or leave.
Fairness == WF_vars(Server) /\ \A c \in Conn : WF_vars(Network(c))

Spec == Init /\ [][Next]_vars
FairSpec == Spec /\ Fairness

-----------------------------------------------------------------------------
(* Properties. *)

TypeOK ==
  /\ SockTypeOK
  /\ ServeTypeOK
  /\ pc \in {"accept", "select", "check", "serve"}
  /\ clients \in SUBSET Fd
  /\ i_next \in 0..MaxClient

\* What select reported stays true until the slot is served: within a round
\* a bit of the fd_set never stands for another client, because descriptors
\* are closed but none is handed out, and nobody else receives.
BitsCurrent ==
  \A i \in Registered :
    pc \in {"check", "serve"} /\ i >= i_next /\ FdOfSlot(i) \in clients
      => Readable(FdOfSlot(i))

\* The server's data: well-typed, with descriptors that are open and all
\* different, and current bits.
TableInv == TypeOK /\ SlotsApart /\ BitsCurrent

\* TableInv with what it rests on: the loop over clients_list is past the
\* slot it serves, so that no bit is left for the one descriptor that is
\* read from or closed; and no other descriptor has the same client.
SelectInv ==
  /\ TableInv
  /\ ConnsApart
  /\ LoopInv
  /\ pc = "serve" => index < i_next

\* What RoomPromise rests on besides: chunks are received in the order they
\* were written, nothing reaches who has not connected, every call of send
\* that is left is for a line of the chunk, and the first recv of a client
\* that select reported does not say EAGAIN.
RoomInv ==
  /\ SelectInv
  /\ OutboxOrdered
  /\ \A c \in Conn :
       Len(outbox[c]) <= wrote[c] /\ (peer[c] = "new" => inbox[c] = <<>>)
  /\ \A p \in sends : p[1] \in NonEmptyLines(chunk)
  /\ pc = "serve" /\ flag => Readable(FdOfSlot(index))

IsServed(c) == \E i \in Registered : ConnOfSlot(i) = c

\* A connection that is there to be accepted is accepted, as long as
\* descriptors last.
PendingServed ==
  \A c \in Conn :
    (\E i \in DOMAIN backlog : backlog[i] = c)
      ~> (\A i \in DOMAIN backlog : backlog[i] # c) \/ FreeFds = {} \/ ~Running

\* What a registered client sends is received, and (README.md:51) one that
\* left is destroyed, also when its last message and its end arrive together.
Attended ==
  \A c \in Conn :
    /\ IsServed(c) /\ HasData(c) ~> ~HasData(c) \/ ~Running
    /\ IsServed(c) /\ peer[c] \in Gone ~> ~IsServed(c) \/ ~Running
=============================================================================
