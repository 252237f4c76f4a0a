------------------------------ MODULE Sockets ------------------------------
(***************************************************************************)
(* The world the chat servers of lab3 run in: TCP clients, the listening   *)
(* socket's backlog and the server process's file descriptor table.  None  *)
(* of it is under src/: it is modelled from the way the servers use        *)
(* accept, recv, send and close (lab3/2.cpp, 3.cpp, 4.cpp).  A server      *)
(* module EXTENDS this one, adds its own variables, and combines the       *)
(* client actions below with whatever the event means to it.               *)
(*                                                                         *)
(* What a client sends is abstracted to chunks, one per write of the       *)
(* client: a chunk says who wrote it, its number among the writes of that  *)
(* client, and its shape: one Boolean per line of the chunk, FALSE for an  *)
(* empty line.  What a client receives is a sequence of units, MsgLen of   *)
(* them to a message, so that a short send is visible.                     *)
(***************************************************************************)
EXTENDS Integers, Sequences, FiniteSets

CONSTANTS Conn,       \* the connections clients may open, each at most once
          NoConn,     \* "no connection": a free descriptor
          Fd,         \* the descriptors accept may return
          MaxWrites,  \* bound: chunks one client writes
          Shapes,     \* the shapes a chunk may have
          MsgLen,     \* units in one message sent to a client
          Room        \* units a client's receive buffer holds

ASSUME ConnAssumption == NoConn \notin Conn /\ IsFiniteSet(Conn)
ASSUME FdAssumption == Fd \subseteq Nat \ {0} /\ IsFiniteSet(Fd)
ASSUME SizeAssumption ==
  /\ MaxWrites \in Nat
  /\ MsgLen \in Nat \ {0}
  /\ Room \in Nat \ {0}
  /\ \A sh \in Shapes : sh \in Seq(BOOLEAN)

VARIABLES
  peer,     \* peer[c]: the client's end of the connection
  backlog,  \* connections established and not yet accepted, oldest first
  fds,      \* fds[f]: the connection that descriptor f stands for
  outbox,   \* outbox[c]: chunks c wrote that recv has not returned yet
  wrote,    \* wrote[c]: how many chunks c has written
  inbox,    \* inbox[c]: every unit that reached the client, in order
  unread    \* unread[c]: units in the client's buffer it has not read

sockVars == <<peer, backlog, fds, outbox, wrote, inbox, unread>>

\* "left": the client closed in order.  "doomed": the server has since sent
\* to it, the answering RST is under way.  "reset": the RST has arrived.
PeerState == {"new", "open", "left", "doomed", "reset"}
Gone == {"left", "doomed", "reset"}

Chunk == [from : Conn, num : Nat, shape : Shapes]
Unit == [from : Conn, num : Nat, clip : Nat, part : Nat]

SockTypeOK ==
  /\ peer \in [Conn -> PeerState]
  /\ backlog \in Seq(Conn)
  /\ fds \in [Fd -> Conn \cup {NoConn}]
  /\ outbox \in [Conn -> Seq(Chunk)]
  /\ wrote \in [Conn -> 0..MaxWrites]
  /\ inbox \in [Conn -> Seq(Unit)]
  /\ unread \in [Conn -> 0..Room]

SockInit ==
  /\ peer = [c \in Conn |-> "new"]
  /\ backlog = <<>>
  /\ fds = [f \in Fd |-> NoConn]
  /\ outbox = [c \in Conn |-> <<>>]
  /\ wrote = [c \in Conn |-> 0]
  /\ inbox = [c \in Conn |-> <<>>]
  /\ unread = [c \in Conn |-> 0]

-----------------------------------------------------------------------------
(* What clients do. *)

Connect(c) ==
  /\ peer[c] = "new"
  /\ peer' = [peer EXCEPT ![c] = "open"]
  /\ backlog' = Append(backlog, c)
  /\ UNCHANGED <<fds, outbox, wrote, inbox, unread>>

Write(c) ==
  /\ peer[c] = "open"
  /\ wrote[c] < MaxWrites
  /\ \E sh \in Shapes :
       outbox' = [outbox EXCEPT ![c] =
                    Append(@, [from |-> c, num |-> wrote[c] + 1, shape |-> sh])]
  /\ wrote' = [wrote EXCEPT ![c] = @ + 1]
  /\ UNCHANGED <<peer, backlog, fds, inbox, unread>>

Read(c) ==
  /\ peer[c] = "open"
  /\ unread[c] > 0
  /\ unread' = [unread EXCEPT ![c] = 0]
  /\ UNCHANGED <<peer, backlog, fds, outbox, wrote, inbox>>

\* A client that closes with unread data makes its kernel send RST, not FIN.
Leave(c) ==
  /\ peer[c] = "open"
  /\ peer' = [peer EXCEPT ![c] = IF unread[c] > 0 THEN "reset" ELSE "left"]
  /\ UNCHANGED <<backlog, fds, outbox, wrote, inbox, unread>>

Reset(c) ==
  /\ peer[c] = "doomed"
  /\ peer' = [peer EXCEPT ![c] = "reset"]
  /\ UNCHANGED <<backlog, fds, outbox, wrote, inbox, unread>>

-----------------------------------------------------------------------------
(* What the system calls of a server do. *)

FreeFds == {f \in Fd : fds[f] = NoConn}

\* The connection a descriptor stands for, NoConn when the call would fail
\* with EBADF (or ENOTSOCK, for the 0 of a Client that was never filled in).
ConnOf(f) == IF f \in Fd THEN fds[f] ELSE NoConn

\* accept: the oldest pending connection gets the lowest free descriptor.
AcceptAs(f) ==
  /\ backlog # <<>>
  /\ f \in FreeFds
  /\ \A g \in FreeFds : f <= g
  /\ fds' = [fds EXCEPT ![f] = Head(backlog)]
  /\ backlog' = Tail(backlog)
  /\ UNCHANGED <<peer, outbox, wrote, inbox, unread>>

\* recv has data: it returns the oldest chunk.
HasData(c) == c # NoConn /\ outbox[c] # <<>>
TakeChunk(c) ==
  /\ HasData(c)
  /\ outbox' = [outbox EXCEPT ![c] = Tail(@)]
  /\ UNCHANGED <<peer, backlog, fds, wrote, inbox, unread>>

\* recv has no data and never will: it returns 0 or -1.
AtEnd(c) == c # NoConn => outbox[c] = <<>> /\ peer[c] \in Gone

CloseFd(f) ==
  /\ fds' = [g \in Fd |-> IF g = f THEN NoConn ELSE fds[g]]
  /\ UNCHANGED <<peer, backlog, outbox, wrote, inbox, unread>>

\* Units number first .. first + k - 1 of the message made of line clip of
\* a chunk.
Units(chunk, clip, first, k) ==
  [i \in 1..k |-> [from |-> chunk.from, num |-> chunk.num,
                   clip |-> clip, part |-> first + i - 1]]

\* send accepts k of the left units that remain: they reach the client, or
\* vanish when the client has closed (and then the RST comes).
SendTakes(c, chunk, clip, left, k) ==
  /\ k \in 1..left
  /\ \/ /\ peer[c] = "open"
        /\ k <= Room - unread[c]
        /\ inbox' = [inbox EXCEPT ![c] =
                       @ \o Units(chunk, clip, MsgLen - left + 1, k)]
        /\ unread' = [unread EXCEPT ![c] = @ + k]
        /\ UNCHANGED peer
     \/ /\ peer[c] \in {"left", "doomed"}
        /\ k = left
        /\ peer' = [peer EXCEPT ![c] = "doomed"]
        /\ UNCHANGED <<inbox, unread>>
  /\ UNCHANGED <<backlog, fds, outbox, wrote>>

\* send returns -1 whatever the blocking mode: no such socket, or a peer
\* that is known to be gone.
SendBroken(c) == c # NoConn => peer[c] = "reset"

\* The client's buffer is full: a blocking send waits, a non-blocking one
\* returns -1 with EAGAIN.
SendFull(c) == c # NoConn /\ peer[c] = "open" /\ unread[c] = Room

-----------------------------------------------------------------------------
(* What the sockets keep, whatever the server does with them. *)

\* A connection is in one place: not made, pending once, or behind one
\* descriptor.
ConnsApart ==
  /\ \A j, k \in DOMAIN backlog : backlog[j] = backlog[k] => j = k
  /\ \A f, g \in Fd : fds[f] = fds[g] /\ fds[f] # NoConn => f = g
  /\ \A j \in DOMAIN backlog, f \in Fd : backlog[j] # fds[f]
  /\ \A j \in DOMAIN backlog : peer[backlog[j]] # "new"
  /\ \A f \in Fd : fds[f] # NoConn => peer[fds[f]] # "new"

\* What recv has not returned of a client's chunks is the last of them.
OutboxOrdered ==
  \A c \in Conn : \A j \in DOMAIN outbox[c] :
    /\ outbox[c][j].from = c
    /\ outbox[c][j].num = wrote[c] - Len(outbox[c]) + j
=============================================================================
