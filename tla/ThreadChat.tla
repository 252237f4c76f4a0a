----------------------------- MODULE ThreadChat -----------------------------
(***************************************************************************)
(* lab3/2.cpp, the multi-threaded chat room: the main thread accepts and   *)
(* adds clients, one handle_chat thread per client receives and pushes to  *)
(* message_queue, and one handle_send thread pops and sends to everybody   *)
(* but the sender.                                                         *)
(*                                                                         *)
(* One step is one system call, one critical section, or one access to     *)
(* data another thread may be changing.  client_add fills a Client in two  *)
(* stores, connected and then fd, while send_all reads both without the    *)
(* lock: the two stores are two steps.  The Makefile builds 2.cpp without  *)
(* optimisation, so the stores happen in the order they are written.       *)
(*                                                                         *)
(* The threads push and pop message_queue with different locking (push     *)
(* holds Queue_Mutex, handle_send holds nothing).  Here a push and a pop   *)
(* are one step each.                                                      *)
(*                                                                         *)
(* A definition headed "Mutant" is a plausible bug in place of the one     *)
(* below it, which the properties are known to catch.                      *)
(***************************************************************************)
EXTENDS Sockets

CONSTANT MaxClient     \* MAX_CLIENT_NUMBER

ASSUME MaxClientAssumption == MaxClient \in Nat \ {0}

VARIABLES
  proc,      \* the process: "run", "exited" (main returned), "aborted"
  clients,   \* clients[i]: the Client in cell i
  connected_clients_num,
  Clients_Mutex,   \* TRUE while the main thread is inside client_add's lock
  mpc, mfd, mconn, midx,       \* the main thread, and the client it is adding
  hpc, hslot, hconn, hchunk,   \* the handle_chat threads, one per connection
  message_queue,
  spc, smsg, stodo, si, sleft, sconn, scopied  \* the handle_send thread

mainVars == <<mpc, mfd, mconn, midx>>
handlerVars == <<hpc, hslot, hconn, hchunk>>
senderVars == <<spc, smsg, stodo, si, sleft, sconn, scopied>>
tableVars == <<clients, connected_clients_num, Clients_Mutex>>
vars == <<sockVars, proc, tableVars, mainVars, handlerVars, message_queue,
          senderVars>>

Slot == 0..MaxClient - 1

\* When every slot is taken, client_add's loop leaves index at -1, its check
\* "index < 0 && index >= MAX_CLIENT_NUMBER" is never true, and the client
\* is stored in clients[-1].  In the build, the 16 bytes before clients are
\* alignment padding, as large as one Client: a cell that no loop scans.
Cell == Slot \cup {-1}

Message == [sender_address : Cell, chunk : Chunk]

\* handle_send and handle_chat skip the empty pieces of a chunk.
NonEmptyClips(chunk) == {j \in DOMAIN chunk.shape : chunk.shape[j]}

HandlerState == {"none", "enter", "recv", "push", "destroy", "done"}

Init ==
  /\ SockInit
  /\ proc = "run"
  /\ clients = [i \in Cell |-> [connected |-> FALSE, fd |-> 0]]
  /\ connected_clients_num = 0
  /\ Clients_Mutex = FALSE
  /\ mpc = "accept" /\ mfd = 0 /\ mconn = NoConn /\ midx = 0
  /\ hpc = [c \in Conn |-> "none"]
  /\ hslot = [c \in Conn |-> 0]
  /\ hconn = [c \in Conn |-> NoConn]
  /\ hchunk = [c \in Conn |-> <<>>]
  /\ message_queue = <<>>
  /\ spc = "idle" /\ smsg = <<>> /\ stodo = {} /\ si = 0 /\ sleft = 0
  /\ sconn = NoConn /\ scopied = FALSE

\* Nothing of interest happens once the process is gone.
Running == proc = "run"

-----------------------------------------------------------------------------
(* The main thread: the accept loop of main, and client_add. *)

Accept ==
  /\ Running
  /\ mpc = "accept"
  /\ backlog # <<>>
  /\ \E f \in FreeFds : AcceptAs(f) /\ mfd' = f
  /\ mconn' = Head(backlog)
  /\ mpc' = "add"
  /\ UNCHANGED <<proc, tableVars, midx, handlerVars, message_queue, senderVars>>

\* accept returns -1 when no descriptor is left: main returns 0.
AcceptFails ==
  /\ Running
  /\ mpc = "accept"
  /\ FreeFds = {}
  /\ proc' = "exited"
  /\ UNCHANGED <<sockVars, tableVars, mainVars, handlerVars, message_queue,
                 senderVars>>

\* Mutant: a slot is given out only once.
UnusedSlots == {i \in Slot : clients[i].fd = 0}

FreeSlots == {i \in Slot : ~clients[i].connected}

\* Mutant: the next slot is the one after those in use.
IndexByCount(i) ==
  i = IF connected_clients_num < MaxClient THEN connected_clients_num ELSE -1

\* The index client_add's loop ends with.
IsIndex(i) ==
  \/ i \in FreeSlots /\ \A j \in FreeSlots : i <= j
  \/ i = -1 /\ FreeSlots = {}

\* client_add up to the store to connected.
ClientAddConnected ==
  /\ Running
  /\ mpc = "add"
  /\ ~Clients_Mutex
  /\ Clients_Mutex' = TRUE
  /\ \E i \in Cell :
       /\ IsIndex(i)
       /\ clients' = [clients EXCEPT ![i].connected = TRUE]
       /\ midx' = i
  /\ mpc' = "store"
  /\ UNCHANGED <<sockVars, proc, connected_clients_num, mfd, mconn,
                 handlerVars, message_queue, senderVars>>

\* The rest of client_add: the new thread's first step is EnterRecv.
ClientAddFd ==
  /\ Running
  /\ mpc = "store"
  /\ clients' = [clients EXCEPT ![midx].fd = mfd]
  /\ connected_clients_num' = connected_clients_num + 1
  /\ Clients_Mutex' = FALSE
  /\ hpc' = [hpc EXCEPT ![mconn] = "enter"]
  /\ hslot' = [hslot EXCEPT ![mconn] = midx]
  /\ mpc' = "check"
  /\ UNCHANGED <<sockVars, proc, mfd, mconn, midx, hconn, hchunk,
                 message_queue, senderVars>>

\* "while (connected_clients_num)", read without the lock.
CheckCount ==
  /\ Running
  /\ mpc = "check"
  /\ IF connected_clients_num # 0
       THEN mpc' = "accept" /\ UNCHANGED proc
       ELSE proc' = "exited" /\ UNCHANGED mpc
  /\ UNCHANGED <<sockVars, tableVars, mfd, mconn, midx, handlerVars,
                 message_queue, senderVars>>

-----------------------------------------------------------------------------
(* The handle_chat thread of connection c. *)

\* recv is called with the fd its Client holds now, and then blocks on that
\* connection whatever becomes of the Client.
EnterRecv(c) ==
  /\ Running
  /\ hpc[c] = "enter"
  /\ hconn' = [hconn EXCEPT ![c] = ConnOf(clients[hslot[c]].fd)]
  /\ hpc' = [hpc EXCEPT ![c] = "recv"]
  /\ UNCHANGED <<sockVars, proc, tableVars, mainVars, hslot, hchunk,
                 message_queue, senderVars>>

RecvChunk(c) ==
  /\ Running
  /\ hpc[c] = "recv"
  /\ TakeChunk(hconn[c])
  /\ hchunk' = [hchunk EXCEPT ![c] = Head(outbox[hconn[c]])]
  /\ hpc' = [hpc EXCEPT ![c] = "push"]
  /\ UNCHANGED <<proc, tableVars, mainVars, hslot, hconn, message_queue,
                 senderVars>>

\* Mutant: the address of the client that was added last.
LastAdded(c) == midx

\* "message.sender_address = client": the address of the thread's Client.
SenderAddress(c) == hslot[c]

\* Mutant: the newest message is sent first.
PushFront(c) ==
  /\ Running
  /\ hpc[c] = "push"
  /\ message_queue' =
       <<[sender_address |-> SenderAddress(c), chunk |-> hchunk[c]]>> \o message_queue
  /\ hpc' = [hpc EXCEPT ![c] = "enter"]
  /\ hchunk' = [hchunk EXCEPT ![c] = <<>>]
  /\ UNCHANGED <<sockVars, proc, tableVars, mainVars, hslot, hconn, senderVars>>

Push(c) ==
  /\ Running
  /\ hpc[c] = "push"
  /\ message_queue' =
       Append(message_queue,
              [sender_address |-> SenderAddress(c), chunk |-> hchunk[c]])
  /\ hpc' = [hpc EXCEPT ![c] = "enter"]
  /\ hchunk' = [hchunk EXCEPT ![c] = <<>>]
  /\ UNCHANGED <<sockVars, proc, tableVars, mainVars, hslot, hconn, senderVars>>

\* Mutant: only an error of recv counts, not its returning 0.
RecvError(c) == AtEnd(hconn[c]) /\ (hconn[c] # NoConn => peer[hconn[c]] = "reset")

\* recv returns 0 or -1.
UserLeft(c) == AtEnd(hconn[c])

\* Mutant: what recv returned is not looked at.
RecvUnchecked(c) ==
  /\ Running
  /\ hpc[c] = "recv"
  /\ UserLeft(c)
  /\ hpc' = [hpc EXCEPT ![c] = "push"]
  /\ UNCHANGED <<sockVars, proc, tableVars, mainVars, hslot, hconn, hchunk,
                 message_queue, senderVars>>

RecvEnd(c) ==
  /\ Running
  /\ hpc[c] = "recv"
  /\ UserLeft(c)
  /\ hpc' = [hpc EXCEPT ![c] = "destroy"]
  /\ UNCHANGED <<sockVars, proc, tableVars, mainVars, hslot, hconn, hchunk,
                 message_queue, senderVars>>

\* Mutant: the Client stays marked connected.
ClientDestroyMarked(c) ==
  /\ Running
  /\ hpc[c] = "destroy"
  /\ ~Clients_Mutex
  /\ CloseFd(clients[hslot[c]].fd)
  /\ connected_clients_num' = connected_clients_num - 1
  /\ hpc' = [hpc EXCEPT ![c] = "done"]
  /\ UNCHANGED <<proc, clients, Clients_Mutex, mainVars, hslot, hconn, hchunk,
                 message_queue, senderVars>>

\* All of client_destroy's changes, made under the lock.
ClientDestroy(c) ==
  /\ Running
  /\ hpc[c] = "destroy"
  /\ ~Clients_Mutex
  /\ clients' = [clients EXCEPT ![hslot[c]].connected = FALSE]
  /\ CloseFd(clients[hslot[c]].fd)
  /\ connected_clients_num' = connected_clients_num - 1
  /\ hpc' = [hpc EXCEPT ![c] = "done"]
  /\ UNCHANGED <<proc, Clients_Mutex, mainVars, hslot, hconn, hchunk,
                 message_queue, senderVars>>

-----------------------------------------------------------------------------
(* The handle_send thread; send_all's loop takes nobody's lock. *)

\* Mutant: the last message waits for the next one.
HasTwoMessages == Len(message_queue) > 1

\* "if (message_queue.size())".
HasMessage == message_queue # <<>>

\* "message_queue.front()".
NextMessage == Head(message_queue)

TakeMessage ==
  /\ Running
  /\ spc = "idle"
  /\ HasMessage
  /\ smsg' = NextMessage
  /\ message_queue' = Tail(message_queue)
  /\ stodo' = NonEmptyClips(smsg'.chunk)
  /\ si' = 0
  /\ spc' = "scan"
  /\ UNCHANGED <<sockVars, proc, tableVars, mainVars, handlerVars, sleft, sconn, scopied>>

\* The piece being sent is the first one that is left.
IsCurrentClip(j) == j \in stodo /\ \A k \in stodo : j <= k

\* All pieces are sent: back to polling the queue.
MessageDone ==
  /\ Running
  /\ spc = "scan"
  /\ stodo = {}
  /\ spc' = "idle"
  /\ smsg' = <<>>
  /\ si' = 0
  /\ UNCHANGED <<sockVars, proc, tableVars, mainVars, handlerVars,
                 message_queue, stodo, sleft, sconn, scopied>>

\* Whether send_all sends to the client in slot i: the sender is told by
\* the address of its Client.
IsReceiver(i) == clients[i].connected /\ i # smsg.sender_address

NotReceiver ==
  /\ Running
  /\ spc = "scan"
  /\ stodo # {}
  /\ si < MaxClient
  /\ ~IsReceiver(si)
  /\ si' = si + 1
  /\ UNCHANGED <<sockVars, proc, tableVars, mainVars, handlerVars,
                 message_queue, spc, smsg, stodo, sleft, sconn, scopied>>

StartSend ==
  /\ Running
  /\ spc = "scan"
  /\ stodo # {}
  /\ si < MaxClient
  /\ IsReceiver(si)
  /\ sleft' = MsgLen
  /\ spc' = "send"
  /\ UNCHANGED <<sockVars, proc, tableVars, mainVars, handlerVars,
                 message_queue, smsg, stodo, si, sconn, scopied>>

\* send_all has passed the last slot: on to the next piece.
NextClip ==
  /\ Running
  /\ spc = "scan"
  /\ si = MaxClient
  /\ \E j \in stodo : IsCurrentClip(j) /\ stodo' = stodo \ {j}
  /\ si' = 0
  /\ UNCHANGED <<sockVars, proc, tableVars, mainVars, handlerVars,
                 message_queue, spc, smsg, sleft, sconn, scopied>>

\* send is called with the fd the Client holds now, and then works on that
\* connection whatever becomes of the Client.
SendCall ==
  /\ Running
  /\ spc = "send"
  /\ sconn' = ConnOf(clients[si].fd)
  /\ sconn' # NoConn
  /\ scopied' = FALSE
  /\ spc' = "sending"
  /\ UNCHANGED <<sockVars, proc, tableVars, mainVars, handlerVars,
                 message_queue, smsg, stodo, si, sleft>>

\* A blocking send takes what there is room for and waits with the rest; it
\* returns when nothing is left.
SendCopies ==
  /\ Running
  /\ spc = "sending"
  /\ \E k \in 1..sleft, j \in stodo :
       /\ IsCurrentClip(j)
       /\ SendTakes(sconn, smsg.chunk, j, sleft, k)
       /\ sleft' = sleft - k
       /\ IF k = sleft
            THEN spc' = "scan" /\ si' = si + 1 /\ sconn' = NoConn /\ scopied' = FALSE
            ELSE scopied' = TRUE /\ UNCHANGED <<spc, si, sconn>>
  /\ UNCHANGED <<proc, tableVars, mainVars, handlerVars, message_queue, smsg,
                 stodo>>

\* The RST arrives in the middle: send returns how much it has taken, and
\* the loop calls it again for "mess.substr(send_num)".
SendReturnsShort ==
  /\ Running
  /\ spc = "sending"
  /\ peer[sconn] = "reset"
  /\ scopied
  /\ spc' = "send"
  /\ sconn' = NoConn
  /\ scopied' = FALSE
  /\ UNCHANGED <<sockVars, proc, tableVars, mainVars, handlerVars,
                 message_queue, smsg, stodo, si, sleft>>

\* send returns -1: SIGPIPE, or substr(-1) throws and nothing catches it.
SendAborts ==
  /\ Running
  /\ \/ spc = "send" /\ ConnOf(clients[si].fd) = NoConn
     \/ spc = "sending" /\ SendBroken(sconn) /\ ~scopied
  /\ proc' = "aborted"
  /\ UNCHANGED <<sockVars, tableVars, mainVars, handlerVars, message_queue,
                 senderVars>>

-----------------------------------------------------------------------------
Main == Accept \/ AcceptFails \/ ClientAddConnected \/ ClientAddFd \/ CheckCount
Handler(c) == EnterRecv(c) \/ RecvChunk(c) \/ Push(c) \/ RecvEnd(c)
              \/ ClientDestroy(c)
Sender == TakeMessage \/ MessageDone \/ NotReceiver \/ StartSend \/ NextClip
          \/ SendCall \/ SendCopies \/ SendReturnsShort \/ SendAborts

ServerUnchanged == UNCHANGED <<proc, tableVars, mainVars, handlerVars,
                               message_queue, senderVars>>
ClientConnects(c) == Running /\ Connect(c) /\ ServerUnchanged
ClientWrites(c) == Running /\ Write(c) /\ ServerUnchanged
ClientLeaves(c) == Running /\ Leave(c) /\ ServerUnchanged
ClientReads(c) == Running /\ Read(c) /\ ServerUnchanged
ResetArrives(c) == Running /\ Reset(c) /\ ServerUnchanged

Client(c) == ClientConnects(c) \/ ClientWrites(c) \/ ClientLeaves(c)
Network(c) == ClientReads(c) \/ ResetArrives(c)

Next == Main \/ Sender \/ \E c \in Conn : Handler(c) \/ Client(c) \/ Network(c)

\* Every thread keeps being scheduled, clients read what they are sent and
\* the network delivers its RSTs; nobody has to connect, write or leave.
Fairness ==
  /\ WF_vars(Main)
  /\ WF_vars(Sender)
  /\ \A c \in Conn : WF_vars(Handler(c)) /\ WF_vars(Network(c))

Spec == Init /\ [][Next]_vars
FairSpec == Spec /\ Fairness

-----------------------------------------------------------------------------
(* Properties. *)

TypeOK ==
  /\ SockTypeOK
  /\ proc \in {"run", "exited", "aborted"}
  /\ clients \in [Cell -> [connected : BOOLEAN, fd : Fd \cup {0}]]
  /\ connected_clients_num \in Int
  /\ Clients_Mutex \in BOOLEAN
  /\ mpc \in {"accept", "add", "store", "check"}
  /\ mfd \in Fd \cup {0}
  /\ mconn \in Conn \cup {NoConn}
  /\ midx \in Cell
  /\ hpc \in [Conn -> HandlerState]
  /\ hslot \in [Conn -> Cell]
  /\ hconn \in [Conn -> Conn \cup {NoConn}]
  /\ hchunk \in [Conn -> Chunk \cup {<<>>}]
  /\ message_queue \in Seq(Message)
  /\ spc \in {"idle", "scan", "send", "sending"}
  /\ smsg \in Message \cup {<<>>}
  /\ stodo \in SUBSET Nat
  /\ si \in 0..MaxClient
  /\ sleft \in 0..MsgLen
  /\ sconn \in Conn \cup {NoConn}
  /\ scopied \in BOOLEAN

\* The connections whose handle_chat thread is running.
Alive == {c \in Conn : hpc[c] \in {"enter", "recv", "push", "destroy"}}

\* Whether clients[-1] was never stored to.
NeverOverflowed == ~clients[-1].connected /\ clients[-1].fd = 0

\* As long as a handle_chat thread runs, the slot it was given stays its
\* own: marked connected, its fd open and standing for the connection the
\* thread was started for, whatever other threads add and destroy.  So recv
\* reads that connection, a pushed message is one its sender wrote, and
\* client_destroy closes no other client's descriptor (2.cpp:25-33, 80-112).
OwnSlot ==
  NeverOverflowed => \A c \in Alive :
    /\ hslot[c] \in Slot
    /\ clients[hslot[c]].connected
    /\ ConnOf(clients[hslot[c]].fd) = c
    /\ hpc[c] = "recv" => hconn[c] = c
    /\ hpc[c] = "push" => hchunk[c].from = c

\* While there were never more clients than slots, connected_clients_num,
\* on which main decides whether to go on, is the number of slots marked
\* connected, save between the two stores of client_add.
ConnectedSlots == {i \in Slot : clients[i].connected}
CountMatchesTable ==
  NeverOverflowed =>
    connected_clients_num + (IF mpc = "store" THEN 1 ELSE 0)
      = Cardinality(ConnectedSlots)

\* client_add leaves the table only when MAX_CLIENT_NUMBER other threads are
\* running: a departed client's slot is never lost.
NoSlotLeak ==
  mpc = "store" /\ midx = -1 => Cardinality(Alive) >= MaxClient

\* As long as the author of a message is served, it is the author that is
\* passed over: the slot the message is marked with stands for the author's
\* own connection, however long the message was queued (2.cpp:66, 104).  Once
\* the author has left, a newcomer in its slot is passed over.  That nobody
\* else is sent to in place of the author is StoreWindow's.
OnlyAuthorSkipped ==
  NeverOverflowed /\ spc # "idle" /\ smsg.chunk.from \in Alive =>
    /\ clients[smsg.sender_address].connected
    /\ ConnOf(clients[smsg.sender_address].fd) = smsg.chunk.from

\* A message starts at its first unit and is not older than what it follows,
\* if one client wrote both.
Starts(v) == v.part = 1
NotOlder(u, v) ==
  u.from = v.from => u.num < v.num \/ (u.num = v.num /\ u.clip <= v.clip)

\* What one client wrote reaches every other in the order it was written,
\* through its thread, the queue and the sending thread, and as long as no
\* connection is reset (a send cut short there goes on in whatever client
\* has the slot by then, 2.cpp:72) message by message: every unit is the
\* next of its message, or starts another when the one before it is whole.
OrderedDelivery ==
  NeverOverflowed => \A c \in Conn :
    /\ \A i, j \in DOMAIN inbox[c] : i < j => NotOlder(inbox[c][i], inbox[c][j])
    /\ (\A d \in Conn : peer[d] # "reset") => \A i \in DOMAIN inbox[c] :
         Starts(inbox[c][i]) => i = 1 \/ inbox[c][i - 1].part = MsgLen
    /\ (\A d \in Conn : peer[d] # "reset") => \A i \in DOMAIN inbox[c] :
         ~Starts(inbox[c][i]) =>
           i > 1 /\ inbox[c][i] = [inbox[c][i - 1] EXCEPT !.part = @ + 1]

\* README.md:45 promises a message to every valid user but its sender.  It
\* goes wrong in one window, between the two stores of client_add, when the
\* slot is marked connected and holds its last client's descriptor number,
\* by now perhaps the author's, or 0.  Outside that window no call of send
\* goes to the author, and none is fatal unless a client has left.
InWindow == mpc = "store" /\ si = midx
StoreWindow ==
  [][NeverOverflowed /\ ~InWindow =>
       /\ SendCall => sconn' # smsg.chunk.from
       /\ SendAborts => \E c \in Conn : peer[c] \in Gone]_vars

\* What was received is sent on: the queue runs empty and handle_send goes
\* back to polling, unless the process ends first.
QueueDrains ==
  message_queue # <<>> ~> ((message_queue = <<>> /\ spc = "idle") \/ ~Running)

\* A client that left is destroyed by its own thread.
LeaverDestroyed ==
  \A c \in Conn :
    c \in Alive /\ peer[c] \in Gone ~> hpc[c] = "done" \/ ~Running

-----------------------------------------------------------------------------
(* What TypeOK, OwnSlot, CountMatchesTable and NoSlotLeak rest on: the      *)
(* inductive invariants of ThreadChatProofs.                                *)

\* The data a thread works on is there when its control point needs it.
ControlInv ==
  /\ mpc \in {"add", "store"} => mconn \in Conn /\ mfd \in Fd
  /\ \A c \in Conn : hpc[c] = "push" => hchunk[c] \in Chunk
  /\ spc # "idle" => smsg \in Message
  /\ spc \in {"send", "sending"} => si < MaxClient /\ sleft > 0
  /\ spc = "sending" => sconn \in Conn

TypeInv == TypeOK /\ ControlInv

Pending == {backlog[i] : i \in DOMAIN backlog}

\* A connection is pending, or being added, or has a thread; never two.
PendingInv ==
  /\ \A i, j \in DOMAIN backlog : backlog[i] = backlog[j] => i = j
  /\ \A c \in Conn : peer[c] = "new" => c \notin Pending
  /\ \A c \in Conn : c \in Pending \/ peer[c] = "new" =>
       hpc[c] = "none" /\ (mpc \in {"add", "store"} => c # mconn)
  /\ mpc \in {"add", "store"} => hpc[mconn] = "none"

\* A slot marked connected has one thread, or is being filled in; a thread
\* or a store with no slot of its own comes with a full table or its trace.
SlotInv ==
  /\ Clients_Mutex <=> mpc = "store"
  /\ mpc = "store" => clients[midx].connected
  /\ \A c \in Alive : hslot[c] \in Slot =>
       /\ clients[hslot[c]].connected
       /\ mpc = "store" => hslot[c] # midx
  /\ \A c, d \in Alive : hslot[c] \in Slot /\ hslot[c] = hslot[d] => c = d
  /\ \A i \in ConnectedSlots :
       (\E c \in Alive : hslot[c] = i) \/ (mpc = "store" /\ midx = i)
  /\ mpc = "store" /\ midx = -1 => ConnectedSlots = Slot
  /\ \A c \in Alive : hslot[c] = -1 => clients[-1].fd # 0

\* A descriptor stands for a connection that was accepted, and no two for
\* the same one; what waits in outbox[c] was written by c.
FdInv ==
  /\ \A f, g \in Fd : fds[f] = fds[g] /\ fds[f] # NoConn => f = g
  /\ \A f \in Fd : fds[f] # NoConn =>
       fds[f] \notin Pending /\ peer[fds[f]] # "new"
  /\ \A c \in Conn : \A i \in DOMAIN outbox[c] : outbox[c][i].from = c
  /\ NeverOverflowed /\ mpc \in {"add", "store"} => fds[mfd] = mconn

TableInv == PendingInv /\ SlotInv /\ FdInv /\ OwnSlot

\* A message names its author and the slot of the author's thread, which
\* keeps that slot to its end.
Authored(m) == hpc[m.chunk.from] # "none" /\ m.sender_address = hslot[m.chunk.from]
MessageInv ==
  NeverOverflowed =>
    /\ \A i \in DOMAIN message_queue : Authored(message_queue[i])
    /\ spc # "idle" => Authored(smsg)

\* What StoreWindow rests on: outside the window, the slot that is being sent
\* to has not become the author's since it was found connected, and its
\* descriptor was closed only if somebody has left.
SendInv ==
  NeverOverflowed =>
    /\ \A c \in Conn : hpc[c] = "destroy" => peer[c] \in Gone
    /\ spc \in {"send", "sending"} =>
         /\ si # smsg.sender_address
         /\ ~InWindow =>
              /\ ConnOf(clients[si].fd) # smsg.chunk.from
              /\ (\A c \in Conn : peer[c] \notin Gone) =>
                   ConnOf(clients[si].fd) # NoConn

\* What OrderedDelivery rests on.  Chunks leave outbox[c] in the order of their
\* numbers, and stay in it up to the push.
Taken(c) == wrote[c] - Len(outbox[c])
Pushed(c) == IF hpc[c] = "push" THEN Taken(c) - 1 ELSE Taken(c)
Author(m) == m.chunk.from
QueueInv ==
  /\ OutboxOrdered
  /\ NeverOverflowed =>
       /\ \A c \in Conn : hpc[c] = "push" => hchunk[c].num = Taken(c)
       /\ \A j \in DOMAIN message_queue :
            message_queue[j].chunk.num <= Pushed(Author(message_queue[j]))
       /\ \A i, j \in DOMAIN message_queue :
            i < j /\ Author(message_queue[i]) = Author(message_queue[j]) =>
              message_queue[i].chunk.num < message_queue[j].chunk.num
       /\ spc # "idle" =>
            /\ smsg.chunk.num <= Pushed(Author(smsg))
            /\ \A j \in DOMAIN message_queue : Author(message_queue[j]) = Author(smsg) =>
                 smsg.chunk.num < message_queue[j].chunk.num

\* What a client has heard is behind what is still queued, and no later than
\* what is being sent.
Behind(u) ==
  /\ u.num <= Pushed(u.from)
  /\ \A j \in DOMAIN message_queue :
       Author(message_queue[j]) = u.from => u.num < message_queue[j].chunk.num
  /\ spc # "idle" /\ Author(smsg) = u.from =>
       u.num < smsg.chunk.num \/ (u.num = smsg.chunk.num /\ \A k \in stodo : u.clip <= k)
HeardInv ==
  NeverOverflowed => \A c \in Conn : \A i \in DOMAIN inbox[c] : Behind(inbox[c][i])

\* Until a connection is reset, whoever has its end open has heard whole
\* messages, but for the one that is being sent to it.
NoReset == \A c \in Conn : peer[c] # "reset"
InPart(c) == spc = "sending" /\ sconn = c /\ sleft # MsgLen
LastUnit(c) == inbox[c][Len(inbox[c])]
PieceInv ==
  NeverOverflowed /\ NoReset =>
    /\ spc = "send" => sleft = MsgLen
    /\ \A c \in Conn : peer[c] = "open" =>
         IF InPart(c)
           THEN /\ inbox[c] # <<>>
                /\ \A j \in stodo : IsCurrentClip(j) =>
                     LastUnit(c) = [from |-> Author(smsg), num |-> smsg.chunk.num,
                                    clip |-> j, part |-> MsgLen - sleft]
           ELSE inbox[c] # <<>> => LastUnit(c).part = MsgLen

\* Nobody hears or is sent anything before it connects.
FreshInv ==
  \A c \in Conn : peer[c] = "new" =>
    inbox[c] = <<>> /\ (spc = "sending" => sconn # c)

OrderInv == QueueInv /\ HeardInv /\ FreshInv /\ PieceInv /\ OrderedDelivery
=============================================================================
