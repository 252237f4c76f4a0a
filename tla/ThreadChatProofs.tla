-------------------------- MODULE ThreadChatProofs --------------------------
(* What holds of ThreadChat for every number of clients, slots, descriptors *)
(* and chunks.                                                              *)
EXTENDS ThreadChat, SocketsProofs, FiniteSetTheorems

-----------------------------------------------------------------------------
(* Type correctness. *)

LEMMA TypeInit == Init => TypeInv
<1> SUFFICES ASSUME Init
             PROVE  TypeInv
  OBVIOUS
<1> USE FdAssumption, SizeAssumption, MaxClientAssumption DEF Init, SockInit
<1>1. SockTypeOK
  BY DEF SockTypeOK, PeerState
<1>2. clients \in [Cell -> [connected : BOOLEAN, fd : Fd \cup {0}]]
  BY DEF Cell, Slot
<1>3. hpc \in [Conn -> HandlerState] /\ hslot \in [Conn -> Cell]
  BY DEF HandlerState, Cell, Slot
<1>4. hconn \in [Conn -> Conn \cup {NoConn}]
      /\ hchunk \in [Conn -> Chunk \cup {<<>>}]
  OBVIOUS
<1>5. message_queue \in Seq(Message)
  OBVIOUS
<1>6. midx \in Cell /\ si \in 0..MaxClient /\ sleft \in 0..MsgLen
  BY DEF Cell, Slot
<1>7. /\ proc \in {"run", "exited", "aborted"}
      /\ connected_clients_num \in Int
      /\ mpc \in {"accept", "add", "store", "check"}
      /\ mfd \in Fd \cup {0}
      /\ mconn \in Conn \cup {NoConn}
      /\ spc \in {"idle", "scan", "send", "sending"}
      /\ smsg \in Message \cup {<<>>}
      /\ stodo \in SUBSET Nat
      /\ sconn \in Conn \cup {NoConn}
  OBVIOUS
<1>8. Clients_Mutex \in BOOLEAN /\ scopied \in BOOLEAN
  OBVIOUS
<1>9. TypeOK
  <2> HIDE DEF Init, SockInit
  <2> QED
    BY <1>1, <1>2, <1>3, <1>4, <1>5, <1>6, <1>7, <1>8 DEF TypeOK
<1>10. ControlInv
  BY <1>3 DEF ControlInv
<1>11. QED
  BY <1>9, <1>10 DEF TypeInv

\* Steps that touch nothing but the clients' side of the sockets.
LEMMA TypeClient ==
  ASSUME TypeInv, NEW c \in Conn, Client(c) \/ Network(c)
  PROVE  TypeInv'
<1>1. SockTypeOK
  BY DEF TypeInv, TypeOK
<1>2. ServerUnchanged
  BY DEF Client, Network, ClientConnects, ClientWrites, ClientLeaves,
         ClientReads, ResetArrives
<1>3. SockTypeOK' => TypeInv'
  BY <1>2 DEF TypeInv, TypeOK, ControlInv, ServerUnchanged, tableVars,
              mainVars, handlerVars, senderVars
<1>4. QED
  BY <1>1, <1>3, ClientType DEF Client, Network, ClientConnects,
     ClientWrites, ClientLeaves, ClientReads, ResetArrives

LEMMA TypeMain ==
  ASSUME TypeInv, Main
  PROVE  TypeInv'
<1> USE DEF TypeInv, TypeOK, SockTypeOK, ControlInv, sockVars,
            tableVars, mainVars, handlerVars, senderVars
<1>1. CASE Accept
  <2>1. PICK f \in FreeFds : AcceptAs(f) /\ mfd' = f
    BY <1>1 DEF Accept
  <2>2. Head(backlog) \in Conn /\ Tail(backlog) \in Seq(Conn)
    BY <1>1 DEF Accept
  <2>3. fds' \in [Fd -> Conn \cup {NoConn}] /\ backlog' \in Seq(Conn)
    BY <2>1, <2>2 DEF AcceptAs
  <2>4. mfd' \in Fd /\ mconn' \in Conn
    BY <1>1, <2>1, <2>2 DEF Accept, FreeFds
  <2>5. SockTypeOK'
    BY <2>1, <2>3 DEF AcceptAs
  <2>6. QED
    BY <1>1, <2>4, <2>5 DEF Accept
<1>2. CASE AcceptFails
  BY <1>2 DEF AcceptFails
<1>3. CASE ClientAddConnected
  <2>1. PICK i \in Cell :
          clients' = [clients EXCEPT ![i].connected = TRUE] /\ midx' = i
    BY <1>3 DEF ClientAddConnected
  <2>2. clients' \in [Cell -> [connected : BOOLEAN, fd : Fd \cup {0}]]
    BY <2>1
  <2>3. QED
    BY <1>3, <2>1, <2>2 DEF ClientAddConnected
<1>4. CASE ClientAddFd
  <2>1. clients' \in [Cell -> [connected : BOOLEAN, fd : Fd \cup {0}]]
    BY <1>4 DEF ClientAddFd
  <2>2. connected_clients_num' \in Int
    BY <1>4 DEF ClientAddFd
  <2>3. hpc' \in [Conn -> HandlerState] /\ hslot' \in [Conn -> Cell]
    BY <1>4 DEF ClientAddFd, HandlerState
  <2>4. \A c \in Conn : hpc'[c] = "push" => hchunk'[c] \in Chunk
    BY <1>4 DEF ClientAddFd
  <2>5. QED
    BY <1>4, <2>1, <2>2, <2>3, <2>4 DEF ClientAddFd
<1>5. CASE CheckCount
  BY <1>5 DEF CheckCount
<1>6. QED
  BY <1>1, <1>2, <1>3, <1>4, <1>5 DEF Main

LEMMA TypeHandler ==
  ASSUME TypeInv, NEW c \in Conn, Handler(c)
  PROVE  TypeInv'
<1> USE DEF TypeInv, TypeOK, SockTypeOK, ControlInv, sockVars,
            tableVars, mainVars, handlerVars, senderVars, HandlerState
<1>1. CASE EnterRecv(c)
  <2>1. hconn' \in [Conn -> Conn \cup {NoConn}]
    BY <1>1 DEF EnterRecv, ConnOf
  <2>2. /\ hpc' \in [Conn -> HandlerState]
        /\ \A d \in Conn : hpc'[d] = "push" => hchunk'[d] \in Chunk
    BY <1>1 DEF EnterRecv
  <2>3. QED
    BY <1>1, <2>1, <2>2 DEF EnterRecv
<1>2. CASE RecvChunk(c)
  <2>1. hconn[c] \in Conn /\ outbox[hconn[c]] # <<>>
    BY <1>2 DEF RecvChunk, TakeChunk, HasData
  <2>2. /\ outbox[hconn[c]] \in Seq(Chunk)
        /\ Head(outbox[hconn[c]]) \in Chunk
        /\ Tail(outbox[hconn[c]]) \in Seq(Chunk)
    BY <2>1
  <2>3. outbox' \in [Conn -> Seq(Chunk)]
    BY <1>2, <2>2 DEF RecvChunk, TakeChunk
  <2>4. hchunk' \in [Conn -> Chunk \cup {<<>>}] /\ hchunk'[c] \in Chunk
    BY <1>2, <2>2 DEF RecvChunk
  <2>5. /\ hpc' \in [Conn -> HandlerState]
        /\ \A d \in Conn : hpc'[d] = "push" => hchunk'[d] \in Chunk
    BY <1>2, <2>4 DEF RecvChunk
  <2>6. QED
    BY <1>2, <2>3, <2>4, <2>5 DEF RecvChunk, TakeChunk
<1>3. CASE Push(c)
  <2>1. [sender_address |-> hslot[c], chunk |-> hchunk[c]] \in Message
    BY <1>3 DEF Push, Message
  <2>2. message_queue' \in Seq(Message)
    BY <1>3, <2>1 DEF Push, SenderAddress
  <2>3. hchunk' \in [Conn -> Chunk \cup {<<>>}]
    BY <1>3 DEF Push
  <2>4. QED
    BY <1>3, <2>2, <2>3 DEF Push
<1>4. CASE RecvEnd(c)
  BY <1>4 DEF RecvEnd, UserLeft
<1>5. CASE ClientDestroy(c)
  <2>1. clients' \in [Cell -> [connected : BOOLEAN, fd : Fd \cup {0}]]
    BY <1>5 DEF ClientDestroy
  <2>2. fds' \in [Fd -> Conn \cup {NoConn}]
    BY <1>5 DEF ClientDestroy, CloseFd
  <2>3. SockTypeOK'
    BY <1>5, <2>2 DEF ClientDestroy, CloseFd
  <2>4. hpc' \in [Conn -> HandlerState]
        /\ \A d \in Conn : hpc'[d] = "push" => hchunk'[d] \in Chunk
    BY <1>5 DEF ClientDestroy
  <2>5. connected_clients_num' \in Int
    BY <1>5 DEF ClientDestroy
  <2>6. QED
    BY <1>5, <2>1, <2>3, <2>4, <2>5 DEF ClientDestroy
<1>6. QED
  BY <1>1, <1>2, <1>3, <1>4, <1>5 DEF Handler

LEMMA TypeSender ==
  ASSUME TypeInv, Sender
  PROVE  TypeInv'
<1> USE SizeAssumption, MaxClientAssumption
    DEF TypeInv, TypeOK, SockTypeOK, ControlInv, sockVars,
        tableVars, mainVars, handlerVars, senderVars
<1>1. CASE TakeMessage
  <2>1. Head(message_queue) \in Message /\ Tail(message_queue) \in Seq(Message)
    BY <1>1 DEF TakeMessage, HasMessage
  <2>2. smsg' \in Message /\ message_queue' \in Seq(Message)
    BY <1>1, <2>1 DEF TakeMessage, HasMessage, NextMessage
  <2>3. smsg'.chunk.shape \in Seq(BOOLEAN)
    BY <2>2 DEF Message, Chunk
  <2>4. stodo' \in SUBSET Nat
    BY <1>1, <2>3 DEF TakeMessage, HasMessage, NonEmptyClips
  <2>5. QED
    BY <1>1, <2>2, <2>4 DEF TakeMessage, HasMessage
<1>2. CASE MessageDone
  BY <1>2 DEF MessageDone
<1>3. CASE NotReceiver
  BY <1>3 DEF NotReceiver
<1>4. CASE StartSend
  BY <1>4 DEF StartSend
<1>5. CASE NextClip
  BY <1>5 DEF NextClip
<1>6. CASE SendCall
  <2>1. sconn' \in Conn
    BY <1>6 DEF SendCall, ConnOf
  <2>2. QED
    BY <1>6, <2>1 DEF SendCall
<1>7. CASE SendCopies
  <2>1. sconn \in Conn
    BY <1>7 DEF SendCopies
  <2>2. PICK k \in 1..sleft, j \in stodo :
          /\ SendTakes(sconn, smsg.chunk, j, sleft, k)
          /\ sleft' = sleft - k
          /\ IF k = sleft
               THEN /\ spc' = "scan" /\ si' = si + 1
                    /\ sconn' = NoConn /\ scopied' = FALSE
               ELSE scopied' = TRUE /\ UNCHANGED <<spc, si, sconn>>
    BY <1>7 DEF SendCopies
  <2>3. smsg \in Message /\ smsg.chunk.from \in Conn /\ smsg.chunk.num \in Nat
    BY <1>7 DEF SendCopies, Message, Chunk
  <2>4. ASSUME NEW i \in 1..k
        PROVE  [from |-> smsg.chunk.from, num |-> smsg.chunk.num, clip |-> j,
                part |-> MsgLen - sleft + 1 + i - 1] \in Unit
    BY <2>3 DEF Unit
  <2>5. Units(smsg.chunk, j, MsgLen - sleft + 1, k) \in Seq(Unit)
    <3> DEFINE u(i) == [from |-> smsg.chunk.from, num |-> smsg.chunk.num,
                        clip |-> j, part |-> MsgLen - sleft + 1 + i - 1]
    <3>1. k \in Nat
      OBVIOUS
    <3>2. \A i \in 1..k : u(i) \in Unit
      BY <2>4
    <3> HIDE DEF u
    <3>3. [i \in 1..k |-> u(i)] \in Seq(Unit)
      BY <3>1, <3>2
    <3>4. QED
      BY <3>3 DEF Units, u
  <2>6. inbox' \in [Conn -> Seq(Unit)] /\ unread' \in [Conn -> 0..Room]
    <3>1. inbox[sconn] \o Units(smsg.chunk, j, MsgLen - sleft + 1, k) \in Seq(Unit)
      BY <2>1, <2>5
    <3>2. k <= Room - unread[sconn] => unread[sconn] + k \in 0..Room
      BY <2>1
    <3>3. CASE UNCHANGED <<inbox, unread>>
      BY <3>3
    <3>4. CASE /\ k <= Room - unread[sconn]
               /\ inbox' = [inbox EXCEPT ![sconn] =
                    @ \o Units(smsg.chunk, j, MsgLen - sleft + 1, k)]
               /\ unread' = [unread EXCEPT ![sconn] = @ + k]
      <4> HIDE DEF Units
      <4>1. inbox' \in [Conn -> Seq(Unit)]
        BY <2>1, <3>1, <3>4
      <4>2. unread' \in [Conn -> 0..Room]
        BY <2>1, <3>2, <3>4
      <4>3. QED
        BY <4>1, <4>2
    <3>5. QED
      BY <2>2, <3>3, <3>4 DEF SendTakes
  <2>7. peer' \in [Conn -> PeerState]
    BY <2>1, <2>2 DEF SendTakes, PeerState
  <2>8. sleft' \in 0..MsgLen /\ (k # sleft => sleft' > 0)
    BY <2>2
  <2>9. si' \in 0..MaxClient /\ sconn' \in Conn \cup {NoConn} /\ scopied' \in BOOLEAN
    <3>1. CASE k = sleft
      <4>1. si' = si + 1 /\ sconn' = NoConn
        BY <2>2, <3>1
      <4>2. si < MaxClient
        BY <1>7 DEF SendCopies
      <4>3. scopied' \in BOOLEAN
        BY <2>2, <3>1, Zenon
      <4>4. QED
        BY <4>1, <4>2, <4>3
    <3>2. CASE k # sleft
      BY <2>1, <2>2, <3>2
    <3>3. QED
      BY <3>1, <3>2
  <2>10. /\ spc' \in {"scan", "sending"}
         /\ spc' = "sending" => si' < MaxClient /\ sconn' \in Conn
    BY <1>7, <2>1, <2>2 DEF SendCopies
  <2>11. QED
    BY <1>7, <2>2, <2>3, <2>6, <2>7, <2>8, <2>9, <2>10 DEF SendCopies, SendTakes
<1>8. CASE SendReturnsShort
  BY <1>8 DEF SendReturnsShort
<1>9. CASE SendAborts
  BY <1>9 DEF SendAborts
<1>10. QED
  BY <1>1, <1>2, <1>3, <1>4, <1>5, <1>6, <1>7, <1>8, <1>9 DEF Sender

LEMMA TypeStep ==
  ASSUME TypeInv, [Next]_vars
  PROVE  TypeInv'
<1>1. CASE Main
  BY <1>1, TypeMain
<1>2. CASE Sender
  BY <1>2, TypeSender
<1>3. ASSUME NEW c \in Conn, Handler(c)
      PROVE  TypeInv'
  BY <1>3, TypeHandler
<1>4. ASSUME NEW c \in Conn, Client(c) \/ Network(c)
      PROVE  TypeInv'
  BY <1>4, TypeClient
<1>5. CASE UNCHANGED vars
  BY <1>5 DEF vars, sockVars, tableVars, mainVars, handlerVars, senderVars,
              TypeInv, TypeOK, SockTypeOK, ControlInv
<1>6. QED
  BY <1>1, <1>2, <1>3, <1>4, <1>5 DEF Next

\* Every variable of the server keeps its type, and every thread finds the
\* data its control point needs, in every reachable state.
THEOREM TypeCorrect == Spec => []TypeInv
<1>1. TypeInv /\ [Next]_vars => TypeInv'
  BY TypeStep
<1>2. QED
  BY <1>1, TypeInit, PTL DEF Spec

-----------------------------------------------------------------------------
(* The table: who owns which slot and which descriptor. *)

LEMMA TableInit == Init => TableInv
<1> SUFFICES ASSUME Init
             PROVE  TableInv
  OBVIOUS
<1> USE DEF Init, SockInit, Alive, ConnectedSlots, Pending
<1>1. PendingInv
  BY DEF PendingInv
<1>2. SlotInv
  BY DEF SlotInv, Slot, Cell
<1>3. FdInv
  BY DEF FdInv
<1>4. OwnSlot
  BY DEF OwnSlot
<1>5. QED
  BY <1>1, <1>2, <1>3, <1>4 DEF TableInv

\* A connection stays pending until it is accepted, and gets one thread.
LEMMA PendingStep ==
  ASSUME TypeInv, PendingInv, Next
  PROVE  PendingInv'
<1> USE DEF PendingInv, Pending
<1>0. /\ backlog \in Seq(Conn)
      /\ hpc \in [Conn -> HandlerState]
      /\ peer \in [Conn -> PeerState]
      /\ mpc \in {"add", "store"} => mconn \in Conn
  BY DEF TypeInv, TypeOK, SockTypeOK, ControlInv
<1>1. CASE Accept
  <2>1. /\ backlog # <<>>
        /\ backlog' = Tail(backlog) /\ mconn' = Head(backlog)
        /\ UNCHANGED <<hpc, peer>>
    BY <1>1 DEF Accept, AcceptAs, handlerVars
  <2>2. /\ Head(backlog) = backlog[1] /\ Head(backlog) \in Conn
        /\ 1 \in DOMAIN backlog
        /\ \A i \in DOMAIN backlog' :
             i \in Nat /\ i + 1 \in DOMAIN backlog /\ i + 1 # 1
               /\ backlog'[i] = backlog[i + 1]
    BY <1>0, <2>1, TailElements
  <2>3. Head(backlog) \in Pending /\ \A x \in Pending' : x \in Pending /\ x # Head(backlog)
    BY <2>2
  <2>4. \A i, j \in DOMAIN backlog' : backlog'[i] = backlog'[j] => i = j
    BY <2>2
  <2> HIDE DEF Pending
  <2>5. \A c \in Conn : peer'[c] = "new" => c \notin Pending'
    BY <2>1, <2>3
  <2>6. \A c \in Conn : c \in Pending' \/ peer'[c] = "new" =>
          hpc'[c] = "none" /\ c # mconn'
    BY <2>1, <2>3
  <2>7. hpc'[mconn'] = "none"
    BY <2>1, <2>2, <2>3
  <2>8. QED
    BY <2>4, <2>5, <2>6, <2>7
<1>2. CASE AcceptFails \/ ClientAddConnected \/ CheckCount
  BY <1>2 DEF AcceptFails, ClientAddConnected, CheckCount, sockVars, mainVars,
              handlerVars
<1>3. CASE ClientAddFd
  <2>1. /\ mconn \in Conn /\ mconn \notin Pending /\ peer[mconn] # "new"
        /\ hpc' = [hpc EXCEPT ![mconn] = "enter"] /\ mpc' = "check"
        /\ UNCHANGED <<backlog, peer>>
    BY <1>0, <1>3 DEF ClientAddFd, sockVars
  <2>2. QED
    BY <1>0, <2>1
<1>4. ASSUME NEW c \in Conn, Handler(c)
      PROVE  PendingInv'
  <2>1. /\ hpc[c] # "none"
        /\ UNCHANGED <<backlog, peer, mpc, mconn>>
        /\ \E st \in HandlerState : hpc' = [hpc EXCEPT ![c] = st]
    BY <1>4 DEF Handler, EnterRecv, RecvChunk, Push, RecvEnd, ClientDestroy,
                TakeChunk, CloseFd, sockVars, mainVars, HandlerState
  <2>2. c \notin Pending /\ peer[c] # "new"
        /\ (mpc \in {"add", "store"} => c # mconn)
    BY <2>1
  <2>3. \A d \in Conn \ {c} : hpc'[d] = hpc[d]
    BY <1>0, <2>1
  <2>4. QED
    BY <1>0, <2>1, <2>2, <2>3
<1>5. CASE Sender
  <2>1. UNCHANGED <<backlog, hpc, mpc, mconn>>
    BY <1>5 DEF Sender, TakeMessage, MessageDone, NotReceiver, StartSend,
                NextClip, SendCall, SendCopies, SendReturnsShort, SendAborts, SendTakes, sockVars, mainVars,
                handlerVars
  <2>2. \A c \in Conn : peer'[c] = "new" => peer[c] = "new"
    BY <1>0, <1>5 DEF Sender, TakeMessage, MessageDone, NotReceiver, StartSend,
                      NextClip, SendCall, SendCopies, SendReturnsShort, SendAborts, SendTakes, sockVars
  <2>3. QED
    BY <1>0, <2>1, <2>2
<1>6. ASSUME NEW c \in Conn, ClientConnects(c)
      PROVE  PendingInv'
  <2>1. /\ peer[c] = "new" /\ peer' = [peer EXCEPT ![c] = "open"]
        /\ backlog' = Append(backlog, c)
        /\ UNCHANGED <<hpc, mpc, mconn>>
    BY <1>6 DEF ClientConnects, Connect, ServerUnchanged, mainVars, handlerVars
  <2>2. PICK n \in Nat :
          /\ DOMAIN backlog' = DOMAIN backlog \cup {n}
          /\ n \notin DOMAIN backlog
          /\ backlog'[n] = c
          /\ \A i \in DOMAIN backlog : backlog'[i] = backlog[i]
    BY <1>0, <2>1, AppendElements
  <2>3. Pending' = Pending \cup {c} /\ c \notin Pending
    BY <2>1, <2>2
  <2>4. \A i, j \in DOMAIN backlog' : backlog'[i] = backlog'[j] => i = j
    BY <2>2, <2>3
  <2> HIDE DEF Pending
  <2>5. QED
    BY <1>0, <2>1, <2>3, <2>4
<1>7. ASSUME NEW c \in Conn,
             ClientWrites(c) \/ ClientLeaves(c) \/ ClientReads(c)
               \/ ResetArrives(c)
      PROVE  PendingInv'
  <2>1. UNCHANGED <<backlog, hpc, mpc, mconn>>
    BY <1>7 DEF ClientWrites, ClientLeaves, ClientReads, ResetArrives, Write,
                Leave, Read, Reset, ServerUnchanged, mainVars, handlerVars
  <2>2. \A d \in Conn : peer'[d] = "new" => peer[d] = "new"
    BY <1>0, <1>7 DEF ClientWrites, ClientLeaves, ClientReads, ResetArrives,
                      Write, Leave, Read, Reset
  <2>3. QED
    BY <1>0, <2>1, <2>2
<1>8. QED
  BY <1>1, <1>2, <1>3, <1>4, <1>5, <1>6, <1>7
  DEF Next, Main, Client, Network

\* Every step but the two of client_add and client_destroy leaves the slots
\* and who owns them alone.
LEMMA SlotStep ==
  ASSUME TypeInv, PendingInv, SlotInv, Next
  PROVE  SlotInv'
<1> USE DEF SlotInv, Alive, ConnectedSlots
<1>0. /\ clients \in [Cell -> [connected : BOOLEAN, fd : Fd \cup {0}]]
      /\ hpc \in [Conn -> HandlerState]
      /\ hslot \in [Conn -> Cell]
      /\ midx \in Cell
      /\ Clients_Mutex \in BOOLEAN
      /\ mpc \in {"add", "store"} => mconn \in Conn /\ mfd \in Fd /\ mfd # 0
  BY FdAssumption DEF TypeInv, TypeOK, ControlInv
<1>c. Cell = Slot \cup {-1} /\ -1 \notin Slot
  BY MaxClientAssumption DEF Cell, Slot
<1>1. CASE Accept \/ AcceptFails \/ CheckCount
  BY <1>1 DEF Accept, AcceptFails, CheckCount, tableVars, mainVars, handlerVars
<1>2. CASE ClientAddConnected
  <2>1. PICK i \in Cell : /\ IsIndex(i)
                          /\ clients' = [clients EXCEPT ![i].connected = TRUE]
                          /\ midx' = i
    BY <1>2 DEF ClientAddConnected
  <2>2. /\ mpc = "add" /\ mpc' = "store" /\ Clients_Mutex'
        /\ UNCHANGED <<hpc, hslot>>
    BY <1>2 DEF ClientAddConnected, handlerVars
  <2>3. /\ clients'[i].connected
        /\ clients'[-1].fd = clients[-1].fd
        /\ \A j \in Slot : j # i => clients'[j].connected = clients[j].connected
    BY <1>0, <1>c, <2>1
  <2>4. i \in Slot => ~clients[i].connected
    BY <1>c, <2>1 DEF IsIndex, FreeSlots
  <2>5. i = -1 => ConnectedSlots = Slot
    BY <1>c, <2>1 DEF IsIndex, FreeSlots
  <2>6. QED
    BY <1>0, <1>c, <2>1, <2>2, <2>3, <2>4, <2>5
<1>3. CASE ClientAddFd
  <2>1. /\ mpc = "store" /\ mpc' = "check" /\ ~Clients_Mutex'
        /\ clients' = [clients EXCEPT ![midx].fd = mfd]
        /\ hpc' = [hpc EXCEPT ![mconn] = "enter"]
        /\ hslot' = [hslot EXCEPT ![mconn] = midx]
    BY <1>3 DEF ClientAddFd
  <2>2. \A j \in Cell : /\ clients'[j].connected = clients[j].connected
                        /\ clients'[j].fd = IF j = midx THEN mfd ELSE clients[j].fd
    BY <1>0, <2>1
  <2>3. /\ mconn \in Alive'
        /\ Alive' = Alive \cup {mconn}
        /\ hslot'[mconn] = midx
        /\ \A c \in Alive : c # mconn /\ hslot'[c] = hslot[c]
    BY <1>0, <2>1 DEF PendingInv
  <2>4. ConnectedSlots' = ConnectedSlots
    BY <1>c, <2>2
  <2> HIDE DEF Alive, ConnectedSlots
  <2>5. \A c \in Alive' : hslot'[c] \in Slot => clients'[hslot'[c]].connected
    BY <1>0, <1>c, <2>1, <2>2, <2>3
  <2>6. \A c, d \in Alive' : hslot'[c] \in Slot /\ hslot'[c] = hslot'[d] => c = d
    BY <2>1, <2>3
  <2>7. \A j \in ConnectedSlots' : \E c \in Alive' : hslot'[c] = j
    BY <2>1, <2>3, <2>4
  <2>8. \A c \in Alive' : hslot'[c] = -1 => clients'[-1].fd # 0
    BY <1>0, <1>c, <2>1, <2>2, <2>3
  <2>9. QED
    BY <2>1, <2>5, <2>6, <2>7, <2>8
<1>4. ASSUME NEW c \in Conn,
             EnterRecv(c) \/ RecvChunk(c) \/ Push(c) \/ RecvEnd(c)
      PROVE  SlotInv'
  <2>1. /\ hpc[c] \in {"enter", "recv", "push", "destroy"}
        /\ \E st \in {"enter", "recv", "push", "destroy"} :
             hpc' = [hpc EXCEPT ![c] = st]
        /\ UNCHANGED <<clients, hslot, mpc, midx, Clients_Mutex>>
    BY <1>4 DEF EnterRecv, RecvChunk, Push, RecvEnd, tableVars, mainVars
  <2>2. Alive' = Alive
    BY <1>0, <2>1
  <2> HIDE DEF Alive
  <2>3. QED
    BY <2>1, <2>2
<1>5. ASSUME NEW c \in Conn, ClientDestroy(c)
      PROVE  SlotInv'
  <2>1. /\ hpc[c] = "destroy" /\ hpc' = [hpc EXCEPT ![c] = "done"]
        /\ mpc # "store"
        /\ clients' = [clients EXCEPT ![hslot[c]].connected = FALSE]
        /\ UNCHANGED <<hslot, mpc, midx, Clients_Mutex>>
    BY <1>5 DEF ClientDestroy, mainVars
  <2>2. c \in Alive /\ Alive' = Alive \ {c}
    BY <1>0, <2>1
  <2>3. /\ ~clients'[hslot[c]].connected
        /\ \A j \in Cell : j # hslot[c] => clients'[j] = clients[j]
        /\ \A j \in Cell : clients'[j].fd = clients[j].fd
    BY <1>0, <2>1
  <2>4. ConnectedSlots' = ConnectedSlots \ {hslot[c]}
    <3>1. \A j \in Slot : clients'[j].connected <=>
                            (clients[j].connected /\ j # hslot[c])
      BY <1>c, <2>3
    <3>2. QED
      BY <3>1
  <2> HIDE DEF Alive, ConnectedSlots
  <2>5. \A d \in Alive' : hslot'[d] \in Slot => clients'[hslot'[d]].connected
    BY <1>0, <1>c, <2>1, <2>2, <2>3
  <2>6. \A j \in ConnectedSlots' : \E d \in Alive' : hslot'[d] = j
    BY <2>1, <2>2, <2>4
  <2>7. \A d \in Alive' : hslot'[d] = -1 => clients'[-1].fd # 0
    BY <1>c, <2>1, <2>2, <2>3
  <2>8. QED
    BY <2>1, <2>2, <2>5, <2>6, <2>7
<1>6. CASE Sender \/ \E c \in Conn : Client(c) \/ Network(c)
  <2>1. UNCHANGED <<clients, hpc, hslot, mpc, midx, Clients_Mutex>>
    BY <1>6 DEF Sender, TakeMessage, MessageDone, NotReceiver, StartSend,
                NextClip, SendCall, SendCopies, SendReturnsShort, SendAborts, Client, Network, ClientConnects,
                ClientWrites, ClientLeaves, ClientReads, ResetArrives,
                ServerUnchanged, tableVars, mainVars, handlerVars
  <2>2. QED
    BY <2>1
<1>7. QED
  BY <1>1, <1>2, <1>3, <1>4, <1>5, <1>6 DEF Next, Main, Handler

\* clients[-1], once stored to, stays recognisable.
LEMMA OverflowStep ==
  ASSUME TypeInv, SlotInv, Next, NeverOverflowed'
  PROVE  /\ NeverOverflowed
         /\ mpc = "store" => midx \in Slot
         /\ \A c \in Alive : hslot[c] \in Slot
<1>0. /\ clients \in [Cell -> [connected : BOOLEAN, fd : Fd \cup {0}]]
      /\ hslot \in [Conn -> Cell]
      /\ midx \in Cell
      /\ mpc \in {"add", "store"} => mconn \in Conn /\ mfd \in Fd /\ mfd # 0
  BY FdAssumption DEF TypeInv, TypeOK, ControlInv
<1>c. Cell = Slot \cup {-1} /\ -1 \notin Slot
  BY MaxClientAssumption DEF Cell, Slot
<1>1. NeverOverflowed
  <2>1. CASE ClientAddConnected
    <3>1. PICK i \in Cell : clients' = [clients EXCEPT ![i].connected = TRUE]
      BY <2>1 DEF ClientAddConnected
    <3>2. clients'[-1].connected \/ clients'[-1] = clients[-1]
      BY <1>0, <1>c, <3>1
    <3>3. QED
      BY <3>2 DEF NeverOverflowed
  <2>2. CASE ClientAddFd
    <3>1. clients' = [clients EXCEPT ![midx].fd = mfd] /\ mpc = "store"
      BY <2>2 DEF ClientAddFd
    <3>2. clients'[-1].fd = mfd \/ clients'[-1] = clients[-1]
      BY <1>0, <1>c, <3>1
    <3>3. QED
      BY <1>0, <3>1, <3>2 DEF NeverOverflowed
  <2>3. ASSUME NEW c \in Conn, ClientDestroy(c)
        PROVE  NeverOverflowed
    <3>1. /\ clients' = [clients EXCEPT ![hslot[c]].connected = FALSE]
          /\ c \in Alive
      BY <2>3 DEF ClientDestroy, Alive
    <3>2. hslot[c] # -1 => clients'[-1] = clients[-1]
      BY <1>0, <1>c, <3>1
    <3>3. clients'[-1].fd = clients[-1].fd
      BY <1>0, <1>c, <3>1
    <3>4. QED
      BY <3>1, <3>2, <3>3 DEF NeverOverflowed, SlotInv
  <2>4. CASE UNCHANGED clients
    BY <2>4 DEF NeverOverflowed
  <2>5. QED
    BY <2>1, <2>2, <2>3, <2>4
    DEF Next, Main, Handler, Accept, AcceptFails, CheckCount, EnterRecv,
        RecvChunk, Push, RecvEnd, Sender, TakeMessage, MessageDone,
        NotReceiver, StartSend, NextClip, SendCall, SendCopies, SendReturnsShort, SendAborts, Client, Network,
        ClientConnects, ClientWrites, ClientLeaves, ClientReads, ResetArrives,
        ServerUnchanged, tableVars
<1>2. mpc = "store" => midx \in Slot
  BY <1>0, <1>1, <1>c DEF SlotInv, NeverOverflowed
<1>3. \A c \in Alive : hslot[c] \in Slot
  BY <1>0, <1>1, <1>c DEF SlotInv, NeverOverflowed, Alive
<1>4. QED
  BY <1>1, <1>2, <1>3

\* A connection that is pending, being added or served by a thread stands
\* behind at most one descriptor, its own.
LEMMA FdStep ==
  ASSUME TypeInv, TableInv, Next
  PROVE  FdInv'
<1> USE DEF TableInv
<1>0. /\ fds \in [Fd -> Conn \cup {NoConn}]
      /\ peer \in [Conn -> PeerState]
      /\ outbox \in [Conn -> Seq(Chunk)]
      /\ backlog \in Seq(Conn)
      /\ NoConn \notin Conn
      /\ mpc \in {"add", "store"} => mconn \in Conn /\ mfd \in Fd
  BY ConnAssumption DEF TypeInv, TypeOK, SockTypeOK, ControlInv
<1>1. CASE Accept
  <2>1. PICK f \in FreeFds :
          /\ backlog # <<>>
          /\ mfd' = f /\ mconn' = Head(backlog)
          /\ fds' = [fds EXCEPT ![f] = Head(backlog)]
          /\ backlog' = Tail(backlog)
          /\ UNCHANGED <<peer, outbox, clients>>
    BY <1>1 DEF Accept, AcceptAs, tableVars
  <2>2. f \in Fd /\ fds[f] = NoConn
    BY <2>1 DEF FreeFds
  <2>3. /\ Head(backlog) \in Pending /\ Head(backlog) \in Conn
        /\ \A x \in Pending' : x \in Pending /\ x # Head(backlog)
    <3>1. /\ Head(backlog) = backlog[1] /\ Head(backlog) \in Conn
          /\ 1 \in DOMAIN backlog
          /\ \A i \in DOMAIN backlog' :
               i \in Nat /\ i + 1 \in DOMAIN backlog /\ i + 1 # 1
                 /\ backlog'[i] = backlog[i + 1]
      BY <1>0, <2>1, TailElements
    <3>2. QED
      BY <3>1 DEF Pending, PendingInv
  <2>4. \A g \in Fd : fds'[g] = IF g = f THEN Head(backlog) ELSE fds[g]
    BY <1>0, <2>1, <2>2
  <2>5. peer[Head(backlog)] # "new"
    BY <2>3 DEF PendingInv
  <2>6. QED
    BY <1>0, <2>1, <2>2, <2>3, <2>4, <2>5 DEF FdInv
<1>2. CASE AcceptFails \/ CheckCount
  BY <1>2 DEF AcceptFails, CheckCount, sockVars, tableVars, mainVars, FdInv,
              Pending, NeverOverflowed
<1>3. CASE ClientAddConnected \/ ClientAddFd
  <2>1. UNCHANGED <<fds, peer, outbox, backlog, mfd, mconn>>
        /\ mpc \in {"add", "store"}
    BY <1>3 DEF ClientAddConnected, ClientAddFd, sockVars
  <2>2. NeverOverflowed' => NeverOverflowed
    BY <1>3, OverflowStep DEF Next, Main
  <2>3. QED
    BY <2>1, <2>2 DEF FdInv, Pending
<1>4. ASSUME NEW c \in Conn, EnterRecv(c) \/ Push(c) \/ RecvEnd(c)
      PROVE  FdInv'
  BY <1>4 DEF EnterRecv, Push, RecvEnd, sockVars, tableVars, mainVars, FdInv,
              Pending, NeverOverflowed
<1>5. ASSUME NEW c \in Conn, RecvChunk(c)
      PROVE  FdInv'
  <2> DEFINE d == hconn[c]
  <2>1. /\ d \in Conn /\ outbox[d] # <<>>
        /\ outbox' = [outbox EXCEPT ![d] = Tail(@)]
        /\ UNCHANGED <<fds, peer, backlog, mfd, mconn, mpc, clients>>
    <3>1. hconn[c] \in Conn \cup {NoConn}
      BY DEF TypeInv, TypeOK
    <3>2. QED
      BY <1>5, <3>1 DEF RecvChunk, TakeChunk, HasData, tableVars, mainVars
  <2> HIDE DEF d
  <2>2. \A e \in Conn : \A i \in DOMAIN outbox'[e] : outbox'[e][i].from = e
    <3>1. /\ outbox'[d] = Tail(outbox[d])
          /\ \A e \in Conn : e # d => outbox'[e] = outbox[e]
      BY <1>0, <2>1
    <3>2. \A i \in DOMAIN Tail(outbox[d]) :
            i + 1 \in DOMAIN outbox[d] /\ Tail(outbox[d])[i] = outbox[d][i + 1]
      BY <1>0, <2>1, TailElements
    <3>3. QED
      BY <2>1, <3>1, <3>2 DEF FdInv
  <2>3. QED
    BY <2>1, <2>2 DEF FdInv, Pending, NeverOverflowed
<1>6. ASSUME NEW c \in Conn, ClientDestroy(c)
      PROVE  FdInv'
  <2>1. /\ c \in Alive
        /\ \A g \in Fd : fds'[g] = IF g = clients[hslot[c]].fd
                                     THEN NoConn ELSE fds[g]
        /\ UNCHANGED <<peer, backlog, outbox, mfd, mconn, mpc>>
    BY <1>6 DEF ClientDestroy, CloseFd, mainVars, Alive
  <2>2. ASSUME NeverOverflowed', mpc' \in {"add", "store"}
        PROVE  fds'[mfd'] = mconn'
    <3>1. NeverOverflowed
      BY <1>6, <2>2, OverflowStep DEF Next, Handler
    <3>2. fds[mfd] = mconn /\ mfd \in Fd /\ mconn \in Conn
      BY <1>0, <2>1, <2>2, <3>1 DEF FdInv
    <3>3. ConnOf(clients[hslot[c]].fd) = c /\ c # mconn
      BY <2>1, <2>2, <3>1 DEF OwnSlot, PendingInv, Alive
    <3>4. QED
      BY <2>1, <3>2, <3>3 DEF ConnOf
  <2>3. QED
    BY <2>1, <2>2 DEF FdInv, Pending
<1>7. CASE Sender
  <2>1. UNCHANGED <<fds, backlog, outbox, mfd, mconn, mpc, clients>>
    BY <1>7 DEF Sender, TakeMessage, MessageDone, NotReceiver, StartSend,
                NextClip, SendCall, SendCopies, SendReturnsShort, SendAborts, SendTakes, sockVars, mainVars,
                tableVars
  <2>2. \A c \in Conn : peer'[c] = "new" => peer[c] = "new"
    BY <1>0, <1>7 DEF Sender, TakeMessage, MessageDone, NotReceiver, StartSend,
                      NextClip, SendCall, SendCopies, SendReturnsShort, SendAborts, SendTakes, sockVars
  <2>3. QED
    BY <1>0, <2>1, <2>2 DEF FdInv, Pending, NeverOverflowed
<1>8. ASSUME NEW c \in Conn, ClientConnects(c)
      PROVE  FdInv'
  <2>1. /\ peer[c] = "new" /\ peer' = [peer EXCEPT ![c] = "open"]
        /\ backlog' = Append(backlog, c)
        /\ UNCHANGED <<fds, outbox, mpc, mfd, mconn, clients>>
    BY <1>8 DEF ClientConnects, Connect, ServerUnchanged, mainVars, tableVars
  <2>2. Pending' = Pending \cup {c}
    BY <1>0, <2>1, AppendElements DEF Pending
  <2>3. QED
    BY <1>0, <2>1, <2>2 DEF FdInv, NeverOverflowed
<1>9. ASSUME NEW c \in Conn, ClientWrites(c)
      PROVE  FdInv'
  <2>1. PICK sh \in Shapes :
          outbox' = [outbox EXCEPT ![c] =
                       Append(@, [from |-> c, num |-> wrote[c] + 1, shape |-> sh])]
    BY <1>9 DEF ClientWrites, Write
  <2> DEFINE ch == [from |-> c, num |-> wrote[c] + 1, shape |-> sh]
  <2>2. ch \in Chunk /\ ch.from = c
    <3>1. wrote[c] + 1 \in Nat
      BY SizeAssumption DEF TypeInv, TypeOK, SockTypeOK
    <3>2. QED
      BY <3>1 DEF Chunk
  <2>3. outbox'[c] = Append(outbox[c], ch)
        /\ \A e \in Conn : e # c => outbox'[e] = outbox[e]
    BY <1>0, <2>1
  <2> HIDE DEF ch
  <2>4. \A e \in Conn : \A i \in DOMAIN outbox'[e] : outbox'[e][i].from = e
    <3>1. PICK n \in Nat :
            /\ DOMAIN outbox'[c] = DOMAIN outbox[c] \cup {n}
            /\ outbox'[c][n] = ch
            /\ \A i \in DOMAIN outbox[c] : outbox'[c][i] = outbox[c][i]
      <4>1. outbox[c] \in Seq(Chunk)
        BY <1>0
      <4>2. QED
        BY <2>2, <2>3, <4>1, AppendElements
    <3>2. QED
      BY <2>2, <2>3, <3>1 DEF FdInv
  <2>5. UNCHANGED <<fds, peer, backlog, mpc, mfd, mconn, clients>>
    BY <1>9 DEF ClientWrites, Write, ServerUnchanged, mainVars, tableVars
  <2>6. QED
    BY <2>4, <2>5 DEF FdInv, Pending, NeverOverflowed
<1>10. ASSUME NEW c \in Conn,
              ClientLeaves(c) \/ ClientReads(c) \/ ResetArrives(c)
       PROVE  FdInv'
  <2>1. UNCHANGED <<fds, backlog, outbox, mfd, mconn, mpc, clients>>
    BY <1>10 DEF ClientLeaves, ClientReads, ResetArrives, Leave, Read, Reset,
                 ServerUnchanged, mainVars, tableVars
  <2>2. \A d \in Conn : peer'[d] = "new" => peer[d] = "new"
    BY <1>0, <1>10 DEF ClientLeaves, ClientReads, ResetArrives, Leave, Read,
                       Reset
  <2>3. QED
    BY <1>0, <2>1, <2>2 DEF FdInv, Pending, NeverOverflowed
<1>11. QED
  BY <1>1, <1>2, <1>3, <1>4, <1>5, <1>6, <1>7, <1>8, <1>9, <1>10
  DEF Next, Main, Handler, Client, Network

\* The step that could take a slot or a descriptor from a running thread
\* does not.
LEMMA OwnStep ==
  ASSUME TypeInv, TableInv, Next
  PROVE  OwnSlot'
<1> SUFFICES ASSUME NeverOverflowed'
             PROVE  (\A c \in Alive :
                       /\ hslot[c] \in Slot
                       /\ clients[hslot[c]].connected
                       /\ ConnOf(clients[hslot[c]].fd) = c
                       /\ hpc[c] = "recv" => hconn[c] = c
                       /\ hpc[c] = "push" => hchunk[c].from = c)'
  BY DEF OwnSlot
<1>0. /\ clients \in [Cell -> [connected : BOOLEAN, fd : Fd \cup {0}]]
      /\ fds \in [Fd -> Conn \cup {NoConn}]
      /\ hpc \in [Conn -> HandlerState]
      /\ hslot \in [Conn -> Cell]
      /\ hconn \in [Conn -> Conn \cup {NoConn}]
      /\ hchunk \in [Conn -> Chunk \cup {<<>>}]
      /\ outbox \in [Conn -> Seq(Chunk)]
      /\ NoConn \notin Conn
      /\ mpc \in {"add", "store"} => mconn \in Conn /\ mfd \in Fd
  BY ConnAssumption DEF TypeInv, TypeOK, SockTypeOK, ControlInv
<1>c. Cell = Slot \cup {-1} /\ -1 \notin Slot
  BY MaxClientAssumption DEF Cell, Slot
<1>o. /\ NeverOverflowed
      /\ mpc = "store" => midx \in Slot
  BY OverflowStep DEF TableInv
<1>own. \A c \in Alive :
          /\ hslot[c] \in Slot
          /\ clients[hslot[c]].connected
          /\ ConnOf(clients[hslot[c]].fd) = c
          /\ hpc[c] = "recv" => hconn[c] = c
          /\ hpc[c] = "push" => hchunk[c].from = c
  BY <1>o DEF TableInv, OwnSlot
<1> HIDE DEF ConnOf
<1>1. CASE Accept
  <2>1. PICK f \in FreeFds :
          /\ fds' = [fds EXCEPT ![f] = Head(backlog)]
          /\ UNCHANGED <<clients, hpc, hslot, hconn, hchunk>>
    BY <1>1 DEF Accept, AcceptAs, tableVars, handlerVars
  <2>2. \A g \in Fd : fds[g] # NoConn => fds'[g] = fds[g]
    BY <1>0, <2>1 DEF FreeFds
  <2>3. \A x : ConnOf(x) # NoConn => ConnOf(x)' = ConnOf(x)
    BY <2>2 DEF ConnOf
  <2>4. QED
    BY <1>0, <1>own, <2>1, <2>2 DEF Alive, ConnOf
<1>2. CASE AcceptFails \/ CheckCount
  BY <1>own, <1>2 DEF AcceptFails, CheckCount, sockVars, tableVars,
                      handlerVars, Alive, ConnOf
<1>3. CASE ClientAddConnected
  <2>1. PICK i \in Cell : clients' = [clients EXCEPT ![i].connected = TRUE]
    BY <1>3 DEF ClientAddConnected
  <2>2. UNCHANGED <<fds, hpc, hslot, hconn, hchunk>>
    BY <1>3 DEF ClientAddConnected, sockVars, handlerVars
  <2>3. \A j \in Slot : /\ clients'[j].fd = clients[j].fd
                        /\ clients[j].connected => clients'[j].connected
    BY <1>0, <1>c, <2>1
  <2>4. QED
    BY <1>own, <2>2, <2>3 DEF Alive, ConnOf
<1>4. CASE ClientAddFd
  <2>1. /\ mpc = "store"
        /\ clients' = [clients EXCEPT ![midx].fd = mfd]
        /\ hpc' = [hpc EXCEPT ![mconn] = "enter"]
        /\ hslot' = [hslot EXCEPT ![mconn] = midx]
        /\ UNCHANGED <<fds, hconn, hchunk>>
    BY <1>4 DEF ClientAddFd, sockVars
  <2>2. /\ clients[midx].connected
        /\ \A c \in Alive : hslot[c] # midx
        /\ fds[mfd] = mconn
        /\ mconn \in Conn /\ mfd \in Fd /\ midx \in Slot
    BY <1>0, <1>o, <1>own, <2>1 DEF TableInv, SlotInv, FdInv
  <2>3. /\ clients'[midx].connected /\ clients'[midx].fd = mfd
        /\ \A j \in Slot : j # midx => clients'[j] = clients[j]
    BY <1>0, <1>c, <2>1, <2>2
  <2>4. /\ hpc'[mconn] = "enter" /\ hslot'[mconn] = midx
        /\ \A c \in Conn : c # mconn => hpc'[c] = hpc[c] /\ hslot'[c] = hslot[c]
    BY <1>0, <2>1, <2>2
  <2>5. QED
    BY <1>own, <2>1, <2>2, <2>3, <2>4 DEF Alive, ConnOf
<1>5. ASSUME NEW c \in Conn, EnterRecv(c) \/ RecvChunk(c) \/ Push(c) \/ RecvEnd(c)
      PROVE  (\A d \in Alive :
                /\ hslot[d] \in Slot
                /\ clients[hslot[d]].connected
                /\ ConnOf(clients[hslot[d]].fd) = d
                /\ hpc[d] = "recv" => hconn[d] = d
                /\ hpc[d] = "push" => hchunk[d].from = d)'
  <2>1. UNCHANGED <<clients, fds, hslot>>
    BY <1>5 DEF EnterRecv, RecvChunk, Push, RecvEnd, TakeChunk, sockVars,
                tableVars
  <2>2. /\ c \in Alive
        /\ \A d \in Conn : d # c => /\ hpc'[d] = hpc[d]
                                    /\ hconn'[d] = hconn[d]
                                    /\ hchunk'[d] = hchunk[d]
    BY <1>0, <1>5 DEF EnterRecv, RecvChunk, Push, RecvEnd, Alive
  <2>3. /\ hpc'[c] = "recv" => hconn'[c] = c
        /\ hpc'[c] = "push" => hchunk'[c].from = c
    <3>1. CASE EnterRecv(c)
      BY <1>0, <1>own, <2>2, <3>1 DEF EnterRecv
    <3>2. CASE RecvChunk(c)
      <4>1. hpc[c] = "recv" /\ hconn[c] = c
        BY <1>own, <2>2, <3>2 DEF RecvChunk
      <4>2. outbox[c] # <<>> /\ hpc'[c] = "push" /\ hchunk'[c] = Head(outbox[c])
        BY <1>0, <3>2, <4>1 DEF RecvChunk, TakeChunk, HasData
      <4>3. Head(outbox[c]) = outbox[c][1] /\ 1 \in DOMAIN outbox[c]
        BY <1>0, <4>2, TailElements
      <4>4. QED
        BY <4>2, <4>3 DEF TableInv, FdInv
    <3>3. CASE Push(c)
      BY <1>0, <3>3 DEF Push
    <3>4. CASE RecvEnd(c)
      BY <1>0, <3>4 DEF RecvEnd, UserLeft
    <3>5. QED
      BY <1>5, <3>1, <3>2, <3>3, <3>4
  <2>4. \A d \in Conn : d \in Alive' => d \in Alive
    BY <2>2 DEF Alive
  <2>5. QED
    BY <1>own, <2>1, <2>2, <2>3, <2>4 DEF Alive, ConnOf
<1>6. ASSUME NEW c \in Conn, ClientDestroy(c)
      PROVE  (\A d \in Alive :
                /\ hslot[d] \in Slot
                /\ clients[hslot[d]].connected
                /\ ConnOf(clients[hslot[d]].fd) = d
                /\ hpc[d] = "recv" => hconn[d] = d
                /\ hpc[d] = "push" => hchunk[d].from = d)'
  <2>1. /\ c \in Alive
        /\ clients' = [clients EXCEPT ![hslot[c]].connected = FALSE]
        /\ \A g \in Fd : fds'[g] = IF g = clients[hslot[c]].fd
                                     THEN NoConn ELSE fds[g]
        /\ UNCHANGED <<hslot, hconn, hchunk>>
    BY <1>6 DEF ClientDestroy, CloseFd, Alive
  <2>2. /\ c \notin Alive'
        /\ \A d \in Conn : d # c => hpc'[d] = hpc[d]
    BY <1>0, <1>6 DEF ClientDestroy, Alive
  <2>3. \A d \in Alive : d # c => hslot[d] # hslot[c]
    BY <1>own, <2>1 DEF TableInv, SlotInv
  <2>4. \A j \in Slot : j # hslot[c] => clients'[j] = clients[j]
    BY <1>0, <1>c, <2>1
  <2>5. \A d \in Alive : d # c => clients[hslot[d]].fd # clients[hslot[c]].fd
    BY <1>own, <2>1
  <2>6. QED
    BY <1>own, <2>1, <2>2, <2>3, <2>4, <2>5 DEF Alive, ConnOf
<1>7. CASE Sender \/ \E c \in Conn : Client(c) \/ Network(c)
  <2>1. UNCHANGED <<clients, fds, hpc, hslot, hconn, hchunk>>
    BY <1>7 DEF Sender, TakeMessage, MessageDone, NotReceiver, StartSend,
                NextClip, SendCall, SendCopies, SendReturnsShort, SendAborts, SendTakes, Client, Network,
                ClientConnects, ClientWrites, ClientLeaves, ClientReads,
                ResetArrives, Connect, Write, Leave, Read, Reset,
                ServerUnchanged, sockVars, tableVars, handlerVars
  <2>2. QED
    BY <1>own, <2>1 DEF Alive, ConnOf
<1>8. QED
  BY <1>1, <1>2, <1>3, <1>4, <1>5, <1>6, <1>7 DEF Next, Main, Handler

LEMMA TableStutter ==
  ASSUME TableInv, UNCHANGED vars
  PROVE  TableInv'
BY DEF TableInv, PendingInv, SlotInv, FdInv, OwnSlot, Pending, Alive,
       ConnectedSlots, NeverOverflowed, ConnOf, vars, sockVars, tableVars,
       mainVars, handlerVars

THEOREM TableCorrect == Spec => []TableInv
<1>1. TypeInv /\ TableInv /\ [Next]_vars => TableInv'
  <2>1. ASSUME TypeInv, TableInv, Next
        PROVE  TableInv'
    <3>1. PendingInv /\ SlotInv
      BY <2>1 DEF TableInv
    <3>2. PendingInv' /\ SlotInv' /\ FdInv' /\ OwnSlot'
      BY <2>1, <3>1, PendingStep, SlotStep, FdStep, OwnStep
    <3>3. QED
      BY <3>2 DEF TableInv
  <2>2. QED
    BY <2>1, TableStutter
<1>2. QED
  BY <1>1, TableInit, TypeCorrect, PTL DEF Spec

\* Until the table first overflows, every handle_chat thread keeps a slot,
\* a descriptor and a connection of its own, in every interleaving of any
\* number of clients with client_add, client_destroy and send_all.
THEOREM OwnSlotCorrect == Spec => []OwnSlot
<1>1. TableInv => OwnSlot
  BY DEF TableInv
<1>2. QED
  BY <1>1, TableCorrect, PTL

-----------------------------------------------------------------------------
(* Counting. *)

LEMMA SlotCount == IsFiniteSet(Slot) /\ Cardinality(Slot) = MaxClient
<1>1. /\ MaxClient - 1 \in Int
      /\ Slot = 0..(MaxClient - 1)
      /\ MaxClient - 1 - 0 + 1 = MaxClient
  BY MaxClientAssumption DEF Slot
<1>2. QED
  BY <1>1, MaxClientAssumption, FS_Interval

\* Without a free slot, every slot has a thread.
LEMMA SlotsTaken ==
  ASSUME TypeInv, TableInv, mpc = "store", midx = -1
  PROVE  Cardinality(Alive) >= MaxClient
<1>1. \A i \in Slot : \E c \in Alive : hslot[c] = i
  <2>1. -1 \notin Slot
    BY MaxClientAssumption DEF Slot
  <2>2. QED
    BY <2>1 DEF TableInv, SlotInv
<1>2. IsFiniteSet(Alive)
  <2>1. Alive \subseteq Conn
    BY DEF Alive
  <2>2. QED
    BY <2>1, ConnAssumption, FS_Subset
<1> DEFINE f == [i \in Slot |-> CHOOSE c \in Alive : hslot[c] = i]
<1>3. \A i \in Slot : f[i] \in Alive /\ hslot[f[i]] = i
  BY <1>1
<1>4. f \in Injection(Slot, Alive)
  <2>1. f \in [Slot -> Alive]
    BY <1>3
  <2>2. \A i, j \in Slot : f[i] = f[j] => i = j
    BY <1>3
  <2> HIDE DEF f
  <2>3. QED
    BY <2>1, <2>2 DEF Injection, IsInjective
<1> HIDE DEF f
<1>5. Cardinality(Slot) <= Cardinality(Alive)
  BY <1>2, <1>4, SlotCount, FS_Injection
<1>6. QED
  BY <1>2, <1>5, SlotCount, FS_CardinalityType, MaxClientAssumption

\* A client is turned away from the table only while MAX_CLIENT_NUMBER
\* others are being served.
THEOREM NoSlotLeakCorrect == Spec => []NoSlotLeak
<1>1. TypeInv /\ TableInv => NoSlotLeak
  BY SlotsTaken DEF NoSlotLeak
<1>2. QED
  BY <1>1, TypeCorrect, TableCorrect, PTL

\* The client being added has no thread yet: with as many slots as there are
\* clients, one is free.
LEMMA SlotForAll ==
  ASSUME Cardinality(Conn) <= MaxClient, TypeInv, TableInv, mpc = "store"
  PROVE  midx # -1
<1> SUFFICES ASSUME midx = -1
             PROVE  FALSE
  OBVIOUS
<1>1. mconn \in Conn /\ hpc[mconn] = "none"
  BY DEF TypeInv, ControlInv, TableInv, PendingInv
<1>2. Alive \subseteq Conn \ {mconn}
  BY <1>1 DEF Alive
<1>3. /\ IsFiniteSet(Conn \ {mconn})
      /\ Cardinality(Conn \ {mconn}) = Cardinality(Conn) - 1
  BY <1>1, ConnAssumption, FS_RemoveElement
<1>4. IsFiniteSet(Alive) /\ Cardinality(Alive) <= Cardinality(Conn) - 1
  BY <1>2, <1>3, FS_Subset
<1>5. Cardinality(Alive) \in Nat /\ Cardinality(Conn) \in Nat
  BY <1>4, ConnAssumption, FS_CardinalityType
<1>6. Cardinality(Alive) >= MaxClient
  BY SlotsTaken
<1>7. QED
  BY <1>4, <1>5, <1>6, MaxClientAssumption

\* With no more clients than MAX_CLIENT_NUMBER, however they come and go,
\* client_add never stores to clients[-1] (2.cpp:47): what is said of a table
\* that has not overflowed is then said of all behaviours.
THEOREM NoOverflowCorrect == Cardinality(Conn) <= MaxClient => (Spec => []NeverOverflowed)
<1> SUFFICES ASSUME Cardinality(Conn) <= MaxClient
             PROVE  Spec => []NeverOverflowed
  OBVIOUS
<1> DEFINE OwnStore == mpc = "store" => midx # -1
<1>1. Init => NeverOverflowed
  BY MaxClientAssumption DEF Init, NeverOverflowed, Cell
<1>2. TypeInv /\ TableInv => OwnStore
  BY SlotForAll
<1>3. TypeInv /\ NeverOverflowed /\ OwnStore /\ OwnStore' /\ [Next]_vars => NeverOverflowed'
  <2> SUFFICES ASSUME TypeInv, NeverOverflowed, OwnStore, OwnStore', [Next]_vars
               PROVE  NeverOverflowed'
    OBVIOUS
  <2>0. clients \in [Cell -> [connected : BOOLEAN, fd : Fd \cup {0}]]
    BY DEF TypeInv, TypeOK
  <2>1. CASE ClientAddConnected
    <3>1. PICK i \in Cell : /\ clients' = [clients EXCEPT ![i].connected = TRUE]
                            /\ i # -1
      BY <2>1 DEF ClientAddConnected
    <3>2. QED
      BY <2>0, <3>1 DEF NeverOverflowed
  <2>2. CASE ClientAddFd
    <3>1. clients' = [clients EXCEPT ![midx].fd = mfd] /\ midx # -1
      BY <2>2 DEF ClientAddFd
    <3>2. QED
      BY <2>0, <3>1 DEF NeverOverflowed
  <2>3. ASSUME NEW c \in Conn, ClientDestroy(c)
        PROVE  NeverOverflowed'
    <3>1. clients' = [clients EXCEPT ![hslot[c]].connected = FALSE]
      BY <2>3 DEF ClientDestroy
    <3>2. -1 \in Cell
      BY DEF Cell
    <3>3. clients'[-1].fd = clients[-1].fd /\ (clients'[-1].connected => clients[-1].connected)
      BY <2>0, <3>1, <3>2
    <3>4. QED
      BY <3>3 DEF NeverOverflowed
  <2>4. CASE UNCHANGED clients
    BY <2>4 DEF NeverOverflowed
  <2>5. QED
    BY <2>1, <2>2, <2>3, <2>4
    DEF Next, Main, Handler, Accept, AcceptFails, CheckCount, EnterRecv,
        RecvChunk, Push, RecvEnd, Sender, TakeMessage, MessageDone,
        NotReceiver, StartSend, NextClip, SendCall, SendCopies, SendReturnsShort,
        SendAborts, Client, Network, ClientConnects, ClientWrites, ClientLeaves,
        ClientReads, ResetArrives, ServerUnchanged, tableVars, vars
<1> HIDE DEF OwnStore
<1>4. QED
  BY <1>1, <1>2, <1>3, TypeCorrect, TableCorrect, PTL DEF Spec

\* What the stores of client_add and client_destroy do to the slots marked
\* connected.
LEMMA ConnectedStep ==
  ASSUME TypeInv, TableInv, Next, NeverOverflowed'
  PROVE  \/ /\ UNCHANGED <<connected_clients_num, ConnectedSlots>>
            /\ (mpc # "store" /\ mpc' # "store") \/ UNCHANGED mpc
         \/ /\ UNCHANGED connected_clients_num
            /\ mpc # "store" /\ mpc' = "store"
            /\ \E i \in Slot : /\ i \notin ConnectedSlots
                               /\ ConnectedSlots' = ConnectedSlots \cup {i}
         \/ /\ connected_clients_num' = connected_clients_num + 1
            /\ mpc = "store" /\ mpc' # "store"
            /\ UNCHANGED ConnectedSlots
         \/ /\ connected_clients_num' = connected_clients_num - 1
            /\ UNCHANGED mpc
            /\ \E i \in ConnectedSlots : ConnectedSlots' = ConnectedSlots \ {i}
<1>0. /\ clients \in [Cell -> [connected : BOOLEAN, fd : Fd \cup {0}]]
      /\ midx \in Cell
  BY DEF TypeInv, TypeOK
<1>c. Cell = Slot \cup {-1} /\ -1 \notin Slot
  BY MaxClientAssumption DEF Cell, Slot
<1>1. CASE ClientAddConnected
  <2>1. PICK i \in Cell : /\ IsIndex(i)
                          /\ clients' = [clients EXCEPT ![i].connected = TRUE]
    BY <1>1 DEF ClientAddConnected
  <2>2. i \in Slot
    <3>1. clients'[-1].connected = FALSE
      BY <1>0, <1>c, <2>1 DEF NeverOverflowed
    <3>2. QED
      BY <1>0, <1>c, <2>1, <3>1
  <2>3. i \notin ConnectedSlots
    BY <1>c, <2>1, <2>2 DEF IsIndex, FreeSlots, ConnectedSlots
  <2>4. ConnectedSlots' = ConnectedSlots \cup {i}
    <3>1. \A j \in Slot : clients'[j].connected <=> (clients[j].connected \/ j = i)
      BY <1>0, <1>c, <2>1
    <3>2. QED
      BY <2>2, <3>1 DEF ConnectedSlots
  <2>5. mpc # "store" /\ mpc' = "store" /\ UNCHANGED connected_clients_num
    BY <1>1 DEF ClientAddConnected
  <2>6. QED
    BY <2>2, <2>3, <2>4, <2>5
<1>2. CASE ClientAddFd
  <2>1. \A j \in Slot : clients'[j].connected <=> clients[j].connected
    BY <1>0, <1>c, <1>2 DEF ClientAddFd
  <2>2. UNCHANGED ConnectedSlots
    BY <2>1 DEF ConnectedSlots
  <2>3. /\ mpc = "store" /\ mpc' # "store"
        /\ connected_clients_num' = connected_clients_num + 1
    BY <1>2 DEF ClientAddFd
  <2>4. QED
    BY <2>2, <2>3
<1>3. ASSUME NEW c \in Conn, ClientDestroy(c)
      PROVE  /\ connected_clients_num' = connected_clients_num - 1
             /\ UNCHANGED mpc
             /\ \E i \in ConnectedSlots : ConnectedSlots' = ConnectedSlots \ {i}
  <2>1. /\ c \in Alive
        /\ clients' = [clients EXCEPT ![hslot[c]].connected = FALSE]
        /\ connected_clients_num' = connected_clients_num - 1
        /\ UNCHANGED mpc
    BY <1>3 DEF ClientDestroy, Alive, mainVars
  <2>2. hslot[c] \in Slot
    BY <2>1, OverflowStep DEF TableInv
  <2>3. hslot[c] \in ConnectedSlots
    BY <2>1, <2>2 DEF TableInv, SlotInv, ConnectedSlots
  <2>4. \A j \in Slot : clients'[j].connected <=>
                          (clients[j].connected /\ j # hslot[c])
    BY <1>0, <1>c, <2>1
  <2>5. ConnectedSlots' = ConnectedSlots \ {hslot[c]}
    BY <2>4 DEF ConnectedSlots
  <2>6. QED
    BY <2>1, <2>3, <2>5
<1>4. CASE UNCHANGED <<clients, connected_clients_num>>
           /\ ((mpc # "store" /\ mpc' # "store") \/ UNCHANGED mpc)
  BY <1>4 DEF ConnectedSlots
<1>5. QED
  BY <1>1, <1>2, <1>3, <1>4
  DEF Next, Main, Handler, Accept, AcceptFails, CheckCount, EnterRecv,
      RecvChunk, Push, RecvEnd, Sender, TakeMessage, MessageDone,
      NotReceiver, StartSend, NextClip, SendCall, SendCopies, SendReturnsShort, SendAborts, Client, Network,
      ClientConnects, ClientWrites, ClientLeaves, ClientReads, ResetArrives,
      ServerUnchanged, tableVars, mainVars

\* connected_clients_num, decremented and incremented by different threads
\* and read by main without the lock, never drifts from the table.
THEOREM CountCorrect == Spec => []CountMatchesTable
<1>1. Init => CountMatchesTable
  <2> SUFFICES ASSUME Init
               PROVE  CountMatchesTable
    OBVIOUS
  <2>1. ConnectedSlots = {} /\ connected_clients_num = 0 /\ mpc = "accept"
    BY DEF Init, ConnectedSlots, Cell
  <2>2. QED
    BY <2>1, FS_EmptySet DEF CountMatchesTable
<1>2. TypeInv /\ TableInv /\ CountMatchesTable /\ [Next]_vars
        => CountMatchesTable'
  <2>1. ASSUME TypeInv, TableInv, CountMatchesTable, Next, NeverOverflowed'
        PROVE  connected_clients_num' + (IF mpc' = "store" THEN 1 ELSE 0)
                 = Cardinality(ConnectedSlots')
    <3>1. /\ connected_clients_num \in Int
          /\ connected_clients_num + (IF mpc = "store" THEN 1 ELSE 0)
               = Cardinality(ConnectedSlots)
      BY <2>1, OverflowStep DEF TypeInv, TypeOK, TableInv, CountMatchesTable
    <3>2. IsFiniteSet(ConnectedSlots) /\ ConnectedSlots \in SUBSET Slot
      <4>1. ConnectedSlots \in SUBSET Slot
        BY DEF ConnectedSlots
      <4>2. QED
        BY <4>1, SlotCount, FS_Subset
    <3>3. /\ \A i \in Slot : i \notin ConnectedSlots =>
               Cardinality(ConnectedSlots \cup {i})
                 = Cardinality(ConnectedSlots) + 1
          /\ \A i \in ConnectedSlots :
               Cardinality(ConnectedSlots \ {i}) = Cardinality(ConnectedSlots) - 1
      BY <3>2, FS_AddElement, FS_RemoveElement
    <3>4. QED
      BY <2>1, <3>1, <3>3, ConnectedStep
  <2>2. CountMatchesTable /\ UNCHANGED vars => CountMatchesTable'
    BY DEF CountMatchesTable, NeverOverflowed, ConnectedSlots, vars, tableVars,
           mainVars
  <2>3. QED
    BY <2>1, <2>2 DEF CountMatchesTable
<1>3. QED
  BY <1>1, <1>2, TypeCorrect, TableCorrect, PTL DEF Spec
-----------------------------------------------------------------------------
(* Messages and their authors. *)

\* A thread that was started keeps its slot, and is never started again.
LEMMA KeptSlot ==
  ASSUME TypeInv, TableInv, Next
  PROVE  \A c \in Conn : hpc[c] # "none" =>
                             hpc'[c] # "none" /\ hslot'[c] = hslot[c]
<1>0. /\ hpc \in [Conn -> HandlerState]
      /\ hslot \in [Conn -> Cell]
  BY DEF TypeInv, TypeOK
<1>1. CASE ClientAddFd
  <2>1. hpc[mconn] = "none"
    BY <1>1 DEF ClientAddFd, TableInv, PendingInv
  <2>2. QED
    BY <1>0, <1>1, <2>1 DEF ClientAddFd
<1>2. ASSUME NEW c \in Conn, Handler(c)
      PROVE  \A d \in Conn : hpc[d] # "none" =>
                                 hpc'[d] # "none" /\ hslot'[d] = hslot[d]
  BY <1>0, <1>2 DEF Handler, EnterRecv, RecvChunk, Push, RecvEnd, ClientDestroy
<1>3. CASE UNCHANGED handlerVars
  BY <1>3 DEF handlerVars
<1>4. QED
  BY <1>1, <1>2, <1>3
  DEF Next, Main, Accept, AcceptFails, ClientAddConnected, CheckCount, Sender,
      TakeMessage, MessageDone, NotReceiver, StartSend, NextClip, SendCall,
      SendCopies, SendReturnsShort, SendAborts, Client, Network,
      ClientConnects, ClientWrites, ClientLeaves, ClientReads, ResetArrives,
      ServerUnchanged

LEMMA MessageStep ==
  ASSUME TypeInv, TableInv, MessageInv, Next
  PROVE  MessageInv'
<1> SUFFICES ASSUME NeverOverflowed'
             PROVE  /\ (\A i \in DOMAIN message_queue : Authored(message_queue[i]))'
                    /\ (spc # "idle" => Authored(smsg))'
  BY DEF MessageInv
<1>0. /\ message_queue \in Seq(Message)
      /\ spc # "idle" => smsg \in Message
      /\ \A c \in Conn : hpc[c] = "push" => hchunk[c] \in Chunk
      /\ hpc \in [Conn -> HandlerState] /\ hslot \in [Conn -> Cell]
  BY DEF TypeInv, TypeOK, ControlInv
<1>o. NeverOverflowed
  BY OverflowStep DEF TableInv
<1>a. /\ \A i \in DOMAIN message_queue : Authored(message_queue[i])
      /\ spc # "idle" => Authored(smsg)
  BY <1>o DEF MessageInv
<1> DEFINE Still(m) == /\ hpc'[m.chunk.from] # "none"
                       /\ m.sender_address = hslot'[m.chunk.from]
<1>k. \A i \in DOMAIN message_queue : Still(message_queue[i])
  <2>1. \A i \in DOMAIN message_queue : message_queue[i].chunk.from \in Conn
    <3>1. \A m \in Message : m.chunk.from \in Conn
      BY DEF Message, Chunk
    <3>2. \A i \in DOMAIN message_queue : message_queue[i] \in Message
      BY <1>0
    <3>3. QED
      BY <3>1, <3>2
  <2>2. QED
    BY <1>a, <2>1, KeptSlot DEF Authored
<1>s. spc # "idle" => Still(smsg)
  BY <1>0, <1>a, KeptSlot DEF Authored, Message, Chunk
<1>1. CASE TakeMessage
  <2>1. /\ message_queue # <<>> /\ smsg' = Head(message_queue)
        /\ message_queue' = Tail(message_queue)
    BY <1>1 DEF TakeMessage, HasMessage, NextMessage
  <2>2. /\ smsg' = message_queue[1] /\ 1 \in DOMAIN message_queue
        /\ \A i \in DOMAIN message_queue' :
             i + 1 \in DOMAIN message_queue
               /\ message_queue'[i] = message_queue[i + 1]
    BY <1>0, <2>1, TailElements
  <2>3. \A i \in DOMAIN message_queue' : Still(message_queue'[i])
    BY <1>k, <2>2
  <2>4. QED
    BY <1>k, <2>2, <2>3 DEF Authored
<1>2. ASSUME NEW c \in Conn, Push(c)
      PROVE  /\ (\A i \in DOMAIN message_queue : Authored(message_queue[i]))'
             /\ (spc # "idle" => Authored(smsg))'
  <2> DEFINE m == [sender_address |-> hslot[c], chunk |-> hchunk[c]]
  <2>1. /\ hpc[c] = "push" /\ hpc' = [hpc EXCEPT ![c] = "enter"]
        /\ message_queue' = Append(message_queue, m)
        /\ UNCHANGED <<hslot, spc, smsg>>
    BY <1>2 DEF Push, SenderAddress, senderVars
  <2>2. m \in Message
    BY <1>0, <2>1 DEF Message
  <2>3. Still(m)
    <3>1. hchunk[c].from = c
      BY <1>o, <2>1 DEF TableInv, OwnSlot, Alive
    <3>2. hpc'[c] # "none" /\ hslot'[c] = hslot[c]
      BY <1>0, <2>1
    <3>3. QED
      BY <3>1, <3>2
  <2> HIDE DEF m
  <2>4. \A i \in DOMAIN message_queue' : Still(message_queue'[i])
    <3>1. PICK n \in Nat :
            /\ DOMAIN message_queue' = DOMAIN message_queue \cup {n}
            /\ message_queue'[n] = m
            /\ \A i \in DOMAIN message_queue : message_queue'[i] = message_queue[i]
      BY <1>0, <2>1, <2>2, AppendElements
    <3>2. QED
      BY <1>k, <2>3, <3>1
  <2>5. QED
    BY <1>s, <2>1, <2>4 DEF Authored
<1>3. CASE /\ UNCHANGED message_queue
           /\ spc' = "idle" \/ (spc # "idle" /\ smsg' = smsg)
  BY <1>3, <1>k, <1>s DEF Authored
<1>4. CASE UNCHANGED <<message_queue, spc, smsg>>
  BY <1>4, <1>k, <1>s DEF Authored
<1>5. QED
  BY <1>1, <1>2, <1>3, <1>4
  DEF Next, Main, Handler, Accept, AcceptFails, ClientAddConnected,
      ClientAddFd, CheckCount, EnterRecv, RecvChunk, RecvEnd, ClientDestroy,
      Sender, MessageDone, NotReceiver, StartSend, NextClip, SendCall,
      SendCopies, SendReturnsShort, SendAborts, Client, Network,
      ClientConnects, ClientWrites, ClientLeaves, ClientReads, ResetArrives,
      ServerUnchanged, senderVars

\* However long a message waits in the queue or in a blocked send, the slot
\* it is marked with is its author's as long as that author is served: no
\* other client is passed over in its place.
THEOREM OnlyAuthorSkippedCorrect == Spec => []OnlyAuthorSkipped
<1>1. Init => MessageInv
  BY DEF Init, MessageInv
<1>2. TypeInv /\ TableInv /\ MessageInv /\ [Next]_vars => MessageInv'
  <2>1. MessageInv /\ UNCHANGED vars => MessageInv'
    BY DEF MessageInv, Authored, NeverOverflowed, vars, tableVars, handlerVars,
           senderVars
  <2>2. QED
    BY <2>1, MessageStep
<1>3. TypeInv /\ TableInv /\ MessageInv => OnlyAuthorSkipped
  BY DEF TableInv, OwnSlot, MessageInv, Authored, OnlyAuthorSkipped
<1>4. QED
  BY <1>1, <1>2, <1>3, TypeCorrect, TableCorrect, PTL DEF Spec

-----------------------------------------------------------------------------
(* Where the sending thread sends to. *)

LEMMA GoneStep ==
  ASSUME TypeInv, Next
  PROVE  \A c \in Conn : peer[c] \in Gone => peer'[c] \in Gone
<1>0. peer \in [Conn -> PeerState]
  BY DEF TypeInv, TypeOK, SockTypeOK
<1>1. CASE UNCHANGED peer
  BY <1>1
<1>2. ASSUME NEW c \in Conn, ClientConnects(c) \/ ClientLeaves(c) \/ ResetArrives(c)
      PROVE  \A d \in Conn : peer[d] \in Gone => peer'[d] \in Gone
  BY <1>0, <1>2 DEF ClientConnects, ClientLeaves, ResetArrives, Connect, Leave,
                    Reset, Gone
<1>3. CASE SendCopies
  <2>1. UNCHANGED peer \/ peer' = [peer EXCEPT ![sconn] = "doomed"]
    BY <1>3 DEF SendCopies, SendTakes
  <2>2. QED
    BY <1>0, <2>1 DEF Gone
<1>4. QED
  BY <1>1, <1>2, <1>3
  DEF Next, Main, Handler, Accept, AcceptFails, ClientAddConnected,
      ClientAddFd, CheckCount, EnterRecv, RecvChunk, Push, RecvEnd,
      ClientDestroy, Sender, TakeMessage, MessageDone, NotReceiver, StartSend,
      NextClip, SendCall, SendReturnsShort, SendAborts, Client, Network,
      ClientWrites, ClientReads, AcceptAs, TakeChunk, CloseFd, Write, Read,
      sockVars

\* A thread that is about to destroy its Client has seen that its own client
\* is gone.
LEMMA DestroyStep ==
  ASSUME TypeInv, TableInv, SendInv, Next, NeverOverflowed'
  PROVE  \A c \in Conn : hpc'[c] = "destroy" => peer'[c] \in Gone
<1>0. hpc \in [Conn -> HandlerState] /\ NoConn \notin Conn
  BY ConnAssumption DEF TypeInv, TypeOK
<1>o. NeverOverflowed
  BY OverflowStep DEF TableInv
<1>1. SUFFICES ASSUME NEW c \in Conn, hpc'[c] = "destroy"
               PROVE  peer[c] \in Gone
  BY GoneStep
<1>2. CASE hpc[c] = "destroy"
  BY <1>o, <1>2 DEF SendInv
<1>3. CASE hpc[c] # "destroy"
  <2>1. RecvEnd(c)
    <3>1. ~UNCHANGED hpc
      BY <1>1, <1>3
    <3>2. ~ClientAddFd
      BY <1>0, <1>1, <1>3 DEF ClientAddFd
    <3>3. \A d \in Conn : Handler(d) => d = c /\ RecvEnd(d)
      BY <1>0, <1>1, <1>3 DEF Handler, EnterRecv, RecvChunk, Push, RecvEnd,
                              ClientDestroy
    <3>4. QED
      BY <3>1, <3>2, <3>3
      DEF Next, Main, Accept, AcceptFails, ClientAddConnected, CheckCount,
          Sender, TakeMessage, MessageDone, NotReceiver, StartSend, NextClip,
          SendCall, SendCopies, SendReturnsShort, SendAborts, Client, Network,
          ClientConnects, ClientWrites, ClientLeaves, ClientReads,
          ResetArrives, ServerUnchanged, handlerVars
  <2>2. hconn[c] = c
    BY <1>o, <2>1 DEF RecvEnd, TableInv, OwnSlot, Alive
  <2>3. QED
    BY <1>0, <2>1, <2>2 DEF RecvEnd, UserLeft, AtEnd
<1>4. QED
  BY <1>2, <1>3

\* StartSend has found the slot connected: it has an owner, who is not the
\* author, or it is being filled in.
LEMMA StartSendOther ==
  ASSUME TypeInv, TableInv, MessageInv, StartSend, NeverOverflowed, ~InWindow
  PROVE  /\ si # smsg.sender_address
         /\ ConnOf(clients[si].fd) # smsg.chunk.from
         /\ ConnOf(clients[si].fd) # NoConn
<1>1. /\ clients[si].connected /\ si # smsg.sender_address
      /\ si \in Slot
  BY MaxClientAssumption DEF StartSend, IsReceiver, TypeInv, TypeOK, Slot
<1>2. PICK c \in Alive : hslot[c] = si
  BY <1>1 DEF TableInv, SlotInv, ConnectedSlots, InWindow
<1>3. ConnOf(clients[si].fd) = c /\ c \in Conn
  BY <1>2 DEF TableInv, OwnSlot, Alive
<1>4. smsg.sender_address = hslot[smsg.chunk.from]
  BY DEF StartSend, MessageInv, Authored
<1>5. QED
  BY <1>1, <1>2, <1>3, <1>4, ConnAssumption

\* While it stays with that slot, no other thread turns it into the author's.
LEMMA SlotStaysOther ==
  ASSUME TypeInv, TableInv, MessageInv, SendInv, Next, NeverOverflowed',
         spc \in {"send", "sending"}, UNCHANGED <<si, smsg>>, ~InWindow'
  PROVE  /\ ConnOf(clients[si].fd)' # smsg.chunk.from
         /\ (\A c \in Conn : peer'[c] \notin Gone) =>
              ConnOf(clients[si].fd)' # NoConn
<1> DEFINE conn == ConnOf(clients[si].fd)
<1>0. /\ clients \in [Cell -> [connected : BOOLEAN, fd : Fd \cup {0}]]
      /\ fds \in [Fd -> Conn \cup {NoConn}]
      /\ backlog \in Seq(Conn)
      /\ hpc \in [Conn -> HandlerState]
      /\ mpc \in {"add", "store"} => mconn \in Conn /\ mfd \in Fd
      /\ NoConn \notin Conn /\ 0 \notin Fd
      /\ smsg.chunk.from \in Conn /\ si \in Slot /\ si \in Cell
  <2>1. smsg \in Message
    BY DEF TypeInv, ControlInv
  <2>2. smsg.chunk.from \in Conn
    BY <2>1 DEF Message, Chunk
  <2>3. si \in Slot /\ si \in Cell
    BY MaxClientAssumption DEF TypeInv, TypeOK, ControlInv, Slot, Cell
  <2>4. QED
    BY <2>2, <2>3, ConnAssumption, FdAssumption
    DEF TypeInv, TypeOK, SockTypeOK, ControlInv
<1>o. NeverOverflowed /\ (mpc = "store" => midx \in Slot)
  BY OverflowStep DEF TableInv
<1>a. hpc[smsg.chunk.from] # "none"
  BY <1>o DEF MessageInv, Authored
<1>i. ~InWindow => /\ conn # smsg.chunk.from
                   /\ (\A c \in Conn : peer[c] \notin Gone) => conn # NoConn
  BY <1>o DEF SendInv
<1>g. (\A c \in Conn : peer'[c] \notin Gone) => \A c \in Conn : peer[c] \notin Gone
  BY GoneStep
<1>1. CASE Accept
  <2>1. PICK f \in FreeFds :
          /\ backlog # <<>>
          /\ fds' = [fds EXCEPT ![f] = Head(backlog)]
          /\ UNCHANGED clients
          /\ mpc = "accept"
    BY <1>1 DEF Accept, AcceptAs, tableVars
  <2>2. Head(backlog) \in Conn /\ hpc[Head(backlog)] = "none"
    BY <1>0, <2>1, TailElements DEF TableInv, PendingInv, Pending
  <2>3. conn' = Head(backlog) \/ conn' = conn
    BY <1>0, <2>1 DEF ConnOf, FreeFds
  <2>4. QED
    BY <1>0, <1>a, <1>i, <1>g, <2>1, <2>2, <2>3 DEF InWindow
<1>2. CASE ClientAddConnected
  <2>1. PICK i \in Cell : clients' = [clients EXCEPT ![i].connected = TRUE]
    BY <1>2 DEF ClientAddConnected
  <2>2. mpc = "add" /\ clients'[si].fd = clients[si].fd /\ UNCHANGED fds
    BY <1>0, <1>2, <2>1 DEF ClientAddConnected, sockVars
  <2>3. QED
    BY <1>i, <1>g, <2>2 DEF ConnOf, InWindow
<1>3. CASE ClientAddFd
  <2>1. /\ mpc = "store"
        /\ clients' = [clients EXCEPT ![midx].fd = mfd]
        /\ UNCHANGED fds
    BY <1>3 DEF ClientAddFd, sockVars
  <2>2. CASE si = midx
    <3>1. clients'[si].fd = mfd
      BY <1>0, <2>1, <2>2
    <3>2. fds[mfd] = mconn /\ hpc[mconn] = "none"
      BY <1>o, <2>1 DEF TableInv, FdInv, PendingInv
    <3>3. QED
      BY <1>0, <1>a, <2>1, <3>1, <3>2 DEF ConnOf
  <2>3. CASE si # midx
    <3>1. clients'[si] = clients[si] /\ ~InWindow
      BY <1>0, <1>o, <2>1, <2>3 DEF InWindow
    <3>2. QED
      BY <1>i, <1>g, <2>1, <3>1 DEF ConnOf
  <2>4. QED
    BY <2>2, <2>3
<1>4. ASSUME NEW c \in Conn, ClientDestroy(c)
      PROVE  /\ conn' # smsg.chunk.from
             /\ (\A d \in Conn : peer'[d] \notin Gone) => conn' # NoConn
  <2>1. /\ clients' = [clients EXCEPT ![hslot[c]].connected = FALSE]
        /\ \A g \in Fd : fds'[g] = fds[g] \/ fds'[g] = NoConn
        /\ hpc[c] = "destroy"
        /\ UNCHANGED <<mpc, midx>>
    BY <1>4 DEF ClientDestroy, CloseFd, mainVars
  <2>2. clients'[si].fd = clients[si].fd
    BY <1>0, <2>1
  <2>3. conn' = conn \/ conn' = NoConn
    BY <2>1, <2>2 DEF ConnOf
  <2>4. ~InWindow
    BY <2>1 DEF InWindow
  <2>5. peer[c] \in Gone
    BY <1>o, <2>1 DEF SendInv
  <2>6. QED
    BY <1>0, <1>i, <1>g, <2>3, <2>4, <2>5
<1>5. CASE UNCHANGED <<clients, fds>> /\ (mpc # "store" \/ UNCHANGED <<mpc, midx>>)
  <2>1. ~InWindow /\ conn' = conn
    BY <1>5 DEF InWindow, ConnOf
  <2>2. QED
    BY <1>i, <1>g, <2>1
<1> HIDE DEF conn
<1>6. QED
  BY <1>1, <1>2, <1>3, <1>4, <1>5
  DEF Next, Main, Handler, AcceptFails, CheckCount, EnterRecv, RecvChunk, Push,
      RecvEnd, Sender, TakeMessage, MessageDone, NotReceiver, StartSend,
      NextClip, SendCall, SendCopies, SendReturnsShort, SendAborts, SendTakes,
      Client, Network, ClientConnects, ClientWrites, ClientLeaves, ClientReads,
      ResetArrives, Connect, Write, Leave, Read, Reset, TakeChunk,
      ServerUnchanged, sockVars, tableVars, mainVars, conn

LEMMA SendStep ==
  ASSUME TypeInv, TableInv, MessageInv, SendInv, Next
  PROVE  SendInv'
<1> SUFFICES ASSUME NeverOverflowed'
             PROVE  (\A c \in Conn : hpc'[c] = "destroy" => peer'[c] \in Gone)
                    /\ (spc' \in {"send", "sending"} =>
                          /\ si' # smsg'.sender_address
                          /\ ~InWindow' =>
                               /\ ConnOf(clients[si].fd)' # smsg'.chunk.from
                               /\ (\A c \in Conn : peer'[c] \notin Gone) =>
                                    ConnOf(clients[si].fd)' # NoConn)
  BY DEF SendInv
<1>1. NeverOverflowed
  BY OverflowStep DEF TableInv
<1>2. CASE StartSend
  <2>1. UNCHANGED <<si, smsg, clients, fds, mpc, midx, peer>>
    BY <1>2 DEF StartSend, sockVars, tableVars, mainVars
  <2>2. si # smsg.sender_address
    BY <1>2 DEF StartSend, IsReceiver
  <2>3. ~InWindow => /\ ConnOf(clients[si].fd) # smsg.chunk.from
                     /\ ConnOf(clients[si].fd) # NoConn
    BY <1>1, <1>2, StartSendOther
  <2>4. QED
    BY <2>1, <2>2, <2>3, DestroyStep DEF InWindow, ConnOf
<1>3. CASE spc \in {"send", "sending"} /\ UNCHANGED <<si, smsg>>
  BY <1>1, <1>3, DestroyStep, SlotStaysOther DEF SendInv
<1>4. CASE spc' \notin {"send", "sending"}
  BY <1>4, DestroyStep
<1>5. CASE UNCHANGED <<spc, si, smsg>>
  BY <1>3, <1>4, <1>5
<1>6. CASE SendCopies
  <2>1. UNCHANGED smsg /\ (UNCHANGED <<spc, si>> \/ spc' = "scan")
    BY <1>6 DEF SendCopies
  <2>2. QED
    BY <1>4, <1>5, <2>1
<1>7. QED
  BY <1>2, <1>3, <1>4, <1>5, <1>6
  DEF Next, Main, Handler, Accept, AcceptFails, ClientAddConnected,
      ClientAddFd, CheckCount, EnterRecv, RecvChunk, Push, RecvEnd,
      ClientDestroy, Sender, TakeMessage, MessageDone, NotReceiver, NextClip,
      SendCall, SendReturnsShort, SendAborts, Client, Network, ClientConnects,
      ClientWrites, ClientLeaves, ClientReads, ResetArrives, ServerUnchanged,
      senderVars

\* Whatever number of clients come and go while messages are on their way,
\* client_add's two stores are the only window in which a message goes to its
\* author, or in which send fails with nobody gone.
THEOREM StoreWindowCorrect == Spec => StoreWindow
<1>1. Init => MessageInv /\ SendInv
  <2>1. Init => MessageInv
    BY DEF Init, MessageInv
  <2>2. Init => SendInv
    BY DEF Init, SendInv
  <2>3. QED
    BY <2>1, <2>2
<1>2. TypeInv /\ TableInv /\ MessageInv /\ SendInv /\ [Next]_vars
        => MessageInv' /\ SendInv'
  <2>1. MessageInv /\ UNCHANGED vars => MessageInv'
    BY DEF MessageInv, Authored, NeverOverflowed, vars, tableVars, handlerVars,
           senderVars
  <2>2. SendInv /\ UNCHANGED vars => SendInv'
    BY DEF SendInv, InWindow, ConnOf, NeverOverflowed, vars, sockVars,
           tableVars, mainVars, handlerVars, senderVars
  <2>3. QED
    BY <2>1, <2>2, MessageStep, SendStep
<1>3. TypeInv /\ SendInv /\ [Next]_vars =>
        [NeverOverflowed /\ ~InWindow =>
           /\ SendCall => sconn' # smsg.chunk.from
           /\ SendAborts => \E c \in Conn : peer[c] \in Gone]_vars
  <2>1. ASSUME SendInv, NeverOverflowed, ~InWindow, SendCall
        PROVE  sconn' # smsg.chunk.from
    BY <2>1 DEF SendInv, SendCall
  <2>2. ASSUME TypeInv, SendInv, NeverOverflowed, ~InWindow, SendAborts
        PROVE  \E c \in Conn : peer[c] \in Gone
    <3>1. CASE spc = "send" /\ ConnOf(clients[si].fd) = NoConn
      BY <2>2, <3>1 DEF SendInv
    <3>2. CASE spc = "sending" /\ SendBroken(sconn)
      <4>1. sconn \in Conn /\ NoConn \notin Conn
        BY <2>2, <3>2, ConnAssumption DEF TypeInv, ControlInv
      <4>2. QED
        BY <3>2, <4>1 DEF SendBroken, Gone
    <3>3. QED
      BY <2>2, <3>1, <3>2 DEF SendAborts
  <2>3. QED
    BY <2>1, <2>2
<1>4. QED
  BY <1>1, <1>2, <1>3, TypeCorrect, TableCorrect, PTL DEF Spec, StoreWindow

-----------------------------------------------------------------------------
(* The order in which messages reach their readers. *)

LEMMA OrderedStep ==
  ASSUME TypeInv, OutboxOrdered, Next
  PROVE  OutboxOrdered'
<1>0. SockTypeOK
  BY DEF TypeInv, TypeOK
<1>1. ASSUME NEW c \in Conn, RecvChunk(c)
      PROVE  OutboxOrdered'
  <2>1. hconn[c] \in Conn /\ TakeChunk(hconn[c])
    BY <1>1 DEF RecvChunk, TakeChunk, HasData, TypeInv, TypeOK
  <2>2. QED
    BY <1>0, <2>1, TakeOrdered
<1>2. ASSUME NEW c \in Conn, ClientWrites(c)
      PROVE  OutboxOrdered'
  BY <1>0, <1>2, WriteOrdered DEF ClientWrites
<1>3. CASE UNCHANGED <<outbox, wrote>>
  BY <1>3 DEF OutboxOrdered
<1>4. QED
  BY <1>1, <1>2, <1>3
  DEF Next, Main, Handler, Accept, AcceptFails, ClientAddConnected,
      ClientAddFd, CheckCount, EnterRecv, Push, RecvEnd, ClientDestroy, Sender,
      TakeMessage, MessageDone, NotReceiver, StartSend, NextClip, SendCall,
      SendCopies, SendReturnsShort, SendAborts, SendTakes, Client, Network,
      ClientConnects, ClientLeaves, ClientReads, ResetArrives, AcceptAs,
      CloseFd, Connect, Leave, Read, Reset, sockVars

\* The chunk a thread pushes is the next that its client has not seen pushed.
LEMMA PushedByPush ==
  ASSUME TypeInv, QueueInv, NeverOverflowed, NEW c \in Conn, Push(c)
  PROVE  /\ \A d \in Conn : hpc'[d] = "push" => hchunk'[d].num = Taken(d)'
         /\ \A d \in Conn : Pushed(d)' >= Pushed(d)
         /\ hchunk[c].num = Pushed(c)' /\ Pushed(c)' > Pushed(c)
<1>0. /\ hpc \in [Conn -> HandlerState]
      /\ hchunk \in [Conn -> Chunk \cup {<<>>}]
  BY DEF TypeInv, TypeOK
<1>t. \A d \in Conn : Taken(d) \in Int
  BY SizeAssumption DEF TypeInv, TypeOK, SockTypeOK, Taken
<1>1. /\ hpc[c] = "push" /\ hpc'[c] = "enter"
      /\ \A d \in Conn : d # c => hpc'[d] = hpc[d] /\ hchunk'[d] = hchunk[d]
      /\ UNCHANGED <<outbox, wrote>>
  BY <1>0 DEF Push, sockVars
<1>2. \A d \in Conn : Taken(d)' = Taken(d)
  BY <1>1 DEF Taken
<1>3. \A d \in Conn : hpc[d] = "push" => hchunk[d].num = Taken(d)
  BY DEF QueueInv
<1> HIDE DEF Taken
<1>4. QED
  BY <1>t, <1>1, <1>2, <1>3 DEF Pushed

\* Pushed(c) counts upwards, and the chunk a thread is to push is the next.
LEMMA PushedStep ==
  ASSUME TypeInv, TableInv, QueueInv, Next, NeverOverflowed'
  PROVE  /\ \A d \in Conn : hpc'[d] = "push" => hchunk'[d].num = Taken(d)'
         /\ \A d \in Conn : Pushed(d)' >= Pushed(d)
<1>0. /\ SockTypeOK
      /\ hpc \in [Conn -> HandlerState]
      /\ hchunk \in [Conn -> Chunk \cup {<<>>}]
      /\ \A c \in Conn : hconn[c] \in Conn \cup {NoConn}
  BY DEF TypeInv, TypeOK
<1>t. \A d \in Conn : Taken(d) \in Int
  BY <1>0, SizeAssumption DEF SockTypeOK, Taken
<1>o. /\ NeverOverflowed
      /\ OutboxOrdered
      /\ \A d \in Conn : hpc[d] = "push" => hchunk[d].num = Taken(d)
  BY OverflowStep DEF TableInv, QueueInv
<1> DEFINE Goal == /\ \A d \in Conn : hpc'[d] = "push" => hchunk'[d].num = Taken(d)'
                   /\ \A d \in Conn : Pushed(d)' >= Pushed(d)
<1>1. ASSUME NEW c \in Conn, RecvChunk(c)
      PROVE  Goal
  <2>1. hpc[c] = "recv" /\ hconn[c] = c
    BY <1>o, <1>1 DEF RecvChunk, TableInv, OwnSlot, Alive
  <2>2. TakeChunk(c)
    BY <1>1, <2>1 DEF RecvChunk
  <2>3. /\ hpc'[c] = "push" /\ hchunk'[c] = Head(outbox[c])
        /\ \A d \in Conn : d # c => hpc'[d] = hpc[d] /\ hchunk'[d] = hchunk[d]
    BY <1>0, <1>1, <2>1 DEF RecvChunk
  <2>4. /\ hchunk'[c].num = Taken(c) + 1
        /\ Taken(c)' = Taken(c) + 1
        /\ \A d \in Conn : d # c => Taken(d)' = Taken(d)
    BY <1>0, <1>o, <2>2, <2>3, TakeOrdered DEF Taken
  <2> HIDE DEF Taken
  <2>5. QED
    BY <1>t, <1>o, <2>1, <2>3, <2>4 DEF Pushed
<1>2. ASSUME NEW c \in Conn, Push(c)
      PROVE  Goal
  BY <1>o, <1>2, PushedByPush
<1>3. ASSUME \A d \in Conn : Taken(d)' = Taken(d),
             \A d \in Conn : /\ hpc'[d] = "push" <=> hpc[d] = "push"
                             /\ hpc[d] = "push" => hchunk'[d] = hchunk[d]
      PROVE  Goal
  <2> HIDE DEF Taken
  <2>1. QED
    BY <1>t, <1>o, <1>3 DEF Pushed
<1>4. ASSUME NEW c \in Conn, ClientWrites(c)
      PROVE  Goal
  <2>1. \A d \in Conn : Taken(d)' = Taken(d)
    BY <1>0, <1>o, <1>4, WriteOrdered DEF ClientWrites, Taken
  <2>2. UNCHANGED <<hpc, hchunk>>
    BY <1>4 DEF ClientWrites, ServerUnchanged, handlerVars
  <2>3. QED
    BY <1>3, <2>1, <2>2
<1>5. ASSUME UNCHANGED <<outbox, wrote>>
      PROVE  \A d \in Conn : Taken(d)' = Taken(d)
  BY <1>5 DEF Taken
<1>6. ASSUME NEW c \in Conn, EnterRecv(c) \/ RecvEnd(c) \/ ClientDestroy(c)
      PROVE  Goal
  <2>1. /\ UNCHANGED <<outbox, wrote>>
        /\ \A d \in Conn : /\ hpc'[d] = "push" <=> hpc[d] = "push"
                           /\ hpc[d] = "push" => hchunk'[d] = hchunk[d]
    BY <1>0, <1>6 DEF EnterRecv, RecvEnd, ClientDestroy, CloseFd, sockVars
  <2>2. QED
    BY <1>3, <1>5, <2>1
<1>7. ASSUME ClientAddFd
      PROVE  Goal
  <2>1. hpc[mconn] = "none"
    BY <1>7 DEF ClientAddFd, TableInv, PendingInv
  <2>2. /\ UNCHANGED <<outbox, wrote>>
        /\ \A d \in Conn : /\ hpc'[d] = "push" <=> hpc[d] = "push"
                           /\ hpc[d] = "push" => hchunk'[d] = hchunk[d]
    BY <1>0, <1>7, <2>1 DEF ClientAddFd, sockVars
  <2>3. QED
    BY <1>3, <1>5, <2>2
<1>8. ASSUME UNCHANGED <<outbox, wrote, hpc, hchunk>>
      PROVE  Goal
  BY <1>3, <1>5, <1>8
<1> HIDE DEF Goal
<1>9. Goal
  <2>1. ASSUME Main
        PROVE  Goal
    BY <1>7, <1>8, <2>1 DEF Main, Accept, AcceptFails, ClientAddConnected,
       CheckCount, AcceptAs, sockVars, handlerVars
  <2>2. ASSUME Sender
        PROVE  Goal
    BY <1>8, <2>2 DEF Sender, TakeMessage, MessageDone, NotReceiver, StartSend,
       NextClip, SendCall, SendCopies, SendReturnsShort, SendAborts, SendTakes,
       sockVars, handlerVars
  <2>3. ASSUME NEW c \in Conn, Handler(c)
        PROVE  Goal
    BY <1>1, <1>2, <1>6, <2>3 DEF Handler
  <2>4. ASSUME NEW c \in Conn, Client(c) \/ Network(c)
        PROVE  Goal
    BY <1>4, <1>8, <2>4 DEF Client, Network, ClientConnects, ClientLeaves,
       ClientReads, ResetArrives, Connect, Leave, Read, Reset, ServerUnchanged,
       handlerVars
  <2>5. QED
    BY <2>1, <2>2, <2>3, <2>4 DEF Next
<1>10. QED
  BY <1>9 DEF Goal

\* What the queue, and what is being sent, is made of.
LEMMA QueueType ==
  ASSUME TypeInv
  PROVE  /\ message_queue \in Seq(Message)
         /\ \A j \in DOMAIN message_queue :
              /\ j \in Nat
              /\ message_queue[j] \in Message
              /\ Author(message_queue[j]) \in Conn
              /\ message_queue[j].chunk.num \in Int
         /\ spc # "idle" => /\ smsg \in Message
                            /\ Author(smsg) \in Conn
                            /\ smsg.chunk.num \in Int
         /\ \A c \in Conn : Pushed(c) \in Int /\ Taken(c) \in Int
<1>1. message_queue \in Seq(Message) /\ (spc # "idle" => smsg \in Message)
  BY DEF TypeInv, TypeOK, ControlInv
<1>2. \A m \in Message : Author(m) \in Conn /\ m.chunk.num \in Int
  BY DEF Message, Chunk, Author
<1>3. \A j \in DOMAIN message_queue : j \in Nat /\ message_queue[j] \in Message
  BY <1>1
<1>4. \A c \in Conn : Taken(c) \in Int
  BY SizeAssumption DEF TypeInv, TypeOK, SockTypeOK, Taken
<1>5. QED
  BY <1>1, <1>2, <1>3, <1>4 DEF Pushed

LEMMA PushedNext ==
  ASSUME TypeInv, Next
  PROVE  \A c \in Conn : Pushed(c)' \in Int
<1>1. TypeInv'
  BY TypeStep
<1>2. \A c \in Conn : Taken(c)' \in Int
  BY <1>1, SizeAssumption DEF TypeInv, TypeOK, SockTypeOK, Taken
<1>3. QED
  BY <1>2 DEF Pushed

\* Chunks enter the queue, and leave it, in the order of their numbers.
LEMMA QueueStep ==
  ASSUME TypeInv, TableInv, QueueInv, Next
  PROVE  QueueInv'
<1> DEFINE pushed == [d \in Conn |-> Pushed(d)']
           Below(m) == m.chunk.num <= pushed[Author(m)]
           After(m, q) == \A j \in DOMAIN q : Author(q[j]) = Author(m) =>
                            m.chunk.num < q[j].chunk.num
           Increasing(q) == \A i, j \in DOMAIN q :
                              i < j /\ Author(q[i]) = Author(q[j]) =>
                                q[i].chunk.num < q[j].chunk.num
<1>1. SUFFICES ASSUME NeverOverflowed'
               PROVE  /\ \A j \in DOMAIN message_queue' : Below(message_queue'[j])
                      /\ Increasing(message_queue')
                      /\ spc' # "idle" => Below(smsg') /\ After(smsg', message_queue')
  <2>1. OutboxOrdered'
    BY OrderedStep DEF QueueInv
  <2>2. NeverOverflowed' => \A d \in Conn : hpc'[d] = "push" => hchunk'[d].num = Taken(d)'
    BY PushedStep
  <2>3. TypeInv'
    BY TypeStep
  <2>4. /\ \A j \in DOMAIN message_queue' : Author(message_queue'[j]) \in Conn
        /\ spc' # "idle" => Author(smsg') \in Conn
    <3>1. message_queue' \in Seq(Message) /\ (spc' # "idle" => smsg' \in Message)
      BY <2>3 DEF TypeInv, TypeOK, ControlInv
    <3>2. \A m \in Message : Author(m) \in Conn
      BY DEF Message, Chunk, Author
    <3>3. \A j \in DOMAIN message_queue' : message_queue'[j] \in Message
      BY <3>1
    <3>4. QED
      BY <3>1, <3>2, <3>3
  <2> HIDE DEF Taken, Pushed, Author
  <2>5. (\A j \in DOMAIN message_queue' : Below(message_queue'[j])) =>
          (\A j \in DOMAIN message_queue :
             message_queue[j].chunk.num <= Pushed(Author(message_queue[j])))'
    BY <2>4
  <2>6. (spc' # "idle" => Below(smsg')) =>
          (spc # "idle" => smsg.chunk.num <= Pushed(Author(smsg)))'
    BY <2>4
  <2> HIDE DEF Below
  <2>7. QED
    BY <1>1, <2>1, <2>2, <2>5, <2>6 DEF QueueInv
<1>o. NeverOverflowed
  BY <1>1, OverflowStep DEF TableInv
<1>p. \A d \in Conn : Pushed(d)' \in Int /\ Pushed(d) \in Int /\ Pushed(d)' >= Pushed(d)
  <2>1. \A d \in Conn : Pushed(d)' >= Pushed(d)
    BY <1>1, PushedStep
  <2>2. QED
    BY <2>1, QueueType, PushedNext
<1>q. /\ \A j \in DOMAIN message_queue : Below(message_queue[j])
      /\ Increasing(message_queue)
      /\ spc # "idle" => Below(smsg) /\ After(smsg, message_queue)
  <2>1. /\ \A j \in DOMAIN message_queue :
             message_queue[j].chunk.num <= Pushed(Author(message_queue[j]))
        /\ spc # "idle" => smsg.chunk.num <= Pushed(Author(smsg))
        /\ Increasing(message_queue)
        /\ spc # "idle" => After(smsg, message_queue)
    BY <1>o DEF QueueInv
  <2> HIDE DEF Pushed
  <2>2. /\ \A j \in DOMAIN message_queue : Below(message_queue[j])
        /\ spc # "idle" => Below(smsg)
    BY <1>p, <2>1, QueueType
  <2>3. QED
    BY <2>1, <2>2
<1> HIDE DEF Below
<1>2. CASE TakeMessage
  <2>1. /\ message_queue # <<>> /\ smsg' = Head(message_queue)
        /\ message_queue' = Tail(message_queue)
    BY <1>2 DEF TakeMessage, HasMessage, NextMessage
  <2>2. /\ smsg' = message_queue[1] /\ 1 \in DOMAIN message_queue
        /\ \A i \in DOMAIN message_queue' :
             /\ i \in Nat /\ i + 1 \in DOMAIN message_queue /\ 1 < i + 1
             /\ message_queue'[i] = message_queue[i + 1]
    BY <2>1, QueueType, TailElements
  <2>3. \A i \in DOMAIN message_queue' : Below(message_queue'[i])
    BY <1>q, <2>2
  <2>4. Increasing(message_queue')
    <3>1. \A i, j \in DOMAIN message_queue' : i < j => i + 1 < j + 1
      BY <2>2
    <3>2. QED
      BY <1>q, <2>2, <3>1
  <2>5. Below(smsg') /\ After(smsg', message_queue')
    BY <1>q, <2>2
  <2>6. QED
    BY <2>3, <2>4, <2>5
<1>3. ASSUME NEW c \in Conn, Push(c)
      PROVE  /\ \A j \in DOMAIN message_queue' : Below(message_queue'[j])
             /\ Increasing(message_queue')
             /\ spc' # "idle" => Below(smsg') /\ After(smsg', message_queue')
  <2> DEFINE m == [sender_address |-> hslot[c], chunk |-> hchunk[c]]
  <2>1. /\ hpc[c] = "push"
        /\ message_queue' = Append(message_queue, m)
        /\ UNCHANGED <<spc, smsg>>
    BY <1>3 DEF Push, SenderAddress, senderVars
  <2>2. m \in Message
    BY <2>1 DEF TypeInv, TypeOK, ControlInv, Message
  <2>3. Author(m) = c /\ m.chunk = hchunk[c]
    BY <1>o, <2>1 DEF TableInv, OwnSlot, Alive, Author
  <2>4. m.chunk.num = Pushed(c)' /\ Pushed(c)' > Pushed(c)
    BY <1>o, <1>3, <2>3, PushedByPush
  <2> HIDE DEF m
  <2>5. Below(m)
    BY <1>p, <2>3, <2>4 DEF Below
  <2>6. /\ \A j \in DOMAIN message_queue : Author(message_queue[j]) = c =>
             message_queue[j].chunk.num < m.chunk.num
        /\ spc # "idle" /\ Author(smsg) = c => smsg.chunk.num < m.chunk.num
    <3>1. /\ \A j \in DOMAIN message_queue :
               message_queue[j].chunk.num <= Pushed(Author(message_queue[j]))
          /\ spc # "idle" => smsg.chunk.num <= Pushed(Author(smsg))
      BY <1>o DEF QueueInv
    <3> HIDE DEF Pushed
    <3>2. QED
      BY <1>p, <2>4, <3>1, QueueType
  <2>7. PICK n \in Nat :
          /\ DOMAIN message_queue' = DOMAIN message_queue \cup {n}
          /\ message_queue'[n] = m
          /\ \A i \in DOMAIN message_queue : message_queue'[i] = message_queue[i] /\ i < n
    <3>1. /\ DOMAIN message_queue' = DOMAIN message_queue \cup {Len(message_queue) + 1}
          /\ message_queue'[Len(message_queue) + 1] = m
          /\ \A i \in DOMAIN message_queue :
               message_queue'[i] = message_queue[i] /\ i < Len(message_queue) + 1
          /\ Len(message_queue) + 1 \in Nat
      BY <2>1, <2>2, QueueType
    <3>2. QED
      BY <3>1
  <2>8. \A j \in DOMAIN message_queue' : Below(message_queue'[j])
    BY <1>q, <2>5, <2>7
  <2>9. Increasing(message_queue')
    <3>1. \A i \in DOMAIN message_queue : ~(n < i) /\ ~(n < n)
      BY <2>7, QueueType
    <3>2. QED
      BY <1>q, <2>3, <2>6, <2>7, <3>1
  <2>10. spc' # "idle" => Below(smsg') /\ After(smsg', message_queue')
    BY <1>q, <2>1, <2>3, <2>6, <2>7
  <2>11. QED
    BY <2>8, <2>9, <2>10
<1>4. CASE /\ UNCHANGED message_queue
           /\ spc' = "idle" \/ (spc # "idle" /\ smsg' = smsg)
  BY <1>4, <1>q
<1>5. CASE UNCHANGED <<message_queue, spc, smsg>>
  BY <1>5, <1>q
<1> HIDE DEF Increasing, After
<1>6. QED
  BY <1>2, <1>3, <1>4, <1>5
  DEF Next, Main, Handler, Accept, AcceptFails, ClientAddConnected,
      ClientAddFd, CheckCount, EnterRecv, RecvChunk, RecvEnd, ClientDestroy,
      Sender, MessageDone, NotReceiver, StartSend, NextClip, SendCall,
      SendCopies, SendReturnsShort, SendAborts, Client, Network,
      ClientConnects, ClientWrites, ClientLeaves, ClientReads, ResetArrives,
      ServerUnchanged, senderVars

\* What one call of send does: it adds units to the client's inbox, or finds
\* that the client has closed.
LEMMA CopyStep ==
  ASSUME TypeInv, SendCopies
  PROVE  \E k \in 1..sleft, j \in stodo :
           /\ IsCurrentClip(j)
           /\ sleft' = sleft - k
           /\ IF k = sleft THEN spc' = "scan"
                           ELSE UNCHANGED <<spc, sconn>>
           /\ \A c \in Conn \ {sconn} : inbox'[c] = inbox[c] /\ peer'[c] = peer[c]
           /\ \/ /\ peer[sconn] = "open" /\ peer'[sconn] = "open"
                 /\ DOMAIN inbox'[sconn] = 1..Len(inbox[sconn]) + k
                 /\ Len(inbox'[sconn]) = Len(inbox[sconn]) + k
                 /\ \A i \in 1..Len(inbox[sconn]) : inbox'[sconn][i] = inbox[sconn][i]
                 /\ \A i \in 1..k : inbox'[sconn][Len(inbox[sconn]) + i] =
                      [from |-> Author(smsg), num |-> smsg.chunk.num, clip |-> j,
                       part |-> MsgLen - sleft + i]
              \/ /\ k = sleft
                 /\ inbox'[sconn] = inbox[sconn]
                 /\ peer[sconn] \in {"left", "doomed"} /\ peer'[sconn] = "doomed"
<1>1. PICK k \in 1..sleft, j \in stodo :
        /\ IsCurrentClip(j)
        /\ SendTakes(sconn, smsg.chunk, j, sleft, k)
        /\ sleft' = sleft - k
        /\ IF k = sleft
             THEN spc' = "scan" /\ si' = si + 1 /\ sconn' = NoConn /\ scopied' = FALSE
             ELSE scopied' = TRUE /\ UNCHANGED <<spc, si, sconn>>
  BY DEF SendCopies
<1>2. /\ sconn \in Conn /\ inbox[sconn] \in Seq(Unit)
      /\ inbox \in [Conn -> Seq(Unit)] /\ peer \in [Conn -> PeerState]
      /\ sleft \in Int /\ MsgLen \in Int /\ k \in Nat
  BY SizeAssumption DEF SendCopies, TypeInv, TypeOK, SockTypeOK, ControlInv
<1>3. \A c \in Conn \ {sconn} : inbox'[c] = inbox[c] /\ peer'[c] = peer[c]
  BY <1>1, <1>2 DEF SendTakes
<1>4. CASE /\ peer[sconn] \in {"left", "doomed"} /\ k = sleft
           /\ peer' = [peer EXCEPT ![sconn] = "doomed"] /\ UNCHANGED inbox
  BY <1>1, <1>2, <1>3, <1>4
<1>5. CASE /\ peer[sconn] = "open" /\ UNCHANGED peer
           /\ inbox' = [inbox EXCEPT ![sconn] =
                          @ \o Units(smsg.chunk, j, MsgLen - sleft + 1, k)]
  <2> DEFINE u(i) == [from |-> Author(smsg), num |-> smsg.chunk.num, clip |-> j,
                      part |-> MsgLen - sleft + i]
             new == Units(smsg.chunk, j, MsgLen - sleft + 1, k)
  <2>1. new \in Seq(Unit) /\ Len(new) = k /\ \A i \in 1..k : new[i] = u(i)
    <3>1. \A i \in 1..k : MsgLen - sleft + 1 + i - 1 = MsgLen - sleft + i
      BY <1>2
    <3>2. DOMAIN new = 1..k
      BY DEF Units
    <3>3. \A i \in 1..k : new[i] = u(i)
      BY <3>1 DEF Units, Author
    <3>4. new \in Seq(Unit)
      <4>1. ASSUME NEW i \in 1..k
            PROVE  u(i) \in Unit
        <5>1. Author(smsg) \in Conn /\ smsg.chunk.num \in Nat
          BY DEF SendCopies, TypeInv, ControlInv, Message, Chunk, Author
        <5>2. j \in Nat
          BY DEF TypeInv, TypeOK
        <5>3. MsgLen - sleft + i \in Nat
          BY <1>2 DEF TypeInv, TypeOK
        <5>4. QED
          BY <5>1, <5>2, <5>3 DEF Unit
      <4>2. new = [i \in 1..k |-> new[i]]
        BY DEF Units
      <4> HIDE DEF new, u
      <4>3. [i \in 1..k |-> u(i)] \in Seq(Unit)
        BY <1>2, <4>1
      <4>4. new = [i \in 1..k |-> u(i)]
        BY <3>3, <4>2
      <4>5. QED
        BY <4>3, <4>4
    <3> HIDE DEF new, u
    <3>5. Len(new) = k
      BY <1>2, <3>2, <3>4
    <3>6. QED
      BY <3>3, <3>4, <3>5
  <2>2. inbox'[sconn] = inbox[sconn] \o new
    BY <1>2, <1>5
  <2>3. DOMAIN new = 1..k
    BY DEF Units
  <2> HIDE DEF new, u
  <2>4. /\ Len(inbox'[sconn]) = Len(inbox[sconn]) + k
        /\ DOMAIN inbox'[sconn] = 1..Len(inbox[sconn]) + k
        /\ \A i \in 1..Len(inbox[sconn]) : inbox'[sconn][i] = inbox[sconn][i]
        /\ \A i \in 1..k : inbox'[sconn][Len(inbox[sconn]) + i] = new[i]
    <3>1. inbox[sconn] \in Seq(Unit) /\ new \in Seq(Unit)
      BY <1>2, <2>1
    <3>2. /\ Len(inbox[sconn] \o new) = Len(inbox[sconn]) + Len(new)
          /\ DOMAIN (inbox[sconn] \o new) = 1..Len(inbox[sconn]) + Len(new)
          /\ \A i \in 1..Len(inbox[sconn]) : (inbox[sconn] \o new)[i] = inbox[sconn][i]
          /\ \A i \in 1..Len(new) : (inbox[sconn] \o new)[Len(inbox[sconn]) + i] = new[i]
      BY <3>1, ConcatElements
    <3>3. QED
      BY <2>1, <2>2, <3>2
  <2>5. QED
    BY <1>1, <1>3, <1>5, <2>1, <2>4 DEF u
<1>6. QED
  BY <1>1, <1>4, <1>5 DEF SendTakes

\* What a client has heard stays behind what is queued and being sent.
LEMMA HeardStep ==
  ASSUME TypeInv, TableInv, QueueInv, HeardInv, Next
  PROVE  HeardInv'
<1> DEFINE pushed == [d \in Conn |-> Pushed(d)']
           Earlier(u) ==
             /\ u.num <= pushed[u.from]
             /\ \A j \in DOMAIN message_queue' :
                  Author(message_queue'[j]) = u.from => u.num < message_queue'[j].chunk.num
             /\ spc' # "idle" /\ Author(smsg') = u.from =>
                  \/ u.num < smsg'.chunk.num
                  \/ u.num = smsg'.chunk.num /\ \A k \in stodo' : u.clip <= k
<1>0. /\ inbox \in [Conn -> Seq(Unit)] /\ inbox' \in [Conn -> Seq(Unit)]
      /\ \A u \in Unit : u.from \in Conn /\ u.num \in Int /\ u.clip \in Int
  <2>1. TypeInv'
    BY TypeStep
  <2>2. inbox \in [Conn -> Seq(Unit)] /\ inbox' \in [Conn -> Seq(Unit)]
    <3> HIDE DEF Earlier, pushed
    <3>1. QED
      BY <2>1 DEF TypeInv, TypeOK, SockTypeOK
  <2>3. \A u \in Unit : u.from \in Conn /\ u.num \in Int /\ u.clip \in Int
    BY DEF Unit
  <2>4. QED
    BY <2>2, <2>3
<1>1. SUFFICES ASSUME NeverOverflowed',
                      NEW c \in Conn, NEW i \in DOMAIN inbox'[c]
               PROVE  Earlier(inbox'[c][i])
  <2>1. \A c \in Conn : \A i \in DOMAIN inbox'[c] : inbox'[c][i].from \in Conn
    <3>1. \A c \in Conn : inbox'[c] \in Seq(Unit)
      BY <1>0
    <3>2. QED
      BY <1>0, <3>1
  <2> HIDE DEF Pushed, Author
  <2>2. ASSUME NEW c \in Conn, NEW i \in DOMAIN inbox'[c], Earlier(inbox'[c][i])
        PROVE  Behind(inbox[c][i])'
    BY <2>1, <2>2 DEF Behind
  <2>3. QED
    BY <1>1, <2>2 DEF HeardInv
<1>o. NeverOverflowed
  BY <1>1, OverflowStep DEF TableInv
<1>p. \A d \in Conn : pushed[d] \in Int /\ Pushed(d) \in Int /\ pushed[d] >= Pushed(d)
  <2>1. \A d \in Conn : Pushed(d)' >= Pushed(d)
    BY <1>1, PushedStep
  <2>2. QED
    BY <2>1, QueueType, PushedNext
<1> HIDE DEF pushed
\* A unit that was behind stays behind.
<1>2. ASSUME NEW u \in Unit, Behind(u)
      PROVE  Earlier(u)
  <2>0. u.from \in Conn /\ u.num \in Int /\ u.clip \in Int
    BY <1>0
  <2>1. /\ u.num <= pushed[u.from]
        /\ \A j \in DOMAIN message_queue :
             Author(message_queue[j]) = u.from => u.num < message_queue[j].chunk.num
        /\ spc # "idle" /\ Author(smsg) = u.from =>
             \/ u.num < smsg.chunk.num
             \/ u.num = smsg.chunk.num /\ \A k \in stodo : u.clip <= k
    <3> HIDE DEF Pushed, Author
    <3>1. u.num <= Pushed(u.from)
      BY <1>2 DEF Behind
    <3>2. u.num <= pushed[u.from]
      BY <1>p, <2>0, <3>1
    <3>3. QED
      BY <1>2, <3>2 DEF Behind
  <2>2. CASE TakeMessage
    <3>1. /\ message_queue # <<>> /\ smsg' = Head(message_queue)
          /\ message_queue' = Tail(message_queue)
      BY <2>2 DEF TakeMessage, HasMessage, NextMessage
    <3>2. /\ smsg' = message_queue[1] /\ 1 \in DOMAIN message_queue
          /\ \A l \in DOMAIN message_queue' :
               /\ l + 1 \in DOMAIN message_queue
               /\ message_queue'[l] = message_queue[l + 1]
      BY <3>1, QueueType, TailElements
    <3>3. QED
      BY <2>1, <3>2
  <2>3. ASSUME NEW d \in Conn, Push(d)
        PROVE  Earlier(u)
    <3> DEFINE m == [sender_address |-> hslot[d], chunk |-> hchunk[d]]
    <3>1. /\ hpc[d] = "push"
          /\ message_queue' = Append(message_queue, m)
          /\ UNCHANGED <<spc, smsg, stodo>>
      BY <2>3 DEF Push, SenderAddress, senderVars
    <3>2. m \in Message
      BY <3>1 DEF TypeInv, TypeOK, ControlInv, Message
    <3>3. Author(m) = d /\ m.chunk = hchunk[d]
      BY <1>o, <3>1 DEF TableInv, OwnSlot, Alive, Author
    <3>4. m.chunk.num = pushed[d] /\ pushed[d] > Pushed(d)
      BY <1>o, <2>3, <3>3, PushedByPush DEF pushed
    <3> HIDE DEF m
    <3>5. u.from = d => u.num < m.chunk.num
      <4> HIDE DEF Pushed
      <4>1. u.num <= Pushed(u.from)
        BY <1>2 DEF Behind
      <4>2. QED
        BY <1>p, <2>0, <3>4, <4>1
    <3>6. PICK n \in Nat : /\ DOMAIN message_queue' = DOMAIN message_queue \cup {n}
                           /\ message_queue'[n] = m
                           /\ \A l \in DOMAIN message_queue :
                                message_queue'[l] = message_queue[l]
      BY <3>1, <3>2, QueueType, AppendElements
    <3>7. \A l \in DOMAIN message_queue' :
            Author(message_queue'[l]) = u.from => u.num < message_queue'[l].chunk.num
      BY <2>1, <3>3, <3>5, <3>6
    <3>8. QED
      BY <2>1, <3>1, <3>7
  <2>4. ASSUME UNCHANGED message_queue,
               spc' = "idle" \/ (spc # "idle" /\ smsg' = smsg /\ stodo' \subseteq stodo)
        PROVE  Earlier(u)
    BY <2>1, <2>4
  <2>5. ASSUME UNCHANGED <<message_queue, spc, smsg, stodo>>
        PROVE  Earlier(u)
    BY <2>1, <2>5
  <2> HIDE DEF Earlier
  <2>6. ASSUME Main
        PROVE  Earlier(u)
    BY <2>5, <2>6 DEF Main, Accept, AcceptFails, ClientAddConnected,
       ClientAddFd, CheckCount, senderVars
  <2>7. ASSUME Sender
        PROVE  Earlier(u)
    BY <2>2, <2>4, <2>7 DEF Sender, MessageDone, NotReceiver, StartSend,
       NextClip, SendCall, SendCopies, SendReturnsShort, SendAborts, senderVars
  <2>8. ASSUME NEW d \in Conn, Handler(d) \/ Client(d) \/ Network(d)
        PROVE  Earlier(u)
    BY <2>3, <2>5, <2>8 DEF Handler, EnterRecv, RecvChunk, RecvEnd,
       ClientDestroy, Client, Network, ClientConnects, ClientWrites,
       ClientLeaves, ClientReads, ResetArrives, ServerUnchanged, senderVars
  <2>9. QED
    BY <2>6, <2>7, <2>8 DEF Next
<1>3. ASSUME i \in DOMAIN inbox[c], inbox'[c][i] = inbox[c][i]
      PROVE  Earlier(inbox'[c][i])
  <2>1. inbox[c][i] \in Unit /\ Behind(inbox[c][i])
    BY <1>0, <1>o, <1>3 DEF HeardInv
  <2> HIDE DEF Earlier
  <2>2. QED
    BY <1>2, <1>3, <2>1
\* The units that send adds are those of the message being sent.
<1>4. CASE SendCopies
  <2>0. /\ spc = "sending" /\ UNCHANGED <<message_queue, smsg, stodo>>
        /\ Author(smsg) \in Conn /\ smsg.chunk.num \in Int
    BY <1>4, QueueType DEF SendCopies
  <2>1. PICK k \in 1..sleft, j \in stodo :
          /\ IsCurrentClip(j)
          /\ \A d \in Conn \ {sconn} : inbox'[d] = inbox[d]
          /\ \/ /\ DOMAIN inbox'[sconn] = 1..Len(inbox[sconn]) + k
                /\ \A l \in 1..Len(inbox[sconn]) : inbox'[sconn][l] = inbox[sconn][l]
                /\ \A l \in 1..k : inbox'[sconn][Len(inbox[sconn]) + l] =
                     [from |-> Author(smsg), num |-> smsg.chunk.num, clip |-> j,
                      part |-> MsgLen - sleft + l]
             \/ inbox'[sconn] = inbox[sconn]
    BY <1>4, CopyStep
  <2>2. CASE i \in DOMAIN inbox[c] /\ inbox'[c][i] = inbox[c][i]
    BY <1>3, <2>2
  <2>3. CASE ~(i \in DOMAIN inbox[c] /\ inbox'[c][i] = inbox[c][i])
    <3>1. PICK o \in 1..k : inbox'[c][i] =
            [from |-> Author(smsg), num |-> smsg.chunk.num, clip |-> j,
             part |-> MsgLen - sleft + o]
      <4>1. c = sconn /\ inbox[c] \in Seq(Unit) /\ DOMAIN inbox[c] = 1..Len(inbox[c])
        BY <1>0, <2>1, <2>3
      <4>2. DOMAIN inbox'[c] = 1..Len(inbox[c]) + k
        BY <2>1, <2>3, <4>1
      <4>3. ~(i \in 1..Len(inbox[c])) /\ i \in 1..Len(inbox[c]) + k
        BY <2>1, <2>3, <4>1, <4>2
      <4>4. i - Len(inbox[c]) \in 1..k /\ Len(inbox[c]) + (i - Len(inbox[c])) = i
        BY <4>1, <4>3
      <4>5. QED
        BY <2>1, <2>3, <4>1, <4>4
    <3> DEFINE u == inbox'[c][i]
    <3>2. u.from = Author(smsg) /\ u.num = smsg.chunk.num /\ u.clip = j
      BY <3>1
    <3> HIDE DEF u
    <3>3. /\ u.num <= pushed[u.from]
          /\ \A l \in DOMAIN message_queue :
               Author(message_queue[l]) = u.from => u.num < message_queue[l].chunk.num
      <4> HIDE DEF Pushed, Author
      <4>1. smsg.chunk.num <= Pushed(Author(smsg))
        BY <1>o, <2>0 DEF QueueInv
      <4>2. smsg.chunk.num <= pushed[Author(smsg)]
        BY <1>p, <2>0, <4>1
      <4>3. QED
        BY <1>o, <2>0, <3>2, <4>2 DEF QueueInv
    <3>4. \A l \in stodo : u.clip <= l
      BY <2>1, <3>2 DEF IsCurrentClip
    <3>5. Earlier(u)
      BY <2>0, <3>2, <3>3, <3>4
    <3>6. QED
      BY <3>5 DEF u
  <2>4. QED
    BY <2>2, <2>3
<1>5. CASE UNCHANGED inbox
  BY <1>3, <1>5
<1> HIDE DEF Earlier
<1>6. QED
  BY <1>4, <1>5
  DEF Next, Main, Handler, Accept, AcceptFails, ClientAddConnected,
      ClientAddFd, CheckCount, EnterRecv, RecvChunk, Push, RecvEnd,
      ClientDestroy, Sender, TakeMessage, MessageDone, NotReceiver, StartSend,
      NextClip, SendCall, SendReturnsShort, SendAborts, Client, Network,
      ClientConnects, ClientWrites, ClientLeaves, ClientReads, ResetArrives,
      AcceptAs, TakeChunk, CloseFd, Connect, Write, Leave, Read, Reset, sockVars

\* A connection once made is never new again, and once reset stays so.
LEMMA PeerStep ==
  ASSUME TypeInv, Next
  PROVE  \A c \in Conn : /\ peer'[c] = "new" => peer[c] = "new"
                         /\ peer[c] = "reset" => peer'[c] = "reset"
                         /\ peer'[c] = "open" => peer[c] \in {"new", "open"}
<1>0. peer \in [Conn -> PeerState]
  BY DEF TypeInv, TypeOK, SockTypeOK
<1> DEFINE Later(c) == /\ peer'[c] = "new" => peer[c] = "new"
                       /\ peer[c] = "reset" => peer'[c] = "reset"
                       /\ peer'[c] = "open" => peer[c] \in {"new", "open"}
<1>1. CASE UNCHANGED peer
  BY <1>1
<1>2. ASSUME NEW c \in Conn, ClientConnects(c) \/ ClientLeaves(c) \/ ResetArrives(c)
      PROVE  \A d \in Conn : Later(d)
  BY <1>0, <1>2 DEF ClientConnects, ClientLeaves, ResetArrives, Connect, Leave,
                    Reset
<1>3. CASE SendCopies
  <2>1. sconn \in Conn
    BY <1>3 DEF SendCopies, TypeInv, ControlInv
  <2>2. UNCHANGED peer \/ (peer[sconn] \in {"left", "doomed"}
                           /\ peer' = [peer EXCEPT ![sconn] = "doomed"])
    BY <1>3 DEF SendCopies, SendTakes
  <2>3. QED
    BY <1>0, <2>1, <2>2
<1>4. QED
  BY <1>1, <1>2, <1>3
  DEF Next, Main, Handler, Accept, AcceptFails, ClientAddConnected,
      ClientAddFd, CheckCount, EnterRecv, RecvChunk, Push, RecvEnd,
      ClientDestroy, Sender, TakeMessage, MessageDone, NotReceiver, StartSend,
      NextClip, SendCall, SendReturnsShort, SendAborts, Client, Network,
      ClientWrites, ClientReads, AcceptAs, TakeChunk, CloseFd, Write, Read,
      sockVars

\* Only send gives a client anything to read.
LEMMA InboxStep ==
  ASSUME Next
  PROVE  UNCHANGED inbox \/ SendCopies
BY DEF Next, Main, Handler, Accept, AcceptFails, ClientAddConnected,
       ClientAddFd, CheckCount, EnterRecv, RecvChunk, Push, RecvEnd,
       ClientDestroy, Sender, TakeMessage, MessageDone, NotReceiver, StartSend,
       NextClip, SendCall, SendReturnsShort, SendAborts, Client, Network,
       ClientConnects, ClientWrites, ClientLeaves, ClientReads, ResetArrives,
       AcceptAs, TakeChunk, CloseFd, Connect, Write, Leave, Read, Reset, sockVars

\* What becomes of the sending thread.
LEMMA SenderMoves ==
  ASSUME TypeInv, Next
  PROVE  \/ UNCHANGED <<spc, smsg, stodo, sleft, sconn>>
         \/ spc # "sending" /\ spc' \notin {"send", "sending"}
         \/ StartSend \/ SendCall \/ SendCopies \/ SendReturnsShort
BY DEF Next, Main, Handler, Accept, AcceptFails, ClientAddConnected,
       ClientAddFd, CheckCount, EnterRecv, RecvChunk, Push, RecvEnd,
       ClientDestroy, Sender, TakeMessage, MessageDone, NotReceiver, NextClip,
       SendAborts, Client, Network, ClientConnects, ClientWrites, ClientLeaves,
       ClientReads, ResetArrives, ServerUnchanged, senderVars

LEMMA FreshStep ==
  ASSUME TypeInv, TableInv, FreshInv, Next
  PROVE  FreshInv'
<1> SUFFICES ASSUME NEW c \in Conn, peer'[c] = "new"
             PROVE  inbox'[c] = <<>> /\ (spc' = "sending" => sconn' # c)
  BY DEF FreshInv
<1>1. peer[c] = "new" /\ inbox[c] = <<>> /\ (spc = "sending" => sconn # c)
  BY PeerStep DEF FreshInv
<1>2. CASE SendCopies
  <2>1. spc = "sending" /\ sconn # c
    BY <1>1, <1>2 DEF SendCopies
  <2>2. inbox'[c] = inbox[c] /\ (spc' = "scan" \/ UNCHANGED sconn)
    BY <1>2, <2>1, CopyStep
  <2>3. QED
    BY <1>1, <2>1, <2>2
<1>3. CASE UNCHANGED inbox /\ (spc' = "sending" => UNCHANGED <<spc, sconn>>)
  BY <1>1, <1>3
<1>4. CASE SendCall
  <2>1. sconn' \in Conn => peer[sconn'] # "new"
    BY <1>4, ConnAssumption DEF SendCall, ConnOf, TableInv, FdInv
  <2>2. UNCHANGED inbox
    BY <1>4 DEF SendCall, sockVars
  <2>3. QED
    BY <1>1, <2>1, <2>2
<1>5. CASE StartSend \/ SendReturnsShort
  <2>1. spc' = "send" /\ UNCHANGED inbox
    BY <1>5 DEF StartSend, SendReturnsShort, sockVars
  <2>2. QED
    BY <1>1, <2>1
<1>6. QED
  BY <1>2, <1>3, <1>4, <1>5, InboxStep, SenderMoves

\* Messages are sent whole: only the one in hand is in part.
LEMMA PieceStep ==
  ASSUME TypeInv, TableInv, FreshInv, PieceInv, Next
  PROVE  PieceInv'
<1> DEFINE Whole(c) == peer'[c] = "open" =>
                         IF InPart(c)'
                           THEN /\ inbox'[c] # <<>>
                                /\ \A j \in stodo' : IsCurrentClip(j)' =>
                                     LastUnit(c)' = [from |-> Author(smsg)', num |-> smsg'.chunk.num,
                                                     clip |-> j, part |-> MsgLen - sleft']
                           ELSE inbox'[c] # <<>> => LastUnit(c)'.part = MsgLen
<1>0. SUFFICES ASSUME NeverOverflowed', NoReset'
               PROVE  (spc' = "send" => sleft' = MsgLen) /\ \A c \in Conn : Whole(c)
  BY DEF PieceInv
<1>1. NeverOverflowed /\ NoReset
  <2>1. NoReset
    BY <1>0, PeerStep DEF NoReset
  <2>2. QED
    BY <1>0, <2>1, OverflowStep DEF TableInv
<1>2. /\ spc = "send" => sleft = MsgLen
      /\ \A c \in Conn : peer[c] = "open" =>
           IF InPart(c)
             THEN /\ inbox[c] # <<>>
                  /\ \A j \in stodo : IsCurrentClip(j) =>
                       LastUnit(c) = [from |-> Author(smsg), num |-> smsg.chunk.num,
                                      clip |-> j, part |-> MsgLen - sleft]
             ELSE inbox[c] # <<>> => LastUnit(c).part = MsgLen
  BY <1>1 DEF PieceInv
\* A connection just made has had nothing sent to it.
<1>3. ASSUME UNCHANGED inbox,
             \A c \in Conn : InPart(c)' => InPart(c) /\ UNCHANGED <<smsg, stodo, sleft>>,
             \A c \in Conn : InPart(c) => InPart(c)'
      PROVE  \A c \in Conn : Whole(c)
  <2> SUFFICES ASSUME NEW c \in Conn, peer'[c] = "open"
               PROVE  Whole(c)
    OBVIOUS
  <2>1. CASE peer[c] = "open"
    BY <1>2, <1>3, <2>1 DEF LastUnit, Author, IsCurrentClip
  <2>2. CASE peer[c] = "new"
    <3>1. inbox'[c] = <<>> /\ ~InPart(c)'
      BY <1>3, <2>2 DEF FreshInv, InPart
    <3>2. QED
      BY <3>1
  <2>3. QED
    BY <2>1, <2>2, PeerStep
<1>4. CASE SendCopies
  <2>0. /\ spc = "sending" /\ sconn \in Conn /\ sleft \in Int /\ MsgLen \in Int
        /\ sleft <= MsgLen /\ UNCHANGED <<smsg, stodo>>
        /\ \A j \in stodo : j \in Int
    BY <1>4, SizeAssumption DEF SendCopies, TypeInv, TypeOK, ControlInv
  <2>1. PICK k \in 1..sleft, j \in stodo :
           /\ IsCurrentClip(j)
           /\ sleft' = sleft - k
           /\ IF k = sleft THEN spc' = "scan"
                           ELSE UNCHANGED <<spc, sconn>>
           /\ \A c \in Conn \ {sconn} : inbox'[c] = inbox[c] /\ peer'[c] = peer[c]
           /\ \/ /\ peer[sconn] = "open" /\ peer'[sconn] = "open"
                 /\ DOMAIN inbox'[sconn] = 1..Len(inbox[sconn]) + k
                 /\ Len(inbox'[sconn]) = Len(inbox[sconn]) + k
                 /\ \A i \in 1..Len(inbox[sconn]) : inbox'[sconn][i] = inbox[sconn][i]
                 /\ \A i \in 1..k : inbox'[sconn][Len(inbox[sconn]) + i] =
                      [from |-> Author(smsg), num |-> smsg.chunk.num, clip |-> j,
                       part |-> MsgLen - sleft + i]
              \/ /\ k = sleft
                 /\ inbox'[sconn] = inbox[sconn]
                 /\ peer[sconn] \in {"left", "doomed"} /\ peer'[sconn] = "doomed"
    BY <1>4, CopyStep
  <2>2. ASSUME NEW c \in Conn \ {sconn}
        PROVE  Whole(c)
    <3>1. ~InPart(c) /\ ~InPart(c)'
      BY <2>0, <2>1, <2>2 DEF InPart
    <3>2. peer'[c] = peer[c] /\ inbox'[c] = inbox[c]
      BY <2>1, <2>2
    <3>3. QED
      BY <1>2, <3>1, <3>2 DEF LastUnit
  <2>3. ASSUME NEW c \in Conn, c = sconn, peer'[c] = "open"
        PROVE  Whole(c)
    <3>0. /\ Len(inbox[c]) \in Nat /\ k \in 1..k
          /\ Len(inbox'[c]) = Len(inbox[c]) + k
          /\ DOMAIN inbox'[c] = 1..Len(inbox[c]) + k
          /\ \A i \in 1..k : inbox'[c][Len(inbox[c]) + i] =
               [from |-> Author(smsg), num |-> smsg.chunk.num, clip |-> j,
                part |-> MsgLen - sleft + i]
      <4>1. inbox[c] \in Seq(Unit) /\ k \in 1..k
        BY <2>0, <2>3 DEF TypeInv, TypeOK, SockTypeOK
      <4>2. QED
        BY <2>1, <2>3, <4>1
    <3>1. LastUnit(c)' = [from |-> Author(smsg), num |-> smsg.chunk.num, clip |-> j,
                              part |-> MsgLen - sleft + k]
      BY <2>0, <2>1, <3>0 DEF LastUnit
    <3>2. inbox'[c] # <<>>
      <4>1. 1 \in DOMAIN inbox'[c]
        BY <3>0
      <4>2. QED
        BY <4>1
    <3>3. CASE k = sleft
      <4>1. ~InPart(c)' /\ MsgLen - sleft + k = MsgLen
        BY <2>0, <2>1, <2>3, <3>3 DEF InPart
      <4>2. QED
        BY <3>1, <4>1
    <3>4. CASE k # sleft
      <4>1. \A l \in stodo' : IsCurrentClip(l)' => l = j
        BY <2>0, <2>1 DEF IsCurrentClip
      <4>2. /\ MsgLen - sleft + k = MsgLen - sleft' /\ sleft' # MsgLen
            /\ spc' = "sending" /\ sconn' = c
        BY <2>0, <2>1, <2>3, <3>4
      <4>3. InPart(c)' /\ Author(smsg)' = Author(smsg)
        BY <2>0, <4>2 DEF InPart, Author
      <4>4. QED
        BY <2>0, <3>1, <3>2, <4>1, <4>2, <4>3
    <3>5. QED
      BY <3>3, <3>4
  <2>4. spc' # "send"
    BY <2>0, <2>1
  <2> HIDE DEF Whole
  <2>5. \A c \in Conn : Whole(c)
    BY <2>0, <2>2, <2>3 DEF Whole
  <2>6. QED
    BY <2>4, <2>5
<1>5. CASE UNCHANGED <<inbox, spc, smsg, stodo, sleft, sconn>>
  <2>1. \A c \in Conn : Whole(c)
    BY <1>3, <1>5 DEF InPart
  <2> HIDE DEF Whole
  <2>2. QED
    BY <1>2, <1>5, <2>1
<1>6. ASSUME UNCHANGED inbox, spc # "sending", spc' # "sending" \/ sleft' = MsgLen
      PROVE  \A c \in Conn : Whole(c)
  <2>1. \A c \in Conn : ~InPart(c) /\ ~InPart(c)'
    BY <1>6 DEF InPart
  <2>2. QED
    BY <1>3, <1>6, <2>1
<1> HIDE DEF Whole
<1>7. CASE UNCHANGED inbox /\ spc # "sending" /\ spc' \notin {"send", "sending"}
  BY <1>6, <1>7
<1>8. CASE StartSend
  <2>1. UNCHANGED inbox /\ spc = "scan" /\ spc' = "send" /\ sleft' = MsgLen
    BY <1>8 DEF StartSend, sockVars
  <2>2. QED
    BY <1>6, <2>1
<1>9. CASE SendCall
  <2>1. UNCHANGED <<inbox, sleft>> /\ spc = "send" /\ spc' = "sending"
    BY <1>9 DEF SendCall, sockVars
  <2>2. QED
    BY <1>2, <1>6, <2>1
<1>10. ~SendReturnsShort
  BY <1>1 DEF SendReturnsShort, TypeInv, ControlInv, NoReset
<1>11. QED
  BY <1>4, <1>5, <1>7, <1>8, <1>9, <1>10, InboxStep, SenderMoves

\* What a call of send adds follows what its reader has heard.
LEMMA DeliveryStep ==
  ASSUME TypeInv, TableInv, HeardInv, PieceInv, OrderedDelivery, Next
  PROVE  OrderedDelivery'
<1> DEFINE InOrder(s) == \A i, l \in DOMAIN s : i < l => NotOlder(s[i], s[l])
           StartsWhole(s) == \A i \in DOMAIN s :
                               Starts(s[i]) => i = 1 \/ s[i - 1].part = MsgLen
           Continues(s) == \A i \in DOMAIN s :
             ~Starts(s[i]) => i > 1 /\ s[i] = [s[i - 1] EXCEPT !.part = @ + 1]
<1>0. SUFFICES ASSUME NeverOverflowed', NEW c \in Conn
               PROVE  /\ InOrder(inbox'[c])
                      /\ NoReset' => StartsWhole(inbox'[c]) /\ Continues(inbox'[c])
  BY DEF OrderedDelivery, NoReset
<1>1. NeverOverflowed /\ (NoReset' => NoReset)
  <2>1. NoReset' => NoReset
    BY PeerStep DEF NoReset
  <2>2. QED
    BY <1>0, <2>1, OverflowStep DEF TableInv
<1>2. /\ InOrder(inbox[c])
      /\ NoReset => StartsWhole(inbox[c]) /\ Continues(inbox[c])
  BY <1>1 DEF OrderedDelivery, NoReset
<1>3. CASE inbox'[c] = inbox[c]
  BY <1>1, <1>2, <1>3
<1>4. CASE SendCopies /\ inbox'[c] # inbox[c]
  <2>0. /\ spc = "sending" /\ sconn \in Conn /\ sleft \in Int /\ MsgLen \in Int
        /\ sleft <= MsgLen /\ inbox[c] \in Seq(Unit)
        /\ smsg.chunk.num \in Nat
    <3>1. smsg \in Message
      BY <1>4 DEF SendCopies, TypeInv, ControlInv
    <3>2. smsg.chunk.num \in Nat
      BY <3>1 DEF Message, Chunk
    <3>3. QED
      BY <1>4, <3>2, SizeAssumption DEF SendCopies, TypeInv, TypeOK, SockTypeOK, ControlInv
  <2>1. PICK k \in 1..sleft, j \in stodo :
           /\ IsCurrentClip(j)
           /\ peer[c] = "open" /\ c = sconn
           /\ DOMAIN inbox'[c] = 1..Len(inbox[c]) + k
           /\ \A i \in 1..Len(inbox[c]) : inbox'[c][i] = inbox[c][i]
           /\ \A i \in 1..k : inbox'[c][Len(inbox[c]) + i] =
                [from |-> Author(smsg), num |-> smsg.chunk.num, clip |-> j,
                 part |-> MsgLen - sleft + i]
    BY <1>4, CopyStep
  <2> DEFINE n == Len(inbox[c])
             s == inbox[c]
             t == inbox'[c]
             u(i) == [from |-> Author(smsg), num |-> smsg.chunk.num, clip |-> j,
                      part |-> MsgLen - sleft + i]
  <2>2. /\ n \in Nat /\ k \in Nat /\ k >= 1 /\ j \in Nat
        /\ DOMAIN s = 1..n /\ DOMAIN t = 1..n + k
        /\ \A i \in 1..n : t[i] = s[i] /\ s[i] \in Unit
        /\ \A i \in 1..k : t[n + i] = u(i)
    <3>1. j \in Nat
      BY DEF TypeInv, TypeOK
    <3>2. n \in Nat /\ DOMAIN s = 1..n /\ \A i \in 1..n : s[i] \in Unit
      BY <2>0
    <3>3. QED
      BY <2>0, <2>1, <3>1, <3>2
  <2>3. \A i \in 1..n : NotOlder(s[i], u(1))
    <3>1. \A i \in 1..n : Behind(s[i])
      BY <1>1, <2>2 DEF HeardInv
    <3>2. \A k1 \in stodo : j <= k1
      BY <2>1 DEF IsCurrentClip
    <3>3. QED
      BY <2>0, <2>1, <3>1 DEF Behind, NotOlder, Author
  <2>4. \A i, l \in 1..k : NotOlder(u(i), u(l)) /\ (NotOlder(s[i], u(1)) => NotOlder(s[i], u(l)))
    BY <2>2 DEF NotOlder
  <2>p. ASSUME NEW i \in 1..n + k, ~(i \in 1..n)
        PROVE  i - n \in 1..k /\ t[i] = u(i - n)
    <3>1. i - n \in 1..k /\ n + (i - n) = i
      BY <2>2, <2>p
    <3>2. QED
      BY <2>2, <3>1
  <2>5. InOrder(t)
    <3> SUFFICES ASSUME NEW i \in 1..n + k, NEW l \in 1..n + k, i < l
                 PROVE  NotOlder(t[i], t[l])
      BY <2>2
    <3>1. CASE l \in 1..n
      <4>1. i \in 1..n
        BY <2>2, <3>1
      <4>2. QED
        BY <1>2, <2>2, <3>1, <4>1
    <3>2. CASE i \in 1..n /\ ~(l \in 1..n)
      <4>1. l - n \in 1..k /\ t[l] = u(l - n) /\ 1 \in 1..k
        BY <2>2, <2>p, <3>2
      <4>2. NotOlder(s[i], u(1)) => NotOlder(s[i], u(l - n))
        BY <4>1 DEF NotOlder
      <4>3. QED
        BY <2>2, <2>3, <3>2, <4>1, <4>2
    <3>3. CASE ~(i \in 1..n) /\ ~(l \in 1..n)
      BY <2>4, <2>p, <3>3
    <3>4. QED
      BY <3>1, <3>2, <3>3
  <2>6. ASSUME NoReset'
        PROVE  StartsWhole(t) /\ Continues(t)
    <3>0. StartsWhole(s) /\ Continues(s)
      BY <1>1, <1>2, <2>6
    <3> SUFFICES ASSUME NEW i \in 1..n + k
                 PROVE  /\ Starts(t[i]) => i = 1 \/ t[i - 1].part = MsgLen
                        /\ ~Starts(t[i]) => i > 1 /\ t[i] = [t[i - 1] EXCEPT !.part = @ + 1]
      BY <2>2
    <3>1. CASE i \in 1..n
      <4>1. i = 1 \/ i - 1 \in 1..n
        BY <2>2, <3>1
      <4>2. t[i] = s[i] /\ (i > 1 => t[i - 1] = s[i - 1])
        BY <2>2, <3>1, <4>1
      <4>3. /\ Starts(s[i]) => i = 1 \/ s[i - 1].part = MsgLen
            /\ ~Starts(s[i]) => i > 1 /\ s[i] = [s[i - 1] EXCEPT !.part = @ + 1]
        BY <2>2, <3>0, <3>1
      <4> HIDE DEF s, t
      <4>4. QED
        BY <2>2, <3>1, <4>1, <4>2, <4>3
    <3>2. CASE i = n + 1
      <4>1. t[i] = u(1) /\ u(1).part = MsgLen - sleft + 1
        BY <2>2, <3>2
      <4>2. CASE sleft = MsgLen
        <5>1. Starts(t[i]) /\ ~InPart(c)
          BY <2>0, <4>1, <4>2 DEF Starts, InPart
        <5>2. s # <<>> => LastUnit(c).part = MsgLen
          BY <1>1, <2>1, <2>6, <5>1 DEF PieceInv
        <5>3. i = 1 \/ (n \in 1..n /\ i - 1 = n /\ s # <<>>)
          BY <2>0, <2>2, <3>2
        <5>4. n \in 1..n => t[n] = LastUnit(c)
          BY <2>2 DEF LastUnit
        <5>5. QED
          BY <5>1, <5>2, <5>3, <5>4
      <4>3. CASE sleft # MsgLen
        <5>1. ~Starts(t[i]) /\ InPart(c)
          BY <2>0, <2>1, <4>1, <4>3 DEF Starts, InPart
        <5>2. s # <<>> /\ LastUnit(c) = u(0)
          <6>1. /\ s # <<>>
                /\ LastUnit(c) = [from |-> Author(smsg), num |-> smsg.chunk.num,
                                  clip |-> j, part |-> MsgLen - sleft]
            BY <1>1, <2>1, <2>6, <5>1 DEF PieceInv
          <6>2. MsgLen - sleft + 0 = MsgLen - sleft
            BY <2>0
          <6>3. QED
            BY <6>1, <6>2
        <5>3. n \in 1..n /\ i - 1 = n /\ i > 1
          BY <2>0, <2>2, <3>2, <5>2
        <5>4. t[n] = u(0)
          BY <2>2, <5>2, <5>3 DEF LastUnit
        <5>5. u(1) = [u(0) EXCEPT !.part = @ + 1]
          BY <2>0
        <5> HIDE DEF u, s, t
        <5>6. QED
          BY <4>1, <5>1, <5>3, <5>4, <5>5
      <4>4. QED
        BY <4>2, <4>3
    <3>3. CASE i > n + 1
      <4>1. ~(i \in 1..n) /\ i - 1 \in 1..n + k /\ ~(i - 1 \in 1..n) /\ i > 1
        BY <2>2, <3>3
      <4>2. t[i] = u(i - n) /\ t[i - 1] = u(i - 1 - n)
        BY <2>p, <4>1
      <4>3. MsgLen - sleft + (i - n) # 1 /\ MsgLen - sleft + (i - n) = MsgLen - sleft + (i - 1 - n) + 1
        BY <2>0, <2>2, <3>3
      <4>4. ~Starts(t[i])
        BY <4>2, <4>3 DEF Starts
      <4>5. u(i - n) = [u(i - 1 - n) EXCEPT !.part = @ + 1]
        BY <4>3
      <4> HIDE DEF u, s, t
      <4>6. QED
        BY <4>1, <4>2, <4>4, <4>5
    <3>4. QED
      BY <2>2, <3>1, <3>2, <3>3
  <2> HIDE DEF InOrder, StartsWhole, Continues
  <2>7. QED
    BY <2>5, <2>6
<1>5. QED
  BY <1>3, <1>4, InboxStep

THEOREM OrderCorrect == Spec => []OrderInv
<1>1. Init => OrderInv
  <2> SUFFICES ASSUME Init
               PROVE  OrderInv
    OBVIOUS
  <2>1. /\ \A c \in Conn : outbox[c] = <<>> /\ inbox[c] = <<>> /\ hpc[c] = "none"
        /\ message_queue = <<>> /\ spc = "idle"
    BY DEF Init, SockInit
  <2>2. QueueInv /\ HeardInv /\ FreshInv
    BY <2>1 DEF QueueInv, OutboxOrdered, HeardInv, FreshInv
  <2>3. PieceInv
    BY <2>1 DEF PieceInv, InPart
  <2>4. OrderedDelivery
    BY <2>1 DEF OrderedDelivery
  <2>5. QED
    BY <2>2, <2>3, <2>4 DEF OrderInv
<1>2. TypeInv /\ TableInv /\ OrderInv /\ [Next]_vars => OrderInv'
  <2>1. ASSUME TypeInv, TableInv, OrderInv, Next
        PROVE  OrderInv'
    BY <2>1, QueueStep, HeardStep, FreshStep, PieceStep, DeliveryStep DEF OrderInv
  <2>2. ASSUME OrderInv, UNCHANGED vars
        PROVE  OrderInv'
    BY <2>2 DEF OrderInv, QueueInv, HeardInv, FreshInv, PieceInv, OrderedDelivery,
       OutboxOrdered, Behind, Pushed, Taken, Author, InPart, LastUnit, NoReset,
       IsCurrentClip, NeverOverflowed, vars, sockVars, tableVars, handlerVars,
       senderVars
  <2>3. QED
    BY <2>1, <2>2
<1>3. QED
  BY <1>1, <1>2, TypeCorrect, TableCorrect, PTL DEF Spec

\* What any number of clients write while others come and go reaches each
\* reader in the order it was written and, until a connection is reset,
\* message by message.
THEOREM OrderedDeliveryCorrect == Spec => []OrderedDelivery
<1>1. OrderInv => OrderedDelivery
  BY DEF OrderInv
<1>2. QED
  BY <1>1, OrderCorrect, PTL
=============================================================================
