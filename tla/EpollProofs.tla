---------------------------- MODULE EpollProofs ----------------------------
(* What holds of EpollChat for every number of clients, slots, descriptors  *)
(* and chunks, and every size of epoll_wait's array.                        *)
EXTENDS EpollChat, ServeRoom, SocketsProofs, FiniteSetTheorems

-----------------------------------------------------------------------------
(* Type correctness.  What the types rest on is in EpollInv: a receiver's   *)
(* descriptor is open, and a chunk is there while it is being sent.         *)

LEMMA EpollInit == Init => EpollInv
<1> SUFFICES ASSUME Init
             PROVE  EpollInv
  OBVIOUS
<1> USE MaxClientAssumption, EpollAssumption, SizeAssumption DEF Init, ServeInit
<1>1. Registered = {}
  BY DEF Registered
<1>2. TypeOK
  <2>1. SockTypeOK
    BY InitType
  <2>2. ServeTypeOK
    <3>1. /\ clients_list \in [Slot -> [first : BOOLEAN, second : Fd \cup {0}]]
          /\ index \in Slot
      BY DEF Slot
    <3>2. sleft \in 0..MsgLen /\ connected_clients_num \in Int
      OBVIOUS
    <3>3. flag \in BOOLEAN
      OBVIOUS
    <3>4. /\ sends \in SUBSET (Nat \X Slot) /\ chunk = <<>>
          /\ proc = "run"
      OBVIOUS
    <3>5. QED
      BY <3>1, <3>2, <3>3, <3>4 DEF ServeTypeOK
  <2>3. QED
    BY <2>1, <2>2 DEF TypeOK
<1>3. RegistryAgrees
  BY <1>1 DEF RegistryAgrees, SlotsApart
<1>4. EventsCurrent /\ NoLostEdge /\ ServeInv
  BY <1>1 DEF EventsCurrent, NoLostEdge, ServeInv, LoopInv
<1>5. QED
  BY <1>2, <1>3, <1>4 DEF EpollInv

\* A registered slot's descriptor is one accept returned, and stands for a
\* connection of its own slot.
LEMMA RegisteredFd ==
  ASSUME TypeOK, RegistryAgrees, NEW i \in Registered
  PROVE  /\ i \in Slot /\ FdOfSlot(i) \in Fd
         /\ ConnOfSlot(i) = fds[FdOfSlot(i)] /\ ConnOfSlot(i) \in Conn
         /\ client_map[FdOfSlot(i)] = i /\ FdOfSlot(i) \in interest
<1>1. ConnOfSlot(i) # NoConn /\ i \in Slot
  BY DEF RegistryAgrees, SlotsApart, Registered
<1>2. FdOfSlot(i) \in Fd /\ ConnOfSlot(i) = fds[FdOfSlot(i)]
  BY <1>1 DEF ConnOfSlot, ConnOf
<1>3. ConnOfSlot(i) \in Conn
  BY <1>1, <1>2 DEF TypeOK, SockTypeOK
<1>4. QED
  BY <1>1, <1>2, <1>3 DEF RegistryAgrees

\* Two registered slots stand for different connections.
LEMMA OneConn ==
  ASSUME TypeOK, RegistryAgrees, ConnsApart,
         NEW i \in Registered, NEW j \in Registered, ConnOfSlot(i) = ConnOfSlot(j)
  PROVE  i = j
<1>1. /\ FdOfSlot(i) \in Fd /\ FdOfSlot(j) \in Fd
      /\ fds[FdOfSlot(i)] = fds[FdOfSlot(j)] /\ fds[FdOfSlot(i)] # NoConn
  BY RegisteredFd, ConnAssumption
<1>2. FdOfSlot(i) = FdOfSlot(j)
  BY <1>1 DEF ConnsApart
<1>3. QED
  BY <1>2 DEF RegistryAgrees, SlotsApart

\* Steps that leave the table and the descriptors as they are.
LEMMA TableKept ==
  ASSUME SlotsApart, UNCHANGED <<clients_list, fds>>
  PROVE  /\ SlotsApart' /\ UNCHANGED Registered
         /\ \A i : UNCHANGED <<FdOfSlot(i), ConnOfSlot(i)>>
BY DEF SlotsApart, Registered, FdOfSlot, ConnOfSlot, ConnOf

\* accept opens one descriptor: what the slots stand for stays.
LEMMA AcceptTable ==
  ASSUME TypeOK, RegistryAgrees, NEW f, AcceptAs(f)
  PROVE  /\ f \in Fd /\ fds'[f] \in Conn
         /\ \A i \in Registered : FdOfSlot(i) # f /\ fds'[FdOfSlot(i)] = ConnOfSlot(i)
<1>1. /\ f \in Fd /\ fds[f] = NoConn /\ Head(backlog) \in Conn
      /\ fds' = [fds EXCEPT ![f] = Head(backlog)]
  BY AcceptType DEF TypeOK
<1>2. fds'[f] \in Conn /\ \A g \in Fd : g # f => fds'[g] = fds[g]
  BY <1>1 DEF TypeOK, SockTypeOK
<1>3. \A i \in Registered : /\ FdOfSlot(i) \in Fd /\ ConnOfSlot(i) = fds[FdOfSlot(i)]
                            /\ ConnOfSlot(i) # NoConn
  BY RegisteredFd, ConnAssumption
<1>4. QED
  BY <1>1, <1>2, <1>3

LEMMA EpollTypeServe ==
  ASSUME EpollInv, Dispatch \/ ServeRecv \/ ServeDone \/ ClientDestroy
                   \/ ServeSend \/ ServeAborts
  PROVE  TypeOK'
<1> USE DEF EpollInv, TypeOK, ServeTypeOK
<1>1. CASE Dispatch
  BY <1>1, EpollAssumption DEF Dispatch, TakeEvent, StartServing, SockTypeOK, sockVars,
                tableVars, loopVars, epollVars
<1>2. CASE ServeRecv
  <2>1. pc = "serve" /\ index \in Registered
    BY <1>2 DEF ServeRecv, RecvChunk, AtRecv, ServeInv, LoopInv
  <2>2. TakeChunk(ConnOfSlot(index)) /\ chunk' = Head(outbox[ConnOfSlot(index)])
    BY <1>2 DEF ServeRecv, RecvChunk
  <2>3. ConnOfSlot(index) \in Conn
    BY <2>1, RegisteredFd
  <2>4. SockTypeOK' /\ chunk' \in Chunk
    BY <2>2, <2>3, TakeType
  <2>5. sends' \in SUBSET (Nat \X Slot)
    <3>1. chunk'.shape \in Seq(BOOLEAN)
      BY <2>4, SizeAssumption DEF Chunk
    <3>2. NonEmptyLines(chunk') \subseteq Nat
      BY <3>1 DEF NonEmptyLines
    <3>3. sends' = NonEmptyLines(chunk') \X Receivers /\ Receivers \subseteq Slot
      BY <1>2 DEF ServeRecv, RecvChunk, Receivers, Registered
    <3>4. QED
      BY <3>2, <3>3
  <2>6. sleft' \in 0..MsgLen /\ flag' = FALSE
    <3>1. sleft' = 0 \/ sleft' = MsgLen
      BY <1>2 DEF ServeRecv, RecvChunk
    <3>2. QED
      BY <1>2, <3>1, SizeAssumption DEF ServeRecv, RecvChunk
  <2>7. QED
    BY <1>2, <2>4, <2>5, <2>6 DEF ServeRecv, RecvChunk, tableVars, epollVars
<1>3. CASE ServeDone
  <2>1. /\ pc' = "next" /\ index' \in Slot /\ flag' = FALSE /\ chunk' = <<>>
        /\ UNCHANGED <<sends, sleft>>
    BY <1>3, MaxClientAssumption DEF ServeDone, LeaveLoop, Slot
  <2>2. SockTypeOK'
    BY <1>3 DEF ServeDone, SockTypeOK, sockVars
  <2>3. QED
    BY <1>3, <2>1, <2>2 DEF ServeDone, tableVars, epollVars
<1>4. CASE ClientDestroy
  <2>1. SockTypeOK'
    BY <1>4, CloseType DEF ClientDestroy, Unregister
  <2>2. /\ clients_list' \in [Slot -> [first : BOOLEAN, second : Fd \cup {0}]]
        /\ connected_clients_num' \in Int
    <3>1. clients_list' = [clients_list EXCEPT ![index].first = FALSE]
          /\ connected_clients_num' = connected_clients_num - 1
      BY <1>4 DEF ClientDestroy, Unregister
    <3>2. /\ clients_list \in [Slot -> [first : BOOLEAN, second : Fd \cup {0}]]
          /\ connected_clients_num \in Int
      OBVIOUS
    <3> HIDE DEF EpollInv, TypeOK, ServeTypeOK
    <3>3. clients_list' \in [Slot -> [first : BOOLEAN, second : Fd \cup {0}]]
      BY <3>1, <3>2
    <3>4. QED
      BY <3>1, <3>2, <3>3
  <2>3. /\ client_map' \in [Fd -> Slot \cup {Absent}]
        /\ interest' \subseteq interest /\ ready' \subseteq ready
        /\ UNCHANGED <<proc, events>>
    BY <1>4 DEF ClientDestroy
  <2>4. /\ pc' = "next" /\ index' \in Slot /\ flag' = FALSE /\ chunk' = <<>>
        /\ UNCHANGED <<sends, sleft>>
    BY <1>4, MaxClientAssumption DEF ClientDestroy, LeaveLoop, Slot
  <2>5. QED
    BY <2>1, <2>2, <2>3, <2>4
<1>5. CASE ServeSend
  <2>1. PICK p \in sends, k \in 1..sleft :
          /\ SendTakes(ConnOfSlot(p[2]), chunk, p[1], sleft, k)
          /\ sends' = IF k = sleft THEN sends \ {p} ELSE sends
          /\ sleft' = IF k < sleft THEN sleft - k
                      ELSE IF sends' = {} THEN 0 ELSE MsgLen
    BY <1>5 DEF ServeSend, Send
  <2>2. p[1] \in Nat /\ p[2] \in Registered /\ chunk \in Chunk
    BY <2>1 DEF ServeInv, LoopInv, Receivers
  <2>3. ConnOfSlot(p[2]) \in Conn
    BY <2>2, RegisteredFd
  <2>4. SockTypeOK'
    BY <2>1, <2>2, <2>3, SendType
  <2>5. sends' \in SUBSET (Nat \X Slot) /\ sleft' \in 0..MsgLen
    BY <2>1, SizeAssumption
  <2>6. QED
    BY <1>5, <2>4, <2>5 DEF ServeSend, Send, tableVars, epollVars
<1>6. CASE ServeAborts
  BY <1>6 DEF ServeAborts, SendAborts, SockTypeOK, sockVars, tableVars,
              loopVars, epollVars
<1>7. QED
  BY <1>1, <1>2, <1>3, <1>4, <1>5, <1>6

LEMMA EpollTypeAccept ==
  ASSUME EpollInv, EpollWait \/ AcceptClient \/ AcceptWhenFull \/ AcceptFails
  PROVE  TypeOK'
<1> USE DEF EpollInv, TypeOK, ServeTypeOK
<1>1. CASE EpollWait
  BY <1>1 DEF EpollWait, SockTypeOK, sockVars, tableVars, loopVars
<1>2. CASE AcceptClient
  <2>1. PICK f \in FreeFds, i \in Slot :
          /\ AcceptAs(f)
          /\ Register(i, f)
          /\ client_map' = [client_map EXCEPT ![f] = i]
          /\ interest' = interest \cup {f}
          /\ ready' = IF Readable(f)' THEN ready \cup {f} ELSE ready
    BY <1>2 DEF AcceptClient
  <2>2. SockTypeOK' /\ f \in Fd
    BY <2>1, AcceptType
  <2>3. /\ clients_list' \in [Slot -> [first : BOOLEAN, second : Fd \cup {0}]]
        /\ connected_clients_num' \in Int
    BY <2>1, <2>2 DEF Register
  <2>4. ready' \in SUBSET (Fd \cup {Listener})
    <3>1. ready' = ready \cup {f} \/ ready' = ready
      BY <2>1
    <3>2. QED
      BY <2>2, <3>1
  <2>5. QED
    BY <1>2, <2>1, <2>2, <2>3, <2>4 DEF AcceptClient, TakeEvent, loopVars
<1>3. CASE AcceptWhenFull
  <2>1. SockTypeOK'
    BY <1>3, AcceptType DEF AcceptWhenFull
  <2>2. QED
    BY <1>3, <2>1 DEF AcceptWhenFull, TakeEvent, tableVars, loopVars, epollVars
<1>4. CASE AcceptFails
  BY <1>4 DEF AcceptFails, TakeEvent, SockTypeOK, sockVars, tableVars,
              loopVars, epollVars
<1>5. QED
  BY <1>1, <1>2, <1>3, <1>4

LEMMA EpollTypeClient ==
  ASSUME EpollInv, NEW c \in Conn, Client(c) \/ Network(c)
  PROVE  TypeOK'
<1>1. SockTypeOK'
  BY ClientType DEF EpollInv, TypeOK, Client, Network, ClientConnects,
     ClientWrites, ClientLeaves, ClientReads, ResetArrives
<1>2. ServerUnchanged /\ ready' \in SUBSET (Fd \cup {Listener})
  BY DEF EpollInv, TypeOK, Client, Network, ClientConnects, ClientWrites,
         ClientLeaves, ClientReads, ResetArrives, Wake
<1>3. QED
  BY <1>1, <1>2 DEF EpollInv, TypeOK, ServeTypeOK, ServerUnchanged, tableVars, loopVars

-----------------------------------------------------------------------------
(* The registry: the table, client_map, the descriptor table and epoll.     *)

\* Steps that leave all four as they are.
LEMMA RegistryKept ==
  ASSUME RegistryAgrees, UNCHANGED <<clients_list, fds, client_map, interest>>
  PROVE  /\ RegistryAgrees' /\ UNCHANGED Registered
         /\ \A i \in Registered : UNCHANGED <<FdOfSlot(i), ConnOfSlot(i)>>
BY DEF RegistryAgrees, SlotsApart, Registered, FdOfSlot, ConnOfSlot, ConnOf

\* A client is added: the slot and the descriptor are new to everybody.
LEMMA AcceptRegistry ==
  ASSUME EpollInv, NEW f \in FreeFds, NEW i \in Slot,
         AcceptAs(f), FirstFree(i), Register(i, f),
         client_map' = [client_map EXCEPT ![f] = i],
         interest' = interest \cup {f}
  PROVE  /\ RegistryAgrees'
         /\ Registered' = Registered \cup {i} /\ i \notin Registered
         /\ FdOfSlot(i)' = f /\ ConnOfSlot(i)' = fds'[f]
         /\ \A j \in Registered : UNCHANGED <<FdOfSlot(j), ConnOfSlot(j)>>
<1>0. TypeOK /\ RegistryAgrees /\ Listener \notin Fd
  BY EpollAssumption DEF EpollInv
<1>1. /\ f \in Fd /\ fds[f] = NoConn /\ Head(backlog) \in Conn
      /\ fds' = [fds EXCEPT ![f] = Head(backlog)]
  BY <1>0, AcceptType DEF TypeOK
<1>2. /\ fds'[f] = Head(backlog) /\ Head(backlog) # NoConn
      /\ \A g \in Fd : g # f => fds'[g] = fds[g]
  BY <1>0, <1>1, ConnAssumption DEF TypeOK, SockTypeOK
<1>3. /\ clients_list'[i] = [first |-> TRUE, second |-> f]
      /\ \A j \in Slot : j # i => clients_list'[j] = clients_list[j]
  BY <1>0 DEF TypeOK, ServeTypeOK, Register
<1>4. Registered' = Registered \cup {i} /\ i \notin Registered
  BY <1>3 DEF Registered, FirstFree
<1>5. FdOfSlot(i)' = f /\ ConnOfSlot(i)' = fds'[f]
  BY <1>1, <1>3 DEF FdOfSlot, ConnOfSlot, ConnOf
<1>6. \A j \in Registered : /\ j \in Slot /\ j # i
                            /\ FdOfSlot(j) \in Fd /\ FdOfSlot(j) # f
                            /\ ConnOfSlot(j) \in Conn
  <2> SUFFICES ASSUME NEW j \in Registered
               PROVE  /\ j \in Slot /\ j # i
                      /\ FdOfSlot(j) \in Fd /\ FdOfSlot(j) # f
                      /\ ConnOfSlot(j) \in Conn
    OBVIOUS
  <2>1. /\ j \in Slot /\ FdOfSlot(j) \in Fd
        /\ ConnOfSlot(j) = fds[FdOfSlot(j)] /\ ConnOfSlot(j) \in Conn
    BY <1>0, RegisteredFd
  <2>2. QED
    BY <1>1, <1>4, <2>1, ConnAssumption
<1>7. \A j \in Registered : FdOfSlot(j)' = FdOfSlot(j) /\ ConnOfSlot(j)' = ConnOfSlot(j)
  <2>1. \A j \in Registered : FdOfSlot(j)' = FdOfSlot(j)
    BY <1>3, <1>6 DEF FdOfSlot
  <2>2. QED
    BY <1>2, <1>6, <2>1 DEF ConnOfSlot, ConnOf
<1>8. ASSUME NEW g \in Fd, NEW j \in Slot
      PROVE  client_map'[g] = j <=> j \in Registered' /\ FdOfSlot(j)' = g
  <2>1. /\ client_map'[f] = i
        /\ \A h \in Fd : h # f => client_map'[h] = client_map[h]
    BY <1>0, <1>1 DEF TypeOK
  <2>2. client_map[g] = j <=> j \in Registered /\ FdOfSlot(j) = g
    BY <1>0 DEF RegistryAgrees
  <2>3. CASE g = f
    BY <1>4, <1>5, <1>6, <1>7, <2>1, <2>3
  <2>4. CASE g # f
    BY <1>4, <1>5, <1>6, <1>7, <2>1, <2>2, <2>4
  <2>5. QED
    BY <2>3, <2>4
<1>9. interest' = {Listener} \cup {FdOfSlot(j)' : j \in Registered'}
  <2>1. {FdOfSlot(j)' : j \in Registered'} = {FdOfSlot(j) : j \in Registered} \cup {f}
    BY <1>4, <1>5, <1>7
  <2>2. QED
    BY <1>0, <2>1 DEF RegistryAgrees
<1>10. SlotsApart'
  BY <1>0, <1>2, <1>4, <1>5, <1>6, <1>7, ConnAssumption
  DEF SlotsApart, RegistryAgrees
<1>11. QED
  BY <1>4, <1>5, <1>7, <1>8, <1>9, <1>10 DEF RegistryAgrees

\* A client is destroyed: its slot, its descriptor and its registration go
\* together, and nobody else's do.
LEMMA DestroyRegistry ==
  ASSUME EpollInv, ClientDestroy
  PROVE  /\ RegistryAgrees'
         /\ index \in Registered /\ Registered' = Registered \ {index}
         /\ interest' = interest \ {FdOfSlot(index)}
         /\ \A j \in Registered' : UNCHANGED <<FdOfSlot(j), ConnOfSlot(j)>>
<1>0. TypeOK /\ RegistryAgrees /\ index \in Registered /\ index \in Slot
  BY DEF EpollInv, ServeInv, LoopInv, ClientDestroy, RecvFails, AtRecv, Registered
<1> DEFINE d == FdOfSlot(index)
<1>1. /\ clients_list' = [clients_list EXCEPT ![index].first = FALSE]
      /\ fds' = [g \in Fd |-> IF g = d THEN NoConn ELSE fds[g]]
      /\ client_map' = [g \in Fd |-> IF g = d THEN Absent ELSE client_map[g]]
      /\ interest' = interest \ {d}
  BY DEF ClientDestroy, Unregister, CloseFd
<1>2. d \in Fd /\ d # Listener
  BY <1>0, RegisteredFd, EpollAssumption
<1> HIDE DEF d
<1>3. /\ clients_list'[index].first = FALSE
      /\ \A j \in Slot : j # index => clients_list'[j] = clients_list[j]
  BY <1>0, <1>1 DEF TypeOK, ServeTypeOK
<1>4. Registered' = Registered \ {index}
  BY <1>3 DEF Registered
<1>5. \A j \in Registered' : /\ j \in Registered /\ j \in Slot /\ j # index
                             /\ FdOfSlot(j)' = FdOfSlot(j)
                             /\ FdOfSlot(j) \in Fd /\ FdOfSlot(j) # d
                             /\ ConnOfSlot(j) = fds[FdOfSlot(j)]
                             /\ ConnOfSlot(j) \in Conn
  <2> SUFFICES ASSUME NEW j \in Registered'
               PROVE  /\ j \in Registered /\ j \in Slot /\ j # index
                      /\ FdOfSlot(j)' = FdOfSlot(j)
                      /\ FdOfSlot(j) \in Fd /\ FdOfSlot(j) # d
                      /\ ConnOfSlot(j) = fds[FdOfSlot(j)]
                      /\ ConnOfSlot(j) \in Conn
    OBVIOUS
  <2>1. j \in Registered /\ j # index
    BY <1>4
  <2>2. /\ j \in Slot /\ FdOfSlot(j) \in Fd
        /\ ConnOfSlot(j) = fds[FdOfSlot(j)] /\ ConnOfSlot(j) \in Conn
    BY <1>0, <2>1, RegisteredFd
  <2>3. FdOfSlot(j) # d
    BY <1>0, <2>1 DEF RegistryAgrees, SlotsApart, d
  <2>4. FdOfSlot(j)' = FdOfSlot(j)
    BY <1>3, <2>1, <2>2 DEF FdOfSlot
  <2>5. QED
    BY <2>1, <2>2, <2>3, <2>4
<1>6. \A j \in Registered' : ConnOfSlot(j)' = ConnOfSlot(j)
  <2>1. \A j \in Registered' : ConnOfSlot(j)' = fds'[FdOfSlot(j)]
    BY <1>5 DEF ConnOfSlot, ConnOf
  <2>2. QED
    BY <1>1, <1>5, <2>1
<1>7. ASSUME NEW g \in Fd, NEW j \in Slot
      PROVE  client_map'[g] = j <=> j \in Registered' /\ FdOfSlot(j)' = g
  <2>1. client_map'[d] = Absent
        /\ \A h \in Fd : h # d => client_map'[h] = client_map[h]
    BY <1>1, <1>2
  <2>2. client_map[g] = j <=> j \in Registered /\ FdOfSlot(j) = g
    BY <1>0 DEF RegistryAgrees
  <2>3. CASE g = d
    BY <1>5, <2>1, <2>3, EpollAssumption
  <2>4. CASE g # d
    BY <1>4, <1>5, <2>1, <2>2, <2>4 DEF d
  <2>5. QED
    BY <2>3, <2>4
<1>8. interest' = {Listener} \cup {FdOfSlot(j)' : j \in Registered'}
  <2>1. {FdOfSlot(j)' : j \in Registered'} = {FdOfSlot(j) : j \in Registered'}
    BY <1>5
  <2>2. {FdOfSlot(j) : j \in Registered'} = {FdOfSlot(j) : j \in Registered} \ {d}
    BY <1>4, <1>5 DEF d
  <2>3. QED
    BY <1>0, <1>1, <1>2, <2>1, <2>2 DEF RegistryAgrees
<1>9. SlotsApart'
  BY <1>0, <1>5, <1>6, ConnAssumption DEF SlotsApart, RegistryAgrees
<1>10. QED
  BY <1>0, <1>1, <1>4, <1>5, <1>6, <1>7, <1>8, <1>9 DEF RegistryAgrees, d

-----------------------------------------------------------------------------
(* Events, edges, and the client being served. *)

\* Steps of the receive loop and of the clients that change neither the
\* registry nor who is being served.
LEMMA LoopKept ==
  ASSUME EpollInv, TypeOK',
         UNCHANGED <<clients_list, fds, client_map, interest, events, pc, index>>,
         proc' # "exited", ready' \subseteq interest, ready \subseteq ready',
         \A i \in Registered : HasData(ConnOfSlot(i))' =>
            HasData(ConnOfSlot(i)) \/ FdOfSlot(i) \in ready',
         pc # "serve" => sends' = {},
         sends' # {} => chunk' \in Chunk /\ sleft' > 0,
         \A p \in sends' : p[2] \in Receivers
  PROVE  EpollInv'
<1>1. /\ RegistryAgrees' /\ Registered' = Registered
      /\ \A i \in Registered : UNCHANGED <<FdOfSlot(i), ConnOfSlot(i)>>
  BY RegistryKept DEF EpollInv
<1>2. EventsCurrent'
  BY DEF EpollInv, EventsCurrent
<1>3. NoLostEdge'
  BY <1>1 DEF EpollInv, NoLostEdge
<1>4. ServeInv'
  <2>1. Receivers' = Receivers
    BY <1>1 DEF Receivers
  <2>2. pc = "serve" => index \in Registered' /\ FdOfSlot(index)' \notin events'
    BY <1>1 DEF EpollInv, ServeInv, LoopInv
  <2>3. QED
    BY <2>1, <2>2 DEF ServeInv, LoopInv
<1>5. QED
  BY <1>1, <1>2, <1>3, <1>4 DEF EpollInv

\* epoll_wait moves what is readable from one set to the other.
LEMMA WaitStep ==
  ASSUME EpollInv, EpollWait
  PROVE  EpollInv'
<1>0. TypeOK' /\ pc = "next" /\ pc' = "next" /\ events = {}
  BY EpollTypeAccept DEF EpollWait
<1>1. /\ RegistryAgrees' /\ Registered' = Registered
      /\ \A i \in Registered : UNCHANGED <<FdOfSlot(i), ConnOfSlot(i)>>
  BY RegistryKept DEF EpollInv, EpollWait, sockVars, tableVars
<1>2. ready' \cup events' = {e \in ready : Readable(e)}
  BY DEF EpollWait
<1>3. EventsCurrent'
  BY <1>2 DEF EpollInv, EventsCurrent, EpollWait
<1>4. NoLostEdge'
  <2> SUFFICES ASSUME NEW i \in Registered, HasData(ConnOfSlot(i))'
               PROVE  FdOfSlot(i) \in ready' \cup events'
    BY <1>1 DEF NoLostEdge
  <2>1. HasData(ConnOfSlot(i))
    BY <1>1 DEF HasData, EpollWait, sockVars
  <2>2. FdOfSlot(i) \in ready
    BY <1>0, <2>1 DEF EpollInv, NoLostEdge
  <2>3. /\ ConnOfSlot(i) = fds[FdOfSlot(i)] /\ ConnOfSlot(i) \in Conn
        /\ FdOfSlot(i) # Listener
    BY RegisteredFd, EpollAssumption DEF EpollInv
  <2>4. Readable(FdOfSlot(i))
    BY <2>1, <2>3, ConnAssumption DEF Readable
  <2>5. QED
    BY <1>2, <2>2, <2>4
<1>5. ServeInv'
  BY <1>0 DEF EpollInv, ServeInv, LoopInv, EpollWait, loopVars
<1>6. QED
  BY <1>0, <1>1, <1>3, <1>4, <1>5 DEF EpollInv

LEMMA AcceptStep ==
  ASSUME EpollInv, AcceptClient
  PROVE  EpollInv'
<1>1. PICK f \in FreeFds, i \in Slot :
        /\ AcceptAs(f) /\ FirstFree(i) /\ Register(i, f)
        /\ client_map' = [client_map EXCEPT ![f] = i]
        /\ interest' = interest \cup {f}
        /\ ready' = IF Readable(f)' THEN ready \cup {f} ELSE ready
  BY DEF AcceptClient
<1>2. /\ RegistryAgrees'
      /\ Registered' = Registered \cup {i}
      /\ FdOfSlot(i)' = f /\ ConnOfSlot(i)' = fds'[f]
      /\ \A j \in Registered : UNCHANGED <<FdOfSlot(j), ConnOfSlot(j)>>
  BY <1>1, AcceptRegistry
<1>3. /\ TypeOK' /\ f \in Fd /\ f # Listener
      /\ pc = "next" /\ pc' = "next" /\ events' = events \ {Listener}
      /\ UNCHANGED <<proc, sends, outbox>>
  BY <1>1, EpollTypeAccept, EpollAssumption
  DEF AcceptClient, TakeEvent, loopVars, AcceptAs, FreeFds
<1>4. EventsCurrent'
  BY <1>1, <1>3 DEF EpollInv, EventsCurrent
<1>5. NoLostEdge'
  <2> SUFFICES ASSUME NEW j \in Registered', HasData(ConnOfSlot(j))'
               PROVE  FdOfSlot(j)' \in ready' \cup events'
    BY DEF NoLostEdge
  <2>1. CASE j = i
    <3>1. fds'[f] # NoConn /\ outbox'[fds'[f]] # <<>>
      BY <1>2, <2>1 DEF HasData
    <3>2. f # Listener
      BY <1>3
    <3>3. Readable(f)'
      BY <3>1, <3>2 DEF Readable, HasData
    <3>4. QED
      BY <1>1, <1>2, <2>1, <3>3
  <2>2. CASE j # i
    <3>1. j \in Registered /\ FdOfSlot(j)' = FdOfSlot(j)
          /\ HasData(ConnOfSlot(j))
      BY <1>2, <1>3, <2>2 DEF HasData
    <3>2. FdOfSlot(j) \in ready \cup events /\ FdOfSlot(j) # Listener
      BY <1>3, <3>1, RegisteredFd, EpollAssumption DEF EpollInv, NoLostEdge
    <3>3. QED
      BY <1>1, <1>3, <3>1, <3>2
  <2>3. QED
    BY <2>1, <2>2
<1>6. ServeInv'
  BY <1>3 DEF EpollInv, ServeInv, LoopInv
<1>7. QED
  BY <1>2, <1>3, <1>4, <1>5, <1>6 DEF EpollInv

\* A connection nobody has a slot for, and an accept that fails: the
\* registered clients see nothing of it.
LEMMA AcceptOtherStep ==
  ASSUME EpollInv, AcceptWhenFull \/ AcceptFails
  PROVE  EpollInv'
<1>0. TypeOK /\ RegistryAgrees /\ TypeOK' /\ Listener \notin Fd
  BY EpollTypeAccept, EpollAssumption DEF EpollInv
<1>1. /\ pc = "next" /\ events' = events \ {Listener}
      /\ UNCHANGED <<proc, clients_list, pc, sends, client_map, interest,
                     ready, outbox>>
  BY DEF AcceptWhenFull, AcceptFails, TakeEvent, AcceptAs, sockVars, tableVars,
         loopVars, epollVars
<1>2. Registered' = Registered /\ \A i \in Registered : FdOfSlot(i)' = FdOfSlot(i)
  BY <1>1 DEF Registered, FdOfSlot
<1>3. \A i \in Registered : /\ ConnOfSlot(i)' = ConnOfSlot(i)
                            /\ FdOfSlot(i) # Listener
  <2> SUFFICES ASSUME NEW i \in Registered
               PROVE  ConnOfSlot(i)' = ConnOfSlot(i) /\ FdOfSlot(i) # Listener
    OBVIOUS
  <2>1. /\ FdOfSlot(i) \in Fd /\ ConnOfSlot(i) = fds[FdOfSlot(i)]
        /\ ConnOfSlot(i) \in Conn
    BY <1>0, RegisteredFd
  <2>2. \A g \in Fd : fds[g] # NoConn => fds'[g] = fds[g]
    <3>1. CASE AcceptWhenFull
      <4>1. PICK f \in FreeFds : AcceptAs(f)
        BY <3>1 DEF AcceptWhenFull
      <4>2. f \in Fd /\ fds[f] = NoConn /\ fds' = [fds EXCEPT ![f] = Head(backlog)]
        BY <1>0, <4>1, AcceptType DEF TypeOK
      <4>3. QED
        BY <1>0, <4>2 DEF TypeOK, SockTypeOK
    <3>2. CASE AcceptFails
      BY <3>2 DEF AcceptFails, sockVars
    <3>3. QED
      BY <3>1, <3>2
  <2>3. QED
    BY <1>0, <1>2, <2>1, <2>2, ConnAssumption DEF ConnOfSlot, ConnOf
<1>4. RegistryAgrees'
  BY <1>0, <1>1, <1>2, <1>3 DEF RegistryAgrees, SlotsApart, Registered
<1>5. EventsCurrent'
  BY <1>1 DEF EpollInv, EventsCurrent
<1>6. NoLostEdge'
  BY <1>1, <1>2, <1>3 DEF EpollInv, NoLostEdge, HasData
<1>7. ServeInv'
  BY <1>1 DEF EpollInv, ServeInv, LoopInv
<1>8. QED
  BY <1>0, <1>4, <1>5, <1>6, <1>7 DEF EpollInv

\* An event always finds its client: client_map.at does not throw.
LEMMA DispatchStep ==
  ASSUME EpollInv, Dispatch
  PROVE  EpollInv'
<1>0. TypeOK' /\ pc = "next" /\ sends = {} /\ EpollInv /\ TypeOK /\ RegistryAgrees
  BY EpollTypeServe DEF Dispatch, EpollInv, ServeInv, LoopInv
<1>1. /\ RegistryAgrees' /\ Registered' = Registered
      /\ \A i \in Registered : UNCHANGED <<FdOfSlot(i), ConnOfSlot(i)>>
      /\ UNCHANGED <<outbox, ready, interest>>
  BY <1>0, RegistryKept DEF Dispatch, sockVars, tableVars, epollVars
<1>2. PICK f \in events \ {Listener} :
        /\ events' = events \ {f}
        /\ IF client_map[f] = Absent
             THEN proc' = "exited" /\ UNCHANGED <<pc, loopVars>>
             ELSE /\ IF clients_list[client_map[f]].first
                       THEN StartServing(client_map[f])
                       ELSE UNCHANGED <<pc, loopVars>>
                  /\ UNCHANGED proc
  BY DEF Dispatch, TakeEvent
<1>3. PICK i \in Registered : FdOfSlot(i) = f
  BY <1>0, <1>2 DEF EpollInv, EventsCurrent, RegistryAgrees
<1>4. client_map[f] = i /\ i # Absent /\ clients_list[i].first /\ i \in Slot
  BY <1>0, <1>3, RegisteredFd, EpollAssumption DEF Registered
<1>5. /\ pc' = "serve" /\ index' = i
      /\ UNCHANGED <<proc, chunk, sends, sleft>>
  BY <1>2, <1>4 DEF StartServing
<1>6. EventsCurrent'
  BY <1>1, <1>2, <1>5 DEF EpollInv, EventsCurrent
<1>7. NoLostEdge'
  <2> SUFFICES ASSUME NEW j \in Registered, HasData(ConnOfSlot(j))'
               PROVE  FdOfSlot(j) \in ready \cup events' \/ j = i
    BY <1>1, <1>5 DEF NoLostEdge
  <2>1. FdOfSlot(j) \in ready \cup events
    BY <1>0, <1>1 DEF EpollInv, NoLostEdge, HasData
  <2>2. FdOfSlot(j) = f => j = i
    BY <1>0, <1>3 DEF RegistryAgrees, SlotsApart
  <2>3. QED
    BY <1>2, <2>1, <2>2
<1>8. ServeInv'
  BY <1>0, <1>1, <1>2, <1>3, <1>5 DEF ServeInv, LoopInv
<1>9. QED
  BY <1>0, <1>1, <1>6, <1>7, <1>8 DEF EpollInv

LEMMA RecvStep ==
  ASSUME EpollInv, ServeRecv
  PROVE  EpollInv'
<1>0. TypeOK' /\ TypeOK /\ RegistryAgrees
  BY EpollTypeServe DEF EpollInv
<1>1. /\ pc = "serve" /\ TakeChunk(ConnOfSlot(index))
      /\ chunk' = Head(outbox[ConnOfSlot(index)])
      /\ sends' = NonEmptyLines(chunk') \X Receivers
      /\ sleft' = IF sends' = {} THEN 0 ELSE MsgLen
      /\ UNCHANGED <<proc, clients_list, pc, index, client_map, interest, ready,
                     events>>
  BY DEF ServeRecv, RecvChunk, AtRecv, tableVars, epollVars
<1>2. ConnOfSlot(index) \in Conn
  BY <1>0, <1>1, RegisteredFd DEF EpollInv, ServeInv, LoopInv
<1>3. chunk' \in Chunk
  BY <1>0, <1>1, <1>2, TakeType DEF TypeOK
<1>4. /\ UNCHANGED fds
      /\ outbox' = [outbox EXCEPT ![ConnOfSlot(index)] = Tail(@)]
      /\ outbox[ConnOfSlot(index)] # <<>>
  BY <1>1 DEF TakeChunk, HasData
<1>5. \A i \in Registered : HasData(ConnOfSlot(i))' => HasData(ConnOfSlot(i))
  <2> SUFFICES ASSUME NEW i \in Registered, HasData(ConnOfSlot(i))'
               PROVE  HasData(ConnOfSlot(i))
    OBVIOUS
  <2>1. ConnOfSlot(i)' = ConnOfSlot(i) /\ ConnOfSlot(i) \in Conn
    BY <1>0, <1>1, <1>4, RegisteredFd DEF ConnOfSlot, ConnOf, FdOfSlot
  <2>2. outbox \in [Conn -> Seq(Chunk)]
    BY <1>0 DEF TypeOK, SockTypeOK
  <2>3. QED
    BY <1>2, <1>4, <2>1, <2>2 DEF HasData
<1>6. /\ ready \subseteq interest /\ proc # "exited"
  BY DEF EpollInv, EventsCurrent
<1>7. /\ \A p \in sends' : p[2] \in Receivers
      /\ sends' # {} => sleft' > 0
  BY <1>1, SizeAssumption
<1>8. QED
  BY <1>0, <1>1, <1>3, <1>4, <1>5, <1>6, <1>7, LoopKept

LEMMA SendStep ==
  ASSUME EpollInv, ServeSend \/ ServeAborts
  PROVE  EpollInv'
<1>0. TypeOK' /\ TypeOK
  BY EpollTypeServe DEF EpollInv
<1>1. /\ pc = "serve"
      /\ UNCHANGED <<clients_list, fds, client_map, interest, ready, events, pc,
                     index, outbox, chunk>>
      /\ proc' = proc \/ proc' = "aborted"
  BY DEF ServeSend, Send, SendTakes, ServeAborts, SendAborts, sockVars,
         tableVars, loopVars, epollVars
<1>2. sends' \subseteq sends /\ (sends' # {} => sleft' > 0)
  <2>1. CASE ServeSend
    <3>1. PICK p \in sends, k \in 1..sleft :
            /\ sends' = IF k = sleft THEN sends \ {p} ELSE sends
            /\ sleft' = IF k < sleft THEN sleft - k
                        ELSE IF sends' = {} THEN 0 ELSE MsgLen
      BY <2>1 DEF ServeSend, Send
    <3>2. sleft \in Nat
      BY <1>0, SizeAssumption DEF TypeOK, ServeTypeOK
    <3>3. QED
      BY <3>1, <3>2, SizeAssumption
  <2>2. CASE ServeAborts
    BY <2>2 DEF ServeAborts, SendAborts, loopVars, EpollInv, ServeInv, LoopInv
  <2>3. QED
    BY <2>1, <2>2
<1>3. \A i \in Registered : HasData(ConnOfSlot(i))' => HasData(ConnOfSlot(i))
  BY <1>1 DEF HasData, ConnOfSlot, ConnOf, FdOfSlot
<1>4. /\ ready \subseteq interest /\ proc # "exited"
      /\ sends # {} => chunk \in Chunk
      /\ \A p \in sends : p[2] \in Receivers
  BY DEF EpollInv, EventsCurrent, ServeInv, LoopInv
<1>5. QED
  BY <1>0, <1>1, <1>2, <1>3, <1>4, LoopKept

LEMMA DoneStep ==
  ASSUME EpollInv, ServeDone
  PROVE  EpollInv'
<1>0. TypeOK' /\ RegistryAgrees
  BY EpollTypeServe DEF EpollInv
<1>1. /\ pc' = "next" /\ sends = {} /\ ~HasData(ConnOfSlot(index))
      /\ UNCHANGED <<proc, outbox, ready, interest, events, sends>>
  BY DEF ServeDone, RecvFails, AtRecv, LeaveLoop, sockVars, epollVars
<1>2. /\ RegistryAgrees' /\ Registered' = Registered
      /\ \A i \in Registered : UNCHANGED <<FdOfSlot(i), ConnOfSlot(i)>>
  BY <1>0, RegistryKept DEF ServeDone, sockVars, tableVars, epollVars
<1>3. EventsCurrent'
  BY <1>1 DEF EpollInv, EventsCurrent
<1>4. NoLostEdge'
  BY <1>1, <1>2 DEF EpollInv, NoLostEdge, HasData
<1>5. ServeInv'
  BY <1>1 DEF EpollInv, ServeInv, LoopInv
<1>6. QED
  BY <1>0, <1>2, <1>3, <1>4, <1>5 DEF EpollInv

LEMMA DestroyStep ==
  ASSUME EpollInv, ClientDestroy
  PROVE  EpollInv'
<1>0. TypeOK'
  BY EpollTypeServe
<1>1. /\ RegistryAgrees'
      /\ index \in Registered /\ Registered' = Registered \ {index}
      /\ interest' = interest \ {FdOfSlot(index)}
      /\ \A j \in Registered' : UNCHANGED <<FdOfSlot(j), ConnOfSlot(j)>>
  BY DestroyRegistry
<1>2. /\ pc = "serve" /\ pc' = "next" /\ sends = {} /\ sends' = {}
      /\ ready' = ready \ {FdOfSlot(index)}
      /\ UNCHANGED <<proc, events, outbox>>
  BY DEF ClientDestroy, RecvFails, AtRecv, LeaveLoop, Unregister, CloseFd
<1>3. FdOfSlot(index) \notin events
  BY <1>2 DEF EpollInv, ServeInv, LoopInv
<1>4. EventsCurrent'
  BY <1>1, <1>2, <1>3 DEF EpollInv, EventsCurrent
<1>5. NoLostEdge'
  <2> SUFFICES ASSUME NEW j \in Registered', HasData(ConnOfSlot(j))'
               PROVE  FdOfSlot(j)' \in ready' \cup events'
    BY DEF NoLostEdge
  <2>1. j \in Registered /\ j # index /\ HasData(ConnOfSlot(j))
        /\ FdOfSlot(j)' = FdOfSlot(j)
    BY <1>1, <1>2 DEF HasData
  <2>2. FdOfSlot(j) \in ready \cup events /\ FdOfSlot(j) # FdOfSlot(index)
    BY <1>1, <2>1 DEF EpollInv, NoLostEdge, RegistryAgrees, SlotsApart
  <2>3. QED
    BY <1>2, <2>1, <2>2
<1>6. ServeInv'
  BY <1>2 DEF ServeInv, LoopInv
<1>7. QED
  BY <1>0, <1>1, <1>4, <1>5, <1>6 DEF EpollInv

\* Whatever a client does, the kernel reports on the descriptor it concerns.
LEMMA ClientStep ==
  ASSUME EpollInv, NEW c \in Conn, Client(c) \/ Network(c)
  PROVE  EpollInv'
<1>0. TypeOK' /\ TypeOK /\ RegistryAgrees
  BY EpollTypeClient DEF EpollInv
<1>1. /\ UNCHANGED <<clients_list, fds, client_map, interest, events, pc, index,
                     proc, chunk, sends, sleft>>
      /\ ready \subseteq ready'
      /\ ready' \subseteq ready \cup interest
  BY DEF Client, Network, ClientConnects, ClientWrites, ClientLeaves,
         ClientReads, ResetArrives, Connect, Write, Leave, Read, Reset, Wake,
         ServerUnchanged, tableVars, loopVars
<1>2. ASSUME NEW i \in Registered, HasData(ConnOfSlot(i))'
      PROVE  HasData(ConnOfSlot(i)) \/ FdOfSlot(i) \in ready'
  <2>1. ConnOfSlot(i)' = ConnOfSlot(i)
    BY <1>1 DEF ConnOfSlot, ConnOf, FdOfSlot
  <2>2. /\ FdOfSlot(i) \in Fd /\ ConnOfSlot(i) = fds[FdOfSlot(i)]
        /\ ConnOfSlot(i) \in Conn /\ FdOfSlot(i) \in interest
    BY <1>0, RegisteredFd
  <2>3. CASE ClientWrites(c)
    <3>1. CASE ConnOfSlot(i) = c
      <4>1. FdOfSlot(i) \in FdsOf(c)
        BY <2>2, <3>1 DEF FdsOf
      <4>2. QED
        BY <2>2, <2>3, <4>1 DEF ClientWrites, Wake
    <3>2. CASE ConnOfSlot(i) # c
      <4>1. outbox'[ConnOfSlot(i)] = outbox[ConnOfSlot(i)]
        BY <1>0, <2>2, <2>3, <3>2 DEF ClientWrites, Write, TypeOK, SockTypeOK
      <4>2. QED
        BY <1>2, <2>1, <4>1 DEF HasData
    <3>3. QED
      BY <3>1, <3>2
  <2>4. CASE UNCHANGED outbox
    BY <1>2, <2>1, <2>4 DEF HasData
  <2>5. QED
    BY <2>3, <2>4 DEF Client, Network, ClientConnects, ClientLeaves,
       ClientReads, ResetArrives, Connect, Leave, Read, Reset
<1>3. /\ ready \subseteq interest /\ proc # "exited" /\ ServeInv
  BY DEF EpollInv, EventsCurrent
<1>4. QED
  BY <1>0, <1>1, <1>2, <1>3, LoopKept DEF ServeInv, LoopInv

LEMMA EpollStep ==
  ASSUME EpollInv, [Next]_vars
  PROVE  EpollInv'
<1>1. CASE Next
  BY <1>1, WaitStep, AcceptStep, AcceptOtherStep, DispatchStep, RecvStep,
     DoneStep, DestroyStep, SendStep, ClientStep DEF Next, Server
<1>2. CASE UNCHANGED vars
  <2>1. TypeOK'
    BY <1>2 DEF EpollInv, TypeOK, SockTypeOK, ServeTypeOK, vars, sockVars,
                tableVars, loopVars, epollVars
  <2>2. \A i \in Registered : HasData(ConnOfSlot(i))' => HasData(ConnOfSlot(i))
    BY <1>2 DEF HasData, ConnOfSlot, ConnOf, FdOfSlot, vars, sockVars, tableVars
  <2>3. /\ ready \subseteq interest /\ proc # "exited" /\ ServeInv
    BY DEF EpollInv, EventsCurrent
  <2>4. QED
    BY <1>2, <2>1, <2>2, <2>3, LoopKept
    DEF ServeInv, LoopInv, vars, sockVars, tableVars, loopVars, epollVars
<1>3. QED
  BY <1>1, <1>2

-----------------------------------------------------------------------------
(* Open descriptors that are no client's. *)

\* What is registered with epoll and which descriptors are open change together,
\* but for an accept with a full table.
LEMMA StrayStep ==
  ASSUME EpollInv, [Next]_vars
  PROVE  Stray' = Stray \/ (TableFull /\ Stray \subseteq Stray')
<1>0. TypeOK /\ RegistryAgrees
  BY DEF EpollInv
<1>1. CASE UNCHANGED <<fds, interest>>
  BY <1>1 DEF Stray
<1>2. ASSUME NEW f \in FreeFds, AcceptAs(f)
      PROVE  /\ f \in Fd /\ fds[f] = NoConn /\ fds'[f] # NoConn
             /\ \A g \in Fd \ {f} : fds'[g] = fds[g]
  <2>1. /\ f \in Fd /\ fds[f] = NoConn /\ fds' = [fds EXCEPT ![f] = Head(backlog)]
        /\ Head(backlog) \in Conn
    BY <1>0, <1>2, AcceptType DEF TypeOK
  <2>2. QED
    BY <1>0, <2>1, ConnAssumption DEF TypeOK, SockTypeOK
<1>3. CASE AcceptClient
  <2>1. PICK f \in FreeFds : AcceptAs(f) /\ interest' = interest \cup {f}
    BY <1>3 DEF AcceptClient
  <2>2. Stray' = Stray
    BY <1>2, <2>1 DEF Stray
  <2>3. QED
    BY <2>2
<1>4. CASE AcceptWhenFull
  <2>1. PICK f \in FreeFds : AcceptAs(f)
    BY <1>4 DEF AcceptWhenFull
  <2>2. TableFull /\ interest' = interest
    BY <1>4 DEF AcceptWhenFull, epollVars
  <2>3. QED
    BY <1>2, <2>1, <2>2 DEF Stray
<1>5. CASE ClientDestroy
  <2>1. index \in Registered
    BY <1>5 DEF EpollInv, ServeInv, LoopInv, ClientDestroy, RecvFails, AtRecv
  <2>2. FdOfSlot(index) \in Fd
    BY <1>0, <2>1, RegisteredFd
  <2>3. /\ interest' = interest \ {FdOfSlot(index)}
        /\ fds' = [g \in Fd |-> IF g = FdOfSlot(index) THEN NoConn ELSE fds[g]]
    BY <1>5 DEF ClientDestroy, Unregister, CloseFd
  <2>4. FdOfSlot(index) \in interest
    BY <1>0, <2>1, RegisteredFd
  <2>5. QED
    BY <2>2, <2>3, <2>4 DEF Stray
<1>6. CASE EpollWait \/ AcceptFails \/ Dispatch \/ ServeDone \/ ServeAborts
  BY <1>1, <1>6
  DEF EpollWait, AcceptFails, Dispatch, ServeDone, ServeAborts, SendAborts, sockVars, epollVars
<1>7. CASE ServeRecv \/ ServeSend
  BY <1>1, <1>7
  DEF ServeRecv, RecvChunk, TakeChunk, ServeSend, Send, SendTakes, epollVars
<1>8. ASSUME NEW c \in Conn, Client(c) \/ Network(c)
      PROVE  UNCHANGED <<fds, interest>>
  BY <1>8
  DEF Client, Network, ClientConnects, ClientWrites, ClientLeaves, ClientReads, ResetArrives,
      Connect, Write, Leave, Read, Reset, ServerUnchanged
<1>9. CASE UNCHANGED vars
  BY <1>1, <1>9 DEF vars, sockVars, epollVars
<1>10. QED
  BY <1>1, <1>3, <1>4, <1>5, <1>6, <1>7, <1>8, <1>9 DEF Next, Server

-----------------------------------------------------------------------------
(* The count of clients. *)

\* There are finitely many slots.
LEMMA RegisteredFinite == IsFiniteSet(Registered)
<1>1. IsFiniteSet(Slot)
  BY MaxClientAssumption, FS_Interval DEF Slot
<1>2. QED
  BY <1>1, FS_Subset DEF Registered

LEMMA CountStep ==
  ASSUME EpollInv, CountExact, [Next]_vars
  PROVE  CountExact'
<1>1. CASE AcceptClient
  <2>1. PICK f \in FreeFds, i \in Slot :
          /\ AcceptAs(f) /\ FirstFree(i) /\ Register(i, f)
          /\ client_map' = [client_map EXCEPT ![f] = i]
          /\ interest' = interest \cup {f}
    BY <1>1 DEF AcceptClient
  <2>2. Registered' = Registered \cup {i} /\ i \notin Registered
    BY <2>1, AcceptRegistry
  <2>3. Cardinality(Registered') = Cardinality(Registered) + 1
    BY <2>2, RegisteredFinite, FS_AddElement
  <2>4. QED
    BY <2>1, <2>3 DEF Register, CountExact
<1>2. CASE ClientDestroy
  <2>1. index \in Registered /\ Registered' = Registered \ {index}
    BY <1>2, DestroyRegistry
  <2>2. Cardinality(Registered') = Cardinality(Registered) - 1
    BY <2>1, RegisteredFinite, FS_RemoveElement
  <2>3. QED
    BY <1>2, <2>2 DEF ClientDestroy, Unregister, CountExact
<1>3. CASE UNCHANGED tableVars
  BY <1>3 DEF tableVars, CountExact, Registered
<1>4. QED
  BY <1>1, <1>2, <1>3
  DEF Next, Server, Client, Network, EpollWait, AcceptWhenFull, AcceptFails,
      Dispatch, ServeRecv, RecvChunk, ServeDone, ServeSend, Send, ServeAborts,
      SendAborts, ClientConnects, ClientWrites, ClientLeaves, ClientReads,
      ResetArrives, ServerUnchanged, vars

-----------------------------------------------------------------------------
(* Every step keeps RoomInv.                                                *)

LEMMA RoomInit == Init => RoomInv
<1> SUFFICES ASSUME Init
             PROVE  RoomInv
  OBVIOUS
<1>1. EpollInv
  BY EpollInit
<1>2. OutboxOrdered
  BY DEF Init, SockInit, OutboxOrdered
<1>3. \A c \in Conn : Len(outbox[c]) <= wrote[c] /\ inbox[c] = <<>>
  BY DEF Init, SockInit
<1>4. sends = {} /\ pc # "serve" /\ events = {}
  BY DEF Init, ServeInit
<1>5. ConnsApart
  BY DEF Init, SockInit, ConnsApart
<1>6. QED
  BY <1>1, <1>2, <1>3, <1>4, <1>5 DEF RoomInv

\* The messages in flight: chunks leave a connection's queue in order, and
\* nothing reaches a client that has not connected.
MessagesInOrder ==
  /\ OutboxOrdered
  /\ \A c \in Conn :
       Len(outbox[c]) <= wrote[c] /\ (peer[c] = "new" => inbox[c] = <<>>)

LEMMA MessagesKept ==
  ASSUME MessagesInOrder, UNCHANGED <<outbox, wrote, inbox, peer>>
  PROVE  MessagesInOrder'
BY DEF MessagesInOrder, OutboxOrdered

\* What a client's step is to everybody but the kernel's ready list.
LEMMA ClientAct ==
  ASSUME NEW c, Client(c) \/ Network(c)
  PROVE  /\ Connect(c) \/ Write(c) \/ Leave(c) \/ Read(c) \/ Reset(c)
         /\ ServerUnchanged
BY DEF Client, Network, ClientConnects, ClientWrites, ClientLeaves, ClientReads,
       ResetArrives

LEMMA MessagesRecv ==
  ASSUME EpollInv, MessagesInOrder, ServeRecv
  PROVE  MessagesInOrder'
<1>1. /\ SockTypeOK /\ TypeOK /\ RegistryAgrees /\ index \in Registered
      /\ TakeChunk(ConnOfSlot(index)) /\ OutboxOrdered
  BY DEF EpollInv, ServeInv, TypeOK, LoopInv, ServeRecv, RecvChunk, AtRecv, MessagesInOrder
<1> DEFINE c == ConnOfSlot(index)
<1>2. c \in Conn
  BY <1>1, RegisteredFd
<1> HIDE DEF c
<1>3. /\ OutboxOrdered'
      /\ wrote'[c] - Len(outbox'[c]) = wrote[c] - Len(outbox[c]) + 1
      /\ \A d \in Conn : d # c => outbox'[d] = outbox[d] /\ wrote'[d] = wrote[d]
  BY <1>1, <1>2, TakeOrdered DEF c
<1>4. UNCHANGED <<wrote, inbox, peer>> /\ SockTypeOK'
  BY <1>1, <1>2, TakeType DEF TakeChunk, c
<1>5. Len(outbox[c]) \in Nat /\ Len(outbox'[c]) \in Nat /\ wrote[c] \in Nat
  BY <1>1, <1>2, <1>4, SizeAssumption DEF SockTypeOK
<1>6. Len(outbox'[c]) <= wrote'[c]
  BY <1>2, <1>3, <1>4, <1>5 DEF MessagesInOrder
<1>7. QED
  BY <1>3, <1>4, <1>6 DEF MessagesInOrder

LEMMA MessagesSend ==
  ASSUME EpollInv, MessagesInOrder, ServeSend
  PROVE  MessagesInOrder'
<1>1. SockTypeOK /\ UNCHANGED <<outbox, wrote>>
  BY DEF EpollInv, TypeOK, ServeSend, Send, SendTakes
<1>2. ASSUME NEW d \in Conn, peer'[d] = "new"
      PROVE  inbox'[d] = <<>>
  <2>1. peer[d] = "new" /\ inbox'[d] = inbox[d]
    BY <1>1, <1>2 DEF ServeSend, Send, SendTakes, SockTypeOK
  <2>2. QED
    BY <2>1 DEF MessagesInOrder
<1>3. QED
  BY <1>1, <1>2 DEF MessagesInOrder, OutboxOrdered

LEMMA MessagesClient ==
  ASSUME EpollInv, MessagesInOrder, NEW c \in Conn, Client(c) \/ Network(c)
  PROVE  MessagesInOrder' /\ \A d \in Conn : (wrote[d] - Len(outbox[d]))' = wrote[d] - Len(outbox[d])
<1>1. SockTypeOK /\ SockTypeOK' /\ OutboxOrdered
  BY EpollTypeClient DEF EpollInv, TypeOK, MessagesInOrder
<1>a. Connect(c) \/ Write(c) \/ Leave(c) \/ Read(c) \/ Reset(c)
  BY ClientAct
<1>2. \A d \in Conn : peer'[d] = "new" => peer[d] = "new"
  BY <1>1, <1>a DEF Connect, Write, Leave, Read, Reset, SockTypeOK
<1>3. UNCHANGED inbox
  BY <1>a DEF Connect, Write, Leave, Read, Reset
<1>4. CASE Write(c)
  <2>1. /\ OutboxOrdered'
        /\ \A d \in Conn : (wrote[d] - Len(outbox[d]))' = wrote[d] - Len(outbox[d])
    BY <1>1, <1>4, WriteOrdered
  <2>2. \A d \in Conn : /\ Len(outbox[d]) \in Nat /\ wrote[d] \in Nat
                        /\ Len(outbox'[d]) \in Nat /\ wrote'[d] \in Nat
    BY <1>1, SizeAssumption DEF SockTypeOK
  <2>3. \A d \in Conn : Len(outbox'[d]) <= wrote'[d]
    <3> SUFFICES ASSUME NEW d \in Conn
                 PROVE  Len(outbox'[d]) <= wrote'[d]
      OBVIOUS
    <3>1. wrote'[d] - Len(outbox'[d]) = wrote[d] - Len(outbox[d])
      BY <2>1
    <3>2. Len(outbox[d]) <= wrote[d]
      BY DEF MessagesInOrder
    <3>3. QED
      BY <2>2, <3>1, <3>2
  <2>4. QED
    BY <1>2, <1>3, <2>1, <2>3 DEF MessagesInOrder
<1>5. CASE Connect(c) \/ Leave(c) \/ Read(c) \/ Reset(c)
  <2>1. UNCHANGED <<outbox, wrote>>
    BY <1>5 DEF Connect, Leave, Read, Reset
  <2>2. QED
    BY <1>2, <1>3, <2>1 DEF MessagesInOrder, OutboxOrdered
<1>6. QED
  BY <1>4, <1>5, <1>a

\* What is readable stays so: nobody but the receive loop takes data, and
\* only from the client being served; who has left does not come back; and a
\* descriptor is closed by the loop that serves it.
LEMMA StaysReadable ==
  ASSUME EpollInv, ConnsApart, [Next]_vars, NEW f \in Fd, Readable(f),
         ServeRecv \/ ClientDestroy => f # FdOfSlot(index)
  PROVE  Readable(f)'
<1>0. TypeOK /\ RegistryAgrees /\ SockTypeOK /\ f # Listener /\ Listener \notin Fd
  BY EpollAssumption DEF EpollInv, TypeOK
<1>1. /\ fds[f] # NoConn /\ fds[f] \in Conn
      /\ outbox[fds[f]] # <<>> \/ peer[fds[f]] \in Gone
  BY <1>0 DEF Readable, HasData, SockTypeOK
<1>2. PICK c : c = fds[f]
  OBVIOUS
<1>3. SUFFICES /\ fds'[f] = c
               /\ outbox[c] # <<>> => outbox'[c] # <<>>
               /\ peer[c] \in Gone => peer'[c] \in Gone
  BY <1>0, <1>1, <1>2 DEF Readable, HasData
<1>4. CASE ServeRecv
  <2>1. index \in Registered /\ TakeChunk(ConnOfSlot(index))
    BY <1>4 DEF ServeRecv, RecvChunk, AtRecv, EpollInv, ServeInv, LoopInv
  <2>2. /\ FdOfSlot(index) \in Fd /\ ConnOfSlot(index) = fds[FdOfSlot(index)]
    BY <1>0, <2>1, RegisteredFd
  <2>3. ConnOfSlot(index) # c
    BY <1>1, <1>2, <1>4, <2>2 DEF ConnsApart
  <2>4. QED
    BY <1>0, <1>1, <1>2, <2>1, <2>3 DEF TakeChunk, SockTypeOK
<1>5. CASE ClientDestroy
  BY <1>2, <1>5 DEF ClientDestroy, Unregister, CloseFd
<1>6. CASE AcceptClient \/ AcceptWhenFull
  <2>1. PICK g \in FreeFds : AcceptAs(g)
    BY <1>6 DEF AcceptClient, AcceptWhenFull
  <2>2. f # g
    BY <1>1, <2>1 DEF FreeFds
  <2>3. QED
    BY <1>0, <1>2, <2>1, <2>2 DEF AcceptAs, SockTypeOK
<1>7. CASE ServeSend
  BY <1>0, <1>1, <1>2, <1>7 DEF ServeSend, Send, SendTakes, SockTypeOK, Gone
<1>8. CASE \E d \in Conn : Client(d) \/ Network(d)
  <2>1. PICK d \in Conn : Connect(d) \/ Write(d) \/ Leave(d) \/ Read(d) \/ Reset(d)
    BY <1>8, ClientAct
  <2>2. fds' = fds /\ (peer[c] \in Gone => peer'[c] \in Gone)
    BY <1>0, <1>1, <1>2, <2>1 DEF Connect, Write, Leave, Read, Reset, SockTypeOK, Gone
  <2>3. outbox[c] # <<>> => outbox'[c] # <<>>
    <3>1. CASE Write(d)
      <4> DEFINE e(sh) == [from |-> d, num |-> wrote[d] + 1, shape |-> sh]
      <4>1. PICK sh \in Shapes : outbox' = [outbox EXCEPT ![d] = Append(outbox[d], e(sh))]
        BY <3>1 DEF Write
      <4>2. outbox[d] \in Seq(Chunk)
        BY <1>0 DEF SockTypeOK
      <4>3. e(sh) \in Chunk
        BY <1>0, SizeAssumption DEF SockTypeOK, Chunk
      <4> HIDE DEF e
      <4>4. Append(outbox[d], e(sh)) # <<>>
        BY <4>2, <4>3
      <4>5. QED
        BY <1>0, <4>1, <4>4 DEF SockTypeOK
    <3>2. CASE UNCHANGED outbox
      BY <3>2
    <3>3. QED
      BY <2>1, <3>1, <3>2 DEF Connect, Leave, Read, Reset
  <2>4. QED
    BY <1>2, <2>2, <2>3
<1>9. CASE UNCHANGED sockVars
  BY <1>2, <1>9 DEF sockVars
<1>10. QED
  BY <1>4, <1>5, <1>6, <1>7, <1>8, <1>9
  DEF Next, Server, EpollWait, AcceptFails, Dispatch, ServeDone, ServeAborts,
      SendAborts, vars

LEMMA RoomStep ==
  ASSUME RoomInv, [Next]_vars
  PROVE  RoomInv'
<1>0. /\ EpollInv /\ EpollInv' /\ MessagesInOrder /\ ConnsApart
      /\ TypeOK /\ RegistryAgrees /\ SockTypeOK
  BY EpollStep DEF RoomInv, MessagesInOrder, EpollInv, TypeOK
<1>1. MessagesInOrder'
  <2>1. CASE ServeRecv
    BY <1>0, <2>1, MessagesRecv
  <2>2. CASE ServeSend
    BY <1>0, <2>2, MessagesSend
  <2>3. CASE \E c \in Conn : Client(c) \/ Network(c)
    BY <1>0, <2>3, MessagesClient
  <2>4. CASE UNCHANGED <<outbox, wrote, inbox, peer>>
    BY <1>0, <2>4, MessagesKept
  <2>5. QED
    BY <2>1, <2>2, <2>3, <2>4
    DEF Next, Server, EpollWait, AcceptClient, AcceptWhenFull, AcceptFails, AcceptAs,
        Dispatch, ServeDone, ClientDestroy, Unregister, CloseFd, ServeAborts,
        SendAborts, sockVars, vars
<1>2. ConnsApart'
  <2>1. CASE \E f \in FreeFds : AcceptAs(f)
    BY <1>0, <2>1, AcceptApart
  <2>2. CASE ServeRecv
    BY <1>0, <2>2, TakeApart DEF ServeRecv, RecvChunk
  <2>3. CASE ClientDestroy
    BY <1>0, <2>3, CloseApart DEF ClientDestroy, Unregister
  <2>4. CASE ServeSend
    BY <1>0, <2>4, SendApart DEF ServeSend, Send
  <2>5. CASE \E c \in Conn : Client(c) \/ Network(c)
    BY <1>0, <2>5, ClientAct, ClientApart
  <2>6. CASE UNCHANGED sockVars
    BY <1>0, <2>6, ApartKept DEF sockVars
  <2>7. QED
    BY <2>1, <2>2, <2>3, <2>4, <2>5, <2>6
    DEF Next, Server, EpollWait, AcceptClient, AcceptWhenFull, AcceptFails,
        Dispatch, ServeDone, ServeAborts, SendAborts, vars
<1>3. ASSUME NEW p \in sends'
      PROVE  p[1] \in NonEmptyLines(chunk')
  <2>1. CASE ServeRecv
    BY <1>3, <2>1 DEF ServeRecv, RecvChunk
  <2>2. CASE sends' \subseteq sends /\ UNCHANGED chunk
    BY <1>3, <2>2 DEF RoomInv
  <2>3. CASE sends' = {}
    BY <1>3, <2>3
  <2>4. CASE ServeSend
    BY <1>3, <2>4 DEF ServeSend, Send, RoomInv
  <2>5. CASE \E c \in Conn : Client(c) \/ Network(c)
    BY <2>2, <2>5, ClientAct DEF ServerUnchanged, loopVars
  <2>6. QED
    BY <1>0, <2>1, <2>2, <2>3, <2>4, <2>5
    DEF Next, Server, EpollWait, AcceptClient, AcceptWhenFull, AcceptFails, Dispatch,
        StartServing, ServeDone, ClientDestroy, RecvFails, AtRecv, LeaveLoop,
        ServeAborts, SendAborts, loopVars, vars
\* No step of the loop touches a descriptor with an event left.
<1>4. ASSUME NEW f \in events', f # Listener
      PROVE  Readable(f)'
  <2>1. CASE EpollWait
    BY <1>4, <2>1 DEF EpollWait, Readable, HasData, sockVars
  <2>2. CASE ~EpollWait
    <3>1. f \in events
      <4>1. CASE \E c \in Conn : Client(c) \/ Network(c)
        BY <1>4, <4>1, ClientAct DEF ServerUnchanged
      <4>2. QED
        BY <1>4, <2>2, <4>1
        DEF Next, Server, AcceptClient, AcceptWhenFull, AcceptFails, Dispatch,
            TakeEvent, ServeRecv, ServeDone, ClientDestroy, ServeSend, ServeAborts, vars
    <3>2. f \in Fd /\ Readable(f)
      BY <1>0, <1>4, <3>1 DEF RoomInv, TypeOK
    <3>3. ServeRecv \/ ClientDestroy => f # FdOfSlot(index)
      BY <1>0, <3>1 DEF EpollInv, ServeInv, ServeRecv, RecvChunk, ClientDestroy,
                        RecvFails, AtRecv
    <3>4. QED
      BY <1>0, <3>2, <3>3, StaysReadable
  <2>3. QED
    BY <2>1, <2>2
<1>5. ASSUME pc' = "serve", flag'
      PROVE  Readable(FdOfSlot(index))'
  <2>1. CASE Dispatch
    <3>1. PICK f \in events \ {Listener} :
            IF client_map[f] = Absent THEN UNCHANGED pc
            ELSE IF clients_list[client_map[f]].first
                   THEN StartServing(client_map[f])
                   ELSE UNCHANGED pc
      BY <2>1 DEF Dispatch
    <3>2. pc = "next" /\ UNCHANGED <<sockVars, tableVars>>
      BY <2>1 DEF Dispatch
    <3>3. /\ client_map[f] # Absent /\ index' = client_map[f] /\ f \in Fd
      BY <1>0, <1>5, <3>1, <3>2 DEF StartServing, TypeOK
    <3>4. FdOfSlot(client_map[f]) = f
      BY <1>0, <3>3 DEF TypeOK, RegistryAgrees
    <3>5. FdOfSlot(index)' = f
      BY <3>2, <3>3, <3>4 DEF FdOfSlot, tableVars
    <3>6. Readable(f)
      BY <3>1 DEF RoomInv
    <3>7. QED
      BY <3>2, <3>5, <3>6 DEF Readable, HasData, sockVars
  <2>2. CASE pc = "serve" /\ flag /\ ~ServeRecv /\ ~ClientDestroy /\ UNCHANGED <<index, clients_list>>
    <3>1. index \in Registered /\ Readable(FdOfSlot(index))
      BY <1>0, <2>2 DEF RoomInv, EpollInv, ServeInv, LoopInv
    <3>2. PICK f \in Fd : f = FdOfSlot(index)
      BY <1>0, <3>1, RegisteredFd
    <3>3. Readable(f)'
      BY <1>0, <2>2, <3>1, <3>2, StaysReadable
    <3>4. FdOfSlot(index)' = f
      BY <2>2, <3>2 DEF FdOfSlot
    <3>5. QED
      BY <3>3, <3>4
  <2>3. CASE \E c \in Conn : Client(c) \/ Network(c)
    <3>1. pc = "serve" /\ flag /\ UNCHANGED <<index, clients_list>>
      BY <1>5, <2>3, ClientAct DEF ServerUnchanged, loopVars, tableVars
    <3>2. CASE ServeRecv \/ ClientDestroy
      BY <1>5, <3>2 DEF ServeRecv, RecvChunk, ClientDestroy, LeaveLoop
    <3>3. QED
      BY <2>2, <3>1, <3>2
  <2>4. CASE ServeRecv \/ ClientDestroy
    BY <1>5, <2>4 DEF ServeRecv, RecvChunk, ClientDestroy, LeaveLoop
  <2>5. QED
    BY <1>5, <2>1, <2>2, <2>3, <2>4
    DEF Next, Server, EpollWait, AcceptClient, AcceptWhenFull, AcceptFails,
        ServeDone, LeaveLoop, ServeSend, Send, ServeAborts, SendAborts,
        loopVars, tableVars, vars
<1>6. QED
  BY <1>0, <1>1, <1>2, <1>3, <1>4, <1>5 DEF RoomInv, MessagesInOrder

-----------------------------------------------------------------------------
(* What the clients have heard.                                             *)

\* A client of a registered slot has heard what reached it and what the
\* chunk being sent on owes to its slot; any other, what reached it.
HeardFacts ==
  /\ chunk \in Chunk =>
       \A i \in Registered :
         peer[ConnOfSlot(i)] = "open" =>
           IsConcat(Heard(ConnOfSlot(i)), inbox[ConnOfSlot(i)],
                    FlattenSeq(Pieces(chunk, sends, sleft, i)))
  /\ \A c \in Conn :
       sends = {} \/ (\A p \in sends : ConnOfSlot(p[2]) # c)
         => Heard(c) = IF peer[c] = "open" THEN inbox[c] ELSE <<>>
  /\ \A c \in Conn : peer[c] # "open" => Heard(c) = <<>>

LEMMA DueIs ==
  ASSUME NEW i
  PROVE  Due(i) = FlattenSeq(Pieces(chunk, sends, sleft, i))
<1>1. ASSUME NEW j
      PROVE  IsNextSend(<<j, i>>) <=> IsFirstSend(sends, <<j, i>>)
  BY DEF IsNextSend, IsFirstSend
<1>2. [j \in DOMAIN chunk.shape |->
         IF <<j, i>> \notin sends THEN <<>>
         ELSE IF IsNextSend(<<j, i>>)
           THEN Units(chunk, j, MsgLen - sleft + 1, sleft)
           ELSE Units(chunk, j, 1, MsgLen)]
        = Pieces(chunk, sends, sleft, i)
  BY <1>1 DEF Pieces
<1>3. QED
  BY <1>2 DEF Due

LEMMA HeardIs == RoomInv => HeardFacts
<1> SUFFICES ASSUME RoomInv
             PROVE  HeardFacts
  OBVIOUS
<1>1. /\ TypeOK /\ RegistryAgrees /\ ConnsApart /\ SockTypeOK
      /\ \A p \in sends : p[2] \in Registered
      /\ sleft \in 0..MsgLen
  BY DEF RoomInv, EpollInv, ServeInv, LoopInv, Receivers, TypeOK, ServeTypeOK
<1>2. ASSUME chunk \in Chunk, NEW i \in Registered, peer[ConnOfSlot(i)] = "open"
      PROVE  IsConcat(Heard(ConnOfSlot(i)), inbox[ConnOfSlot(i)],
                      FlattenSeq(Pieces(chunk, sends, sleft, i)))
  <2>1. ConnOfSlot(i) \in Conn
    BY <1>1, RegisteredFd
  <2>2. CASE \E p \in sends : ConnOfSlot(p[2]) = ConnOfSlot(i)
    <3>1. i = CHOOSE j \in Registered : ConnOfSlot(j) = ConnOfSlot(i)
      BY <1>1, OneConn
    <3>2. Heard(ConnOfSlot(i)) = inbox[ConnOfSlot(i)] \o Due(i)
      BY <1>2, <2>2, <3>1 DEF Heard
    <3>3. QED
      BY <3>2, DueIs DEF IsConcat
  <2>3. CASE ~ \E p \in sends : ConnOfSlot(p[2]) = ConnOfSlot(i)
    <3>1. \A p \in sends : p[2] # i
      BY <2>3
    <3>2. FlattenSeq(Pieces(chunk, sends, sleft, i)) = <<>>
      BY <1>1, <1>2, <3>1, NothingOwed
    <3>3. Heard(ConnOfSlot(i)) = inbox[ConnOfSlot(i)]
      BY <1>2, <2>3 DEF Heard
    <3>4. inbox[ConnOfSlot(i)] \in Seq(Unit)
      BY <1>1, <2>1 DEF SockTypeOK
    <3>5. inbox[ConnOfSlot(i)] = inbox[ConnOfSlot(i)] \o <<>>
      BY <3>4
    <3>6. QED
      BY <3>2, <3>3, <3>5 DEF IsConcat
  <2>4. QED
    BY <2>2, <2>3
<1>3. \A c \in Conn :
        sends = {} \/ (\A p \in sends : ConnOfSlot(p[2]) # c)
          => Heard(c) = IF peer[c] = "open" THEN inbox[c] ELSE <<>>
  BY DEF Heard
<1>4. \A c \in Conn : peer[c] # "open" => Heard(c) = <<>>
  BY DEF Heard
<1>5. QED
  BY <1>2, <1>3, <1>4 DEF HeardFacts

\* A step between two broadcasts.
LEMMA HeardKept ==
  ASSUME HeardFacts, HeardFacts', sends = {}, sends' = {}, UNCHANGED <<peer, inbox>>
  PROVE  UNCHANGED HeardByAll
<1>1. \A c \in Conn : Heard(c)' = Heard(c)
  BY DEF HeardFacts
<1>2. QED
  BY <1>1 DEF HeardByAll

\* A step that leaves the broadcast as it is, for a client it leaves alone.
LEMMA HeardSame ==
  ASSUME HeardFacts, HeardFacts', SlotsApart, LoopInv,
         UNCHANGED <<clients_list, fds, chunk, sends, sleft>>,
         NEW c \in Conn, peer'[c] = peer[c], inbox'[c] = inbox[c]
  PROVE  Heard(c)' = Heard(c)
<1>1. /\ Registered' = Registered
      /\ \A i : ConnOfSlot(i)' = ConnOfSlot(i)
  BY TableKept
<1>2. CASE peer[c] # "open"
  BY <1>2 DEF HeardFacts
<1>3. CASE peer[c] = "open" /\ \E p \in sends : ConnOfSlot(p[2]) = c
  <2>1. PICK p \in sends : ConnOfSlot(p[2]) = c
    BY <1>3
  <2>2. chunk \in Chunk /\ chunk' = chunk /\ p[2] \in Registered
    BY <2>1 DEF LoopInv, Receivers
  <2>3. PICK i : i = p[2]
    OBVIOUS
  <2>4. i \in Registered /\ i \in Registered' /\ ConnOfSlot(i) = c /\ ConnOfSlot(i)' = c
    BY <1>1, <2>1, <2>2, <2>3
  <2>5. IsConcat(Heard(c), inbox[c], FlattenSeq(Pieces(chunk, sends, sleft, i)))
    BY <1>3, <2>2, <2>4 DEF HeardFacts
  <2>6. IsConcat(Heard(c), inbox[c], FlattenSeq(Pieces(chunk, sends, sleft, i)))'
    BY <1>3, <2>2, <2>4 DEF HeardFacts
  <2>7. QED
    BY <2>5, <2>6 DEF IsConcat
<1>4. CASE peer[c] = "open" /\ ~ \E p \in sends : ConnOfSlot(p[2]) = c
  <2>1. \A p \in sends' : ConnOfSlot(p[2])' # c
    BY <1>1, <1>4
  <2>2. QED
    BY <1>4, <2>1 DEF HeardFacts
<1>5. QED
  BY <1>2, <1>3, <1>4

-----------------------------------------------------------------------------
(* The server implements ChatRoom: every step is a step of the room, or     *)
(* changes nothing the room speaks of.                                      *)

LEMMA PromiseInit == Init => Promise!Init
<1> SUFFICES ASSUME Init
             PROVE  Promise!Init
  OBVIOUS
<1>1. Members = {}
  BY DEF Init, ServeInit, Members, Registered
<1>2. Leavers = {}
  BY DEF Init, SockInit, Leavers, Gone
<1>3. Said = [c \in Conn |-> 0]
  BY DEF Init, SockInit, Said
<1>4. HeardByAll = [c \in Conn |-> <<>>]
  BY DEF Init, SockInit, HeardByAll, Heard
<1>5. QED
  BY <1>1, <1>2, <1>3, <1>4 DEF Promise!Init

\* What a step must do to count as one of the room's.
LEMMA Stutter ==
  ASSUME UNCHANGED <<Members, Leavers, Said, HeardByAll>>
  PROVE  [Promise!Next]_Promise!vars
BY DEF Promise!vars

\* The table and the descriptors are as they were.
LEMMA MembersKept ==
  ASSUME SlotsApart, UNCHANGED <<clients_list, fds>>
  PROVE  UNCHANGED Members
BY TableKept DEF Members

LEMMA CountsKept ==
  ASSUME UNCHANGED <<peer, wrote, outbox>>
  PROVE  UNCHANGED <<Leavers, Said>>
BY DEF Leavers, Said

\* The facts every step starts from and ends with.
LEMMA Both ==
  ASSUME RoomInv, RoomInv'
  PROVE  /\ TypeOK /\ RegistryAgrees /\ SlotsApart /\ ConnsApart /\ SockTypeOK /\ LoopInv
         /\ TypeOK' /\ SockTypeOK' /\ LoopInv'
         /\ HeardFacts /\ HeardFacts'
<1>1. (RoomInv => HeardFacts)'
  BY HeardIs, PTL
<1>2. QED
  BY <1>1, HeardIs DEF RoomInv, EpollInv, ServeInv, RegistryAgrees, TypeOK

\* Accepting a client lets it into the room, if there is a slot for it.
LEMMA PromiseAccept ==
  ASSUME RoomInv, RoomInv', AcceptClient \/ AcceptWhenFull \/ AcceptFails
  PROVE  [Promise!Next]_Promise!vars
<1>0. /\ TypeOK /\ RegistryAgrees /\ SlotsApart /\ ConnsApart /\ SockTypeOK
      /\ HeardFacts /\ HeardFacts'
  BY Both
<1>1. /\ UNCHANGED <<peer, wrote, outbox, inbox>> /\ sends = {} /\ sends' = {}
      /\ pc = "next"
  BY DEF AcceptClient, AcceptWhenFull, AcceptFails, AcceptAs, sockVars, loopVars,
         RoomInv, EpollInv, ServeInv, LoopInv
<1>2. UNCHANGED <<Leavers, Said, HeardByAll>>
  BY <1>0, <1>1, CountsKept, HeardKept
<1>3. CASE AcceptClient
  <2>1. PICK f \in FreeFds, i \in Slot :
          /\ AcceptAs(f) /\ FirstFree(i) /\ Register(i, f)
          /\ client_map' = [client_map EXCEPT ![f] = i]
          /\ interest' = interest \cup {f}
    BY <1>3 DEF AcceptClient
  <2>2. /\ Registered' = Registered \cup {i}
        /\ ConnOfSlot(i)' = fds'[f]
        /\ \A j \in Registered : ConnOfSlot(j)' = ConnOfSlot(j)
    BY <2>1, AcceptRegistry DEF RoomInv
  <2>3. fds'[f] = Head(backlog) /\ Head(backlog) \in Conn /\ Head(backlog) = backlog[1]
        /\ 1 \in DOMAIN backlog
    BY <1>0, <2>1, AcceptType, TailElements DEF SockTypeOK, AcceptAs
  <2>4. Members' = Members \cup {backlog[1]}
    BY <2>2, <2>3 DEF Members
  <2>5. backlog[1] \notin Members
    <3> SUFFICES ASSUME NEW j \in Registered
                 PROVE  ConnOfSlot(j) # backlog[1]
      BY DEF Members
    <3>1. FdOfSlot(j) \in Fd /\ ConnOfSlot(j) = fds[FdOfSlot(j)]
      BY <1>0, RegisteredFd
    <3>2. QED
      BY <1>0, <2>3, <3>1 DEF ConnsApart
  <2>6. Promise!Join(backlog[1])
    BY <1>2, <2>4, <2>5 DEF Promise!Join
  <2>7. QED
    BY <2>3, <2>6 DEF Promise!Next
<1>4. CASE AcceptWhenFull \/ AcceptFails
  <2>1. UNCHANGED clients_list /\ \A i \in Registered : ConnOfSlot(i)' = ConnOfSlot(i)
    <3>1. CASE AcceptFails
      BY <1>0, <3>1, TableKept DEF AcceptFails, sockVars, tableVars
    <3>2. CASE AcceptWhenFull
      <4>1. PICK f \in FreeFds : AcceptAs(f)
        BY <3>2 DEF AcceptWhenFull
      <4>2. \A i \in Registered : /\ FdOfSlot(i) \in Fd
                                  /\ fds'[FdOfSlot(i)] = ConnOfSlot(i)
        BY <1>0, <4>1, AcceptTable, RegisteredFd
      <4>3. UNCHANGED clients_list
        BY <3>2 DEF AcceptWhenFull, tableVars
      <4>4. QED
        BY <4>2, <4>3 DEF ConnOfSlot, ConnOf, FdOfSlot
    <3>3. QED
      BY <1>4, <3>1, <3>2
  <2>2. Members' = Members
    BY <2>1 DEF Members, Registered
  <2>3. QED
    BY <1>2, <2>2, Stutter
<1>5. QED
  BY <1>3, <1>4

\* Looking for somebody to serve changes nothing of the room, and neither
\* does leaving a client that has no more data.
LEMMA PromiseRound ==
  ASSUME RoomInv, RoomInv',
         EpollWait \/ Dispatch \/ ServeDone \/ ServeAborts \/ UNCHANGED vars
  PROVE  [Promise!Next]_Promise!vars
<1>0. SlotsApart /\ LoopInv /\ HeardFacts /\ HeardFacts'
  BY Both
<1>1. UNCHANGED <<clients_list, fds, peer, wrote, outbox, inbox>>
  BY DEF EpollWait, Dispatch, ServeDone, ServeAborts, SendAborts, sockVars,
         tableVars, vars
<1>2. UNCHANGED <<Members, Leavers, Said>>
  BY <1>0, <1>1, MembersKept, CountsKept
<1>3. CASE sends = {} /\ sends' = {}
  BY <1>0, <1>1, <1>2, <1>3, HeardKept, Stutter
<1>4. CASE UNCHANGED <<chunk, sends, sleft>>
  <2>3. \A c \in Conn : Heard(c)' = Heard(c)
    BY <1>0, <1>1, <1>4, HeardSame
  <2>4. UNCHANGED HeardByAll
    BY <2>3 DEF HeardByAll
  <2>5. QED
    BY <1>2, <2>4, Stutter
<1>5. QED
  BY <1>3, <1>4 DEF EpollWait, Dispatch, StartServing, ServeDone, RecvFails,
                    AtRecv, LeaveLoop, ServeAborts, SendAborts, loopVars, vars

\* Who is destroyed has left: the first recv that failed was for a client
\* that epoll_wait reported.
LEMMA PromiseExpel ==
  ASSUME RoomInv, RoomInv', ClientDestroy
  PROVE  [Promise!Next]_Promise!vars
<1>0. /\ TypeOK /\ RegistryAgrees /\ SlotsApart /\ ConnsApart /\ SockTypeOK
      /\ HeardFacts /\ HeardFacts'
  BY Both
<1>1. /\ UNCHANGED <<peer, wrote, outbox, inbox>> /\ sends = {} /\ sends' = {}
      /\ pc = "serve" /\ flag /\ ~HasData(ConnOfSlot(index)) /\ Unregister(index)
  BY DEF ClientDestroy, Unregister, CloseFd, RecvFails, AtRecv, LeaveLoop
<1>2. UNCHANGED <<Leavers, Said, HeardByAll>>
  BY <1>0, <1>1, CountsKept, HeardKept
<1>3. index \in Registered /\ Readable(FdOfSlot(index))
  BY <1>1 DEF RoomInv, EpollInv, ServeInv, LoopInv
<1>4. PICK c : c = ConnOfSlot(index)
  OBVIOUS
<1>5. c \in Conn /\ c \in Members
  BY <1>0, <1>3, <1>4, RegisteredFd DEF Members
<1>6. c \in Leavers
  <2>1. FdOfSlot(index) \in Fd /\ fds[FdOfSlot(index)] = c
    BY <1>0, <1>3, <1>4, RegisteredFd
  <2>2. QED
    BY <1>1, <1>3, <1>4, <1>5, <2>1, EpollAssumption DEF Readable, Leavers
<1>7. /\ Registered' = Registered \ {index}
      /\ \A j \in Registered' : ConnOfSlot(j)' = ConnOfSlot(j)
  BY DestroyRegistry DEF RoomInv
<1>8. \A j \in Registered : ConnOfSlot(j) = c => j = index
  BY <1>0, <1>3, <1>4, OneConn
<1>9. Members' = Members \ {c}
  BY <1>4, <1>7, <1>8 DEF Members
<1>10. Promise!Expel(c)
  BY <1>2, <1>5, <1>6, <1>9 DEF Promise!Expel
<1>11. QED
  BY <1>5, <1>10 DEF Promise!Next

\* What recv returns is at once said to the room.
LEMMA PromiseSpeak ==
  ASSUME RoomInv, RoomInv', ServeRecv
  PROVE  [Promise!Next]_Promise!vars
<1>0. /\ TypeOK /\ RegistryAgrees /\ SlotsApart /\ ConnsApart /\ SockTypeOK /\ LoopInv
      /\ TypeOK' /\ SockTypeOK' /\ LoopInv'
      /\ HeardFacts /\ HeardFacts'
  BY Both
<1>1. /\ pc = "serve" /\ sends = {} /\ TakeChunk(ConnOfSlot(index))
      /\ chunk' = Head(outbox[ConnOfSlot(index)])
      /\ sends' = NonEmptyLines(chunk') \X Receivers
      /\ sleft' = IF sends' = {} THEN 0 ELSE MsgLen
      /\ UNCHANGED <<clients_list, fds, peer, inbox, wrote>>
  BY DEF ServeRecv, RecvChunk, AtRecv, TakeChunk, tableVars
<1>2. index \in Registered
  BY <1>0, <1>1 DEF LoopInv
<1>3. PICK c : c = ConnOfSlot(index)
  OBVIOUS
<1>4. PICK ch : ch = chunk'
  OBVIOUS
<1>5. c \in Conn /\ c \in Members /\ ch \in Chunk /\ chunk' \in Chunk
  BY <1>0, <1>1, <1>2, <1>3, <1>4, RegisteredFd, TakeType DEF Members
<1>6. /\ Registered' = Registered
      /\ \A i : ConnOfSlot(i)' = ConnOfSlot(i)
  BY <1>0, <1>1, TableKept
<1>7. UNCHANGED Members /\ UNCHANGED Leavers
  BY <1>0, <1>1, MembersKept DEF Leavers
\* The chunk is the next of the client's.
<1>8. /\ Said' = [Said EXCEPT ![c] = @ + 1]
      /\ ch.from = c /\ ch.num = Said[c] + 1 /\ ch.num \in 1..MaxWrites
  <2>1. OutboxOrdered /\ Len(outbox[c]) <= wrote[c]
    BY <1>5 DEF RoomInv
  <2>2. /\ ch.num = wrote[c] - Len(outbox[c]) + 1
        /\ wrote'[c] - Len(outbox'[c]) = wrote[c] - Len(outbox[c]) + 1
        /\ \A d \in Conn : d # c => outbox'[d] = outbox[d] /\ wrote'[d] = wrote[d]
    BY <1>0, <1>1, <1>3, <1>4, <1>5, <2>1, TakeOrdered
  <2>3. ch.from = c
    <3>1. outbox[c] # <<>> /\ outbox[c] \in Seq(Chunk) /\ ch = Head(outbox[c])
      BY <1>0, <1>1, <1>3, <1>4, <1>5 DEF TakeChunk, HasData, SockTypeOK
    <3>2. ch = outbox[c][1] /\ 1 \in DOMAIN outbox[c]
      BY <3>1, TailElements
    <3>3. QED
      BY <1>5, <2>1, <3>2 DEF OutboxOrdered
  <2>4. Said' = [Said EXCEPT ![c] = @ + 1] /\ ch.num = Said[c] + 1
    BY <1>5, <2>2 DEF Said
  <2>5. Len(outbox[c]) \in Nat \ {0} /\ wrote[c] \in 0..MaxWrites
    <3>1. outbox[c] # <<>> /\ outbox[c] \in Seq(Chunk)
      BY <1>0, <1>1, <1>3, <1>5 DEF TakeChunk, HasData, SockTypeOK
    <3>2. QED
      BY <1>0, <1>5, <3>1 DEF SockTypeOK
  <2>6. ch.num \in 1..MaxWrites
    BY <2>1, <2>2, <2>5, SizeAssumption
  <2>7. QED
    BY <2>3, <2>4, <2>6
<1>9. ch \in [from : Conn, num : 1..MaxWrites, shape : Shapes]
  BY <1>5, <1>8 DEF Chunk
\* Every other member that stays is owed it, and nobody else is.
<1>10. ASSUME NEW d \in Conn, d \in Members \ (Leavers \cup {c})
       PROVE  Heard(d)' = Heard(d) \o Text(ch)
  <2>1. PICK i \in Registered : ConnOfSlot(i) = d
    BY <1>10 DEF Members
  <2>2. i # index /\ i \in Receivers /\ i \in Registered' /\ ConnOfSlot(i)' = d
    BY <1>3, <1>6, <1>10, <2>1 DEF Receivers
  <2>3. peer[d] = "open" /\ peer'[d] = "open"
    <3>1. FdOfSlot(i) \in Fd /\ d = fds[FdOfSlot(i)] /\ d # NoConn
      BY <1>0, <2>1, RegisteredFd, ConnAssumption
    <3>2. peer[d] # "new"
      BY <1>0, <3>1 DEF ConnsApart
    <3>3. peer[d] \in PeerState /\ peer[d] \notin Gone
      BY <1>0, <1>10 DEF SockTypeOK, Leavers
    <3>4. QED
      BY <1>1, <3>2, <3>3 DEF PeerState, Gone
  <2>4. Heard(d) = inbox[d]
    BY <1>0, <1>1, <2>3 DEF HeardFacts
  <2>5. PICK ss, l : ss = sends' /\ l = sleft'
    OBVIOUS
  <2>6. IsConcat(Heard(d)', inbox[d], FlattenSeq(Pieces(ch, ss, l, i)))
    BY <1>0, <1>1, <1>4, <1>5, <2>2, <2>3, <2>5 DEF HeardFacts
  <2>7. Pieces(ch, ss, l, i) = [j \in DOMAIN ch.shape |->
                                  IF ch.shape[j] THEN Units(ch, j, 1, MsgLen) ELSE <<>>]
    <3>1. PICK R : R = Receivers
      OBVIOUS
    <3>2. /\ ss = {j \in DOMAIN ch.shape : ch.shape[j]} \X R
          /\ l = IF ss = {} THEN 0 ELSE MsgLen
      BY <1>1, <1>4, <2>5, <3>1 DEF NonEmptyLines
    <3>3. QED
      BY <1>5, <2>2, <3>1, <3>2, AllOwed
  <2>8. QED
    BY <2>4, <2>6, <2>7 DEF IsConcat, Text
<1>11. ASSUME NEW d \in Conn, d \notin Members \ (Leavers \cup {c})
       PROVE  Heard(d)' = Heard(d)
  <2>1. CASE peer[d] = "open"
    <3>1. d \notin Members \/ d = c
      BY <1>11, <2>1 DEF Leavers, Gone
    <3>2. ASSUME NEW p \in sends'
          PROVE  ConnOfSlot(p[2])' # d
      <4>1. PICK i : i = p[2]
        OBVIOUS
      <4>2. i \in Registered /\ i # index
        BY <1>1, <4>1 DEF Receivers
      <4>3. ConnOfSlot(i) # c /\ ConnOfSlot(i) \in Members
        BY <1>0, <1>2, <1>3, <4>2, OneConn DEF Members
      <4>4. QED
        BY <1>6, <3>1, <4>1, <4>3
    <3>3. Heard(d)' = inbox'[d]
      BY <1>0, <1>1, <2>1, <3>2 DEF HeardFacts
    <3>4. Heard(d) = inbox[d]
      BY <1>0, <1>1, <2>1 DEF HeardFacts
    <3>5. QED
      BY <1>1, <3>3, <3>4
  <2>2. CASE peer[d] # "open"
    BY <1>0, <1>1, <2>2 DEF HeardFacts
  <2>3. QED
    BY <2>1, <2>2
<1>12. HeardByAll' = [d \in Conn |-> IF d \in Members \ (Leavers \cup {c})
                                       THEN HeardByAll[d] \o Text(ch)
                                       ELSE HeardByAll[d]]
  BY <1>10, <1>11 DEF HeardByAll
<1>13. Promise!Speak(c, ch)
  BY <1>5, <1>7, <1>8, <1>12 DEF Promise!Speak
<1>14. QED
  BY <1>5, <1>9, <1>13 DEF Promise!Next

\* One call of send: what it takes off the debt to its receiver it adds to
\* what the receiver has, and it finds out nothing about who has left.
LEMMA PromiseSend ==
  ASSUME RoomInv, RoomInv', ServeSend
  PROVE  [Promise!Next]_Promise!vars
<1>0. /\ TypeOK /\ RegistryAgrees /\ SlotsApart /\ ConnsApart /\ SockTypeOK /\ LoopInv
      /\ TypeOK' /\ SockTypeOK' /\ LoopInv'
      /\ HeardFacts /\ HeardFacts'
  BY Both
<1>1. PICK p \in sends, k \in 1..sleft :
        /\ IsNextSend(p)
        /\ SendTakes(ConnOfSlot(p[2]), chunk, p[1], sleft, k)
        /\ sends' = IF k = sleft THEN sends \ {p} ELSE sends
        /\ sleft' = IF k < sleft THEN sleft - k
                    ELSE IF sends' = {} THEN 0 ELSE MsgLen
  BY DEF ServeSend, Send
<1>2. UNCHANGED <<clients_list, fds, outbox, wrote, chunk>>
  BY <1>1 DEF ServeSend, Send, SendTakes, tableVars
<1>3. PICK i0, c0 : i0 = p[2] /\ c0 = ConnOfSlot(i0)
  OBVIOUS
<1>4. PICK ch, ss, l, ss2, l2 :
        ch = chunk /\ ss = sends /\ l = sleft /\ ss2 = sends' /\ l2 = sleft'
  OBVIOUS
<1>5. /\ i0 \in Registered /\ c0 \in Conn
      /\ ch \in Chunk /\ chunk' = ch /\ l \in 1..MsgLen /\ k \in 1..l
  <2>1. i0 \in Registered /\ chunk \in Chunk /\ sleft > 0 /\ sleft \in 0..MsgLen
    BY <1>0, <1>1, <1>3 DEF LoopInv, Receivers, TypeOK, ServeTypeOK
  <2>2. QED
    BY <1>0, <1>1, <1>2, <1>3, <1>4, <2>1, RegisteredFd, SizeAssumption
<1>6. /\ ss \in SUBSET ((DOMAIN ch.shape) \X Nat) /\ IsFirstSend(ss, p)
      /\ IsSent(ss, l, p, k, ss2, l2)
  <2>1. sends \in SUBSET (Nat \X Slot) /\ \A q \in sends : q[1] \in DOMAIN chunk.shape
    BY <1>0 DEF TypeOK, ServeTypeOK, RoomInv, NonEmptyLines
  <2>2. Slot \subseteq Nat
    BY MaxClientAssumption DEF Slot
  <2>3. ss \in SUBSET ((DOMAIN ch.shape) \X Nat)
    BY <1>4, <2>1, <2>2
  <2>4. IsSent(ss, l, p, k, ss2, l2)
    BY <1>1, <1>4 DEF IsSent
  <2>5. QED
    BY <1>1, <1>4, <2>3, <2>4 DEF IsNextSend, IsFirstSend
<1>7. /\ \A i \in Nat : i # i0 => Pieces(ch, ss, l, i) = Pieces(ch, ss2, l2, i)
      /\ IsConcat(FlattenSeq(Pieces(ch, ss, l, i0)),
                  Units(ch, p[1], MsgLen - l + 1, k),
                  FlattenSeq(Pieces(ch, ss2, l2, i0)))
  <2>1. /\ \A i \in Nat : i # p[2] => Pieces(ch, ss, l, i) = Pieces(ch, ss2, l2, i)
        /\ IsConcat(FlattenSeq(Pieces(ch, ss, l, p[2])),
                    Units(ch, p[1], MsgLen - l + 1, k),
                    FlattenSeq(Pieces(ch, ss2, l2, p[2])))
    BY <1>5, <1>6, SendOwed
  <2>2. QED
    BY <1>3, <2>1
<1>8. \A d \in Conn : /\ d # c0 => peer'[d] = peer[d] /\ inbox'[d] = inbox[d]
                      /\ peer'[d] = "open" <=> peer[d] = "open"
                      /\ peer'[d] \in Gone <=> peer[d] \in Gone
  BY <1>0, <1>1, <1>3 DEF SendTakes, SockTypeOK, Gone
<1>9. peer[c0] = "open" => inbox'[c0] = inbox[c0] \o Units(ch, p[1], MsgLen - l + 1, k)
  BY <1>0, <1>1, <1>3, <1>4, <1>5 DEF SendTakes, SockTypeOK
<1>10. /\ Registered' = Registered
       /\ \A i : ConnOfSlot(i)' = ConnOfSlot(i)
  BY <1>0, <1>2, TableKept
<1>11. ASSUME NEW i \in Registered, NEW d \in Conn, d = ConnOfSlot(i), peer[d] = "open"
       PROVE  Heard(d)' = Heard(d)
  <2>1. IsConcat(Heard(d), inbox[d], FlattenSeq(Pieces(ch, ss, l, i)))
    BY <1>0, <1>4, <1>5, <1>11 DEF HeardFacts
  <2>2. IsConcat(Heard(d)', inbox'[d], FlattenSeq(Pieces(ch, ss2, l2, i)))
    <3>1. i \in Registered' /\ ConnOfSlot(i)' = d /\ peer'[d] = "open"
      BY <1>8, <1>10, <1>11
    <3>2. QED
      BY <1>0, <1>4, <1>5, <3>1 DEF HeardFacts
  <2>3. CASE i # i0
    <3>1. d # c0
      BY <1>0, <1>3, <1>5, <1>11, <2>3, OneConn
    <3>2. i \in Nat
      BY MaxClientAssumption DEF Registered, Slot
    <3>3. QED
      BY <1>7, <1>8, <2>1, <2>2, <2>3, <3>1, <3>2 DEF IsConcat
  <2>4. CASE i = i0
    <3>1. PICK u, w : /\ u = Units(ch, p[1], MsgLen - l + 1, k)
                      /\ w = FlattenSeq(Pieces(ch, ss2, l2, i))
      OBVIOUS
    <3>2. /\ Heard(d) = inbox[d] \o (u \o w)
          /\ Heard(d)' = (inbox[d] \o u) \o w
      BY <1>3, <1>7, <1>9, <1>11, <2>1, <2>2, <2>4, <3>1 DEF IsConcat
    <3>3. u \in Seq(Unit)
      <4>1. p[1] \in Nat /\ MsgLen - l + 1 \in Nat \ {0} /\ k \in Nat
        BY <1>0, <1>1, <1>5, SizeAssumption DEF TypeOK, ServeTypeOK
      <4>2. QED
        BY <1>5, <3>1, <4>1, UnitsType
    <3>4. w \in Seq(Unit)
      <4>1. l2 \in 0..MsgLen
        BY <1>0, <1>4 DEF TypeOK, ServeTypeOK
      <4>2. QED
        BY <1>5, <3>1, <4>1, PiecesType, FlattenType
    <3>5. PICK v : v = inbox[d]
      OBVIOUS
    <3>6. v \in Seq(Unit)
      BY <1>0, <3>5 DEF SockTypeOK
    <3>7. (v \o u) \o w = v \o (u \o w)
      BY <3>3, <3>4, <3>6, ConcatAssociative
    <3>8. QED
      BY <3>2, <3>5, <3>7
  <2>5. QED
    BY <2>3, <2>4
<1>12. ASSUME NEW d \in Conn
       PROVE  Heard(d)' = Heard(d)
  <2>1. CASE peer[d] # "open"
    BY <1>0, <1>8, <2>1 DEF HeardFacts
  <2>2. CASE peer[d] = "open" /\ \E i \in Registered : ConnOfSlot(i) = d
    BY <1>11, <2>2
  <2>3. CASE peer[d] = "open" /\ ~ \E i \in Registered : ConnOfSlot(i) = d
    <3>1. d # c0
      BY <1>3, <1>5, <2>3
    <3>2. \A q \in sends : ConnOfSlot(q[2]) # d
      BY <1>0, <2>3 DEF LoopInv, Receivers
    <3>3. ASSUME NEW q \in sends'
          PROVE  ConnOfSlot(q[2])' # d
      <4>1. q \in sends
        BY <1>1
      <4>2. PICK i : i = q[2]
        OBVIOUS
      <4>3. QED
        BY <1>10, <3>2, <4>1, <4>2
    <3>4. QED
      BY <1>0, <1>8, <2>3, <3>1, <3>2, <3>3 DEF HeardFacts
  <2>4. QED
    BY <2>1, <2>2, <2>3
<1>13. UNCHANGED <<Members, Leavers, Said, HeardByAll>>
  <2>1. UNCHANGED Members
    BY <1>0, <1>2, MembersKept
  <2>2. UNCHANGED Leavers
    BY <1>8 DEF Leavers
  <2>3. UNCHANGED Said
    BY <1>2 DEF Said
  <2>4. UNCHANGED HeardByAll
    BY <1>12 DEF HeardByAll
  <2>5. QED
    BY <2>1, <2>2, <2>3, <2>4
<1>14. QED
  BY <1>13, Stutter

\* Of what the clients do by themselves, the room sees that they leave.
LEMMA PromiseClient ==
  ASSUME RoomInv, RoomInv', NEW c \in Conn, Client(c) \/ Network(c)
  PROVE  [Promise!Next]_Promise!vars
<1>0. /\ TypeOK /\ RegistryAgrees /\ SlotsApart /\ ConnsApart /\ SockTypeOK /\ LoopInv
      /\ HeardFacts /\ HeardFacts' /\ EpollInv /\ MessagesInOrder
  BY Both DEF RoomInv, MessagesInOrder
<1>a. /\ Connect(c) \/ Write(c) \/ Leave(c) \/ Read(c) \/ Reset(c)
      /\ ServerUnchanged
  BY ClientAct
<1>1. /\ UNCHANGED <<clients_list, fds, inbox, chunk, sends, sleft>>
      /\ \A d \in Conn : d # c => peer'[d] = peer[d]
  BY <1>0, <1>a DEF Connect, Write, Leave, Read, Reset, ServerUnchanged,
              tableVars, loopVars, SockTypeOK
<1>2. UNCHANGED Members
  BY <1>0, <1>1, MembersKept
<1>3. UNCHANGED Said
  <2>1. \A d \in Conn : (wrote[d] - Len(outbox[d]))' = wrote[d] - Len(outbox[d])
    BY <1>0, MessagesClient
  <2>2. QED
    BY <2>1 DEF Said
<1>4. ASSUME NEW d \in Conn, peer'[d] = peer[d]
      PROVE  Heard(d)' = Heard(d)
  BY <1>0, <1>1, <1>4, HeardSame
<1>5. CASE Leave(c)
  <2>1. peer[c] = "open" /\ peer'[c] \in Gone
    BY <1>0, <1>5 DEF Leave, SockTypeOK, Gone
  <2>2. c \notin Leavers /\ Leavers' = Leavers \cup {c}
    BY <1>1, <2>1 DEF Leavers, Gone
  <2>3. Heard(c)' = <<>>
    BY <1>0, <2>1 DEF HeardFacts, Gone
  <2>4. HeardByAll' = [HeardByAll EXCEPT ![c] = <<>>]
    BY <1>1, <1>4, <2>3 DEF HeardByAll
  <2>5. Promise!Leave(c)
    BY <1>2, <1>3, <2>2, <2>4 DEF Promise!Leave
  <2>6. QED
    BY <2>5 DEF Promise!Next
<1>6. CASE Connect(c)
  <2>1. peer[c] = "new" /\ peer'[c] = "open" /\ inbox[c] = <<>>
    BY <1>0, <1>6 DEF Connect, SockTypeOK, MessagesInOrder
  <2>2. \A i \in Registered : ConnOfSlot(i) # c
    <3> SUFFICES ASSUME NEW i \in Registered
                 PROVE  ConnOfSlot(i) # c
      OBVIOUS
    <3>1. /\ FdOfSlot(i) \in Fd /\ ConnOfSlot(i) = fds[FdOfSlot(i)]
          /\ ConnOfSlot(i) # NoConn
      BY <1>0, RegisteredFd, ConnAssumption
    <3>2. QED
      BY <1>0, <2>1, <3>1 DEF ConnsApart
  <2>3. ASSUME NEW p \in sends'
        PROVE  ConnOfSlot(p[2])' # c
    <3>1. p \in sends
      BY <1>1
    <3>2. PICK i : i = p[2]
      OBVIOUS
    <3>3. i \in Registered
      BY <1>0, <3>1, <3>2 DEF LoopInv, Receivers
    <3>4. ConnOfSlot(i)' = ConnOfSlot(i)
      BY <1>0, <1>1, TableKept
    <3>5. QED
      BY <2>2, <3>2, <3>3, <3>4
  <2>4. Heard(c) = <<>> /\ Heard(c)' = <<>>
    BY <1>0, <1>1, <2>1, <2>3 DEF HeardFacts
  <2>5. UNCHANGED HeardByAll
    BY <1>1, <1>4, <2>4 DEF HeardByAll
  <2>6. UNCHANGED Leavers
    BY <1>1, <2>1 DEF Leavers, Gone
  <2>7. QED
    BY <1>2, <1>3, <2>5, <2>6, Stutter
<1>7. CASE Write(c) \/ Read(c)
  <2>1. UNCHANGED peer
    BY <1>7 DEF Write, Read
  <2>2. UNCHANGED <<Leavers, HeardByAll>>
    BY <1>4, <2>1 DEF Leavers, HeardByAll
  <2>3. QED
    BY <1>2, <1>3, <2>2, Stutter
<1>8. CASE Reset(c)
  <2>1. peer[c] = "doomed" /\ peer'[c] = "reset"
    BY <1>0, <1>8 DEF Reset, SockTypeOK
  <2>2. Heard(c) = <<>> /\ Heard(c)' = <<>>
    BY <1>0, <2>1 DEF HeardFacts
  <2>3. UNCHANGED <<Leavers, HeardByAll>>
    BY <1>1, <1>4, <2>1, <2>2 DEF Leavers, HeardByAll, Gone
  <2>4. QED
    BY <1>2, <1>3, <2>3, Stutter
<1>9. QED
  BY <1>5, <1>6, <1>7, <1>8, <1>a

LEMMA PromiseStep ==
  ASSUME RoomInv, [Next]_vars
  PROVE  [Promise!Next]_Promise!vars
<1>1. RoomInv'
  BY RoomStep
<1>2. QED
  BY <1>1, PromiseAccept, PromiseRound, PromiseExpel, PromiseSpeak, PromiseSend,
     PromiseClient
  DEF Next, Server

-----------------------------------------------------------------------------
(* The theorems. *)

\* The inductive invariant.
THEOREM EpollInvCorrect == Spec => []EpollInv
<1>1. Init => EpollInv
  BY EpollInit
<1>2. EpollInv /\ [Next]_vars => EpollInv'
  BY EpollStep
<1>3. QED
  BY <1>1, <1>2, PTL DEF Spec

\* Every variable of the server and of its sockets keeps its type: the slot
\* being served is a slot, and what is sent on is a chunk that was received.
THEOREM EpollTypeCorrect == Spec => []TypeOK
BY EpollInvCorrect, PTL DEF EpollInv

\* clients_list, client_map and epoll's registrations agree, and every client
\* has an open descriptor and a connection of its own, after any joins and leaves
\* and whichever descriptors accept reuses.
THEOREM RegistryAgreesCorrect == Spec => []RegistryAgrees
BY EpollInvCorrect, PTL DEF EpollInv

\* A descriptor is left open without being registered by an accept with a full
\* table (4.cpp:151-154) only, and then for good.
THEOREM StrayOnlyWhenFullCorrect == Spec => StrayOnlyWhenFull
<1>1. EpollInv /\ [Next]_vars => [Stray' = Stray \/ (TableFull /\ Stray \subseteq Stray')]_vars
  BY StrayStep
<1>2. QED
  BY <1>1, EpollInvCorrect, PTL DEF Spec, StrayOnlyWhenFull

\* No event is left for a descriptor that is closed or has a new owner, so
\* client_map.at does not throw and main's "return 1" is never reached.
THEOREM EventsCurrentCorrect == Spec => []EventsCurrent
BY EpollInvCorrect, PTL DEF EpollInv

\* Edge-triggered events lose no data: a client whose data recv has not
\* returned is on its way to the receive loop, or is in it.
THEOREM NoLostEdgeCorrect == Spec => []NoLostEdge
BY EpollInvCorrect, PTL DEF EpollInv

\* connected_clients_num is the number of clients in the table.
THEOREM CountExactCorrect == Spec => []CountExact
<1>1. Init => CountExact
  <2> SUFFICES ASSUME Init
               PROVE  CountExact
    OBVIOUS
  <2>1. Registered = {}
    BY DEF Init, ServeInit, Registered
  <2>2. QED
    BY <2>1, FS_EmptySet DEF Init, ServeInit, CountExact
<1>2. EpollInv /\ CountExact /\ [Next]_vars => CountExact'
  BY CountStep
<1>3. QED
  BY <1>1, <1>2, EpollInvCorrect, PTL DEF Spec

\* RoomInv, on which the refinement rests.
THEOREM RoomInvCorrect == Spec => []RoomInv
<1>1. Init => RoomInv
  BY RoomInit
<1>2. RoomInv /\ [Next]_vars => RoomInv'
  BY RoomStep
<1>3. QED
  BY <1>1, <1>2, PTL DEF Spec

\* The server of 4.cpp is a chat room as ChatRoom promises, for any number
\* of clients, slots, descriptors, events in a batch and chunks of any shape,
\* whatever part of a message send takes: no chunk is lost, repeated,
\* reordered, cut or mixed with another on its way to any member that stays,
\* and only clients that left are destroyed.
THEOREM RoomPromiseCorrect == Spec => RoomPromise
<1>1. Init => Promise!Init
  BY PromiseInit
<1>2. RoomInv /\ [Next]_vars => [Promise!Next]_Promise!vars
  BY PromiseStep
<1>3. QED
  BY <1>1, <1>2, RoomInvCorrect, PTL DEF Spec, RoomPromise, Promise!Spec
=============================================================================
