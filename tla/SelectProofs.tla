---------------------------- MODULE SelectProofs ----------------------------
(* What holds of SelectChat for every number of clients, slots, descriptors *)
(* and chunks.                                                              *)
EXTENDS SelectChat, ServeRoom, SocketsProofs

-----------------------------------------------------------------------------
(* The table and the descriptors.                                           *)

\* A registered slot's descriptor is one accept returned, and stands for a
\* connection of its own.
LEMMA RegisteredFd ==
  ASSUME TypeOK, SlotsApart, NEW i \in Registered
  PROVE  /\ i \in Slot /\ FdOfSlot(i) \in Fd
         /\ ConnOfSlot(i) = fds[FdOfSlot(i)] /\ ConnOfSlot(i) \in Conn
<1>1. ConnOfSlot(i) # NoConn /\ i \in Slot
  BY DEF SlotsApart, Registered
<1>2. FdOfSlot(i) \in Fd /\ ConnOfSlot(i) = fds[FdOfSlot(i)]
  BY <1>1 DEF ConnOfSlot, ConnOf
<1>3. QED
  BY <1>1, <1>2 DEF TypeOK, SockTypeOK

\* Two registered slots stand for different connections.
LEMMA OneConn ==
  ASSUME TypeOK, SlotsApart, ConnsApart,
         NEW i \in Registered, NEW j \in Registered, ConnOfSlot(i) = ConnOfSlot(j)
  PROVE  i = j
<1>1. /\ FdOfSlot(i) \in Fd /\ FdOfSlot(j) \in Fd
      /\ fds[FdOfSlot(i)] = fds[FdOfSlot(j)] /\ fds[FdOfSlot(i)] # NoConn
  BY RegisteredFd, ConnAssumption
<1>2. FdOfSlot(i) = FdOfSlot(j)
  BY <1>1 DEF ConnsApart
<1>3. QED
  BY <1>2 DEF SlotsApart

\* Steps that leave the table and the descriptors as they are.
LEMMA TableKept ==
  ASSUME SlotsApart, UNCHANGED <<clients_list, fds>>
  PROVE  /\ SlotsApart' /\ UNCHANGED Registered
         /\ \A i : UNCHANGED <<FdOfSlot(i), ConnOfSlot(i)>>
BY DEF SlotsApart, Registered, FdOfSlot, ConnOfSlot, ConnOf

\* accept opens one descriptor: what the slots stand for stays.
LEMMA AcceptTable ==
  ASSUME TypeOK, SlotsApart, NEW f, AcceptAs(f)
  PROVE  /\ f \in Fd /\ fds'[f] \in Conn
         /\ \A i \in Registered : FdOfSlot(i) # f /\ fds'[FdOfSlot(i)] = ConnOfSlot(i)
<1>1. /\ f \in Fd /\ fds[f] = NoConn /\ Head(backlog) \in Conn
      /\ fds' = [fds EXCEPT ![f] = Head(backlog)]
  BY AcceptType DEF TypeOK
<1>2. fds'[f] \in Conn /\ \A g \in Fd : g # f => fds'[g] = fds[g]
  BY <1>1 DEF TypeOK, SockTypeOK
<1>3. \A i \in Registered : /\ FdOfSlot(i) \in Fd /\ ConnOfSlot(i) = fds[FdOfSlot(i)]
                            /\ ConnOfSlot(i) # NoConn
  BY RegisteredFd, ConnAssumption
<1>4. QED
  BY <1>1, <1>2, <1>3

\* A client is added: its slot and its descriptor are nobody else's.
LEMMA JoinTable ==
  ASSUME TypeOK, SlotsApart, NEW f, NEW i \in Slot,
         AcceptAs(f), FirstFree(i), Register(i, f)
  PROVE  /\ SlotsApart'
         /\ Registered' = Registered \cup {i} /\ i \notin Registered
         /\ ConnOfSlot(i)' = fds'[f]
         /\ \A j \in Registered : UNCHANGED <<FdOfSlot(j), ConnOfSlot(j)>>
<1>1. /\ f \in Fd /\ fds'[f] \in Conn
      /\ \A j \in Registered : FdOfSlot(j) # f /\ fds'[FdOfSlot(j)] = ConnOfSlot(j)
  BY AcceptTable
<1>2. /\ clients_list'[i] = [first |-> TRUE, second |-> f]
      /\ \A j \in Slot : j # i => clients_list'[j] = clients_list[j]
  BY DEF TypeOK, ServeTypeOK, Register
<1>3. Registered' = Registered \cup {i} /\ i \notin Registered
  BY <1>2 DEF Registered, FirstFree
<1>4. FdOfSlot(i)' = f /\ ConnOfSlot(i)' = fds'[f]
  BY <1>1, <1>2 DEF FdOfSlot, ConnOfSlot, ConnOf
<1>5. \A j \in Registered : j \in Slot /\ j # i /\ FdOfSlot(j) \in Fd
  BY <1>3, RegisteredFd
<1>6. \A j \in Registered : FdOfSlot(j)' = FdOfSlot(j) /\ ConnOfSlot(j)' = ConnOfSlot(j)
  BY <1>1, <1>2, <1>5 DEF FdOfSlot, ConnOfSlot, ConnOf
<1>7. SlotsApart'
  BY <1>1, <1>3, <1>4, <1>6, ConnAssumption DEF SlotsApart
<1>8. QED
  BY <1>3, <1>4, <1>6, <1>7

\* A client is destroyed: its slot and its descriptor go together, and
\* nobody else's do.
LEMMA LeaveTable ==
  ASSUME TypeOK, SlotsApart, NEW i \in Registered, Unregister(i)
  PROVE  /\ SlotsApart'
         /\ Registered' = Registered \ {i}
         /\ \A j \in Registered' : UNCHANGED <<FdOfSlot(j), ConnOfSlot(j)>>
<1>1. /\ clients_list' = [clients_list EXCEPT ![i].first = FALSE]
      /\ fds' = [g \in Fd |-> IF g = FdOfSlot(i) THEN NoConn ELSE fds[g]]
      /\ i \in Slot
  BY DEF Unregister, CloseFd, Registered
<1>2. /\ clients_list'[i].first = FALSE
      /\ \A j \in Slot : j # i => clients_list'[j] = clients_list[j]
  BY <1>1 DEF TypeOK, ServeTypeOK
<1>3. Registered' = Registered \ {i}
  BY <1>2 DEF Registered
<1>4. \A j \in Registered' : /\ j \in Slot /\ j # i /\ j \in Registered
                             /\ FdOfSlot(j) \in Fd /\ FdOfSlot(j) # FdOfSlot(i)
                             /\ ConnOfSlot(j) = fds[FdOfSlot(j)]
  BY <1>3, RegisteredFd DEF SlotsApart
<1>5. \A j \in Registered' : FdOfSlot(j)' = FdOfSlot(j)
  BY <1>2, <1>4 DEF FdOfSlot
<1>6. \A j \in Registered' : ConnOfSlot(j)' = ConnOfSlot(j)
  BY <1>1, <1>4, <1>5 DEF ConnOfSlot, ConnOf
<1>7. SlotsApart'
  BY <1>3, <1>4, <1>5, <1>6 DEF SlotsApart
<1>8. QED
  BY <1>3, <1>5, <1>6, <1>7

-----------------------------------------------------------------------------
(* Type correctness.                                                        *)

LEMMA SelectInit == Init => SelectInv
<1> SUFFICES ASSUME Init
             PROVE  SelectInv
  OBVIOUS
<1> USE MaxClientAssumption, SizeAssumption DEF Init, ServeInit
<1>1. Registered = {}
  BY DEF Registered
<1>2. SockTypeOK
  BY InitType
<1>3. /\ clients_list \in [Slot -> [first : BOOLEAN, second : Fd \cup {0}]]
      /\ index \in Slot /\ i_next \in 0..MaxClient
      /\ sleft \in 0..MsgLen /\ connected_clients_num \in Int
      /\ flag \in BOOLEAN /\ sends \in SUBSET (Nat \X Slot) /\ chunk = <<>>
  BY DEF Slot
<1>4. TypeOK
  BY <1>2, <1>3 DEF TypeOK, ServeTypeOK
<1>5. SlotsApart /\ BitsCurrent /\ LoopInv
  BY <1>1 DEF SlotsApart, BitsCurrent, LoopInv
<1>6. ConnsApart
  BY DEF SockInit, ConnsApart
<1>7. QED
  BY <1>4, <1>5, <1>6 DEF SelectInv, TableInv

LEMMA TypeAccept ==
  ASSUME SelectInv, AcceptClient \/ AcceptWhenFull \/ AcceptNothing
  PROVE  TypeOK'
<1> USE DEF SelectInv, TableInv, TypeOK, ServeTypeOK
<1>1. CASE AcceptClient
  <2>1. PICK f \in FreeFds, i \in Slot : AcceptAs(f) /\ Register(i, f)
    BY <1>1 DEF AcceptClient
  <2>2. SockTypeOK' /\ f \in Fd
    BY <2>1, AcceptType
  <2>3. /\ clients_list' \in [Slot -> [first : BOOLEAN, second : Fd \cup {0}]]
        /\ connected_clients_num' \in Int
    BY <2>1, <2>2 DEF Register
  <2>4. QED
    BY <1>1, <2>2, <2>3 DEF AcceptClient, loopVars, selectVars
<1>2. CASE AcceptWhenFull
  <2>1. SockTypeOK'
    BY <1>2, AcceptType DEF AcceptWhenFull
  <2>2. QED
    BY <1>2, <2>1 DEF AcceptWhenFull, tableVars, loopVars, selectVars
<1>3. CASE AcceptNothing
  BY <1>3 DEF AcceptNothing, SockTypeOK, sockVars, tableVars, loopVars, selectVars
<1>4. QED
  BY <1>1, <1>2, <1>3

LEMMA TypeRound ==
  ASSUME SelectInv, Select \/ ServeNext \/ RoundDone
  PROVE  TypeOK'
<1> USE DEF SelectInv, TableInv, TypeOK, ServeTypeOK
<1>1. CASE Select
  <2>1. \A i \in Registered : FdOfSlot(i) \in Fd
    BY RegisteredFd
  <2>2. clients' \in SUBSET Fd /\ i_next' \in 0..MaxClient
    BY <1>1, <2>1, MaxClientAssumption DEF Select
  <2>3. QED
    BY <1>1, <2>2 DEF Select, SockTypeOK, sockVars, tableVars, loopVars
<1>2. CASE ServeNext
  <2>1. PICK i \in ReadySlots : StartServing(i) /\ i_next' = i + 1
    BY <1>2 DEF ServeNext
  <2>2. i \in Slot /\ i + 1 \in 0..MaxClient
    BY MaxClientAssumption DEF ReadySlots, Registered, Slot
  <2>3. QED
    BY <1>2, <2>1, <2>2 DEF ServeNext, StartServing, SockTypeOK, sockVars, tableVars
<1>3. CASE RoundDone
  BY <1>3 DEF RoundDone, SockTypeOK, sockVars, tableVars, loopVars
<1>4. QED
  BY <1>1, <1>2, <1>3

LEMMA TypeServe ==
  ASSUME SelectInv, ServeRecv \/ ServeDone \/ ClientDestroy \/ ServeSend \/ ServeAborts
  PROVE  TypeOK'
<1> USE DEF SelectInv, TableInv, TypeOK, ServeTypeOK
<1>1. CASE ServeRecv
  <2>1. /\ index \in Registered /\ TakeChunk(ConnOfSlot(index))
        /\ chunk' = Head(outbox[ConnOfSlot(index)])
    BY <1>1 DEF ServeRecv, RecvChunk, AtRecv, LoopInv
  <2>2. SockTypeOK' /\ chunk' \in Chunk
    BY <2>1, RegisteredFd, TakeType
  <2>3. sends' \in SUBSET (Nat \X Slot)
    <3>1. chunk'.shape \in Seq(BOOLEAN)
      BY <2>2, SizeAssumption DEF Chunk
    <3>2. NonEmptyLines(chunk') \subseteq Nat
      BY <3>1 DEF NonEmptyLines
    <3>3. sends' = NonEmptyLines(chunk') \X Receivers /\ Receivers \subseteq Slot
      BY <1>1 DEF ServeRecv, RecvChunk, Receivers, Registered
    <3>4. QED
      BY <3>2, <3>3
  <2>4. sleft' \in 0..MsgLen /\ flag' = FALSE
    <3>1. sleft' = 0 \/ sleft' = MsgLen
      BY <1>1 DEF ServeRecv, RecvChunk
    <3>2. QED
      BY <1>1, <3>1, SizeAssumption DEF ServeRecv, RecvChunk
  <2>5. QED
    BY <1>1, <2>2, <2>3, <2>4 DEF ServeRecv, RecvChunk, tableVars, selectVars
<1>2. CASE ServeDone
  <2>1. /\ pc' = "check" /\ index' \in Slot /\ flag' = FALSE /\ chunk' = <<>>
        /\ UNCHANGED <<sends, sleft>>
    BY <1>2, MaxClientAssumption DEF ServeDone, LeaveLoop, Slot
  <2>2. QED
    BY <1>2, <2>1 DEF ServeDone, SockTypeOK, sockVars, tableVars, selectVars
<1>3. CASE ClientDestroy
  <2>1. SockTypeOK'
    BY <1>3, CloseType DEF ClientDestroy, Unregister
  <2>2. /\ clients_list' = [clients_list EXCEPT ![index].first = FALSE]
        /\ connected_clients_num' = connected_clients_num - 1
    BY <1>3 DEF ClientDestroy, Unregister
  <2>3. /\ clients_list' \in [Slot -> [first : BOOLEAN, second : Fd \cup {0}]]
        /\ connected_clients_num' \in Int
    <3>1. /\ clients_list \in [Slot -> [first : BOOLEAN, second : Fd \cup {0}]]
          /\ connected_clients_num \in Int
      OBVIOUS
    <3> HIDE DEF SelectInv, TableInv, TypeOK, ServeTypeOK
    <3>2. clients_list' \in [Slot -> [first : BOOLEAN, second : Fd \cup {0}]]
      BY <2>2, <3>1
    <3>3. QED
      BY <2>2, <3>1, <3>2
  <2>4. /\ pc' = "check" /\ index' \in Slot /\ flag' = FALSE /\ chunk' = <<>>
        /\ UNCHANGED <<sends, sleft>>
    BY <1>3, MaxClientAssumption DEF ClientDestroy, LeaveLoop, Slot
  <2>5. QED
    BY <1>3, <2>1, <2>3, <2>4 DEF ClientDestroy, selectVars
<1>4. CASE ServeSend
  <2>1. PICK p \in sends, k \in 1..sleft :
          /\ SendTakes(ConnOfSlot(p[2]), chunk, p[1], sleft, k)
          /\ sends' = IF k = sleft THEN sends \ {p} ELSE sends
          /\ sleft' = IF k < sleft THEN sleft - k
                      ELSE IF sends' = {} THEN 0 ELSE MsgLen
    BY <1>4 DEF ServeSend, Send
  <2>2. p[1] \in Nat /\ p[2] \in Registered /\ chunk \in Chunk
    BY <2>1 DEF LoopInv, Receivers
  <2>3. SockTypeOK'
    BY <2>1, <2>2, RegisteredFd, SendType
  <2>4. sends' \in SUBSET (Nat \X Slot) /\ sleft' \in 0..MsgLen
    BY <2>1, SizeAssumption
  <2>5. QED
    BY <1>4, <2>3, <2>4 DEF ServeSend, Send, tableVars, selectVars
<1>5. CASE ServeAborts
  BY <1>5 DEF ServeAborts, SendAborts, SockTypeOK, sockVars, tableVars,
              loopVars, selectVars
<1>6. QED
  BY <1>1, <1>2, <1>3, <1>4, <1>5

LEMMA TypeClient ==
  ASSUME SelectInv, NEW c \in Conn, Client(c) \/ Network(c)
  PROVE  TypeOK'
<1>1. SockTypeOK'
  BY ClientType DEF SelectInv, TableInv, TypeOK, Client, Network
<1>2. QED
  BY <1>1 DEF SelectInv, TableInv, TypeOK, ServeTypeOK, Client, Network,
              ServerUnchanged, tableVars, loopVars, selectVars

-----------------------------------------------------------------------------
(* Every step keeps SelectInv.                                              *)

\* Steps that leave the table, the descriptors and the bits as they are, and
\* keep readable what has still to be served.
LEMMA BitsKept ==
  ASSUME BitsCurrent, UNCHANGED <<clients_list, fds, clients, i_next>>,
         pc' \in {"check", "serve"} => pc \in {"check", "serve"},
         \A i \in Registered : i >= i_next /\ Readable(FdOfSlot(i))
                                 => Readable(FdOfSlot(i))'
  PROVE  BitsCurrent'
<1>1. Registered' = Registered /\ \A i : FdOfSlot(i)' = FdOfSlot(i)
  BY DEF Registered, FdOfSlot
<1>2. QED
  BY <1>1 DEF BitsCurrent

\* A new client is not served before select has been asked again.
LEMMA AcceptStep ==
  ASSUME SelectInv, AcceptClient \/ AcceptWhenFull \/ AcceptNothing
  PROVE  SelectInv'
<1>0. TypeOK' /\ TypeOK /\ SlotsApart /\ SockTypeOK
  BY TypeAccept DEF SelectInv, TableInv, TypeOK
<1>1. pc = "accept" /\ pc' = "select" /\ sends = {} /\ sends' = {}
  BY DEF AcceptClient, AcceptWhenFull, AcceptNothing, loopVars, SelectInv, LoopInv
<1>2. BitsCurrent' /\ LoopInv'
  BY <1>1 DEF BitsCurrent, LoopInv
<1>3. SlotsApart'
  <2>1. CASE AcceptClient
    BY <1>0, <2>1, JoinTable DEF AcceptClient
  <2>2. CASE AcceptWhenFull
    <3>1. PICK f \in FreeFds : AcceptAs(f)
      BY <2>2 DEF AcceptWhenFull
    <3>2. UNCHANGED clients_list
      BY <2>2 DEF AcceptWhenFull, tableVars
    <3>3. \A i \in Registered : /\ FdOfSlot(i) \in Fd /\ ConnOfSlot(i) # NoConn
                                /\ fds'[FdOfSlot(i)] = ConnOfSlot(i)
      BY <1>0, <3>1, AcceptTable, RegisteredFd, ConnAssumption
    <3>4. \A i \in Registered : ConnOfSlot(i)' # NoConn /\ FdOfSlot(i)' = FdOfSlot(i)
      BY <3>2, <3>3 DEF ConnOfSlot, ConnOf, FdOfSlot
    <3>5. QED
      BY <1>0, <3>2, <3>4 DEF SlotsApart, Registered
  <2>3. CASE AcceptNothing
    BY <1>0, <2>3, TableKept DEF AcceptNothing, sockVars, tableVars
  <2>4. QED
    BY <2>1, <2>2, <2>3
<1>4. ConnsApart'
  <2>1. CASE \E f \in FreeFds : AcceptAs(f)
    BY <1>0, <2>1, AcceptApart DEF SelectInv
  <2>2. CASE AcceptNothing
    BY <1>0, <2>2, ApartKept DEF AcceptNothing, sockVars, SelectInv
  <2>3. QED
    BY <2>1, <2>2 DEF AcceptClient, AcceptWhenFull
<1>5. QED
  BY <1>0, <1>1, <1>2, <1>3, <1>4 DEF SelectInv, TableInv

\* select, and the loop over clients_list.
LEMMA RoundStep ==
  ASSUME SelectInv, Select \/ ServeNext \/ RoundDone
  PROVE  SelectInv'
<1>0. TypeOK' /\ TypeOK /\ SlotsApart /\ SockTypeOK
  BY TypeRound DEF SelectInv, TableInv, TypeOK
<1>1. /\ UNCHANGED <<sockVars, tableVars>>
      /\ pc # "serve" /\ sends = {} /\ sends' = {}
  BY DEF Select, ServeNext, RoundDone, StartServing, loopVars, SelectInv, LoopInv
<1>2. SlotsApart' /\ Registered' = Registered /\ \A i : FdOfSlot(i)' = FdOfSlot(i)
  BY <1>0, <1>1, TableKept DEF sockVars, tableVars
<1>3. ConnsApart'
  BY <1>0, <1>1, ApartKept DEF sockVars, SelectInv
<1>4. BitsCurrent'
  <2>1. \A f : Readable(f)' = Readable(f)
    BY <1>1 DEF Readable, HasData, ConnOf, sockVars
  <2>2. CASE Select
    BY <1>2, <2>1, <2>2 DEF Select, BitsCurrent
  <2>3. CASE ServeNext
    <3>1. PICK i \in ReadySlots : i_next' = i + 1
      BY <2>3 DEF ServeNext
    <3>2. i_next' > i_next /\ pc = "check" /\ UNCHANGED clients
      BY <1>0, <2>3, <3>1 DEF ServeNext, ReadySlots, Registered, Slot, TypeOK
    <3>3. \A j \in Registered : j >= i_next' => j >= i_next
      BY <1>0, <3>2 DEF Registered, Slot, TypeOK
    <3>4. QED
      BY <1>2, <2>1, <3>2, <3>3 DEF BitsCurrent, SelectInv, TableInv
  <2>4. CASE RoundDone
    BY <2>4 DEF RoundDone, BitsCurrent
  <2>5. QED
    BY <2>2, <2>3, <2>4
<1>5. LoopInv' /\ (pc' = "serve" => index' < i_next')
  <2>1. CASE Select \/ RoundDone
    BY <1>1, <2>1 DEF Select, RoundDone, LoopInv
  <2>2. CASE ServeNext
    <3>1. PICK i \in ReadySlots : StartServing(i) /\ i_next' = i + 1
      BY <2>2 DEF ServeNext
    <3>2. i \in Registered /\ index' = i /\ i < i + 1
      BY <3>1 DEF ReadySlots, Registered, Slot, StartServing
    <3>3. QED
      BY <1>1, <1>2, <3>1, <3>2 DEF LoopInv
  <2>3. QED
    BY <2>1, <2>2
<1>6. QED
  BY <1>0, <1>2, <1>3, <1>4, <1>5 DEF SelectInv, TableInv

\* A chunk is taken from the one connection whose slot the loop is past.
LEMMA RecvStep ==
  ASSUME SelectInv, ServeRecv
  PROVE  SelectInv'
<1>0. TypeOK' /\ TypeOK /\ SlotsApart /\ ConnsApart /\ SockTypeOK
  BY TypeServe DEF SelectInv, TableInv, TypeOK
<1>1. /\ pc = "serve" /\ TakeChunk(ConnOfSlot(index))
      /\ chunk' = Head(outbox[ConnOfSlot(index)])
      /\ sends' = NonEmptyLines(chunk') \X Receivers
      /\ sleft' = IF sends' = {} THEN 0 ELSE MsgLen
      /\ UNCHANGED <<clients_list, pc, index, clients, i_next>>
  BY DEF ServeRecv, RecvChunk, AtRecv, tableVars, selectVars
<1>2. index \in Registered /\ index < i_next
  BY <1>1 DEF SelectInv, LoopInv
<1>3. /\ ConnOfSlot(index) \in Conn /\ chunk' \in Chunk
  BY <1>0, <1>1, <1>2, RegisteredFd, TakeType
<1>4. /\ UNCHANGED <<fds, peer>>
      /\ outbox' = [outbox EXCEPT ![ConnOfSlot(index)] = Tail(@)]
  BY <1>1 DEF TakeChunk
<1>5. SlotsApart' /\ UNCHANGED Registered
  BY <1>0, <1>1, <1>4, TableKept
<1>6. ConnsApart'
  BY <1>0, <1>1, TakeApart
<1>7. BitsCurrent'
  <2>1. ASSUME NEW i \in Registered, i >= i_next, Readable(FdOfSlot(i))
        PROVE  Readable(FdOfSlot(i))'
    <3>1. i # index
      BY <1>0, <1>2, <2>1 DEF Registered, Slot, TypeOK
    <3>2. ConnOfSlot(i) # ConnOfSlot(index) /\ ConnOfSlot(i) \in Conn
      BY <1>0, <1>2, <3>1, OneConn, RegisteredFd
    <3>3. outbox'[ConnOfSlot(i)] = outbox[ConnOfSlot(i)]
      BY <1>0, <1>4, <3>2 DEF SockTypeOK
    <3>4. ConnOfSlot(i)' = ConnOfSlot(i) /\ FdOfSlot(i)' = FdOfSlot(i)
      BY <1>0, <1>1, <1>4, TableKept
    <3>5. QED
      BY <1>4, <2>1, <3>3, <3>4 DEF Readable, HasData, ConnOfSlot
  <2>2. QED
    BY <1>1, <1>4, <2>1, BitsKept DEF SelectInv, TableInv
<1>8. LoopInv'
  <2>1. Receivers' = Receivers
    BY <1>1, <1>5 DEF Receivers
  <2>2. \A p \in sends' : p[2] \in Receivers
    BY <1>1
  <2>3. sends' # {} => sleft' > 0
    BY <1>1, SizeAssumption
  <2>4. QED
    BY <1>1, <1>2, <1>3, <1>5, <2>1, <2>2, <2>3 DEF LoopInv
<1>9. QED
  BY <1>0, <1>1, <1>2, <1>5, <1>6, <1>7, <1>8 DEF SelectInv, TableInv

\* send takes no data from anybody, and makes nobody come back.
LEMMA SendReadable ==
  ASSUME SelectInv, ServeSend \/ ServeAborts,
         NEW i \in Registered, Readable(FdOfSlot(i))
  PROVE  Readable(FdOfSlot(i))'
<1>0. TypeOK /\ SlotsApart
  BY DEF SelectInv, TableInv
<1>1. UNCHANGED <<clients_list, fds, outbox>>
  BY DEF ServeSend, Send, SendTakes, ServeAborts, SendAborts, sockVars, tableVars
<1>2. \A c \in Conn : peer[c] \in Gone => peer'[c] \in Gone
  BY <1>0 DEF ServeSend, Send, SendTakes, ServeAborts, SendAborts, sockVars,
              TypeOK, SockTypeOK, Gone
<1>3. ConnOfSlot(i) \in Conn
  BY <1>0, RegisteredFd
<1>4. UNCHANGED <<FdOfSlot(i), ConnOfSlot(i)>>
  BY <1>0, <1>1, TableKept
<1>5. QED
  BY <1>1, <1>2, <1>3, <1>4 DEF Readable, HasData, ConnOfSlot

LEMMA SendStep ==
  ASSUME SelectInv, ServeSend \/ ServeAborts
  PROVE  SelectInv'
<1>0. TypeOK' /\ TypeOK /\ SlotsApart /\ ConnsApart /\ SockTypeOK
  BY TypeServe DEF SelectInv, TableInv, TypeOK
<1>1. /\ pc = "serve"
      /\ UNCHANGED <<clients_list, fds, outbox, pc, index, chunk, clients, i_next>>
  BY DEF ServeSend, Send, SendTakes, ServeAborts, SendAborts, sockVars,
         tableVars, loopVars, selectVars
<1>2. SlotsApart' /\ UNCHANGED Registered /\ \A i : UNCHANGED <<FdOfSlot(i), ConnOfSlot(i)>>
  BY <1>0, <1>1, TableKept
<1>3. ConnsApart'
  <2>1. CASE ServeSend
    BY <1>0, <2>1, SendApart DEF ServeSend, Send
  <2>2. CASE ServeAborts
    BY <1>0, <2>2, ApartKept DEF ServeAborts, SendAborts, sockVars
  <2>3. QED
    BY <2>1, <2>2
<1>5. BitsCurrent'
  BY <1>1, SendReadable, BitsKept DEF SelectInv, TableInv
<1>6. sends' \subseteq sends /\ (sends' # {} => sleft' > 0)
  <2>1. CASE ServeSend
    <3>1. PICK p \in sends, k \in 1..sleft :
            /\ sends' = IF k = sleft THEN sends \ {p} ELSE sends
            /\ sleft' = IF k < sleft THEN sleft - k
                        ELSE IF sends' = {} THEN 0 ELSE MsgLen
      BY <2>1 DEF ServeSend, Send
    <3>2. sleft \in Nat
      BY <1>0, SizeAssumption DEF TypeOK, ServeTypeOK
    <3>3. QED
      BY <3>1, <3>2, SizeAssumption
  <2>2. CASE ServeAborts
    BY <2>2 DEF ServeAborts, SendAborts, loopVars, SelectInv, LoopInv
  <2>3. QED
    BY <2>1, <2>2
<1>7. LoopInv'
  BY <1>1, <1>2, <1>6 DEF LoopInv, Receivers, SelectInv
<1>8. QED
  BY <1>0, <1>1, <1>2, <1>3, <1>5, <1>7 DEF SelectInv, TableInv

\* The client is left as it is, or destroyed: the loop is past its slot.
LEMMA LeaveStep ==
  ASSUME SelectInv, ServeDone \/ ClientDestroy
  PROVE  SelectInv'
<1>0. TypeOK' /\ TypeOK /\ SlotsApart /\ ConnsApart /\ SockTypeOK
  BY TypeServe DEF SelectInv, TableInv, TypeOK
<1>1. /\ pc = "serve" /\ pc' = "check" /\ sends = {} /\ sends' = {}
      /\ UNCHANGED <<clients, i_next, outbox, peer>>
      /\ index \in Registered /\ index < i_next
  BY DEF ServeDone, ClientDestroy, RecvFails, AtRecv, LeaveLoop, Unregister,
         CloseFd, sockVars, selectVars, SelectInv, LoopInv
<1>2. LoopInv'
  BY <1>1 DEF LoopInv
<1>3. CASE ServeDone
  <2>1. UNCHANGED <<clients_list, fds, backlog>>
    BY <1>3 DEF ServeDone, sockVars, tableVars
  <2>2. SlotsApart' /\ \A i : FdOfSlot(i)' = FdOfSlot(i)
    BY <1>0, <2>1, TableKept
  <2>3. ConnsApart'
    BY <1>0, <1>1, <2>1, ApartKept
  <2>4. BitsCurrent'
    BY <1>1, <2>1, <2>2, BitsKept DEF Readable, HasData, ConnOf, SelectInv, TableInv
  <2>5. QED
    BY <1>0, <1>1, <1>2, <2>2, <2>3, <2>4 DEF SelectInv, TableInv
<1>4. CASE ClientDestroy
  <2>1. Unregister(index)
    BY <1>4 DEF ClientDestroy
  <2>2. /\ SlotsApart' /\ Registered' = Registered \ {index}
        /\ \A j \in Registered' : UNCHANGED <<FdOfSlot(j), ConnOfSlot(j)>>
    BY <1>0, <1>1, <2>1, LeaveTable
  <2>3. ConnsApart'
    BY <1>0, <2>1, CloseApart DEF Unregister
  <2>4. BitsCurrent'
    BY <1>1, <2>2 DEF BitsCurrent, Readable, HasData, ConnOfSlot, SelectInv, TableInv
  <2>5. QED
    BY <1>0, <1>1, <1>2, <2>2, <2>3, <2>4 DEF SelectInv, TableInv
<1>5. QED
  BY <1>3, <1>4

\* A client that is readable stays so: nobody but the loop takes its data,
\* and who has left does not come back.
LEMMA ClientReadable ==
  ASSUME SelectInv, NEW c \in Conn, Client(c) \/ Network(c),
         NEW i \in Registered, Readable(FdOfSlot(i))
  PROVE  Readable(FdOfSlot(i))'
<1>0. TypeOK /\ SlotsApart /\ SockTypeOK
  BY DEF SelectInv, TableInv, TypeOK
<1>1. UNCHANGED <<clients_list, fds>>
  BY DEF Client, Network, Connect, Write, Leave, Read, Reset, ServerUnchanged, tableVars
<1>2. UNCHANGED <<FdOfSlot(i), ConnOfSlot(i)>>
  BY <1>0, <1>1, TableKept
<1>3. ConnOfSlot(i) \in Conn
  BY <1>0, RegisteredFd
<1>4. \A d \in Conn : peer[d] \in Gone => peer'[d] \in Gone
  BY <1>0 DEF Client, Network, Connect, Write, Leave, Read, Reset, SockTypeOK, Gone
<1>5. \A d \in Conn : outbox[d] # <<>> => outbox'[d] # <<>>
  <2>1. CASE Write(c)
    <3> DEFINE e(sh) == [from |-> c, num |-> wrote[c] + 1, shape |-> sh]
    <3>1. PICK sh \in Shapes : outbox' = [outbox EXCEPT ![c] = Append(outbox[c], e(sh))]
      BY <2>1 DEF Write
    <3>2. outbox[c] \in Seq(Chunk)
      BY <1>0 DEF SockTypeOK
    <3>3. e(sh) \in Chunk
      BY <1>0, SizeAssumption DEF SockTypeOK, Chunk
    <3> HIDE DEF e
    <3>4. Append(outbox[c], e(sh)) # <<>>
      BY <3>2, <3>3
    <3>5. QED
      BY <1>0, <3>1, <3>4 DEF SockTypeOK
  <2>2. CASE UNCHANGED outbox
    BY <2>2
  <2>3. QED
    BY <2>1, <2>2 DEF Client, Network, Connect, Leave, Read, Reset
<1>6. QED
  BY <1>1, <1>2, <1>3, <1>4, <1>5 DEF Readable, HasData, ConnOfSlot

LEMMA ClientStep ==
  ASSUME SelectInv, NEW c \in Conn, Client(c) \/ Network(c)
  PROVE  SelectInv'
<1>0. TypeOK' /\ TypeOK /\ SlotsApart /\ ConnsApart /\ SockTypeOK
  BY TypeClient DEF SelectInv, TableInv, TypeOK
<1>1. UNCHANGED <<clients_list, fds, pc, index, chunk, sends, sleft, clients, i_next>>
  BY DEF Client, Network, Connect, Write, Leave, Read, Reset, ServerUnchanged,
         tableVars, loopVars, selectVars
<1>2. SlotsApart' /\ UNCHANGED Registered /\ \A i : UNCHANGED <<FdOfSlot(i), ConnOfSlot(i)>>
  BY <1>0, <1>1, TableKept
<1>3. ConnsApart'
  BY <1>0, ClientApart DEF Client, Network
<1>6. BitsCurrent'
  BY <1>1, ClientReadable, BitsKept DEF SelectInv, TableInv
<1>7. LoopInv'
  BY <1>1, <1>2 DEF LoopInv, Receivers, SelectInv
<1>8. QED
  BY <1>0, <1>1, <1>2, <1>3, <1>6, <1>7 DEF SelectInv, TableInv

LEMMA SelectStep ==
  ASSUME SelectInv, [Next]_vars
  PROVE  SelectInv'
<1>1. CASE Next
  BY <1>1, AcceptStep, RoundStep, RecvStep, SendStep, LeaveStep, ClientStep
  DEF Next, Server
<1>2. CASE UNCHANGED vars
  <2>1. /\ UNCHANGED <<clients_list, fds, backlog, peer, outbox, clients, i_next,
                       pc, index, chunk, sends, sleft>>
        /\ TypeOK' /\ SockTypeOK
    BY <1>2 DEF SelectInv, TableInv, TypeOK, SockTypeOK, ServeTypeOK, vars,
                sockVars, tableVars, loopVars, selectVars
  <2>2. SlotsApart' /\ UNCHANGED Registered /\ \A i : FdOfSlot(i)' = FdOfSlot(i)
    BY <2>1, TableKept DEF SelectInv, TableInv
  <2>3. ConnsApart'
    BY <2>1, ApartKept DEF SelectInv
  <2>4. BitsCurrent'
    BY <2>1, <2>2, BitsKept DEF Readable, HasData, ConnOf, SelectInv, TableInv
  <2>5. LoopInv'
    BY <2>1, <2>2 DEF LoopInv, Receivers, SelectInv
  <2>6. QED
    BY <2>1, <2>2, <2>3, <2>4, <2>5 DEF SelectInv, TableInv
<1>3. QED
  BY <1>1, <1>2

-----------------------------------------------------------------------------
(* Every step keeps RoomInv.                                                *)

LEMMA RoomInit == Init => RoomInv
<1> SUFFICES ASSUME Init
             PROVE  RoomInv
  OBVIOUS
<1>1. SelectInv
  BY SelectInit
<1>2. OutboxOrdered
  BY DEF Init, SockInit, OutboxOrdered
<1>3. \A c \in Conn : Len(outbox[c]) <= wrote[c] /\ inbox[c] = <<>>
  BY DEF Init, SockInit
<1>4. sends = {} /\ pc # "serve"
  BY DEF Init, ServeInit
<1>5. QED
  BY <1>1, <1>2, <1>3, <1>4 DEF RoomInv

\* The messages in flight: chunks leave a connection's queue in order, and
\* nothing reaches a client that has not connected.
MessagesInOrder ==
  /\ OutboxOrdered
  /\ \A c \in Conn :
       Len(outbox[c]) <= wrote[c] /\ (peer[c] = "new" => inbox[c] = <<>>)

LEMMA MessagesKept ==
  ASSUME MessagesInOrder, UNCHANGED <<outbox, wrote, inbox, peer>>
  PROVE  MessagesInOrder'
BY DEF MessagesInOrder, OutboxOrdered

LEMMA MessagesRecv ==
  ASSUME SelectInv, MessagesInOrder, ServeRecv
  PROVE  MessagesInOrder'
<1>1. /\ SockTypeOK /\ TypeOK /\ SlotsApart /\ index \in Registered
      /\ TakeChunk(ConnOfSlot(index)) /\ OutboxOrdered
  BY DEF SelectInv, TableInv, TypeOK, LoopInv, ServeRecv, RecvChunk, AtRecv, MessagesInOrder
<1> DEFINE c == ConnOfSlot(index)
<1>2. c \in Conn
  BY <1>1, RegisteredFd
<1> HIDE DEF c
<1>3. /\ OutboxOrdered'
      /\ wrote'[c] - Len(outbox'[c]) = wrote[c] - Len(outbox[c]) + 1
      /\ \A d \in Conn : d # c => outbox'[d] = outbox[d] /\ wrote'[d] = wrote[d]
  BY <1>1, <1>2, TakeOrdered DEF c
<1>4. UNCHANGED <<wrote, inbox, peer>> /\ SockTypeOK'
  BY <1>1, <1>2, TakeType DEF TakeChunk, c
<1>5. Len(outbox[c]) \in Nat /\ Len(outbox'[c]) \in Nat /\ wrote[c] \in Nat
  BY <1>1, <1>2, <1>4, SizeAssumption DEF SockTypeOK
<1>6. Len(outbox'[c]) <= wrote'[c]
  BY <1>2, <1>3, <1>4, <1>5 DEF MessagesInOrder
<1>7. QED
  BY <1>3, <1>4, <1>6 DEF MessagesInOrder

LEMMA MessagesSend ==
  ASSUME SelectInv, MessagesInOrder, ServeSend
  PROVE  MessagesInOrder'
<1>1. SockTypeOK /\ UNCHANGED <<outbox, wrote>>
  BY DEF SelectInv, TableInv, TypeOK, ServeSend, Send, SendTakes
<1>2. ASSUME NEW d \in Conn, peer'[d] = "new"
      PROVE  inbox'[d] = <<>>
  <2>1. peer[d] = "new" /\ inbox'[d] = inbox[d]
    BY <1>1, <1>2 DEF ServeSend, Send, SendTakes, SockTypeOK
  <2>2. QED
    BY <2>1 DEF MessagesInOrder
<1>3. QED
  BY <1>1, <1>2 DEF MessagesInOrder, OutboxOrdered

LEMMA MessagesClient ==
  ASSUME SelectInv, MessagesInOrder, NEW c \in Conn, Client(c) \/ Network(c)
  PROVE  MessagesInOrder' /\ \A d \in Conn : (wrote[d] - Len(outbox[d]))' = wrote[d] - Len(outbox[d])
<1>1. SockTypeOK /\ SockTypeOK' /\ OutboxOrdered
  BY TypeClient DEF SelectInv, TableInv, TypeOK, MessagesInOrder
<1>2. \A d \in Conn : peer'[d] = "new" => peer[d] = "new"
  BY <1>1 DEF Client, Network, Connect, Write, Leave, Read, Reset, SockTypeOK
<1>3. UNCHANGED inbox
  BY DEF Client, Network, Connect, Write, Leave, Read, Reset
<1>4. CASE Write(c)
  <2>1. /\ OutboxOrdered'
        /\ \A d \in Conn : (wrote[d] - Len(outbox[d]))' = wrote[d] - Len(outbox[d])
    BY <1>1, <1>4, WriteOrdered
  <2>2. \A d \in Conn : /\ Len(outbox[d]) \in Nat /\ wrote[d] \in Nat
                        /\ Len(outbox'[d]) \in Nat /\ wrote'[d] \in Nat
    BY <1>1, SizeAssumption DEF SockTypeOK
  <2>3. \A d \in Conn : Len(outbox'[d]) <= wrote'[d]
    <3> SUFFICES ASSUME NEW d \in Conn
                 PROVE  Len(outbox'[d]) <= wrote'[d]
      OBVIOUS
    <3>1. wrote'[d] - Len(outbox'[d]) = wrote[d] - Len(outbox[d])
      BY <2>1
    <3>2. Len(outbox[d]) <= wrote[d]
      BY DEF MessagesInOrder
    <3>3. QED
      BY <2>2, <3>1, <3>2
  <2>4. QED
    BY <1>2, <1>3, <2>1, <2>3 DEF MessagesInOrder
<1>5. CASE Connect(c) \/ Leave(c) \/ Read(c) \/ Reset(c)
  <2>1. UNCHANGED <<outbox, wrote>>
    BY <1>5 DEF Connect, Leave, Read, Reset
  <2>2. QED
    BY <1>2, <1>3, <2>1 DEF MessagesInOrder, OutboxOrdered
<1>6. QED
  BY <1>4, <1>5 DEF Client, Network

LEMMA RoomStep ==
  ASSUME RoomInv, [Next]_vars
  PROVE  RoomInv'
<1>0. SelectInv /\ SelectInv' /\ MessagesInOrder
  BY SelectStep DEF RoomInv, MessagesInOrder
<1>1. MessagesInOrder'
  <2>1. CASE ServeRecv
    BY <1>0, <2>1, MessagesRecv
  <2>2. CASE ServeSend
    BY <1>0, <2>2, MessagesSend
  <2>3. CASE \E c \in Conn : Client(c) \/ Network(c)
    BY <1>0, <2>3, MessagesClient
  <2>4. CASE UNCHANGED <<outbox, wrote, inbox, peer>>
    BY <1>0, <2>4, MessagesKept
  <2>5. QED
    BY <2>1, <2>2, <2>3, <2>4
    DEF Next, Server, AcceptClient, AcceptWhenFull, AcceptNothing, AcceptAs, Select,
        ServeNext, RoundDone, ServeDone, ClientDestroy, Unregister, CloseFd,
        ServeAborts, SendAborts, sockVars, vars
<1>2. ASSUME NEW p \in sends'
      PROVE  p[1] \in NonEmptyLines(chunk')
  <2>1. CASE ServeRecv
    BY <1>2, <2>1 DEF ServeRecv, RecvChunk
  <2>2. CASE sends' \subseteq sends /\ UNCHANGED chunk
    BY <1>2, <2>2 DEF RoomInv
  <2>3. CASE sends' = {}
    BY <1>2, <2>3
  <2>4. CASE ServeSend
    BY <1>2, <2>4 DEF ServeSend, Send, RoomInv
  <2>5. QED
    BY <1>0, <2>1, <2>2, <2>3, <2>4
    DEF Next, Server, AcceptClient, AcceptWhenFull, AcceptNothing, Select,
        ServeNext, StartServing, RoundDone, ServeDone, ClientDestroy, RecvFails,
        AtRecv, LeaveLoop, ServeAborts, SendAborts, Client, Network,
        ServerUnchanged, loopVars, vars
<1>3. ASSUME pc' = "serve", flag'
      PROVE  Readable(FdOfSlot(index))'
  <2>1. CASE ServeNext
    <3>1. PICK i \in ReadySlots : StartServing(i)
      BY <2>1 DEF ServeNext
    <3>2. /\ i \in Registered /\ i >= i_next /\ FdOfSlot(i) \in clients
          /\ pc = "check" /\ index' = i
          /\ UNCHANGED <<sockVars, tableVars>>
      BY <2>1, <3>1 DEF ServeNext, ReadySlots, StartServing
    <3>3. Readable(FdOfSlot(i))
      BY <1>0, <3>2 DEF SelectInv, TableInv, BitsCurrent
    <3>4. FdOfSlot(index)' = FdOfSlot(i)
      BY <3>2 DEF FdOfSlot, tableVars
    <3>5. QED
      BY <3>2, <3>3, <3>4 DEF Readable, HasData, ConnOf, sockVars
  <2>2. CASE /\ pc = "serve" /\ flag
             /\ ServeSend \/ ServeAborts \/ \E c \in Conn : Client(c) \/ Network(c)
    <3>1. index \in Registered /\ Readable(FdOfSlot(index))
      BY <1>0, <2>2 DEF RoomInv, SelectInv, LoopInv
    <3>2. index' = index
      BY <2>2 DEF ServeSend, Send, ServeAborts, SendAborts, Client, Network,
                  ServerUnchanged, loopVars
    <3>3. ASSUME NEW i, i = index
          PROVE  Readable(FdOfSlot(i))'
      BY <1>0, <2>2, <3>1, <3>3, SendReadable, ClientReadable
    <3>4. QED
      BY <3>2, <3>3 DEF FdOfSlot
  <2>3. CASE UNCHANGED vars
    BY <1>3, <2>3 DEF RoomInv, Readable, HasData, ConnOf, FdOfSlot, vars, sockVars,
                      tableVars, loopVars
  <2>4. QED
    BY <1>3, <2>1, <2>2, <2>3
    DEF Next, Server, AcceptClient, AcceptWhenFull, AcceptNothing, Select,
        RoundDone, ServeRecv, RecvChunk, ServeDone, ClientDestroy, LeaveLoop,
        ServeSend, Send, ServeAborts, SendAborts, Client, Network,
        ServerUnchanged, loopVars
<1>4. QED
  BY <1>0, <1>1, <1>2, <1>3 DEF RoomInv, MessagesInOrder

-----------------------------------------------------------------------------
(* What the clients have heard.                                             *)

\* A client of a registered slot has heard what reached it and what the
\* chunk being sent on owes to its slot; any other, what reached it.
HeardFacts ==
  /\ chunk \in Chunk =>
       \A i \in Registered :
         peer[ConnOfSlot(i)] = "open" =>
           IsConcat(Heard(ConnOfSlot(i)), inbox[ConnOfSlot(i)],
                    FlattenSeq(Pieces(chunk, sends, sleft, i)))
  /\ \A c \in Conn :
       sends = {} \/ (\A p \in sends : ConnOfSlot(p[2]) # c)
         => Heard(c) = IF peer[c] = "open" THEN inbox[c] ELSE <<>>
  /\ \A c \in Conn : peer[c] # "open" => Heard(c) = <<>>

LEMMA DueIs ==
  ASSUME NEW i
  PROVE  Due(i) = FlattenSeq(Pieces(chunk, sends, sleft, i))
<1>1. ASSUME NEW j
      PROVE  IsNextSend(<<j, i>>) <=> IsFirstSend(sends, <<j, i>>)
  BY DEF IsNextSend, IsFirstSend
<1>2. [j \in DOMAIN chunk.shape |->
         IF <<j, i>> \notin sends THEN <<>>
         ELSE IF IsNextSend(<<j, i>>)
           THEN Units(chunk, j, MsgLen - sleft + 1, sleft)
           ELSE Units(chunk, j, 1, MsgLen)]
        = Pieces(chunk, sends, sleft, i)
  BY <1>1 DEF Pieces
<1>3. QED
  BY <1>2 DEF Due

LEMMA HeardIs == RoomInv => HeardFacts
<1> SUFFICES ASSUME RoomInv
             PROVE  HeardFacts
  OBVIOUS
<1>1. /\ TypeOK /\ SlotsApart /\ ConnsApart /\ SockTypeOK
      /\ \A p \in sends : p[2] \in Registered
      /\ sleft \in 0..MsgLen
  BY DEF RoomInv, SelectInv, TableInv, LoopInv, Receivers, TypeOK, ServeTypeOK
<1>2. ASSUME chunk \in Chunk, NEW i \in Registered, peer[ConnOfSlot(i)] = "open"
      PROVE  IsConcat(Heard(ConnOfSlot(i)), inbox[ConnOfSlot(i)],
                      FlattenSeq(Pieces(chunk, sends, sleft, i)))
  <2>1. ConnOfSlot(i) \in Conn
    BY <1>1, RegisteredFd
  <2>2. CASE \E p \in sends : ConnOfSlot(p[2]) = ConnOfSlot(i)
    <3>1. i = CHOOSE j \in Registered : ConnOfSlot(j) = ConnOfSlot(i)
      BY <1>1, OneConn
    <3>2. Heard(ConnOfSlot(i)) = inbox[ConnOfSlot(i)] \o Due(i)
      BY <1>2, <2>2, <3>1 DEF Heard
    <3>3. QED
      BY <3>2, DueIs DEF IsConcat
  <2>3. CASE ~ \E p \in sends : ConnOfSlot(p[2]) = ConnOfSlot(i)
    <3>1. \A p \in sends : p[2] # i
      BY <2>3
    <3>2. FlattenSeq(Pieces(chunk, sends, sleft, i)) = <<>>
      BY <1>1, <1>2, <3>1, NothingOwed
    <3>3. Heard(ConnOfSlot(i)) = inbox[ConnOfSlot(i)]
      BY <1>2, <2>3 DEF Heard
    <3>4. inbox[ConnOfSlot(i)] \in Seq(Unit)
      BY <1>1, <2>1 DEF SockTypeOK
    <3>5. inbox[ConnOfSlot(i)] = inbox[ConnOfSlot(i)] \o <<>>
      BY <3>4
    <3>6. QED
      BY <3>2, <3>3, <3>5 DEF IsConcat
  <2>4. QED
    BY <2>2, <2>3
<1>3. \A c \in Conn :
        sends = {} \/ (\A p \in sends : ConnOfSlot(p[2]) # c)
          => Heard(c) = IF peer[c] = "open" THEN inbox[c] ELSE <<>>
  BY DEF Heard
<1>4. \A c \in Conn : peer[c] # "open" => Heard(c) = <<>>
  BY DEF Heard
<1>5. QED
  BY <1>2, <1>3, <1>4 DEF HeardFacts

\* A step between two broadcasts.
LEMMA HeardKept ==
  ASSUME HeardFacts, HeardFacts', sends = {}, sends' = {}, UNCHANGED <<peer, inbox>>
  PROVE  UNCHANGED HeardByAll
<1>1. \A c \in Conn : Heard(c)' = Heard(c)
  BY DEF HeardFacts
<1>2. QED
  BY <1>1 DEF HeardByAll

\* A step that leaves the broadcast as it is, for a client it leaves alone.
LEMMA HeardSame ==
  ASSUME HeardFacts, HeardFacts', SlotsApart, LoopInv,
         UNCHANGED <<clients_list, fds, chunk, sends, sleft>>,
         NEW c \in Conn, peer'[c] = peer[c], inbox'[c] = inbox[c]
  PROVE  Heard(c)' = Heard(c)
<1>1. /\ Registered' = Registered
      /\ \A i : ConnOfSlot(i)' = ConnOfSlot(i)
  BY TableKept
<1>2. CASE peer[c] # "open"
  BY <1>2 DEF HeardFacts
<1>3. CASE peer[c] = "open" /\ \E p \in sends : ConnOfSlot(p[2]) = c
  <2>1. PICK p \in sends : ConnOfSlot(p[2]) = c
    BY <1>3
  <2>2. chunk \in Chunk /\ chunk' = chunk /\ p[2] \in Registered
    BY <2>1 DEF LoopInv, Receivers
  <2>3. PICK i : i = p[2]
    OBVIOUS
  <2>4. i \in Registered /\ i \in Registered' /\ ConnOfSlot(i) = c /\ ConnOfSlot(i)' = c
    BY <1>1, <2>1, <2>2, <2>3
  <2>5. IsConcat(Heard(c), inbox[c], FlattenSeq(Pieces(chunk, sends, sleft, i)))
    BY <1>3, <2>2, <2>4 DEF HeardFacts
  <2>6. IsConcat(Heard(c), inbox[c], FlattenSeq(Pieces(chunk, sends, sleft, i)))'
    BY <1>3, <2>2, <2>4 DEF HeardFacts
  <2>7. QED
    BY <2>5, <2>6 DEF IsConcat
<1>4. CASE peer[c] = "open" /\ ~ \E p \in sends : ConnOfSlot(p[2]) = c
  <2>1. \A p \in sends' : ConnOfSlot(p[2])' # c
    BY <1>1, <1>4
  <2>2. QED
    BY <1>4, <2>1 DEF HeardFacts
<1>5. QED
  BY <1>2, <1>3, <1>4

-----------------------------------------------------------------------------
(* The server implements ChatRoom: every step is a step of the room, or     *)
(* changes nothing the room speaks of.                                      *)

LEMMA PromiseInit == Init => Promise!Init
<1> SUFFICES ASSUME Init
             PROVE  Promise!Init
  OBVIOUS
<1>1. Members = {}
  BY DEF Init, ServeInit, Members, Registered
<1>2. Leavers = {}
  BY DEF Init, SockInit, Leavers, Gone
<1>3. Said = [c \in Conn |-> 0]
  BY DEF Init, SockInit, Said
<1>4. HeardByAll = [c \in Conn |-> <<>>]
  BY DEF Init, SockInit, HeardByAll, Heard
<1>5. QED
  BY <1>1, <1>2, <1>3, <1>4 DEF Promise!Init

\* What a step must do to count as one of the room's.
LEMMA Stutter ==
  ASSUME UNCHANGED <<Members, Leavers, Said, HeardByAll>>
  PROVE  [Promise!Next]_Promise!vars
BY DEF Promise!vars

\* The table and the descriptors are as they were.
LEMMA MembersKept ==
  ASSUME SlotsApart, UNCHANGED <<clients_list, fds>>
  PROVE  UNCHANGED Members
BY TableKept DEF Members

LEMMA CountsKept ==
  ASSUME UNCHANGED <<peer, wrote, outbox>>
  PROVE  UNCHANGED <<Leavers, Said>>
BY DEF Leavers, Said

\* The facts every step starts from and ends with.
LEMMA Both ==
  ASSUME RoomInv, RoomInv'
  PROVE  /\ TypeOK /\ SlotsApart /\ ConnsApart /\ SockTypeOK /\ LoopInv
         /\ TypeOK' /\ SockTypeOK' /\ LoopInv'
         /\ HeardFacts /\ HeardFacts'
<1>1. (RoomInv => HeardFacts)'
  BY HeardIs, PTL
<1>2. QED
  BY <1>1, HeardIs DEF RoomInv, SelectInv, TableInv, TypeOK

\* Accepting a client lets it into the room, if there is a slot for it.
LEMMA PromiseAccept ==
  ASSUME RoomInv, RoomInv', AcceptClient \/ AcceptWhenFull \/ AcceptNothing
  PROVE  [Promise!Next]_Promise!vars
<1>0. /\ TypeOK /\ SlotsApart /\ ConnsApart /\ SockTypeOK
      /\ HeardFacts /\ HeardFacts'
  BY Both
<1>1. /\ UNCHANGED <<peer, wrote, outbox, inbox>> /\ sends = {} /\ sends' = {}
      /\ pc = "accept"
  BY DEF AcceptClient, AcceptWhenFull, AcceptNothing, AcceptAs, sockVars, loopVars,
         RoomInv, SelectInv, LoopInv
<1>2. UNCHANGED <<Leavers, Said, HeardByAll>>
  BY <1>0, <1>1, CountsKept, HeardKept
<1>3. CASE AcceptClient
  <2>1. PICK f \in FreeFds, i \in Slot : AcceptAs(f) /\ FirstFree(i) /\ Register(i, f)
    BY <1>3 DEF AcceptClient
  <2>2. /\ Registered' = Registered \cup {i}
        /\ ConnOfSlot(i)' = fds'[f]
        /\ \A j \in Registered : ConnOfSlot(j)' = ConnOfSlot(j)
    BY <1>0, <2>1, JoinTable
  <2>3. fds'[f] = Head(backlog) /\ Head(backlog) \in Conn /\ Head(backlog) = backlog[1]
        /\ 1 \in DOMAIN backlog
    BY <1>0, <2>1, AcceptType, TailElements DEF SockTypeOK, AcceptAs
  <2>4. Members' = Members \cup {backlog[1]}
    BY <2>2, <2>3 DEF Members
  <2>5. backlog[1] \notin Members
    <3> SUFFICES ASSUME NEW j \in Registered
                 PROVE  ConnOfSlot(j) # backlog[1]
      BY DEF Members
    <3>1. FdOfSlot(j) \in Fd /\ ConnOfSlot(j) = fds[FdOfSlot(j)]
      BY <1>0, RegisteredFd
    <3>2. QED
      BY <1>0, <2>3, <3>1 DEF ConnsApart
  <2>6. Promise!Join(backlog[1])
    BY <1>2, <2>4, <2>5 DEF Promise!Join
  <2>7. QED
    BY <2>3, <2>6 DEF Promise!Next
<1>4. CASE AcceptWhenFull \/ AcceptNothing
  <2>1. UNCHANGED clients_list /\ \A i \in Registered : ConnOfSlot(i)' = ConnOfSlot(i)
    <3>1. CASE AcceptNothing
      BY <1>0, <3>1, TableKept DEF AcceptNothing, sockVars, tableVars
    <3>2. CASE AcceptWhenFull
      <4>1. PICK f \in FreeFds : AcceptAs(f)
        BY <3>2 DEF AcceptWhenFull
      <4>2. \A i \in Registered : /\ FdOfSlot(i) \in Fd
                                  /\ fds'[FdOfSlot(i)] = ConnOfSlot(i)
        BY <1>0, <4>1, AcceptTable, RegisteredFd
      <4>3. UNCHANGED clients_list
        BY <3>2 DEF AcceptWhenFull, tableVars
      <4>4. QED
        BY <4>2, <4>3 DEF ConnOfSlot, ConnOf, FdOfSlot
    <3>3. QED
      BY <1>4, <3>1, <3>2
  <2>2. Members' = Members
    BY <2>1 DEF Members, Registered
  <2>3. QED
    BY <1>2, <2>2, Stutter
<1>5. QED
  BY <1>3, <1>4

\* Looking for somebody to serve changes nothing of the room, and neither
\* does leaving a client that has no more data.
LEMMA PromiseRound ==
  ASSUME RoomInv, RoomInv',
         Select \/ ServeNext \/ RoundDone \/ ServeDone \/ ServeAborts \/ UNCHANGED vars
  PROVE  [Promise!Next]_Promise!vars
<1>0. SlotsApart /\ LoopInv /\ HeardFacts /\ HeardFacts'
  BY Both
<1>1. UNCHANGED <<clients_list, fds, peer, wrote, outbox, inbox>>
  BY DEF Select, ServeNext, RoundDone, ServeDone, ServeAborts, SendAborts, sockVars,
         tableVars, vars
<1>2. UNCHANGED <<Members, Leavers, Said>>
  BY <1>0, <1>1, MembersKept, CountsKept
<1>3. CASE sends = {} /\ sends' = {}
  BY <1>0, <1>1, <1>2, <1>3, HeardKept, Stutter
<1>4. CASE UNCHANGED <<chunk, sends, sleft>>
  <2>3. \A c \in Conn : Heard(c)' = Heard(c)
    BY <1>0, <1>1, <1>4, HeardSame
  <2>4. UNCHANGED HeardByAll
    BY <2>3 DEF HeardByAll
  <2>5. QED
    BY <1>2, <2>4, Stutter
<1>5. QED
  BY <1>3, <1>4 DEF Select, ServeNext, StartServing, RoundDone, ServeDone, RecvFails,
                    AtRecv, LeaveLoop, ServeAborts, SendAborts, loopVars, vars

\* Who is destroyed has left: the first recv that failed was for a client
\* that select reported.
LEMMA PromiseExpel ==
  ASSUME RoomInv, RoomInv', ClientDestroy
  PROVE  [Promise!Next]_Promise!vars
<1>0. /\ TypeOK /\ SlotsApart /\ ConnsApart /\ SockTypeOK
      /\ HeardFacts /\ HeardFacts'
  BY Both
<1>1. /\ UNCHANGED <<peer, wrote, outbox, inbox>> /\ sends = {} /\ sends' = {}
      /\ pc = "serve" /\ flag /\ ~HasData(ConnOfSlot(index)) /\ Unregister(index)
  BY DEF ClientDestroy, Unregister, CloseFd, RecvFails, AtRecv, LeaveLoop
<1>2. UNCHANGED <<Leavers, Said, HeardByAll>>
  BY <1>0, <1>1, CountsKept, HeardKept
<1>3. index \in Registered /\ Readable(FdOfSlot(index))
  BY <1>1 DEF RoomInv, SelectInv, LoopInv
<1>4. PICK c : c = ConnOfSlot(index)
  OBVIOUS
<1>5. c \in Conn /\ c \in Members
  BY <1>0, <1>3, <1>4, RegisteredFd DEF Members
<1>6. c \in Leavers
  BY <1>1, <1>3, <1>4, <1>5 DEF Readable, ConnOfSlot, Leavers
<1>7. /\ Registered' = Registered \ {index}
      /\ \A j \in Registered' : ConnOfSlot(j)' = ConnOfSlot(j)
  BY <1>0, <1>1, <1>3, LeaveTable
<1>8. \A j \in Registered : ConnOfSlot(j) = c => j = index
  BY <1>0, <1>3, <1>4, OneConn
<1>9. Members' = Members \ {c}
  BY <1>4, <1>7, <1>8 DEF Members
<1>10. Promise!Expel(c)
  BY <1>2, <1>5, <1>6, <1>9 DEF Promise!Expel
<1>11. QED
  BY <1>5, <1>10 DEF Promise!Next

\* What recv returns is at once said to the room.
LEMMA PromiseSpeak ==
  ASSUME RoomInv, RoomInv', ServeRecv
  PROVE  [Promise!Next]_Promise!vars
<1>0. /\ TypeOK /\ SlotsApart /\ ConnsApart /\ SockTypeOK /\ LoopInv
      /\ TypeOK' /\ SockTypeOK' /\ LoopInv'
      /\ HeardFacts /\ HeardFacts'
  BY Both
<1>1. /\ pc = "serve" /\ sends = {} /\ TakeChunk(ConnOfSlot(index))
      /\ chunk' = Head(outbox[ConnOfSlot(index)])
      /\ sends' = NonEmptyLines(chunk') \X Receivers
      /\ sleft' = IF sends' = {} THEN 0 ELSE MsgLen
      /\ UNCHANGED <<clients_list, fds, peer, inbox, wrote>>
  BY DEF ServeRecv, RecvChunk, AtRecv, TakeChunk, tableVars
<1>2. index \in Registered
  BY <1>0, <1>1 DEF LoopInv
<1>3. PICK c : c = ConnOfSlot(index)
  OBVIOUS
<1>4. PICK ch : ch = chunk'
  OBVIOUS
<1>5. c \in Conn /\ c \in Members /\ ch \in Chunk /\ chunk' \in Chunk
  BY <1>0, <1>1, <1>2, <1>3, <1>4, RegisteredFd, TakeType DEF Members
<1>6. /\ Registered' = Registered
      /\ \A i : ConnOfSlot(i)' = ConnOfSlot(i)
  BY <1>0, <1>1, TableKept
<1>7. UNCHANGED Members /\ UNCHANGED Leavers
  BY <1>0, <1>1, MembersKept DEF Leavers
\* The chunk is the next of the client's.
<1>8. /\ Said' = [Said EXCEPT ![c] = @ + 1]
      /\ ch.from = c /\ ch.num = Said[c] + 1 /\ ch.num \in 1..MaxWrites
  <2>1. OutboxOrdered /\ Len(outbox[c]) <= wrote[c]
    BY <1>5 DEF RoomInv
  <2>2. /\ ch.num = wrote[c] - Len(outbox[c]) + 1
        /\ wrote'[c] - Len(outbox'[c]) = wrote[c] - Len(outbox[c]) + 1
        /\ \A d \in Conn : d # c => outbox'[d] = outbox[d] /\ wrote'[d] = wrote[d]
    BY <1>0, <1>1, <1>3, <1>4, <1>5, <2>1, TakeOrdered
  <2>3. ch.from = c
    <3>1. outbox[c] # <<>> /\ outbox[c] \in Seq(Chunk) /\ ch = Head(outbox[c])
      BY <1>0, <1>1, <1>3, <1>4, <1>5 DEF TakeChunk, HasData, SockTypeOK
    <3>2. ch = outbox[c][1] /\ 1 \in DOMAIN outbox[c]
      BY <3>1, TailElements
    <3>3. QED
      BY <1>5, <2>1, <3>2 DEF OutboxOrdered
  <2>4. Said' = [Said EXCEPT ![c] = @ + 1] /\ ch.num = Said[c] + 1
    BY <1>5, <2>2 DEF Said
  <2>5. Len(outbox[c]) \in Nat \ {0} /\ wrote[c] \in 0..MaxWrites
    <3>1. outbox[c] # <<>> /\ outbox[c] \in Seq(Chunk)
      BY <1>0, <1>1, <1>3, <1>5 DEF TakeChunk, HasData, SockTypeOK
    <3>2. QED
      BY <1>0, <1>5, <3>1 DEF SockTypeOK
  <2>6. ch.num \in 1..MaxWrites
    BY <2>1, <2>2, <2>5, SizeAssumption
  <2>7. QED
    BY <2>3, <2>4, <2>6
<1>9. ch \in [from : Conn, num : 1..MaxWrites, shape : Shapes]
  BY <1>5, <1>8 DEF Chunk
\* Every other member that stays is owed it, and nobody else is.
<1>10. ASSUME NEW d \in Conn, d \in Members \ (Leavers \cup {c})
       PROVE  Heard(d)' = Heard(d) \o Text(ch)
  <2>1. PICK i \in Registered : ConnOfSlot(i) = d
    BY <1>10 DEF Members
  <2>2. i # index /\ i \in Receivers /\ i \in Registered' /\ ConnOfSlot(i)' = d
    BY <1>3, <1>6, <1>10, <2>1 DEF Receivers
  <2>3. peer[d] = "open" /\ peer'[d] = "open"
    <3>1. FdOfSlot(i) \in Fd /\ d = fds[FdOfSlot(i)] /\ d # NoConn
      BY <1>0, <2>1, RegisteredFd, ConnAssumption
    <3>2. peer[d] # "new"
      BY <1>0, <3>1 DEF ConnsApart
    <3>3. peer[d] \in PeerState /\ peer[d] \notin Gone
      BY <1>0, <1>10 DEF SockTypeOK, Leavers
    <3>4. QED
      BY <1>1, <3>2, <3>3 DEF PeerState, Gone
  <2>4. Heard(d) = inbox[d]
    BY <1>0, <1>1, <2>3 DEF HeardFacts
  <2>5. PICK ss, l : ss = sends' /\ l = sleft'
    OBVIOUS
  <2>6. IsConcat(Heard(d)', inbox[d], FlattenSeq(Pieces(ch, ss, l, i)))
    BY <1>0, <1>1, <1>4, <1>5, <2>2, <2>3, <2>5 DEF HeardFacts
  <2>7. Pieces(ch, ss, l, i) = [j \in DOMAIN ch.shape |->
                                  IF ch.shape[j] THEN Units(ch, j, 1, MsgLen) ELSE <<>>]
    <3>1. PICK R : R = Receivers
      OBVIOUS
    <3>2. /\ ss = {j \in DOMAIN ch.shape : ch.shape[j]} \X R
          /\ l = IF ss = {} THEN 0 ELSE MsgLen
      BY <1>1, <1>4, <2>5, <3>1 DEF NonEmptyLines
    <3>3. QED
      BY <1>5, <2>2, <3>1, <3>2, AllOwed
  <2>8. QED
    BY <2>4, <2>6, <2>7 DEF IsConcat, Text
<1>11. ASSUME NEW d \in Conn, d \notin Members \ (Leavers \cup {c})
       PROVE  Heard(d)' = Heard(d)
  <2>1. CASE peer[d] = "open"
    <3>1. d \notin Members \/ d = c
      BY <1>11, <2>1 DEF Leavers, Gone
    <3>2. ASSUME NEW p \in sends'
          PROVE  ConnOfSlot(p[2])' # d
      <4>1. PICK i : i = p[2]
        OBVIOUS
      <4>2. i \in Registered /\ i # index
        BY <1>1, <4>1 DEF Receivers
      <4>3. ConnOfSlot(i) # c /\ ConnOfSlot(i) \in Members
        BY <1>0, <1>2, <1>3, <4>2, OneConn DEF Members
      <4>4. QED
        BY <1>6, <3>1, <4>1, <4>3
    <3>3. Heard(d)' = inbox'[d]
      BY <1>0, <1>1, <2>1, <3>2 DEF HeardFacts
    <3>4. Heard(d) = inbox[d]
      BY <1>0, <1>1, <2>1 DEF HeardFacts
    <3>5. QED
      BY <1>1, <3>3, <3>4
  <2>2. CASE peer[d] # "open"
    BY <1>0, <1>1, <2>2 DEF HeardFacts
  <2>3. QED
    BY <2>1, <2>2
<1>12. HeardByAll' = [d \in Conn |-> IF d \in Members \ (Leavers \cup {c})
                                       THEN HeardByAll[d] \o Text(ch)
                                       ELSE HeardByAll[d]]
  BY <1>10, <1>11 DEF HeardByAll
<1>13. Promise!Speak(c, ch)
  BY <1>5, <1>7, <1>8, <1>12 DEF Promise!Speak
<1>14. QED
  BY <1>5, <1>9, <1>13 DEF Promise!Next

\* One call of send: what it takes off the debt to its receiver it adds to
\* what the receiver has, and it finds out nothing about who has left.
LEMMA PromiseSend ==
  ASSUME RoomInv, RoomInv', ServeSend
  PROVE  [Promise!Next]_Promise!vars
<1>0. /\ TypeOK /\ SlotsApart /\ ConnsApart /\ SockTypeOK /\ LoopInv
      /\ TypeOK' /\ SockTypeOK' /\ LoopInv'
      /\ HeardFacts /\ HeardFacts'
  BY Both
<1>1. PICK p \in sends, k \in 1..sleft :
        /\ IsNextSend(p)
        /\ SendTakes(ConnOfSlot(p[2]), chunk, p[1], sleft, k)
        /\ sends' = IF k = sleft THEN sends \ {p} ELSE sends
        /\ sleft' = IF k < sleft THEN sleft - k
                    ELSE IF sends' = {} THEN 0 ELSE MsgLen
  BY DEF ServeSend, Send
<1>2. UNCHANGED <<clients_list, fds, outbox, wrote, chunk>>
  BY <1>1 DEF ServeSend, Send, SendTakes, tableVars
<1>3. PICK i0, c0 : i0 = p[2] /\ c0 = ConnOfSlot(i0)
  OBVIOUS
<1>4. PICK ch, ss, l, ss2, l2 :
        ch = chunk /\ ss = sends /\ l = sleft /\ ss2 = sends' /\ l2 = sleft'
  OBVIOUS
<1>5. /\ i0 \in Registered /\ c0 \in Conn
      /\ ch \in Chunk /\ chunk' = ch /\ l \in 1..MsgLen /\ k \in 1..l
  <2>1. i0 \in Registered /\ chunk \in Chunk /\ sleft > 0 /\ sleft \in 0..MsgLen
    BY <1>0, <1>1, <1>3 DEF LoopInv, Receivers, TypeOK, ServeTypeOK
  <2>2. QED
    BY <1>0, <1>1, <1>2, <1>3, <1>4, <2>1, RegisteredFd, SizeAssumption
<1>6. /\ ss \in SUBSET ((DOMAIN ch.shape) \X Nat) /\ IsFirstSend(ss, p)
      /\ IsSent(ss, l, p, k, ss2, l2)
  <2>1. sends \in SUBSET (Nat \X Slot) /\ \A q \in sends : q[1] \in DOMAIN chunk.shape
    BY <1>0 DEF TypeOK, ServeTypeOK, RoomInv, NonEmptyLines
  <2>2. Slot \subseteq Nat
    BY MaxClientAssumption DEF Slot
  <2>3. ss \in SUBSET ((DOMAIN ch.shape) \X Nat)
    BY <1>4, <2>1, <2>2
  <2>4. IsSent(ss, l, p, k, ss2, l2)
    BY <1>1, <1>4 DEF IsSent
  <2>5. QED
    BY <1>1, <1>4, <2>3, <2>4 DEF IsNextSend, IsFirstSend
<1>7. /\ \A i \in Nat : i # i0 => Pieces(ch, ss, l, i) = Pieces(ch, ss2, l2, i)
      /\ IsConcat(FlattenSeq(Pieces(ch, ss, l, i0)),
                  Units(ch, p[1], MsgLen - l + 1, k),
                  FlattenSeq(Pieces(ch, ss2, l2, i0)))
  <2>1. /\ \A i \in Nat : i # p[2] => Pieces(ch, ss, l, i) = Pieces(ch, ss2, l2, i)
        /\ IsConcat(FlattenSeq(Pieces(ch, ss, l, p[2])),
                    Units(ch, p[1], MsgLen - l + 1, k),
                    FlattenSeq(Pieces(ch, ss2, l2, p[2])))
    BY <1>5, <1>6, SendOwed
  <2>2. QED
    BY <1>3, <2>1
<1>8. \A d \in Conn : /\ d # c0 => peer'[d] = peer[d] /\ inbox'[d] = inbox[d]
                      /\ peer'[d] = "open" <=> peer[d] = "open"
                      /\ peer'[d] \in Gone <=> peer[d] \in Gone
  BY <1>0, <1>1, <1>3 DEF SendTakes, SockTypeOK, Gone
<1>9. peer[c0] = "open" => inbox'[c0] = inbox[c0] \o Units(ch, p[1], MsgLen - l + 1, k)
  BY <1>0, <1>1, <1>3, <1>4, <1>5 DEF SendTakes, SockTypeOK
<1>10. /\ Registered' = Registered
       /\ \A i : ConnOfSlot(i)' = ConnOfSlot(i)
  BY <1>0, <1>2, TableKept
<1>11. ASSUME NEW i \in Registered, NEW d \in Conn, d = ConnOfSlot(i), peer[d] = "open"
       PROVE  Heard(d)' = Heard(d)
  <2>1. IsConcat(Heard(d), inbox[d], FlattenSeq(Pieces(ch, ss, l, i)))
    BY <1>0, <1>4, <1>5, <1>11 DEF HeardFacts
  <2>2. IsConcat(Heard(d)', inbox'[d], FlattenSeq(Pieces(ch, ss2, l2, i)))
    <3>1. i \in Registered' /\ ConnOfSlot(i)' = d /\ peer'[d] = "open"
      BY <1>8, <1>10, <1>11
    <3>2. QED
      BY <1>0, <1>4, <1>5, <3>1 DEF HeardFacts
  <2>3. CASE i # i0
    <3>1. d # c0
      BY <1>0, <1>3, <1>5, <1>11, <2>3, OneConn
    <3>2. i \in Nat
      BY MaxClientAssumption DEF Registered, Slot
    <3>3. QED
      BY <1>7, <1>8, <2>1, <2>2, <2>3, <3>1, <3>2 DEF IsConcat
  <2>4. CASE i = i0
    <3>1. PICK u, w : /\ u = Units(ch, p[1], MsgLen - l + 1, k)
                      /\ w = FlattenSeq(Pieces(ch, ss2, l2, i))
      OBVIOUS
    <3>2. /\ Heard(d) = inbox[d] \o (u \o w)
          /\ Heard(d)' = (inbox[d] \o u) \o w
      BY <1>3, <1>7, <1>9, <1>11, <2>1, <2>2, <2>4, <3>1 DEF IsConcat
    <3>3. u \in Seq(Unit)
      <4>1. p[1] \in Nat /\ MsgLen - l + 1 \in Nat \ {0} /\ k \in Nat
        BY <1>0, <1>1, <1>5, SizeAssumption DEF TypeOK, ServeTypeOK
      <4>2. QED
        BY <1>5, <3>1, <4>1, UnitsType
    <3>4. w \in Seq(Unit)
      <4>1. l2 \in 0..MsgLen
        BY <1>0, <1>4 DEF TypeOK, ServeTypeOK
      <4>2. QED
        BY <1>5, <3>1, <4>1, PiecesType, FlattenType
    <3>5. PICK v : v = inbox[d]
      OBVIOUS
    <3>6. v \in Seq(Unit)
      BY <1>0, <3>5 DEF SockTypeOK
    <3>7. (v \o u) \o w = v \o (u \o w)
      BY <3>3, <3>4, <3>6, ConcatAssociative
    <3>8. QED
      BY <3>2, <3>5, <3>7
  <2>5. QED
    BY <2>3, <2>4
<1>12. ASSUME NEW d \in Conn
       PROVE  Heard(d)' = Heard(d)
  <2>1. CASE peer[d] # "open"
    BY <1>0, <1>8, <2>1 DEF HeardFacts
  <2>2. CASE peer[d] = "open" /\ \E i \in Registered : ConnOfSlot(i) = d
    BY <1>11, <2>2
  <2>3. CASE peer[d] = "open" /\ ~ \E i \in Registered : ConnOfSlot(i) = d
    <3>1. d # c0
      BY <1>3, <1>5, <2>3
    <3>2. \A q \in sends : ConnOfSlot(q[2]) # d
      BY <1>0, <2>3 DEF LoopInv, Receivers
    <3>3. ASSUME NEW q \in sends'
          PROVE  ConnOfSlot(q[2])' # d
      <4>1. q \in sends
        BY <1>1
      <4>2. PICK i : i = q[2]
        OBVIOUS
      <4>3. QED
        BY <1>10, <3>2, <4>1, <4>2
    <3>4. QED
      BY <1>0, <1>8, <2>3, <3>1, <3>2, <3>3 DEF HeardFacts
  <2>4. QED
    BY <2>1, <2>2, <2>3
<1>13. UNCHANGED <<Members, Leavers, Said, HeardByAll>>
  <2>1. UNCHANGED Members
    BY <1>0, <1>2, MembersKept
  <2>2. UNCHANGED Leavers
    BY <1>8 DEF Leavers
  <2>3. UNCHANGED Said
    BY <1>2 DEF Said
  <2>4. UNCHANGED HeardByAll
    BY <1>12 DEF HeardByAll
  <2>5. QED
    BY <2>1, <2>2, <2>3, <2>4
<1>14. QED
  BY <1>13, Stutter

\* Of what the clients do by themselves, the room sees that they leave.
LEMMA PromiseClient ==
  ASSUME RoomInv, RoomInv', NEW c \in Conn, Client(c) \/ Network(c)
  PROVE  [Promise!Next]_Promise!vars
<1>0. /\ TypeOK /\ SlotsApart /\ ConnsApart /\ SockTypeOK /\ LoopInv
      /\ HeardFacts /\ HeardFacts' /\ SelectInv /\ MessagesInOrder
  BY Both DEF RoomInv, MessagesInOrder
<1>1. /\ UNCHANGED <<clients_list, fds, inbox, chunk, sends, sleft>>
      /\ \A d \in Conn : d # c => peer'[d] = peer[d]
  BY <1>0 DEF Client, Network, Connect, Write, Leave, Read, Reset, ServerUnchanged,
              tableVars, loopVars, SockTypeOK
<1>2. UNCHANGED Members
  BY <1>0, <1>1, MembersKept
<1>3. UNCHANGED Said
  <2>1. \A d \in Conn : (wrote[d] - Len(outbox[d]))' = wrote[d] - Len(outbox[d])
    BY <1>0, MessagesClient
  <2>2. QED
    BY <2>1 DEF Said
<1>4. ASSUME NEW d \in Conn, peer'[d] = peer[d]
      PROVE  Heard(d)' = Heard(d)
  BY <1>0, <1>1, <1>4, HeardSame
<1>5. CASE Leave(c)
  <2>1. peer[c] = "open" /\ peer'[c] \in Gone
    BY <1>0, <1>5 DEF Leave, SockTypeOK, Gone
  <2>2. c \notin Leavers /\ Leavers' = Leavers \cup {c}
    BY <1>1, <2>1 DEF Leavers, Gone
  <2>3. Heard(c)' = <<>>
    BY <1>0, <2>1 DEF HeardFacts, Gone
  <2>4. HeardByAll' = [HeardByAll EXCEPT ![c] = <<>>]
    BY <1>1, <1>4, <2>3 DEF HeardByAll
  <2>5. Promise!Leave(c)
    BY <1>2, <1>3, <2>2, <2>4 DEF Promise!Leave
  <2>6. QED
    BY <2>5 DEF Promise!Next
<1>6. CASE Connect(c)
  <2>1. peer[c] = "new" /\ peer'[c] = "open" /\ inbox[c] = <<>>
    BY <1>0, <1>6 DEF Connect, SockTypeOK, MessagesInOrder
  <2>2. \A i \in Registered : ConnOfSlot(i) # c
    <3> SUFFICES ASSUME NEW i \in Registered
                 PROVE  ConnOfSlot(i) # c
      OBVIOUS
    <3>1. /\ FdOfSlot(i) \in Fd /\ ConnOfSlot(i) = fds[FdOfSlot(i)]
          /\ ConnOfSlot(i) # NoConn
      BY <1>0, RegisteredFd, ConnAssumption
    <3>2. QED
      BY <1>0, <2>1, <3>1 DEF ConnsApart
  <2>3. ASSUME NEW p \in sends'
        PROVE  ConnOfSlot(p[2])' # c
    <3>1. p \in sends
      BY <1>1
    <3>2. PICK i : i = p[2]
      OBVIOUS
    <3>3. i \in Registered
      BY <1>0, <3>1, <3>2 DEF LoopInv, Receivers
    <3>4. ConnOfSlot(i)' = ConnOfSlot(i)
      BY <1>0, <1>1, TableKept
    <3>5. QED
      BY <2>2, <3>2, <3>3, <3>4
  <2>4. Heard(c) = <<>> /\ Heard(c)' = <<>>
    BY <1>0, <1>1, <2>1, <2>3 DEF HeardFacts
  <2>5. UNCHANGED HeardByAll
    BY <1>1, <1>4, <2>4 DEF HeardByAll
  <2>6. UNCHANGED Leavers
    BY <1>1, <2>1 DEF Leavers, Gone
  <2>7. QED
    BY <1>2, <1>3, <2>5, <2>6, Stutter
<1>7. CASE Write(c) \/ Read(c)
  <2>1. UNCHANGED peer
    BY <1>7 DEF Write, Read
  <2>2. UNCHANGED <<Leavers, HeardByAll>>
    BY <1>4, <2>1 DEF Leavers, HeardByAll
  <2>3. QED
    BY <1>2, <1>3, <2>2, Stutter
<1>8. CASE Reset(c)
  <2>1. peer[c] = "doomed" /\ peer'[c] = "reset"
    BY <1>0, <1>8 DEF Reset, SockTypeOK
  <2>2. Heard(c) = <<>> /\ Heard(c)' = <<>>
    BY <1>0, <2>1 DEF HeardFacts
  <2>3. UNCHANGED <<Leavers, HeardByAll>>
    BY <1>1, <1>4, <2>1, <2>2 DEF Leavers, HeardByAll, Gone
  <2>4. QED
    BY <1>2, <1>3, <2>3, Stutter
<1>9. QED
  BY <1>5, <1>6, <1>7, <1>8 DEF Client, Network

LEMMA PromiseStep ==
  ASSUME RoomInv, [Next]_vars
  PROVE  [Promise!Next]_Promise!vars
<1>1. RoomInv'
  BY RoomStep
<1>2. QED
  BY <1>1, PromiseAccept, PromiseRound, PromiseExpel, PromiseSpeak, PromiseSend,
     PromiseClient
  DEF Next, Server

-----------------------------------------------------------------------------
(* The theorems. *)

\* The inductive invariant.
THEOREM SelectInvCorrect == Spec => []SelectInv
<1>1. Init => SelectInv
  BY SelectInit
<1>2. SelectInv /\ [Next]_vars => SelectInv'
  BY SelectStep
<1>3. QED
  BY <1>1, <1>2, PTL DEF Spec

\* The types of 3.cpp's data hold, two slots of clients_list never share a
\* descriptor and each is open, and what select reported of a slot is still
\* true when the loop comes to it, whatever the slots before it did.
THEOREM TableInvCorrect == Spec => []TableInv
BY SelectInvCorrect, PTL DEF SelectInv

\* RoomInv, on which the refinement rests.
THEOREM RoomInvCorrect == Spec => []RoomInv
<1>1. Init => RoomInv
  BY RoomInit
<1>2. RoomInv /\ [Next]_vars => RoomInv'
  BY RoomStep
<1>3. QED
  BY <1>1, <1>2, PTL DEF Spec

\* The server of 3.cpp is a chat room as ChatRoom promises, for any number
\* of clients, slots, descriptors and chunks of any shape, whatever part of
\* a message send takes: no chunk is lost, repeated, reordered, cut or mixed
\* with another on its way to any member that stays, and only clients that
\* left are destroyed.
THEOREM RoomPromiseCorrect == Spec => RoomPromise
<1>1. Init => Promise!Init
  BY PromiseInit
<1>2. RoomInv /\ [Next]_vars => [Promise!Next]_Promise!vars
  BY PromiseStep
<1>3. QED
  BY <1>1, <1>2, RoomInvCorrect, PTL DEF Spec, RoomPromise, Promise!Spec
=============================================================================
