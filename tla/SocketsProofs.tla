--------------------------- MODULE SocketsProofs ---------------------------
(* What the proofs about the servers share: facts about sequences, and that *)
(* the system calls and the clients keep the sockets well-typed.            *)
EXTENDS Sockets, SequencesExt, SequenceTheorems, WellFoundedInduction, TLAPS

\* The elements of a queue after its head is taken, and after an append.
LEMMA TailElements ==
  ASSUME NEW S, NEW s \in Seq(S), s # <<>>
  PROVE  /\ Head(s) = s[1] /\ Head(s) \in S /\ 1 \in DOMAIN s
         /\ Tail(s) \in Seq(S)
         /\ \A i \in DOMAIN Tail(s) :
              i \in Nat /\ i + 1 \in DOMAIN s /\ i + 1 # 1 /\ Tail(s)[i] = s[i + 1]
  OBVIOUS

LEMMA AppendElements ==
  ASSUME NEW S, NEW s \in Seq(S), NEW e \in S
  PROVE  \E n \in Nat :
           /\ DOMAIN Append(s, e) = DOMAIN s \cup {n}
           /\ n \notin DOMAIN s
           /\ Append(s, e)[n] = e
           /\ \A i \in DOMAIN s : Append(s, e)[i] = s[i]
<1>1. /\ Len(s) + 1 \in Nat
      /\ DOMAIN s = 1..Len(s)
      /\ DOMAIN Append(s, e) = 1..(Len(s) + 1)
      /\ Append(s, e)[Len(s) + 1] = e
      /\ \A i \in DOMAIN s : Append(s, e)[i] = s[i]
  OBVIOUS
<1>2. /\ 1..(Len(s) + 1) = 1..Len(s) \cup {Len(s) + 1}
      /\ Len(s) + 1 \notin 1..Len(s)
  OBVIOUS
<1>3. QED
  BY <1>1, <1>2

\* The elements of two sequences one after the other.
LEMMA ConcatElements ==
  ASSUME NEW S, NEW s \in Seq(S), NEW t \in Seq(S)
  PROVE  /\ Len(s \o t) = Len(s) + Len(t)
         /\ DOMAIN (s \o t) = 1..Len(s) + Len(t)
         /\ \A i \in 1..Len(s) : (s \o t)[i] = s[i]
         /\ \A i \in 1..Len(t) : (s \o t)[Len(s) + i] = t[i]
OBVIOUS

\* The sockets before any client.
LEMMA InitType == SockInit => SockTypeOK
BY SizeAssumption DEF SockInit, SockTypeOK, PeerState

\* What clients and the network do keeps the types.
LEMMA ClientType ==
  ASSUME SockTypeOK, NEW c \in Conn,
         Connect(c) \/ Write(c) \/ Read(c) \/ Leave(c) \/ Reset(c)
  PROVE  SockTypeOK'
<1>1. CASE Connect(c)
  BY <1>1 DEF Connect, SockTypeOK, PeerState
<1>2. CASE Write(c)
  <2>1. PICK sh \in Shapes :
          outbox' = [outbox EXCEPT ![c] =
                       Append(@, [from |-> c, num |-> wrote[c] + 1, shape |-> sh])]
    BY <1>2 DEF Write
  <2>2. [from |-> c, num |-> wrote[c] + 1, shape |-> sh] \in Chunk
    BY SizeAssumption DEF Chunk, SockTypeOK
  <2>3. outbox' \in [Conn -> Seq(Chunk)]
    BY <2>1, <2>2 DEF SockTypeOK
  <2>4. wrote' \in [Conn -> 0..MaxWrites]
    BY <1>2, SizeAssumption DEF Write, SockTypeOK
  <2>5. QED
    BY <1>2, <2>3, <2>4 DEF Write, SockTypeOK
<1>3. CASE Read(c)
  BY <1>3, SizeAssumption DEF Read, SockTypeOK
<1>4. CASE Leave(c)
  BY <1>4 DEF Leave, SockTypeOK, PeerState
<1>5. CASE Reset(c)
  BY <1>5 DEF Reset, SockTypeOK, PeerState
<1>6. QED
  BY <1>1, <1>2, <1>3, <1>4, <1>5

\* accept gives the head of the backlog one free descriptor.
LEMMA AcceptType ==
  ASSUME SockTypeOK, NEW f, AcceptAs(f)
  PROVE  /\ SockTypeOK'
         /\ f \in Fd /\ fds[f] = NoConn /\ Head(backlog) \in Conn
         /\ fds' = [fds EXCEPT ![f] = Head(backlog)]
<1>1. Head(backlog) \in Conn /\ Tail(backlog) \in Seq(Conn)
  BY DEF SockTypeOK, AcceptAs
<1>2. fds' \in [Fd -> Conn \cup {NoConn}] /\ backlog' \in Seq(Conn)
  BY <1>1 DEF SockTypeOK, AcceptAs
<1>3. QED
  BY <1>1, <1>2 DEF SockTypeOK, AcceptAs, FreeFds

\* recv takes one chunk of one client.
LEMMA TakeType ==
  ASSUME SockTypeOK, NEW c \in Conn \cup {NoConn}, TakeChunk(c)
  PROVE  /\ SockTypeOK'
         /\ c \in Conn /\ Head(outbox[c]) \in Chunk
<1>1. c \in Conn /\ outbox[c] # <<>> /\ outbox[c] \in Seq(Chunk)
  BY DEF SockTypeOK, TakeChunk, HasData
<1>2. Head(outbox[c]) \in Chunk /\ Tail(outbox[c]) \in Seq(Chunk)
  BY <1>1, TailElements
<1>3. outbox' \in [Conn -> Seq(Chunk)]
  BY <1>2 DEF SockTypeOK, TakeChunk
<1>4. QED
  BY <1>1, <1>2, <1>3 DEF SockTypeOK, TakeChunk

LEMMA CloseType ==
  ASSUME SockTypeOK, NEW f, CloseFd(f)
  PROVE  SockTypeOK'
BY DEF SockTypeOK, CloseFd

\* send adds units to one client's inbox, or dooms its connection.
LEMMA SendType ==
  ASSUME SockTypeOK, NEW c \in Conn, NEW chunk \in Chunk, NEW clip \in Nat,
         NEW left \in 0..MsgLen, NEW k \in 1..left,
         SendTakes(c, chunk, clip, left, k)
  PROVE  SockTypeOK'
<1> USE SizeAssumption
<1>1. ASSUME NEW i \in 1..k
      PROVE  [from |-> chunk.from, num |-> chunk.num, clip |-> clip,
              part |-> MsgLen - left + 1 + i - 1] \in Unit
  BY DEF Chunk, Unit
<1>2. Units(chunk, clip, MsgLen - left + 1, k) \in Seq(Unit)
  <2> DEFINE u(i) == [from |-> chunk.from, num |-> chunk.num, clip |-> clip,
                      part |-> MsgLen - left + 1 + i - 1]
  <2>1. k \in Nat
    OBVIOUS
  <2>2. \A i \in 1..k : u(i) \in Unit
    BY <1>1
  <2> HIDE DEF u
  <2>3. [i \in 1..k |-> u(i)] \in Seq(Unit)
    BY <2>1, <2>2
  <2>4. QED
    BY <2>3 DEF Units, u
<1>3. inbox' \in [Conn -> Seq(Unit)] /\ unread' \in [Conn -> 0..Room]
  <2>1. inbox[c] \o Units(chunk, clip, MsgLen - left + 1, k) \in Seq(Unit)
    BY <1>2 DEF SockTypeOK
  <2>2. k <= Room - unread[c] => unread[c] + k \in 0..Room
    BY DEF SockTypeOK
  <2>3. CASE UNCHANGED <<inbox, unread>>
    BY <2>3 DEF SockTypeOK
  <2>4. CASE /\ k <= Room - unread[c]
             /\ inbox' = [inbox EXCEPT ![c] =
                            @ \o Units(chunk, clip, MsgLen - left + 1, k)]
             /\ unread' = [unread EXCEPT ![c] = @ + k]
    <3> HIDE DEF Units
    <3>1. inbox' \in [Conn -> Seq(Unit)]
      BY <2>1, <2>4 DEF SockTypeOK
    <3>2. unread' \in [Conn -> 0..Room]
      BY <2>2, <2>4 DEF SockTypeOK
    <3>3. QED
      BY <3>1, <3>2
  <2>5. QED
    BY <2>3, <2>4 DEF SendTakes
<1>4. peer' \in [Conn -> PeerState]
  BY DEF SockTypeOK, SendTakes, PeerState
<1>5. QED
  BY <1>3, <1>4 DEF SockTypeOK, SendTakes

-----------------------------------------------------------------------------
(* Every connection is in one place.                                        *)

\* The connections that are somewhere are connections.
LEMMA PlacesType ==
  ASSUME SockTypeOK
  PROVE  /\ \A j \in DOMAIN backlog : backlog[j] \in Conn
         /\ \A f \in Fd : fds[f] # NoConn => fds[f] \in Conn
BY DEF SockTypeOK

\* Steps that establish and accept no connection, and at most close some.
LEMMA ApartKept ==
  ASSUME SockTypeOK, ConnsApart, UNCHANGED backlog,
         \A f \in Fd : fds'[f] = fds[f] \/ fds'[f] = NoConn,
         \A c \in Conn : peer'[c] = "new" => peer[c] = "new"
  PROVE  ConnsApart'
<1>1. /\ \A j \in DOMAIN backlog : backlog[j] \in Conn /\ backlog[j] # NoConn
      /\ \A f \in Fd : fds[f] # NoConn => fds[f] \in Conn
  BY PlacesType, ConnAssumption
<1>2. \A f, g \in Fd : fds'[f] = fds'[g] /\ fds'[f] # NoConn => f = g
  BY DEF ConnsApart
<1>3. \A j \in DOMAIN backlog, f \in Fd : backlog[j] # fds'[f]
  BY <1>1 DEF ConnsApart
<1>4. \A j \in DOMAIN backlog : peer'[backlog[j]] # "new"
  BY <1>1 DEF ConnsApart
<1>5. \A f \in Fd : fds'[f] # NoConn => peer'[fds'[f]] # "new"
  BY <1>1 DEF ConnsApart
<1>6. QED
  BY <1>2, <1>3, <1>4, <1>5 DEF ConnsApart

\* A new connection is pending and nowhere else.
LEMMA ConnectApart ==
  ASSUME SockTypeOK, ConnsApart, NEW c \in Conn, Connect(c)
  PROVE  ConnsApart'
<1>1. /\ peer[c] = "new" /\ peer' = [peer EXCEPT ![c] = "open"]
      /\ backlog' = Append(backlog, c) /\ backlog \in Seq(Conn)
      /\ UNCHANGED fds
  BY DEF Connect, SockTypeOK
<1>2. PICK n \in Nat : /\ DOMAIN backlog' = DOMAIN backlog \cup {n}
                       /\ n \notin DOMAIN backlog
                       /\ backlog'[n] = c
                       /\ \A j \in DOMAIN backlog : backlog'[j] = backlog[j]
  BY <1>1, AppendElements
<1>3. /\ \A j \in DOMAIN backlog : backlog[j] \in Conn /\ backlog[j] # c
      /\ \A f \in Fd : fds[f] # NoConn => fds[f] \in Conn /\ fds[f] # c
  BY <1>1, PlacesType DEF ConnsApart
<1>4. \A d \in Conn : peer'[d] = "new" => peer[d] = "new" /\ d # c
  BY <1>1 DEF SockTypeOK
<1>5. \A j, k \in DOMAIN backlog' : backlog'[j] = backlog'[k] => j = k
  BY <1>2, <1>3 DEF ConnsApart
<1>6. \A j \in DOMAIN backlog', f \in Fd : backlog'[j] # fds'[f]
  BY <1>1, <1>2, <1>3, ConnAssumption DEF ConnsApart
<1>7. \A j \in DOMAIN backlog' : peer'[backlog'[j]] # "new"
  BY <1>2, <1>3, <1>4 DEF ConnsApart
<1>8. QED
  BY <1>1, <1>3, <1>4, <1>5, <1>6, <1>7 DEF ConnsApart

LEMMA ClientApart ==
  ASSUME SockTypeOK, ConnsApart, NEW c \in Conn,
         Connect(c) \/ Write(c) \/ Read(c) \/ Leave(c) \/ Reset(c)
  PROVE  ConnsApart'
<1>1. CASE Connect(c)
  BY <1>1, ConnectApart
<1>2. CASE Write(c) \/ Read(c) \/ Leave(c) \/ Reset(c)
  <2>1. UNCHANGED <<backlog, fds>>
    BY <1>2 DEF Write, Read, Leave, Reset
  <2>2. \A d \in Conn : peer'[d] = "new" => peer[d] = "new"
    BY <1>2 DEF Write, Read, Leave, Reset, SockTypeOK
  <2>3. QED
    BY <2>1, <2>2, ApartKept
<1>3. QED
  BY <1>1, <1>2

\* The oldest pending connection moves to a descriptor.
LEMMA AcceptApart ==
  ASSUME SockTypeOK, ConnsApart, NEW f, AcceptAs(f)
  PROVE  ConnsApart'
<1>1. /\ f \in Fd /\ fds[f] = NoConn /\ Head(backlog) \in Conn
      /\ fds' = [fds EXCEPT ![f] = Head(backlog)]
  BY AcceptType
<1>2. /\ backlog # <<>> /\ backlog' = Tail(backlog) /\ UNCHANGED peer
      /\ backlog \in Seq(Conn)
  BY DEF AcceptAs, SockTypeOK
<1>3. /\ Head(backlog) = backlog[1] /\ 1 \in DOMAIN backlog
      /\ \A j \in DOMAIN backlog' : /\ j \in Nat /\ j + 1 \in DOMAIN backlog /\ j + 1 # 1
                                    /\ backlog'[j] = backlog[j + 1]
  BY <1>2, TailElements
<1>4. /\ fds'[f] = backlog[1]
      /\ \A g \in Fd : g # f => fds'[g] = fds[g]
  BY <1>1, <1>3 DEF SockTypeOK
<1>5. \A j, k \in DOMAIN backlog' : backlog'[j] = backlog'[k] => j = k
  <2> SUFFICES ASSUME NEW j \in DOMAIN backlog', NEW k \in DOMAIN backlog',
                      backlog'[j] = backlog'[k]
               PROVE  j = k
    OBVIOUS
  <2>1. j + 1 = k + 1
    BY <1>3 DEF ConnsApart
  <2>2. QED
    BY <1>3, <2>1
<1>6. \A g, h \in Fd : fds'[g] = fds'[h] /\ fds'[g] # NoConn => g = h
  BY <1>3, <1>4 DEF ConnsApart
<1>7. \A j \in DOMAIN backlog', g \in Fd : backlog'[j] # fds'[g]
  BY <1>3, <1>4 DEF ConnsApart
<1>8. \A j \in DOMAIN backlog' : peer'[backlog'[j]] # "new"
  BY <1>2, <1>3 DEF ConnsApart
<1>9. \A g \in Fd : fds'[g] # NoConn => peer'[fds'[g]] # "new"
  BY <1>2, <1>3, <1>4 DEF ConnsApart
<1>10. QED
  BY <1>5, <1>6, <1>7, <1>8, <1>9 DEF ConnsApart

\* recv, close and send move no connection.
LEMMA TakeApart ==
  ASSUME SockTypeOK, ConnsApart, NEW c, TakeChunk(c)
  PROVE  ConnsApart'
BY ApartKept DEF TakeChunk

LEMMA CloseApart ==
  ASSUME SockTypeOK, ConnsApart, NEW f, CloseFd(f)
  PROVE  ConnsApart'
BY ApartKept DEF CloseFd

LEMMA SendApart ==
  ASSUME SockTypeOK, ConnsApart, NEW c, NEW chunk, NEW clip, NEW left, NEW k,
         SendTakes(c, chunk, clip, left, k)
  PROVE  ConnsApart'
<1>1. UNCHANGED <<backlog, fds>>
  BY DEF SendTakes
<1>2. \A d \in Conn : peer'[d] = "new" => peer[d] = "new"
  BY DEF SendTakes, SockTypeOK
<1>3. QED
  BY <1>1, <1>2, ApartKept

-----------------------------------------------------------------------------
(* Chunks are taken in the order they were written.                         *)

\* A client's writes and recv keep what waits in outbox in the order of its
\* numbers; recv takes the next number.
LEMMA WriteOrdered ==
  ASSUME SockTypeOK, OutboxOrdered, NEW c \in Conn, Write(c)
  PROVE  /\ OutboxOrdered'
         /\ \A d \in Conn : (wrote[d] - Len(outbox[d]))' = wrote[d] - Len(outbox[d])
<1>0. outbox[c] \in Seq(Chunk) /\ wrote[c] \in Nat
  BY SizeAssumption DEF SockTypeOK
<1>1. PICK sh \in Shapes :
        outbox' = [outbox EXCEPT ![c] =
                     Append(@, [from |-> c, num |-> wrote[c] + 1, shape |-> sh])]
  BY DEF Write
<1> DEFINE ch == [from |-> c, num |-> wrote[c] + 1, shape |-> sh]
<1>2. ch \in Chunk /\ ch.from = c /\ ch.num = wrote[c] + 1
  BY <1>0 DEF Chunk
<1>3. /\ outbox'[c] = Append(outbox[c], ch)
      /\ wrote'[c] = wrote[c] + 1
      /\ \A d \in Conn : d # c => outbox'[d] = outbox[d] /\ wrote'[d] = wrote[d]
  BY <1>1 DEF Write, SockTypeOK
<1> HIDE DEF ch
<1>4. /\ Len(outbox'[c]) = Len(outbox[c]) + 1
      /\ DOMAIN outbox'[c] = DOMAIN outbox[c] \cup {Len(outbox[c]) + 1}
      /\ outbox'[c][Len(outbox[c]) + 1] = ch
      /\ \A i \in DOMAIN outbox[c] : outbox'[c][i] = outbox[c][i]
      /\ Len(outbox[c]) \in Nat
  BY <1>0, <1>2, <1>3
<1>5. \A j \in DOMAIN outbox[c] : j \in Nat
  BY <1>0
<1>6. \A j \in DOMAIN outbox[c] :
        outbox[c][j].from = c /\ outbox[c][j].num = wrote[c] - Len(outbox[c]) + j
  BY DEF OutboxOrdered
<1>7. wrote'[c] - Len(outbox'[c]) = wrote[c] - Len(outbox[c])
  <2>1. wrote'[c] = wrote[c] + 1 /\ Len(outbox'[c]) = Len(outbox[c]) + 1
    BY <1>3, <1>4
  <2>2. wrote[c] \in Int /\ Len(outbox[c]) \in Int
    BY <1>0, <1>4
  <2>3. QED
    BY <2>1, <2>2
<1>8. \A d \in Conn : (wrote[d] - Len(outbox[d]))' = wrote[d] - Len(outbox[d])
  BY <1>3, <1>7
<1>9. ASSUME NEW j \in DOMAIN outbox'[c]
      PROVE  outbox'[c][j].from = c /\ outbox'[c][j].num = wrote'[c] - Len(outbox'[c]) + j
  <2>1. CASE j \in DOMAIN outbox[c]
    BY <1>4, <1>6, <1>7, <2>1
  <2>2. CASE j = Len(outbox[c]) + 1
    BY <1>0, <1>2, <1>4, <1>7, <2>2
  <2>3. QED
    BY <1>4, <2>1, <2>2
<1>10. QED
  BY <1>3, <1>8, <1>9 DEF OutboxOrdered

LEMMA TakeOrdered ==
  ASSUME SockTypeOK, OutboxOrdered, NEW c \in Conn, TakeChunk(c)
  PROVE  /\ OutboxOrdered'
         /\ Head(outbox[c]).num = wrote[c] - Len(outbox[c]) + 1
         /\ wrote'[c] - Len(outbox'[c]) = wrote[c] - Len(outbox[c]) + 1
         /\ \A d \in Conn : d # c => outbox'[d] = outbox[d] /\ wrote'[d] = wrote[d]
<1>0. outbox[c] \in Seq(Chunk) /\ wrote[c] \in Nat /\ outbox[c] # <<>>
  BY SizeAssumption DEF SockTypeOK, TakeChunk, HasData
<1>1. /\ outbox'[c] = Tail(outbox[c]) /\ wrote' = wrote
      /\ \A d \in Conn : d # c => outbox'[d] = outbox[d]
  BY DEF TakeChunk, SockTypeOK
<1>2. /\ Head(outbox[c]) = outbox[c][1] /\ 1 \in DOMAIN outbox[c]
      /\ \A i \in DOMAIN outbox'[c] :
           /\ i \in Nat /\ i + 1 \in DOMAIN outbox[c]
           /\ outbox'[c][i] = outbox[c][i + 1]
  BY <1>0, <1>1, TailElements
<1>3. Len(outbox'[c]) = Len(outbox[c]) - 1 /\ Len(outbox[c]) \in Nat
  BY <1>0, <1>1
<1>4. \A j \in DOMAIN outbox[c] :
        outbox[c][j].from = c /\ outbox[c][j].num = wrote[c] - Len(outbox[c]) + j
  BY DEF OutboxOrdered
<1>5. wrote'[c] - Len(outbox'[c]) = wrote[c] - Len(outbox[c]) + 1
  BY <1>0, <1>1, <1>3
<1>6. ASSUME NEW j \in DOMAIN outbox'[c]
      PROVE  outbox'[c][j].from = c /\ outbox'[c][j].num = wrote'[c] - Len(outbox'[c]) + j
  <2>1. /\ outbox'[c][j].from = c
        /\ outbox'[c][j].num = wrote[c] - Len(outbox[c]) + (j + 1)
    BY <1>2, <1>4
  <2>2. QED
    BY <1>0, <1>2, <1>3, <1>5, <2>1
<1>7. OutboxOrdered'
  <2> SUFFICES ASSUME NEW d \in Conn, NEW j \in DOMAIN outbox'[d]
               PROVE  /\ outbox'[d][j].from = d
                      /\ outbox'[d][j].num = wrote'[d] - Len(outbox'[d]) + j
    BY DEF OutboxOrdered
  <2>1. CASE d = c
    BY <1>6, <2>1
  <2>2. CASE d # c
    BY <1>1, <2>2 DEF OutboxOrdered
  <2>3. QED
    BY <2>1, <2>2
<1>8. Head(outbox[c]).num = wrote[c] - Len(outbox[c]) + 1
  BY <1>2, <1>4
<1>9. QED
  BY <1>1, <1>5, <1>7, <1>8

-----------------------------------------------------------------------------
(* Flattening a sequence of sequences.  What a recursive function yields is *)
(* shown by the least argument at which it would not.                       *)

LEMMA Least ==
  ASSUME NEW T \in SUBSET Nat, T # {}
  PROVE  \E n \in T : \A m \in T : n <= m
<1> DEFINE R == {ss \in Nat \X Nat : ss[1] < ss[2]}
<1>1. IsWellFoundedOn(R, Nat)
  BY NatLessThanWellFounded DEF OpToRel
<1>2. PICK n \in T : \A m \in T : ~(<<m, n>> \in R)
  <2> HIDE DEF R
  <2>1. QED
    BY <1>1, WFMin
<1>3. \A m \in T : n <= m
  <2> TAKE m \in T
  <2>1. n \in Nat /\ m \in Nat
    OBVIOUS
  <2>2. ~(m < n)
    BY <2>1, <1>2
  <2>3. QED
    BY <2>1, <2>2
<1>4. QED
  BY <1>3

\* The same, ready for use: the first number that something fails for is 1,
\* or it does not fail for the one before.
LEMMA FirstOf ==
  ASSUME NEW n \in Nat, NEW T \in SUBSET (1..n), T # {}
  PROVE  \E i \in T : i \in 1..n /\ (i # 1 => i - 1 \in 1..n /\ i - 1 \notin T)
<1>1. T \in SUBSET Nat
  OBVIOUS
<1>2. PICK i \in T : \A m \in T : i <= m
  BY <1>1, Least
<1>3. i \in 1..n /\ (i # 1 => i - 1 \in 1..n)
  OBVIOUS
<1>4. i - 1 \notin T
  BY <1>2, <1>3
<1>5. QED
  BY <1>3, <1>4

\* f lists what FlattenSeq makes of the first members of s.
IsFlattening(f, s, S) ==
  /\ f \in [1..Len(s) -> Seq(S)]
  /\ \A i \in 1..Len(s) : f[i] = IF i = 1 THEN s[1] ELSE f[i - 1] \o s[i]

LEMMA EmptyFunction ==
  ASSUME NEW X
  PROVE  \E e : e \in [{} -> X]
<1>1. [x \in {} |-> x] \in [{} -> X]
  OBVIOUS
<1>2. QED
  BY <1>1, Zenon

LEMMA FlatteningExists ==
  ASSUME NEW S, NEW s \in Seq(Seq(S))
  PROVE  \E f : IsFlattening(f, s, S)
<1> DEFINE Rec(n, f) == \A i \in 1..n : f[i] = IF i = 1 THEN s[1] ELSE f[i - 1] \o s[i]
           T == {n \in 1..Len(s) : ~ \E f \in [1..n -> Seq(S)] : Rec(n, f)}
<1>1. Len(s) \in Nat /\ DOMAIN s = 1..Len(s) /\ \A i \in 1..Len(s) : s[i] \in Seq(S)
  OBVIOUS
<1>2. CASE Len(s) = 0
  <2>1. PICK e : e \in [{} -> Seq(S)]
    BY EmptyFunction
  <2>2. 1..Len(s) = {}
    BY <1>2
  <2>3. e \in [1..Len(s) -> Seq(S)]
    BY <2>1, <2>2
  <2>4. IsFlattening(e, s, S)
    BY <2>2, <2>3 DEF IsFlattening
  <2>5. QED
    BY <2>4
<1>3. ASSUME T # {}
      PROVE  FALSE
  <2>1. T \in SUBSET (1..Len(s))
    OBVIOUS
  <2>2. PICK n \in T : n \in 1..Len(s) /\ (n # 1 => n - 1 \in 1..Len(s) /\ n - 1 \notin T)
    <3> HIDE DEF T
    <3>1. QED
      BY <1>1, <1>3, <2>1, FirstOf
  <2>3. PICK e : e \in [1..n - 1 -> Seq(S)] /\ Rec(n - 1, e)
    <3>1. CASE n = 1
      <4>1. PICK e : e \in [{} -> Seq(S)]
        BY EmptyFunction
      <4>2. 1..n - 1 = {}
        BY <3>1
      <4>3. e \in [1..n - 1 -> Seq(S)] /\ Rec(n - 1, e)
        BY <4>1, <4>2
      <4>4. QED
        BY <4>3
    <3>2. CASE n # 1
      BY <2>2, <3>2
    <3>3. QED
      BY <3>1, <3>2
  <2> DEFINE last == IF n = 1 THEN s[1] ELSE e[n - 1] \o s[n]
             g == [i \in 1..n |-> IF i = n THEN last ELSE e[i]]
  <2>4. last \in Seq(S)
    <3>1. CASE n = 1
      BY <1>1, <2>2, <3>1
    <3>2. CASE n # 1
      <4>1. n - 1 \in 1..n - 1 /\ s[n] \in Seq(S)
        BY <1>1, <2>2, <3>2
      <4>2. e[n - 1] \in Seq(S)
        BY <2>3, <4>1
      <4>3. QED
        BY <3>2, <4>1, <4>2
    <3>3. QED
      BY <3>1, <3>2
  <2>5. \A i \in 1..n : i # n => i \in 1..n - 1 /\ e[i] \in Seq(S)
    BY <2>2, <2>3
  <2>6. g \in [1..n -> Seq(S)]
    <3> HIDE DEF last
    <3>1. QED
      BY <2>4, <2>5
  <2>7. Rec(n, g)
    <3> SUFFICES ASSUME NEW i \in 1..n
                 PROVE  g[i] = IF i = 1 THEN s[1] ELSE g[i - 1] \o s[i]
      OBVIOUS
    <3>1. i # 1 => i - 1 \in 1..n /\ i - 1 # n
      BY <2>2
    <3>2. CASE i = n
      BY <3>1, <3>2
    <3>3. CASE i # n
      <4>1. e[i] = IF i = 1 THEN s[1] ELSE e[i - 1] \o s[i]
        BY <2>3, <2>5, <3>3
      <4>2. QED
        BY <3>1, <3>3, <4>1
    <3>4. QED
      BY <3>2, <3>3
  <2>8. QED
    BY <2>2, <2>6, <2>7
<1>4. CASE Len(s) # 0
  <2>1. Len(s) \in 1..Len(s)
    BY <1>1, <1>4
  <2>2. PICK f \in [1..Len(s) -> Seq(S)] : Rec(Len(s), f)
    BY <1>3, <2>1
  <2>3. QED
    BY <2>2 DEF IsFlattening
<1>5. QED
  BY <1>2, <1>4

LEMMA FlattenIs ==
  ASSUME NEW S, NEW s \in Seq(Seq(S)), Len(s) # 0
  PROVE  \E f : IsFlattening(f, s, S) /\ FlattenSeq(s) = f[Len(s)]
<1> DEFINE n == Len(s)
           Eq(g) == g = [i \in 1..n |-> IF i = 1 THEN s[i] ELSE g[i - 1] \o s[i]]
           h == CHOOSE g : Eq(g)
<1>1. n \in Nat /\ n # 0 /\ n \in 1..n
  OBVIOUS
<1>2. PICK f : IsFlattening(f, s, S)
  BY FlatteningExists
<1>3. FlattenSeq(s) = h[n]
  BY DEF FlattenSeq
<1> HIDE DEF n
<1>4. Eq(f)
  <2>1. f \in [1..n -> Seq(S)]
    BY <1>2 DEF IsFlattening, n
  <2>2. \A i \in 1..n : f[i] = IF i = 1 THEN s[i] ELSE f[i - 1] \o s[i]
    BY <1>2 DEF IsFlattening, n
  <2>3. QED
    BY <2>1, <2>2
<1>5. Eq(h)
  BY <1>4
<1> HIDE DEF h
<1>6. ASSUME NEW T, T = {i \in 1..n : h[i] # f[i]}, T # {}
      PROVE  FALSE
  <2>1. T \in SUBSET (1..n)
    BY <1>6
  <2>2. PICK i \in T : i \in 1..n /\ (i # 1 => i - 1 \in 1..n /\ i - 1 \notin T)
    BY <1>1, <1>6, <2>1, FirstOf
  <2>3. i # 1 => h[i - 1] = f[i - 1]
    BY <1>6, <2>2
  <2>4. /\ h[i] = IF i = 1 THEN s[i] ELSE h[i - 1] \o s[i]
        /\ f[i] = IF i = 1 THEN s[i] ELSE f[i - 1] \o s[i]
    BY <1>4, <1>5, <2>2
  <2>5. QED
    BY <1>6, <2>2, <2>3, <2>4
<1>7. h[n] = f[n]
  BY <1>1, <1>6
<1>8. QED
  BY <1>2, <1>3, <1>7 DEF n

\* s is u and then t.
IsConcat(s, u, t) == s = u \o t

LEMMA LongerConcat ==
  ASSUME NEW S, NEW s, NEW u \in Seq(S), NEW t \in Seq(S), NEW v \in Seq(S),
         IsConcat(s, u, t)
  PROVE  IsConcat(s \o v, u, t \o v)
<1>1. (u \o t) \o v = u \o (t \o v)
  BY ConcatAssociative
<1>2. QED
  BY <1>1 DEF IsConcat

\* Flattening begins with what the first non-empty member begins with.
LEMMA FlattenFirst ==
  ASSUME NEW S, NEW s \in Seq(Seq(S)), NEW t \in Seq(Seq(S)), NEW u \in Seq(S),
         Len(s) = Len(t), NEW j \in 1..Len(s), IsConcat(s[j], u, t[j]),
         \A i \in 1..Len(s) : i < j => s[i] = <<>> /\ t[i] = <<>>,
         \A i \in 1..Len(s) : i > j => s[i] = t[i]
  PROVE  IsConcat(FlattenSeq(s), u, FlattenSeq(t))
<1>1. Len(s) \in Nat /\ Len(s) # 0 /\ Len(s) \in 1..Len(s)
  OBVIOUS
<1>2. PICK f : IsFlattening(f, s, S) /\ FlattenSeq(s) = f[Len(s)]
  BY <1>1, FlattenIs
<1>3. PICK g : IsFlattening(g, t, S) /\ FlattenSeq(t) = g[Len(s)]
  BY <1>1, FlattenIs
<1> DEFINE P(i) == IF i < j THEN f[i] = <<>> /\ g[i] = <<>> ELSE IsConcat(f[i], u, g[i])
<1>4. \A i \in 1..Len(s) : s[i] \in Seq(S) /\ t[i] \in Seq(S)
  OBVIOUS
<1>5. ASSUME NEW T, T = {i \in 1..Len(s) : ~P(i)}, T # {}
      PROVE  FALSE
  <2>1. T \in SUBSET (1..Len(s))
    BY <1>5
  <2>2. PICK i \in T : i \in 1..Len(s) /\ (i # 1 => i - 1 \in 1..Len(s) /\ i - 1 \notin T)
    BY <1>1, <1>5, <2>1, FirstOf
  <2>3. i # 1 => P(i - 1)
    BY <1>5, <2>2
  <2>4. /\ f[i] = IF i = 1 THEN s[1] ELSE f[i - 1] \o s[i]
        /\ g[i] = IF i = 1 THEN t[1] ELSE g[i - 1] \o t[i]
        /\ i # 1 => f[i - 1] \in Seq(S) /\ g[i - 1] \in Seq(S)
    BY <1>2, <1>3, <2>2 DEF IsFlattening
  <2>5. s[i] \in Seq(S) /\ t[i] \in Seq(S)
    BY <1>4, <2>2
  <2>6. CASE i < j
    <3>0. i # 1 => i - 1 < j
      BY <2>2, <2>6
    <3>1. s[i] = <<>> /\ t[i] = <<>>
      BY <2>2, <2>6
    <3>2. <<>> \o <<>> = <<>>
      OBVIOUS
    <3>3. f[i] = <<>> /\ g[i] = <<>>
      <4>1. CASE i = 1
        BY <2>4, <3>1, <4>1
      <4>2. CASE i # 1
        <5>1. f[i - 1] = <<>> /\ g[i - 1] = <<>>
          BY <2>3, <3>0, <4>2
        <5>2. QED
          BY <2>4, <3>1, <3>2, <4>2, <5>1
      <4>3. QED
        BY <4>1, <4>2
    <3>4. QED
      BY <1>5, <2>2, <2>6, <3>3
  <2>7. CASE i = j
    <3>1. f[i] = s[i] /\ g[i] = t[i]
      <4>1. CASE i = 1
        BY <2>4, <4>1
      <4>2. CASE i # 1
        <5>1. f[i - 1] = <<>> /\ g[i - 1] = <<>>
          BY <2>2, <2>3, <2>7, <4>2
        <5>2. f[i] = <<>> \o s[i] /\ g[i] = <<>> \o t[i]
          BY <2>4, <4>2, <5>1
        <5>3. QED
          BY <2>5, <5>2
      <4>3. QED
        BY <4>1, <4>2
    <3>2. IsConcat(f[i], u, g[i]) /\ ~(i < j)
      BY <2>2, <2>7, <3>1
    <3>3. QED
      BY <1>5, <2>2, <3>2
  <2>8. CASE i > j
    <3>1. i # 1 /\ ~(i - 1 < j) /\ s[i] = t[i]
      BY <2>2, <2>8
    <3>2. f[i] = f[i - 1] \o t[i] /\ g[i] = g[i - 1] \o t[i] /\ g[i - 1] \in Seq(S)
      BY <2>4, <3>1
    <3>3. IsConcat(f[i - 1], u, g[i - 1])
      BY <2>3, <3>1
    <3>4. IsConcat(f[i - 1] \o t[i], u, g[i - 1] \o t[i])
      BY <2>5, <3>2, <3>3, LongerConcat
    <3>5. IsConcat(f[i], u, g[i]) /\ ~(i < j)
      BY <2>2, <2>8, <3>2, <3>4
    <3>6. QED
      BY <1>5, <2>2, <3>5
  <2>9. QED
    BY <2>2, <2>6, <2>7, <2>8
<1>6. P(Len(s)) /\ ~(Len(s) < j)
  <2> HIDE DEF P
  <2>1. \A i \in 1..Len(s) : P(i)
    BY <1>5
  <2>2. P(Len(s))
    BY <1>1, <2>1
  <2>3. QED
    BY <1>1, <2>2
<1>7. QED
  BY <1>2, <1>3, <1>6

\* Flattening nothing makes nothing.
LEMMA FlattenEmpty ==
  ASSUME NEW S, NEW s \in Seq(Seq(S)), \A i \in 1..Len(s) : s[i] = <<>>
  PROVE  FlattenSeq(s) = <<>>
<1>1. CASE Len(s) = 0
  BY <1>1 DEF FlattenSeq
<1>2. CASE Len(s) # 0
  <2>1. Len(s) \in Nat /\ Len(s) \in 1..Len(s)
    BY <1>2
  <2>2. PICK f : IsFlattening(f, s, S) /\ FlattenSeq(s) = f[Len(s)]
    BY <1>2, FlattenIs
  <2>3. ASSUME NEW T, T = {i \in 1..Len(s) : f[i] # <<>>}, T # {}
        PROVE  FALSE
    <3>1. T \in SUBSET (1..Len(s))
      BY <2>3
    <3>2. PICK i \in T : i \in 1..Len(s) /\ (i # 1 => i - 1 \in 1..Len(s) /\ i - 1 \notin T)
      BY <2>1, <2>3, <3>1, FirstOf
    <3>3. i # 1 => f[i - 1] = <<>>
      BY <2>3, <3>2
    <3>4. f[i] = IF i = 1 THEN s[1] ELSE f[i - 1] \o s[i]
      BY <2>2, <3>2 DEF IsFlattening
    <3>5. s[i] = <<>> /\ <<>> \o <<>> = <<>>
      BY <3>2
    <3>6. QED
      BY <2>3, <3>2, <3>3, <3>4, <3>5
  <2>4. QED
    BY <2>1, <2>2, <2>3
<1>3. QED
  BY <1>1, <1>2

LEMMA FlattenType ==
  ASSUME NEW S, NEW s \in Seq(Seq(S))
  PROVE  FlattenSeq(s) \in Seq(S)
<1>1. CASE Len(s) = 0
  BY <1>1 DEF FlattenSeq
<1>2. CASE Len(s) # 0
  <2>1. PICK f : IsFlattening(f, s, S) /\ FlattenSeq(s) = f[Len(s)]
    BY <1>2, FlattenIs
  <2>2. Len(s) \in 1..Len(s)
    BY <1>2
  <2>3. QED
    BY <2>1, <2>2 DEF IsFlattening
<1>3. QED
  BY <1>1, <1>2

-----------------------------------------------------------------------------
(* What a chunk still owes to a receiver.                                   *)

LEMMA UnitsType ==
  ASSUME NEW ch \in Chunk, NEW clip \in Nat, NEW first \in Nat \ {0}, NEW k \in Nat
  PROVE  Units(ch, clip, first, k) \in Seq(Unit) /\ Len(Units(ch, clip, first, k)) = k
<1>1. ASSUME NEW i \in 1..k
      PROVE  [from |-> ch.from, num |-> ch.num, clip |-> clip, part |-> first + i - 1] \in Unit
  BY DEF Unit, Chunk
<1>2. QED
  BY <1>1 DEF Units

\* A message is the units sent so far and the units that are left.
LEMMA UnitsSplit ==
  ASSUME NEW ch \in Chunk, NEW clip \in Nat, NEW first \in Nat \ {0},
         NEW l \in Nat, NEW k \in 0..l
  PROVE  IsConcat(Units(ch, clip, first, l), Units(ch, clip, first, k),
                  Units(ch, clip, first + k, l - k))
<1> DEFINE u == Units(ch, clip, first, k)
           v == Units(ch, clip, first + k, l - k)
           e(n) == [from |-> ch.from, num |-> ch.num, clip |-> clip, part |-> n]
<1>1. /\ u \in Seq(Unit) /\ Len(u) = k /\ v \in Seq(Unit) /\ Len(v) = l - k
      /\ Units(ch, clip, first, l) \in Seq(Unit) /\ Len(Units(ch, clip, first, l)) = l
  <2>1. k \in Nat /\ l - k \in Nat /\ first + k \in Nat \ {0}
    OBVIOUS
  <2>2. QED
    BY <2>1, UnitsType
<1>2. /\ \A i \in 1..k : u[i] = e(first + i - 1)
      /\ \A i \in 1..l - k : v[i] = e(first + k + i - 1)
      /\ \A i \in 1..l : Units(ch, clip, first, l)[i] = e(first + i - 1)
  BY DEF Units
<1> HIDE DEF u, v
<1>3. /\ u \o v \in Seq(Unit) /\ Len(u \o v) = l
      /\ \A i \in 1..l : (u \o v)[i] = IF i <= k THEN u[i] ELSE v[i - k]
  <2>1. Len(u) + Len(v) = l
    BY <1>1
  <2>2. QED
    BY <1>1, <2>1, ConcatProperties
<1>4. \A i \in 1..l : (u \o v)[i] = e(first + i - 1)
  <2> SUFFICES ASSUME NEW i \in 1..l
               PROVE  (u \o v)[i] = e(first + i - 1)
    OBVIOUS
  <2>1. CASE i <= k
    BY <1>2, <1>3, <2>1
  <2>2. CASE ~(i <= k)
    <3>1. i - k \in 1..l - k /\ first + k + (i - k) - 1 = first + i - 1
      BY <2>2
    <3> HIDE DEF e
    <3>2. v[i - k] = e(first + k + (i - k) - 1)
      BY <1>2, <3>1
    <3>3. QED
      BY <1>3, <2>2, <3>1, <3>2
  <2>3. QED
    BY <2>1, <2>2
<1> HIDE DEF e
<1>5. Units(ch, clip, first, l) = u \o v
  BY <1>1, <1>2, <1>3, <1>4, SeqEqual
<1>6. QED
  BY <1>5 DEF IsConcat, u, v

\* The call of send that send_all makes next, of the calls ss.
IsFirstSend(ss, p) ==
  /\ p \in ss
  /\ \A q \in ss : p[1] < q[1] \/ (p[1] = q[1] /\ p[2] <= q[2])

\* send has taken k of the l units left of call p: the calls left are ss2,
\* and l2 units are left of the first.
IsSent(ss, l, p, k, ss2, l2) ==
  /\ ss2 = IF k = l THEN ss \ {p} ELSE ss
  /\ l2 = IF k < l THEN l - k ELSE IF ss2 = {} THEN 0 ELSE MsgLen

\* Line by line, what is still to be sent of chunk ch to slot i when ss are
\* the calls of send left and l units are left of the first.
Pieces(ch, ss, l, i) ==
  [j \in DOMAIN ch.shape |->
     IF <<j, i>> \notin ss THEN <<>>
     ELSE IF IsFirstSend(ss, <<j, i>>)
       THEN Units(ch, j, MsgLen - l + 1, l)
       ELSE Units(ch, j, 1, MsgLen)]

LEMMA PiecesType ==
  ASSUME NEW ch \in Chunk, NEW ss, NEW l \in 0..MsgLen, NEW i
  PROVE  /\ Pieces(ch, ss, l, i) \in Seq(Seq(Unit))
         /\ Len(Pieces(ch, ss, l, i)) = Len(ch.shape)
         /\ DOMAIN ch.shape = 1..Len(ch.shape)
<1>1. /\ ch.shape \in Seq(BOOLEAN) /\ MsgLen \in Nat \ {0}
      /\ MsgLen - l + 1 \in Nat \ {0} /\ 1 \in Nat \ {0} /\ l \in Nat
  BY SizeAssumption DEF Chunk
<1>2. Len(ch.shape) \in Nat /\ DOMAIN ch.shape = 1..Len(ch.shape)
  BY <1>1
<1>3. ASSUME NEW j \in 1..Len(ch.shape)
      PROVE  /\ Units(ch, j, MsgLen - l + 1, l) \in Seq(Unit)
             /\ Units(ch, j, 1, MsgLen) \in Seq(Unit)
  <2>1. j \in Nat
    BY <1>2
  <2>2. QED
    BY <1>1, <2>1, UnitsType
<1>4. ASSUME NEW j \in 1..Len(ch.shape)
      PROVE  Pieces(ch, ss, l, i)[j] \in Seq(Unit)
  <2>1. <<>> \in Seq(Unit)
    OBVIOUS
  <2>2. QED
    BY <1>2, <1>3, <2>1 DEF Pieces
<1>5. DOMAIN Pieces(ch, ss, l, i) = 1..Len(ch.shape)
  BY <1>2 DEF Pieces
<1>6. Pieces(ch, ss, l, i) = [j \in 1..Len(ch.shape) |-> Pieces(ch, ss, l, i)[j]]
  BY <1>2 DEF Pieces
<1> DEFINE P == Pieces(ch, ss, l, i)
<1> HIDE DEF P
<1>7. P \in Seq(Seq(Unit)) /\ Len(P) = Len(ch.shape)
  BY <1>2, <1>4, <1>6 DEF P
<1>8. QED
  BY <1>2, <1>7 DEF P

\* Who gets no call of send is owed nothing.
LEMMA NothingOwed ==
  ASSUME NEW ch \in Chunk, NEW ss, NEW l \in 0..MsgLen, NEW i,
         \A p \in ss : p[2] # i
  PROVE  FlattenSeq(Pieces(ch, ss, l, i)) = <<>>
<1>1. \A j \in DOMAIN ch.shape : Pieces(ch, ss, l, i)[j] = <<>>
  BY DEF Pieces
<1>2. QED
  BY <1>1, PiecesType, FlattenEmpty

\* A chunk just received is owed whole to its receivers.
LEMMA AllOwed ==
  ASSUME NEW ch \in Chunk, NEW R, NEW i \in R, NEW ss, NEW l,
         ss = {j \in DOMAIN ch.shape : ch.shape[j]} \X R,
         l = IF ss = {} THEN 0 ELSE MsgLen
  PROVE  Pieces(ch, ss, l, i) =
           [j \in DOMAIN ch.shape |->
              IF ch.shape[j] THEN Units(ch, j, 1, MsgLen) ELSE <<>>]
<1>1. ASSUME NEW j \in DOMAIN ch.shape
      PROVE  Pieces(ch, ss, l, i)[j]
               = IF ch.shape[j] THEN Units(ch, j, 1, MsgLen) ELSE <<>>
  <2>1. CASE ~ch.shape[j]
    BY <2>1 DEF Pieces
  <2>2. CASE ch.shape[j]
    <3>1. <<j, i>> \in ss
      BY <2>2
    <3>2. l = MsgLen /\ MsgLen - l + 1 = 1
      BY <3>1, SizeAssumption
    <3>3. QED
      BY <2>2, <3>1, <3>2 DEF Pieces
  <2>3. QED
    BY <2>1, <2>2
<1>2. QED
  BY <1>1 DEF Pieces

\* One call of send takes the first k of the l units left of the first call:
\* that is what its receiver is no longer owed, and the others are owed what
\* they were.
LEMMA SendOwed ==
  ASSUME NEW ch \in Chunk, NEW ss \in SUBSET ((DOMAIN ch.shape) \X Nat),
         NEW l \in 1..MsgLen, NEW k \in 1..l, NEW p, IsFirstSend(ss, p),
         NEW ss2, NEW l2, IsSent(ss, l, p, k, ss2, l2)
  PROVE  /\ \A i \in Nat : i # p[2] => Pieces(ch, ss, l, i) = Pieces(ch, ss2, l2, i)
         /\ IsConcat(FlattenSeq(Pieces(ch, ss, l, p[2])),
                     Units(ch, p[1], MsgLen - l + 1, k),
                     FlattenSeq(Pieces(ch, ss2, l2, p[2])))
<1>0. /\ ch.shape \in Seq(BOOLEAN) /\ DOMAIN ch.shape = 1..Len(ch.shape)
      /\ Len(ch.shape) \in Nat /\ MsgLen \in Nat \ {0}
      /\ l \in Nat /\ k \in Nat /\ l \in 0..MsgLen
      /\ ss2 = IF k = l THEN ss \ {p} ELSE ss
      /\ l2 = IF k < l THEN l - k ELSE IF ss2 = {} THEN 0 ELSE MsgLen
  BY SizeAssumption DEF Chunk, IsSent
<1>1. p \in ss /\ p = <<p[1], p[2]>> /\ p[1] \in 1..Len(ch.shape) /\ p[2] \in Nat
  BY <1>0 DEF IsFirstSend
<1>1a. p[1] \in Nat /\ MsgLen - l + 1 \in Nat \ {0} /\ k \in 0..l
  BY <1>0, <1>1
<1>2. l2 \in 0..MsgLen
  BY <1>0
\* No other call is the first, and none that becomes the first has begun.
<1>3. ASSUME NEW j \in DOMAIN ch.shape, NEW i \in Nat, <<j, i>> # p
      PROVE  Pieces(ch, ss, l, i)[j] = Pieces(ch, ss2, l2, i)[j]
  <2>1. CASE <<j, i>> \notin ss
    BY <1>0, <2>1 DEF Pieces
  <2>2. CASE <<j, i>> \in ss
    <3>1. <<j, i>> \in ss2
      BY <1>0, <1>3, <2>2
    <3>2. ~IsFirstSend(ss, <<j, i>>)
      BY <1>0, <1>1, <1>3, <2>2 DEF IsFirstSend
    <3>3. Pieces(ch, ss, l, i)[j] = Units(ch, j, 1, MsgLen)
      BY <2>2, <3>2 DEF Pieces
    <3>4. CASE k < l
      <4>1. ss2 = ss
        BY <1>0, <3>4
      <4>2. QED
        BY <2>2, <3>2, <3>3, <4>1 DEF Pieces
    <3>5. CASE ~(k < l)
      <4>1. l2 = MsgLen /\ MsgLen - l2 + 1 = 1
        BY <1>0, <3>1, <3>5
      <4>2. QED
        BY <3>1, <3>3, <4>1 DEF Pieces
    <3>6. QED
      BY <3>4, <3>5
  <2>3. QED
    BY <2>1, <2>2
<1>4. ASSUME NEW i \in Nat, i # p[2]
      PROVE  Pieces(ch, ss, l, i) = Pieces(ch, ss2, l2, i)
  <2>1. ASSUME NEW j \in DOMAIN ch.shape
        PROVE  Pieces(ch, ss, l, i)[j] = Pieces(ch, ss2, l2, i)[j]
    <3>1. <<j, i>> # p
      BY <1>1, <1>4
    <3>2. QED
      BY <1>3, <3>1
  <2>2. QED
    BY <2>1 DEF Pieces
<1> DEFINE s == Pieces(ch, ss, l, p[2])
           t == Pieces(ch, ss2, l2, p[2])
           u == Units(ch, p[1], MsgLen - l + 1, k)
<1>5. IsConcat(s[p[1]], u, t[p[1]])
  <2>1. s[p[1]] = Units(ch, p[1], MsgLen - l + 1, l)
    BY <1>0, <1>1 DEF Pieces
  <2>2. CASE k < l
    <3>1. ss2 = ss /\ l2 = l - k
      BY <1>0, <2>2
    <3>2. t[p[1]] = Units(ch, p[1], MsgLen - (l - k) + 1, l - k)
      BY <1>0, <1>1, <3>1 DEF Pieces
    <3>3. MsgLen - (l - k) + 1 = (MsgLen - l + 1) + k
      BY <1>0
    <3>4. IsConcat(Units(ch, p[1], MsgLen - l + 1, l), u,
                   Units(ch, p[1], (MsgLen - l + 1) + k, l - k))
      BY <1>0, <1>1a, UnitsSplit
    <3>5. QED
      BY <2>1, <3>2, <3>3, <3>4
  <2>3. CASE ~(k < l)
    <3>1. k = l /\ p \notin ss2
      BY <1>0, <2>3
    <3>2. t[p[1]] = <<>>
      BY <1>0, <1>1, <3>1 DEF Pieces
    <3>3. u \in Seq(Unit)
      BY <1>0, <1>1a, UnitsType
    <3>4. s[p[1]] = u
      BY <2>1, <3>1
    <3> HIDE DEF s, t, u
    <3>5. u = u \o <<>>
      BY <3>3
    <3>6. QED
      BY <3>2, <3>4, <3>5 DEF IsConcat
  <2>4. QED
    BY <2>2, <2>3
<1>6. /\ s \in Seq(Seq(Unit)) /\ t \in Seq(Seq(Unit))
      /\ Len(s) = Len(ch.shape) /\ Len(t) = Len(ch.shape)
  BY <1>0, <1>2, PiecesType
<1>7. u \in Seq(Unit)
  BY <1>0, <1>1a, UnitsType
<1>8. ASSUME NEW j \in 1..Len(ch.shape), j < p[1]
      PROVE  s[j] = <<>> /\ t[j] = <<>>
  <2>1. <<j, p[2]>> \notin ss
    BY <1>0, <1>1, <1>8 DEF IsFirstSend
  <2>2. <<j, p[2]>> \notin ss2
    BY <1>0, <2>1
  <2>3. QED
    BY <1>0, <2>1, <2>2 DEF Pieces
<1>9. ASSUME NEW j \in 1..Len(ch.shape), j > p[1]
      PROVE  s[j] = t[j]
  <2>1. <<j, p[2]>> # p
    BY <1>1, <1>9
  <2>2. QED
    BY <1>0, <1>1, <1>3, <2>1
<1> HIDE DEF s, t, u
<1>10. IsConcat(FlattenSeq(s), u, FlattenSeq(t))
  BY <1>1, <1>5, <1>6, <1>7, <1>8, <1>9, FlattenFirst
<1>11. QED
  BY <1>4, <1>10 DEF s, t, u
=============================================================================
