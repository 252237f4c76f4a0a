----------------------------- MODULE UringChat -----------------------------
(***************************************************************************)
(* lab3/5.cpp, the chat room on io_uring: one thread submits requests,     *)
(* waits for completions and answers each completion with new requests.    *)
(* Clients are received into buffers from a pool the kernel holds, and a   *)
(* message is sent to the others from the very buffer it was received in.  *)
(*                                                                         *)
(* The kernel is modelled by what the code asks of it: it starts requests  *)
(* in the order they were queued, looks their descriptor up when it starts *)
(* them, and ends them in any order and at any moment; a recv takes any    *)
(* buffer of the pool when it ends, and fails when there is none; a send   *)
(* reads its buffer when it ends, and ends when it has taken something.    *)
(* io_uring sends without SIGPIPE.                                         *)
(*                                                                         *)
(* A definition headed "Mutant" is a plausible bug in place of the one     *)
(* below it, which the properties are known to catch.                      *)
(***************************************************************************)
EXTENDS Sockets, SequencesExt

CONSTANTS MaxClient,     \* MAX_CLIENT_NUMBER
          BuffersCount,  \* BUFFERS_COUNT
          SqSize,        \* entries of the submission queue
          MaxFailures    \* bound: how often accept fails

ASSUME UringAssumption ==
  /\ MaxClient \in Nat \ {0} /\ BuffersCount \in Nat \ {0}
  /\ SqSize \in Nat /\ SqSize > 1 /\ MaxFailures \in Nat

VARIABLES
  proc,         \* the process: "run" or "crashed"
  pc,           \* "submit" in io_uring_submit_and_wait, "reap" in the loop
  clients_list,
  connected_clients_num,
  bufs,         \* bufs[b]: the chunk buffer b holds, <<>> before the first
  pool,         \* pool[b]: how many times the kernel may take buffer b
  sq,           \* the entries queued and not yet submitted
  sqhead,       \* where in the submission queue the first of them is
  flight,       \* the requests the kernel has started, in no special order
  cq,           \* the completions not yet looked at
  failures      \* how often accept has failed

tableVars == <<clients_list, connected_clients_num>>
ringVars == <<sq, sqhead, flight, cq, failures>>
vars == <<sockVars, proc, pc, tableVars, bufs, pool, ringVars>>

Slot == 0..MaxClient - 1
Buf == 0..BuffersCount - 1
Listener == 0      \* stands for sock_listen_fd, which is not in Fd

\* A request; also its user_data, which is all that comes back with its
\* completion.
Request(type, fd, bid) == [type |-> type, fd |-> fd, bid |-> bid]
Entry(r) == [req |-> r, data |-> r]

add_accept == Entry(Request("ACCEPT", Listener, 0))
add_socket_read(fd) == Entry(Request("READ", fd, 0))
add_socket_write(fd, bid) == Entry(Request("WRITE", fd, bid))
add_provide_buf(bid) == Entry(Request("PROV_BUF", 0, bid))

\* The first entry of the queue went to the initial provide_buffers, which
\* was waited for; the second is the first accept.
Init ==
  /\ SockInit
  /\ proc = "run" /\ pc = "submit"
  /\ clients_list = [i \in Slot |-> [connected |-> FALSE, fd |-> 0]]
  /\ connected_clients_num = 0
  /\ bufs = [b \in Buf |-> <<>>]
  /\ pool = [b \in Buf |-> 1]
  /\ sq = <<add_accept>> /\ sqhead = 1 /\ flight = <<>> /\ cq = <<>>
  /\ failures = 0

Running == proc = "run"

-----------------------------------------------------------------------------
(* io_uring. *)

Completion(r, res, bid) == [data |-> r.data, res |-> res, bid |-> bid]

\* io_uring_submit_and_wait hands the next entry to the kernel.
Submit ==
  /\ Running
  /\ pc = "submit"
  /\ sq # <<>>
  /\ LET r == Head(sq) IN
       IF r.req.type = "PROV_BUF"
         THEN /\ pool' = [pool EXCEPT ![r.req.bid] = @ + 1]
              /\ cq' = Append(cq, Completion(r, 1, 0))
              /\ UNCHANGED flight
         ELSE /\ flight' = Append(flight, [req |-> r.req, data |-> r.data,
                                           conn |-> ConnOf(r.req.fd)])
              /\ UNCHANGED <<pool, cq>>
  /\ sq' = Tail(sq)
  /\ sqhead' = (sqhead + 1) % SqSize
  /\ UNCHANGED <<sockVars, proc, pc, tableVars, bufs, failures>>

\* Request i of those in flight ends.
Ends(i, res, bid) ==
  /\ flight' = RemoveAt(flight, i)
  /\ cq' = Append(cq, Completion(flight[i], res, bid))
  /\ UNCHANGED <<proc, pc, tableVars, sq, sqhead>>

InFlight(type) == {i \in DOMAIN flight : flight[i].req.type = type}

AcceptEnds ==
  \E i \in InFlight("ACCEPT"), f \in FreeFds :
    AcceptAs(f) /\ Ends(i, f, 0) /\ UNCHANGED <<bufs, pool, failures>>

\* No descriptor is left: accept fails, whether or not somebody waits.
AcceptErrs ==
  \E i \in InFlight("ACCEPT") :
    /\ FreeFds = {} /\ failures < MaxFailures
    /\ failures' = failures + 1
    /\ Ends(i, -1, 0)
    /\ UNCHANGED <<sockVars, bufs, pool>>

\* Data, or the end of it, goes to a buffer of the pool.
RecvEnds ==
  \E i \in InFlight("READ"), b \in {b \in Buf : pool[b] > 0} :
    LET c == flight[i].conn IN
      /\ c # NoConn
      /\ UNCHANGED failures
      /\ pool' = [pool EXCEPT ![b] = @ - 1]
      /\ \/ /\ TakeChunk(c)
            /\ bufs' = [bufs EXCEPT ![b] = Head(outbox[c])]
            /\ Ends(i, 1, b)
         \/ /\ AtEnd(c)
            /\ Ends(i, 0, b)
            /\ UNCHANGED <<sockVars, bufs>>

\* ENOBUFS, or EBADF: a completion that names no buffer reads as buffer 0.
RecvErrs ==
  \E i \in InFlight("READ") :
    LET c == flight[i].conn IN
      /\ c # NoConn => (HasData(c) \/ AtEnd(c)) /\ \A b \in Buf : pool[b] = 0
      /\ Ends(i, -1, 0)
      /\ UNCHANGED <<sockVars, bufs, pool, failures>>

SendEnds ==
  \E i \in InFlight("WRITE") : \E k \in 1..MsgLen :
    LET c == flight[i].conn IN
      /\ c # NoConn
      /\ SendTakes(c, bufs[flight[i].req.bid], 1, MsgLen, k)
      /\ Ends(i, k, 0)
      /\ UNCHANGED <<bufs, pool, failures>>

SendErrs ==
  \E i \in InFlight("WRITE") :
    /\ SendBroken(flight[i].conn)
    /\ Ends(i, -1, 0)
    /\ UNCHANGED <<sockVars, bufs, pool, failures>>

Kernel == Running /\ (AcceptEnds \/ AcceptErrs \/ RecvEnds \/ RecvErrs
                      \/ SendEnds \/ SendErrs)

-----------------------------------------------------------------------------
(* The event loop. *)

Registered == {i \in Slot : clients_list[i].connected}

\* client_add, which returns -1 when the table is full.
client_add(fd) ==
  IF Registered = Slot THEN UNCHANGED tableVars
  ELSE \E i \in Slot \ Registered :
         /\ \A j \in Slot \ Registered : i <= j
         /\ clients_list' = [clients_list EXCEPT ![i] =
                               [connected |-> TRUE, fd |-> fd]]
         /\ connected_clients_num' = connected_clients_num + 1

\* Mutant: the slot stays marked connected.
client_destroy_stale(fd) ==
  /\ UNCHANGED clients_list
  /\ connected_clients_num' = connected_clients_num -
       (IF \E i \in Registered : clients_list[i].fd = fd THEN 1 ELSE 0)

\* client_destroy: the first slot with the descriptor, if there is one.
client_destroy(fd) ==
  LET mine == {i \in Registered : clients_list[i].fd = fd} IN
    IF mine = {} THEN UNCHANGED tableVars
    ELSE \E i \in mine :
           /\ \A j \in mine : i <= j
           /\ clients_list' = [clients_list EXCEPT ![i].connected = FALSE]
           /\ connected_clients_num' = connected_clients_num - 1

\* The entries are queued, if there is room: else io_uring_get_sqe returns
\* NULL, which is written through.  With overwrite, the user_data at place 0
\* of the queue, which main's own sqe still points to, becomes data.
Queue(entries, overwrite, data) ==
  IF Len(sq) + Len(entries) > SqSize
    THEN proc' = "crashed" /\ UNCHANGED sq
    ELSE /\ sq' = [j \in 1..Len(sq) + Len(entries) |->
                     LET e == (sq \o entries)[j] IN
                       IF overwrite /\ (sqhead + j - 1) % SqSize = 0
                         THEN [e EXCEPT !.data = data] ELSE e]
         /\ UNCHANGED proc
QueueAll(entries) == Queue(entries, FALSE, <<>>)

\* The loop over the completions is at the next one, e.
Reap(e) ==
  /\ Running
  /\ pc = "reap"
  /\ cq # <<>>
  /\ e = Head(cq)
  /\ cq' = Tail(cq)
  /\ UNCHANGED <<pc, sqhead, flight, bufs, pool, failures>>

ReapProvided ==
  \E e \in Range(cq) :
    /\ Reap(e) /\ e.data.type = "PROV_BUF"
    /\ UNCHANGED <<sockVars, proc, tableVars, sq>>

\* Mutant: accept is asked for again only when it failed.
AfterAcceptOnce(res) ==
  IF res >= 0 THEN <<add_socket_read(res)>> ELSE <<add_accept>>

\* A read for the new client, if there is one, and the next accept.
AfterAccept(res) ==
  IF res >= 0 THEN <<add_socket_read(res), add_accept>> ELSE <<add_accept>>

\* client_add also when accept has failed.
ReapAccept ==
  \E e \in Range(cq) :
    /\ Reap(e) /\ e.data.type = "ACCEPT"
    /\ QueueAll(AfterAccept(e.res))
    /\ client_add(e.res)
    /\ UNCHANGED sockVars

\* recv failed: the buffer goes back, the client is closed and forgotten.
ReapEnd ==
  \E e \in Range(cq) :
    /\ Reap(e) /\ e.data.type = "READ" /\ e.res <= 0
    /\ QueueAll(<<add_provide_buf(e.bid)>>)
    /\ CloseFd(e.data.fd)
    /\ client_destroy(e.data.fd)

\* The descriptors send goes to, in the order of the slots.
Receivers(fd) ==
  LET others == {i \in Registered : clients_list[i].fd # fd}
      before(i) == Cardinality({k \in others : k < i})
  IN  [j \in 1..Cardinality(others) |->
         clients_list[CHOOSE i \in others : before(i) = j - 1].fd]

\* Mutant: nothing is read after the first chunk.
AfterChunkWrites(fd, bid) ==
  [j \in DOMAIN Receivers(fd) |-> add_socket_write(Receivers(fd)[j], bid)]

\* The next read, and a write of the buffer for everybody else.
AfterChunk(fd, bid) ==
  <<add_socket_read(fd)>>
    \o [j \in DOMAIN Receivers(fd) |-> add_socket_write(Receivers(fd)[j], bid)]

\* A chunk is read.  After each write, main's own sqe gets the user_data of the read.
ReapChunk ==
  \E e \in Range(cq) :
    /\ Reap(e) /\ e.data.type = "READ" /\ e.res > 0
    /\ Queue(AfterChunk(e.data.fd, e.bid), Receivers(e.data.fd) # <<>>,
             Request("READ", e.data.fd, 0))
    /\ UNCHANGED <<sockVars, tableVars>>

\* However much of the message the socket took.
ReapWrite ==
  \E e \in Range(cq) :
    /\ Reap(e) /\ e.data.type = "WRITE"
    /\ QueueAll(<<add_provide_buf(e.data.bid)>>)
    /\ UNCHANGED <<sockVars, tableVars>>

\* io_uring_submit_and_wait returns with at least one completion, and is
\* called again when the loop has seen them all.
Turn ==
  /\ Running
  /\ \/ pc = "submit" /\ sq = <<>> /\ cq # <<>> /\ pc' = "reap"
     \/ pc = "reap" /\ cq = <<>> /\ pc' = "submit"
  /\ UNCHANGED <<sockVars, proc, tableVars, bufs, pool, ringVars>>

Server == Submit \/ Turn \/ ReapProvided \/ ReapAccept \/ ReapEnd \/ ReapChunk
          \/ ReapWrite

-----------------------------------------------------------------------------
ServerUnchanged == UNCHANGED <<proc, pc, tableVars, bufs, pool, ringVars>>
Client(c) == Running /\ (Connect(c) \/ Write(c) \/ Leave(c)) /\ ServerUnchanged
Network(c) == Running /\ (Read(c) \/ Reset(c)) /\ ServerUnchanged

Next == Server \/ Kernel \/ \E c \in Conn : Client(c) \/ Network(c)

\* The server's thread keeps running, the kernel ends what can be ended,
\* clients read what they are sent and the network delivers its RSTs; nobody
\* has to connect, write or leave.
Fairness ==
  /\ WF_vars(Server)
  /\ WF_vars(Running /\ (AcceptEnds \/ AcceptErrs))
  /\ \A c \in Conn : WF_vars(Network(c))
  /\ \A c \in Conn \cup {NoConn} :
       /\ WF_vars(Running /\ (RecvEnds \/ RecvErrs)
                          /\ \E i \in InFlight("READ") :
                               flight[i].conn = c /\ flight' = RemoveAt(flight, i))
       /\ WF_vars(Running /\ (SendEnds \/ SendErrs)
                          /\ \E i \in InFlight("WRITE") :
                               flight[i].conn = c /\ flight' = RemoveAt(flight, i))

Spec == Init /\ [][Next]_vars
FairSpec == Spec /\ Fairness

-----------------------------------------------------------------------------
(* Properties. *)

AnyFd == Fd \cup {0, -1}
RequestType == [type : {"ACCEPT", "READ", "WRITE", "PROV_BUF"},
                fd : AnyFd, bid : Buf]

TypeOK ==
  /\ SockTypeOK
  /\ proc \in {"run", "crashed"}
  /\ pc \in {"submit", "reap"}
  /\ clients_list \in [Slot -> [connected : BOOLEAN, fd : AnyFd]]
  /\ connected_clients_num \in 0..MaxClient
  /\ bufs \in [Buf -> Chunk \cup {<<>>}]
  /\ pool \in [Buf -> Nat]
  /\ sq \in Seq([req : RequestType, data : RequestType])
  /\ Len(sq) <= SqSize
  /\ sqhead \in 0..SqSize - 1
  /\ flight \in Seq([req : RequestType, data : RequestType,
                     conn : Conn \cup {NoConn}])
  /\ failures \in 0..MaxFailures
  /\ cq \in Seq([data : RequestType, res : Int, bid : Buf])

\* What is queued, in flight, or completed and not yet answered.
Among(s, r) == Cardinality({i \in DOMAIN s : s[i].data = r})
HowMany(r) == Among(sq, r) + Among(flight, r) + Among(cq, r)

\* There is one accept outstanding at any time, as "re-add accept to monitor
\* for new connections" says (5.cpp:234): joining never stops, and no two
\* accepts race for a connection.
AcceptArmed ==
  Running => HowMany(Request("ACCEPT", Listener, 0)) = 1

\* Every descriptor that accept returned has, until it is closed, one read
\* outstanding or the completion of its accept still to be answered: nobody
\* is deaf, and no chunk is answered twice or under another's name.
Accepts(s, f) ==
  Cardinality({i \in DOMAIN s : s[i].data.type = "ACCEPT" /\ s[i].res = f})
OneReader ==
  Running =>
    \A f \in Fd :
      HowMany(Request("READ", f, 0)) + Accepts(cq, f)
        = IF fds[f] = NoConn THEN 0 ELSE 1

\* The data is well-typed, the table counts right, and its descriptors are
\* open and all different, save the -1 of an accept that failed.
TableHonest ==
  /\ TypeOK
  /\ connected_clients_num = Cardinality(Registered)
  /\ \A i \in Registered : clients_list[i].fd # -1 =>
       /\ ConnOf(clients_list[i].fd) # NoConn
       /\ \A j \in Registered : clients_list[j].fd = clients_list[i].fd => j = i

(* What these rest on. *)

\* No user_data is that of another request: main's own sqe has not been written
\* through while its place in the queue was taken.
Intact == \A j \in DOMAIN sq : sq[j].data = sq[j].req

\* The requests that main makes, and what their completions may say.  A write is
\* of a buffer that a chunk was received in.
Asked == {Request("ACCEPT", Listener, 0)} \cup {Request("READ", f, 0) : f \in Fd}
         \cup {Request("WRITE", f, b) : f \in AnyFd, b \in Buf}
         \cup {Request("PROV_BUF", 0, b) : b \in Buf}
Filled(r) == r.type = "WRITE" => bufs[r.bid] # <<>>
RequestsInv ==
  /\ \A j \in DOMAIN sq : sq[j].req \in Asked /\ Filled(sq[j].req)
  /\ \A j \in DOMAIN flight : /\ flight[j].data = flight[j].req
                              /\ flight[j].req \in Asked /\ Filled(flight[j].req)
  /\ \A j \in DOMAIN cq :
       /\ cq[j].data \in Asked
       /\ cq[j].data.type = "ACCEPT" => cq[j].res \in Fd \cup {-1}
       /\ cq[j].data.type = "READ" /\ cq[j].res > 0 => bufs[cq[j].bid] # <<>>

\* Who is in the table is in it by its accept's completion.
TableInv ==
  \A i \in Registered :
    /\ clients_list[i].fd \in Fd \cup {-1}
    /\ Running => Accepts(cq, clients_list[i].fd) = 0 \/ clients_list[i].fd = -1

UringInv == Intact /\ TableHonest /\ RequestsInv /\ TableInv /\ AcceptArmed /\ OneReader

IsOpen(c) == \E f \in Fd : fds[f] = c

\* Whoever waits to be accepted is, as long as descriptors last.
PendingServed ==
  \A c \in Conn :
    (\E i \in DOMAIN backlog : backlog[i] = c)
      ~> (\A i \in DOMAIN backlog : backlog[i] # c) \/ FreeFds = {} \/ ~Running

\* What an accepted client sends is received, or the client is closed, and
\* the descriptor of one that left is.
Attended ==
  \A c \in Conn :
    /\ IsOpen(c) /\ HasData(c) ~> ~HasData(c) \/ ~IsOpen(c) \/ ~Running
    /\ IsOpen(c) /\ peer[c] \in Gone ~> ~IsOpen(c) \/ ~Running
=============================================================================
