------------------------------ MODULE ServeOne ------------------------------
(***************************************************************************)
(* What lab3/3.cpp and 4.cpp have word for word in common: clients_list,   *)
(* the search of client_add, and the way the one thread of the server      *)
(* serves a readable client: receive until recv fails, and send every line *)
(* to everybody else.  SelectChat and EpollChat EXTEND this module and add *)
(* how they find the readable clients.                                     *)
(*                                                                         *)
(* One step is one recv, one send, or what follows a failed one.           *)
(*                                                                         *)
(* A definition headed "Mutant" is a plausible bug in place of the one     *)
(* below it, which the properties are known to catch.                      *)
(***************************************************************************)
EXTENDS Sockets

CONSTANT MaxClient     \* MAX_CLIENT_NUMBER

ASSUME MaxClientAssumption == MaxClient \in Nat \ {0}

VARIABLES
  proc,          \* the process: "run", "exited" (main returned), "aborted"
  clients_list,  \* first: connected, second: the descriptor
  connected_clients_num,
  pc,            \* "serve" in the receive loop, else the server's own points
  index,         \* the slot being served
  flag,          \* TRUE until a recv of this receive loop has succeeded
  chunk,         \* what recv returned last
  sends,         \* <<line, slot>>: the calls of send_all not completed
  sleft          \* units left of the message being sent

tableVars == <<clients_list, connected_clients_num>>
loopVars == <<index, flag, chunk, sends, sleft>>

Slot == 0..MaxClient - 1

Registered == {i \in Slot : clients_list[i].first}
FdOfSlot(i) == clients_list[i].second
ConnOfSlot(i) == ConnOf(FdOfSlot(i))

\* Every slot's fd is 0 until its first client.
ServeInit ==
  /\ proc = "run"
  /\ clients_list = [i \in Slot |-> [first |-> FALSE, second |-> 0]]
  /\ connected_clients_num = 0
  /\ index = 0 /\ flag = FALSE /\ chunk = <<>> /\ sends = {} /\ sleft = 0

ServeTypeOK ==
  /\ proc \in {"run", "exited", "aborted"}
  /\ clients_list \in [Slot -> [first : BOOLEAN, second : Fd \cup {0}]]
  /\ connected_clients_num \in Int
  /\ index \in Slot
  /\ flag \in BOOLEAN
  /\ chunk \in Chunk \cup {<<>>}
  /\ sends \in SUBSET (Nat \X Slot)
  /\ sleft \in 0..MsgLen

Running == proc = "run"

-----------------------------------------------------------------------------
(* client_add and client_destroy, as far as both programs have them. *)

\* The index client_add's loop ends with: the first free slot.
FirstFree(i) ==
  /\ i \in Slot \ Registered
  /\ \A j \in Slot \ Registered : i <= j

TableFull == Registered = Slot

Register(i, f) ==
  /\ clients_list' = [clients_list EXCEPT ![i] = [first |-> TRUE, second |-> f]]
  /\ connected_clients_num' = connected_clients_num + 1

\* Mutant: the slot stays marked connected.
UnregisterStale(i) ==
  /\ connected_clients_num' = connected_clients_num - 1
  /\ CloseFd(FdOfSlot(i))
  /\ UNCHANGED clients_list

\* Mutant: the descriptor stays open.
UnregisterOpen(i) ==
  /\ clients_list' = [clients_list EXCEPT ![i].first = FALSE]
  /\ connected_clients_num' = connected_clients_num - 1
  /\ UNCHANGED sockVars

Unregister(i) ==
  /\ clients_list' = [clients_list EXCEPT ![i].first = FALSE]
  /\ connected_clients_num' = connected_clients_num - 1
  /\ CloseFd(FdOfSlot(i))

-----------------------------------------------------------------------------
(* The receive loop of slot index. *)

StartServing(i) ==
  /\ pc' = "serve"
  /\ index' = i
  /\ flag' = TRUE
  /\ UNCHANGED <<chunk, sends, sleft>>

\* The non-empty lines of a chunk: the others are not sent.
NonEmptyLines(ch) == {j \in DOMAIN ch.shape : ch.shape[j]}

\* Mutant: the sender is a receiver too.
AllReceivers == Registered

\* No client comes or goes while a chunk is sent on, so the receivers that
\* send_all finds line by line are the ones there are when recv returns.
Receivers == Registered \ {index}

AtRecv == pc = "serve" /\ sends = {}

RecvChunk ==
  /\ AtRecv
  /\ TakeChunk(ConnOfSlot(index))
  /\ chunk' = Head(outbox[ConnOfSlot(index)])
  /\ flag' = FALSE
  /\ sends' = NonEmptyLines(chunk') \X Receivers
  /\ sleft' = IF sends' = {} THEN 0 ELSE MsgLen
  /\ UNCHANGED <<proc, tableVars, pc, index>>

\* Mutant: one recv for each event.
OneRecvDone == AtRecv /\ (~flag \/ ~HasData(ConnOfSlot(index)))

\* The sockets do not block: recv also fails when there is no data yet.
RecvFails == AtRecv /\ ~HasData(ConnOfSlot(index))

LeaveLoop(point) ==
  /\ pc' = point
  /\ index' = 0 /\ flag' = FALSE /\ chunk' = <<>>
  /\ UNCHANGED <<sends, sleft>>

\* send_all goes through the slots in order, for one line after the other.
IsNextSend(p) ==
  /\ p \in sends
  /\ \A q \in sends : p[1] < q[1] \/ (p[1] = q[1] /\ p[2] <= q[2])

\* One call of send; "mess = mess.substr(send_num)" until nothing is left.
Send ==
  /\ pc = "serve"
  /\ \E p \in sends, k \in 1..sleft :
       /\ IsNextSend(p)
       /\ SendTakes(ConnOfSlot(p[2]), chunk, p[1], sleft, k)
       /\ sends' = IF k = sleft THEN sends \ {p} ELSE sends
       /\ sleft' = IF k < sleft THEN sleft - k
                   ELSE IF sends' = {} THEN 0 ELSE MsgLen
  /\ UNCHANGED <<proc, tableVars, pc, index, flag, chunk>>

\* send returned -1, also because it would have to wait: SIGPIPE, or
\* substr(-1) throws and nothing catches it.
SendAborts ==
  /\ pc = "serve"
  /\ \E p \in sends : /\ IsNextSend(p)
                      /\ SendBroken(ConnOfSlot(p[2])) \/ SendFull(ConnOfSlot(p[2]))
  /\ proc' = "aborted"
  /\ UNCHANGED <<sockVars, tableVars, pc, loopVars>>

-----------------------------------------------------------------------------
(* What both programs should keep. *)

\* connected_clients_num is the number of registered clients.
CountExact == connected_clients_num = Cardinality(Registered)

\* Two registered slots never share a descriptor, and each descriptor is
\* open: what is sent to a slot reaches the client that was given it.
SlotsApart ==
  /\ \A i \in Registered : ConnOfSlot(i) # NoConn
  /\ \A i, j \in Registered : FdOfSlot(i) = FdOfSlot(j) => i = j

\* What the receive loop relies on: the slot it serves is registered, and so
\* are the receivers of the chunk it has, which is one that recv returned.
LoopInv ==
  /\ pc = "serve" => index \in Registered
  /\ pc # "serve" => sends = {}
  /\ sends # {} => chunk \in Chunk /\ sleft > 0
  /\ \A p \in sends : p[2] \in Receivers
=============================================================================
