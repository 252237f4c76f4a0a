------------------------------ MODULE PairChat ------------------------------
(***************************************************************************)
(* lab3/1.cpp, the two-person chat: main accepts two clients, and a thread *)
(* for each receives what one writes, splits it into lines and sends them, *)
(* with a header and a newline, to the other.                              *)
(*                                                                         *)
(* The clients and TCP are external, as in Sockets, but here the symbols   *)
(* of a text count: a stream is a sequence of them, recv returns any       *)
(* non-empty beginning of it that fits the buffer, and so a line may come  *)
(* in pieces and several lines at once.  The characters of a client are    *)
(* numbered in the order it writes them, so that they can be told apart.   *)
(*                                                                         *)
(* A definition headed "Mutant" is a plausible bug in place of the one     *)
(* below it, which the properties are known to catch.                      *)
(***************************************************************************)
EXTENDS Split

CONSTANTS BufLen,     \* MAX_SINGLE_MESSAGE_LENGTH
          Room,       \* symbols a client's receive buffer holds
          MaxWritten  \* bound: MaxWritten[c], symbols client c writes

Client == {1, 2}      \* in the order main accepts them
Other(c) == 3 - c

ASSUME PairAssumption ==
  /\ BufLen \in Nat \ {0} /\ Room \in Nat \ {0}
  /\ MaxWritten \in [Client -> Nat]

Header == -1          \* " [Message]"
Junk == -2            \* what the memory behind a buffer holds

VARIABLES
  peer,     \* peer[c]: the client's end of the connection
  written,  \* written[c]: all c wrote
  taken,    \* taken[c]: how much of it recv has returned
  inbox,    \* inbox[c]: all that reached c
  unread,   \* unread[c]: symbols of it that c has not read
  proc,     \* the process: "run", "exited" (main returned), "aborted"
  mpc,      \* the main thread
  fd,       \* fd[c]: whether that accept succeeded
  hpc,      \* hpc[c]: the thread that receives from c
  messes,   \* its lines still to be sent
  mess      \* what is left of the message it sends

clientVars == <<peer, written, taken, inbox, unread>>
mainVars == <<mpc, fd>>
threadVars == <<hpc, messes, mess>>
pairVars == <<clientVars, proc, mainVars, threadVars>>

PairInit ==
  /\ peer = [c \in Client |-> "new"]
  /\ written = [c \in Client |-> <<>>]
  /\ taken = [c \in Client |-> 0]
  /\ inbox = [c \in Client |-> <<>>]
  /\ unread = [c \in Client |-> 0]
  /\ proc = "run" /\ mpc = "socket" /\ fd = [c \in Client |-> FALSE]
  /\ hpc = [c \in Client |-> "none"]
  /\ messes = [c \in Client |-> <<>>]
  /\ mess = [c \in Client |-> <<>>]

-----------------------------------------------------------------------------
(* The clients and the network; peer is as in Sockets. *)

Gone == {"left", "doomed", "reset"}

\* The first to connect is the first to be accepted.
Connect(c) ==
  /\ mpc # "socket"
  /\ peer[c] = "new"
  /\ \A d \in Client : d < c => peer[d] # "new"
  /\ peer' = [peer EXCEPT ![c] = "open"]
  /\ UNCHANGED <<written, taken, inbox, unread>>

\* A newline, or the next character.
WriteSymbol(c) ==
  /\ peer[c] = "open"
  /\ Len(written[c]) < MaxWritten[c]
  /\ \E x \in {NL, Len(written[c]) + 1} : written' = [written EXCEPT ![c] = Append(@, x)]
  /\ UNCHANGED <<peer, taken, inbox, unread>>

Read(c) ==
  /\ peer[c] = "open"
  /\ unread[c] > 0
  /\ unread' = [unread EXCEPT ![c] = 0]
  /\ UNCHANGED <<peer, written, taken, inbox>>

Leave(c) ==
  /\ peer[c] = "open"
  /\ peer' = [peer EXCEPT ![c] = IF unread[c] > 0 THEN "reset" ELSE "left"]
  /\ UNCHANGED <<written, taken, inbox, unread>>

Reset(c) ==
  /\ peer[c] = "doomed"
  /\ peer' = [peer EXCEPT ![c] = "reset"]
  /\ UNCHANGED <<written, taken, inbox, unread>>

-----------------------------------------------------------------------------
(* The main thread. *)

\* socket, bind and listen; on an error main returns.
Listen ==
  /\ mpc = "socket"
  /\ \/ mpc' = "accept1" /\ UNCHANGED proc
     \/ proc' = "exited" /\ UNCHANGED mpc
  /\ UNCHANGED <<clientVars, fd, threadVars>>

AcceptPoint(c) == IF c = 1 THEN "accept1" ELSE "accept2"

\* accept waits for a client, and may fail (out of descriptors or memory).
Accept(c) ==
  /\ mpc = AcceptPoint(c)
  /\ \/ peer[c] # "new" /\ fd' = [fd EXCEPT ![c] = TRUE]
     \/ UNCHANGED fd
  /\ mpc' = IF c = 1 THEN "accept2" ELSE "create"
  /\ UNCHANGED <<clientVars, proc, threadVars>>

\* main looks at both descriptors only now.
AcceptFailed ==
  /\ mpc = "create"
  /\ ~fd[1] \/ ~fd[2]
  /\ proc' = "exited"
  /\ UNCHANGED <<clientVars, mainVars, threadVars>>

CreateThreads ==
  /\ mpc = "create"
  /\ fd[1] /\ fd[2]
  /\ hpc' = [c \in Client |-> "recv"]
  /\ mpc' = "join"
  /\ UNCHANGED <<clientVars, proc, fd, messes, mess>>

JoinThreads ==
  /\ mpc = "join"
  /\ \A c \in Client : hpc[c] = "done"
  /\ proc' = "exited"
  /\ UNCHANGED <<clientVars, mainVars, threadVars>>

-----------------------------------------------------------------------------
(* handle_chat, the thread that receives from c and sends to Other(c). *)

\* What a buffer filled with s holds up to the first 0.  A full one is not
\* terminated, and the text goes on with whatever is behind it.
TextOf(s) == {s} \cup (IF Len(s) = BufLen THEN {Append(s, Junk)} ELSE {})

Waiting(c) == SubSeq(written[c], taken[c] + 1, Len(written[c]))

\* recv returns some of what is there.
Recv(c) ==
  /\ hpc[c] = "recv"
  /\ Waiting(c) # <<>>
  /\ \E n \in 1..Len(Waiting(c)) :
       /\ n <= BufLen
       /\ taken' = [taken EXCEPT ![c] = @ + n]
       /\ \E text \in TextOf(SubSeq(Waiting(c), 1, n)) :
            messes' = [messes EXCEPT ![c] = split[text]]
  /\ hpc' = [hpc EXCEPT ![c] = "next"]
  /\ UNCHANGED <<peer, written, inbox, unread, proc, mainVars, mess>>

\* Mutant: only an error of recv counts, not its returning 0.
RecvFails(c) ==
  /\ hpc[c] = "recv"
  /\ peer[c] = "reset"
  /\ hpc' = [hpc EXCEPT ![c] = "done"]
  /\ UNCHANGED <<clientVars, proc, mainVars, messes, mess>>

\* recv returns 0, or -1 after a reset, which may come before what the client
\* wrote last: that is lost.  No descriptor is closed: the other
\* client is not told.
RecvEnds(c) ==
  /\ hpc[c] = "recv"
  /\ peer[c] \in Gone /\ (Waiting(c) = <<>> \/ peer[c] = "reset")
  /\ hpc' = [hpc EXCEPT ![c] = "done"]
  /\ UNCHANGED <<clientVars, proc, mainVars, messes, mess>>

\* Mutant: no newline behind the line.
Unended(line) == <<Header>> \o line

Message(line) == <<Header>> \o line \o <<NL>>

\* A turn of the loop over the lines; empty ones are left out.
NextMess(c) ==
  /\ hpc[c] = "next"
  /\ IF messes[c] = <<>>
       THEN hpc' = [hpc EXCEPT ![c] = "recv"] /\ UNCHANGED <<mess, messes>>
       ELSE /\ messes' = [messes EXCEPT ![c] = Tail(@)]
            /\ IF Head(messes[c]) = <<>>
                 THEN UNCHANGED <<mess, hpc>>
                 ELSE /\ mess' = [mess EXCEPT ![c] = Message(Head(messes[c]))]
                      /\ hpc' = [hpc EXCEPT ![c] = "send"]
  /\ UNCHANGED <<clientVars, proc, mainVars>>

\* Mutant: what send has not taken is sent no more.
SentOnce(s, k) == <<>>

\* "mess = mess.substr(send_num)".
Rest(s, k) == SubSeq(s, k + 1, Len(s))

\* send takes k symbols: they reach the other client, or vanish when it has
\* closed (and then the RST comes).
Send(c) ==
  /\ hpc[c] = "send"
  /\ LET d == Other(c) IN \E k \in 1..Len(mess[c]) :
       /\ \/ /\ peer[d] = "open"
             /\ k <= Room - unread[d]
             /\ inbox' = [inbox EXCEPT ![d] = @ \o SubSeq(mess[c], 1, k)]
             /\ unread' = [unread EXCEPT ![d] = @ + k]
             /\ UNCHANGED peer
          \/ /\ peer[d] \in {"left", "doomed"}
             /\ k = Len(mess[c])
             /\ peer' = [peer EXCEPT ![d] = "doomed"]
             /\ UNCHANGED <<inbox, unread>>
       /\ mess' = [mess EXCEPT ![c] = Rest(@, k)]
       /\ hpc' = [hpc EXCEPT ![c] = IF mess'[c] = <<>> THEN "next" ELSE "send"]
  /\ UNCHANGED <<written, taken, proc, mainVars, messes>>

\* send returns -1: SIGPIPE, or substr(-1) throws and nothing catches it.
SendAborts(c) ==
  /\ hpc[c] = "send"
  /\ peer[Other(c)] = "reset"
  /\ proc' = "aborted"
  /\ UNCHANGED <<clientVars, mainVars, threadVars>>

-----------------------------------------------------------------------------
Up == proc = "run"
Main == Up /\ (Listen \/ (\E c \in Client : Accept(c)) \/ AcceptFailed
               \/ CreateThreads \/ JoinThreads)
handle_chat(c) == Up /\ (Recv(c) \/ RecvEnds(c) \/ NextMess(c) \/ Send(c) \/ SendAborts(c))
ClientActs(c) == /\ Up /\ (Connect(c) \/ WriteSymbol(c) \/ Leave(c))
                 /\ UNCHANGED <<proc, mainVars, threadVars>>
Network(c) == Up /\ (Read(c) \/ Reset(c)) /\ UNCHANGED <<proc, mainVars, threadVars>>

PairNext == Main \/ \E c \in Client : handle_chat(c) \/ ClientActs(c) \/ Network(c)

\* The threads keep being scheduled, clients read what they are sent and the
\* network delivers its RSTs; nobody has to connect, write or leave.
Fairness == WF_pairVars(Main)
            /\ \A c \in Client : WF_pairVars(handle_chat(c)) /\ WF_pairVars(Network(c))

PairSpec == PairInit /\ [][PairNext]_pairVars
PairFairSpec == PairSpec /\ Fairness

-----------------------------------------------------------------------------
(* Properties. *)

State == {"new", "open"} \cup Gone
PairTypeOK ==
  /\ peer \in [Client -> State]
  /\ written \in [Client -> Seq(Nat)] /\ inbox \in [Client -> Seq(Int)]
  /\ taken \in [Client -> Nat] /\ unread \in [Client -> 0..Room]
  /\ messes \in [Client -> Seq(Seq(Int))] /\ mess \in [Client -> Seq(Int)]
  /\ proc \in {"run", "exited", "aborted"}
  /\ mpc \in {"socket", "accept1", "accept2", "create", "join"}
  /\ fd \in [Client -> BOOLEAN]
  /\ hpc \in [Client -> {"none", "recv", "next", "send", "done"}]
  /\ \A c \in Client : taken[c] <= Len(written[c]) /\ (hpc[c] = "send" <=> mess[c] # <<>>)

\* README.md:29-35: what one client writes reaches the other line by line,
\* and nothing of it is lost, sent twice or overtaken, however the stream is
\* cut by recv and the messages by send: with every character the other has
\* got all those written before it, in their order and once; and characters
\* of different lines are never in one message.
InOrder(got, all) ==
  \A i \in 1..Len(got) : got[i] > 0 =>
    /\ got[i] <= Len(all) /\ all[got[i]] = got[i]
    /\ \A k \in 1..i - 1 : got[k] < got[i]
    /\ \A n \in 1..got[i] - 1 : all[n] # NL => \E k \in 1..i - 1 : got[k] = n
LinesApart(got, all) ==
  \A i, j \in 1..Len(got) :
    i < j /\ got[i] > 0 /\ (\E n \in got[i]..got[j] : all[n] = NL)
      => \E m \in i..j : got[m] = NL
Relay ==
  \A c \in Client : /\ InOrder(inbox[Other(c)], written[c])
                    /\ LinesApart(inbox[Other(c)], written[c])

\* Every message that reaches a client is a header, a line that is not
\* empty, and a newline.
IsFramed(got) ==
  \A i \in 1..Len(got) :
    /\ got[i] = Header <=> i = 1 \/ got[i - 1] = NL
    /\ got[i] = NL => got[i - 1] # Header
Framed == \A c \in Client : IsFramed(inbox[c])
WellFormed == PairTypeOK /\ Framed

\* Whoever stays is served: what one client wrote gets to the other, unless
\* one of the two is gone.  The chat ends when both are, and once it has
\* begun not before one is.
Characters(s) == SelectSeq(s, LAMBDA x : x > 0)
SomebodyGone == \E c \in Client : peer[c] \in Gone
Served ==
  /\ \A c \in Client :
       hpc[c] # "none" /\ Waiting(c) # <<>>
         ~> Characters(inbox[Other(c)]) = Characters(written[c]) \/ SomebodyGone
  /\ mpc = "join" /\ (\A c \in Client : peer[c] \in Gone) ~> ~Up
  /\ [](mpc = "join" /\ ~Up => SomebodyGone)

-----------------------------------------------------------------------------
(* Why Relay and Framed hold, as an invariant that every step preserves.    *)

\* A client writes nothing but these.
WrittenInv == \A c \in Client : \A n \in 1..Len(written[c]) : written[c][n] \in {NL, n}

\* No thread before the last accept.
ThreadInv == \A c \in Client : /\ mpc # "join" => hpc[c] = "none"
                               /\ hpc[c] \notin {"next", "send"} => messes[c] = <<>>

\* What c's thread has sent and is sending: all of it will reach the other
\* client while that one is there.
Stays(c) == peer[Other(c)] \notin Gone
Stream(c) == IF Stays(c) THEN inbox[Other(c)] \o mess[c] ELSE inbox[Other(c)]
StreamInv(c) ==
  /\ InOrder(Stream(c), written[c])
  /\ LinesApart(Stream(c), written[c])
  /\ IsFramed(Stream(c))
  /\ \A i \in 1..Len(Stream(c)) : Stream(c)[i] <= taken[c]
  /\ Stays(c) /\ Stream(c) # <<>> => Stream(c)[Len(Stream(c))] = NL

\* A line still to be sent: characters in their order, with no newline
\* between them, and behind them perhaps what the buffer held.
IsLine(p, all, n) ==
  /\ \A a \in 1..Len(p) : p[a] = Junk \/ (p[a] \in 1..n /\ all[p[a]] = p[a])
  /\ \A a, b \in 1..Len(p) :
       a < b /\ p[b] > 0 => p[a] < p[b] /\ \A k \in p[a]..p[b] : k > 0 => all[k] # NL

\* Every character of t was written after those of s.
Ahead(s, t) == \A i \in 1..Len(s), k \in 1..Len(t) : t[k] > 0 => s[i] < t[k]

\* While the other client is there, the lines are in order, behind what was
\* sent, and no character that was taken is missing.
InSome(p, n) == \E r \in 1..Len(p) : \E a \in 1..Len(p[r]) : p[r][a] = n
PendingInv(c) ==
  Stays(c) =>
    /\ \A r \in 1..Len(messes[c]) :
         /\ IsLine(messes[c][r], written[c], taken[c])
         /\ Ahead(Stream(c), messes[c][r])
         /\ \A q \in 1..r - 1 : Ahead(messes[c][q], messes[c][r])
    /\ \A n \in 1..taken[c] : written[c][n] # NL =>
         (\E i \in 1..Len(Stream(c)) : Stream(c)[i] = n) \/ InSome(messes[c], n)

PairInv == /\ PairTypeOK /\ WrittenInv /\ ThreadInv
           /\ \A c \in Client : StreamInv(c) /\ PendingInv(c)
=============================================================================
