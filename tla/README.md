# A verification project for osh-2022-labs

TLA+ models of the programs of this repository, the TLC runs that check them on
small instances, and TLAPS proofs about them. The repository holds three
operating systems labs: a shell and a system call tracer (`lab2`), and five
versions of a chat server (`lab3`, `1.cpp` to `5.cpp`), each on another way to
wait for many sockets. Paths below are relative to `src/`.

## The system

| Part | State | Operations | What makes it hard |
|---|---|---|---|
| `lab3/1.cpp` two-person chat | two descriptors, two threads | receive, split into lines, send to the other | `recv` cuts the stream anywhere; one side gone while the other sends |
| `lab3/2.cpp` chat with threads | `clients[32]`, `connected_clients_num`, `message_queue` | `main` accepts and `client_add`s; a `handle_chat` thread per client receives, pushes, `client_destroy`s; one `handle_send` thread pops and `send_all`s | every thread reads the table without the lock; slots and descriptors are reused; short sends |
| `lab3/3.cpp` chat on `select` | `clients_list`, an `fd_set` | accept one, select, receive until it fails, send to the others | the set goes stale while clients are destroyed; one accept per round |
| `lab3/4.cpp` chat on `epoll` | `clients_list`, `client_map`, epoll's registrations, the batch of events | as 3.cpp, driven by events | edge-triggered events come once; table, map, registrations and descriptors must agree |
| `lab3/5.cpp` chat on io_uring | `clients_list`, `bufs` and the kernel's pool of them, the two queues | every completion is answered with new requests | requests end in any order; one buffer, several writes; the queue wraps |
| `lab3/0.h` | none | `split` | pure |
| `lab2/shell` main loop | `history_cmds`, its file, `is_exit` | read and expand a line, run the commands between `;`, record it | Ctrl-C at any point; children that become shells |
| `lab2/shell` pipelines | pipe ends in parent and children | make a pipe, fork, wait, close | bookkeeping once per reaped child; the handler reaps as well |
| `lab2/shell` redirection | `argv`, `fd[2]`, the descriptor table | `process_redirect`, `execute` | in-place compaction, order of redirections, numbers |
| `lab2/strace` | tracer, tracee, PRE/POST toggle | start or attach, resume, wait, print | stops that are no system calls; a tracee that is killed at any point |
| `lab1` | none | one system call each | – |

The parts do not call each other; each program is its own process. What each
interacts with is outside the repository: TCP clients and the kernel, external
commands, the terminal. Those are modelled from how the code uses them and
marked external in `PROJECT.json`.

What each part has to keep:

- a chat server: a message of a client reaches every other client, once, whole,
  in order, and not its sender; the table of clients says who is there; a client
  that waits is accepted, one that left is removed, what was sent is received;
  no client's fault is another's.
- a pipeline: every command reads what its predecessor wrote, all of it and its
  end; the parent leaks no descriptor; it comes to its end.
- the shell's loop: one shell, one child; after Ctrl-C nothing more of the line
  is started, and a Ctrl-C costs one line at most; the shell comes back to its prompt.
- the tracer: a line for every call of its tracee, in order; it ends with its
  tracee, and not before.
- redirection: the words that remain are the command's, and its descriptors are
  where the line says.

`PROJECT.json` lists the hazards at their lines, with the properties for each.

## Modules

| Module | Models | How |
|---|---|---|
| `Sockets` | external: clients, TCP, `accept`, `recv`, `send`, `close`, the descriptor table | the base of all servers. A chunk is one write of a client with its number and its shape (which of its lines are empty); a message is `MsgLen` units, so that a short send is visible; `Room` is the receiver's buffer |
| `ThreadChat` | `2.cpp` | one action per system call, per critical section, and per access to shared data outside the lock. `mpc`, `hpc`, `spc` are the control points of main, of the handler of each connection, and of `handle_send` |
| `SocketsProofs` | | lemmas: the system calls keep the sockets well-typed, connections apart and chunks in order; queues; what flattening a sequence of sequences yields |
| `ThreadChatProofs`, `SelectProofs`, `EpollProofs`, `UringProofs`, `PipelineProofs`, `ShellProofs`, `StraceProofs` | | theorems about `ThreadChat`, `SelectChat`, `EpollChat`, `UringChat`, `Pipeline`, `ShellLoop` and `Redirect`, `Strace` and `PairChat`. The last two hold two components each: the specifications of `Redirect` and `PairChat` have names of their own (`RedirectSpec`, `PairSpec`), so that a module can extend them beside another |
| `ServeOne` | what `3.cpp` and `4.cpp` share: the table, the receive loop of one client, `send_all` | one action per `recv`, per `send`, and what follows a failed one |
| `SelectChat` | `3.cpp` | extends `ServeOne` with the round of accept, `select`, and the loop over the slots |
| `EpollChat` | `4.cpp` | extends `ServeOne` with `client_map`, epoll's registrations and ready list, and the batch |
| `ChatRoom` | the abstract specification of a chat room | join, speak, leave, expel; a chunk is heard by everybody else at once |
| `ServeRoom` | the refinement mapping from `ServeOne` to `ChatRoom` | members are the registered clients; a client has heard what has reached it and what the running broadcast owes it |
| `UringChat` | `5.cpp` | submission queue, requests in flight, completions; one action per completion, with all it queues |
| `Pipeline` | `shell.cpp` 549-591, `sigint_exit` | the parent's loop, and external children that copy units through pipes |
| `ShellLoop` | `shell.cpp` `main`, `class history`, `sigint_exit` | a stack of shells, since a child whose `execvp` fails goes on in the loop; what is left in the line's buffer, since the end of input is not noticed |
| `Redirect` | `process_redirect`, `execute`, the builtin decision | one action per turn of the loop, for every command of up to `MaxArgs` words, beside a reference definition of what the line means |
| `Split` | `split` of `0.h` | a recursive function on sequences of symbols, as the code's loop |
| `PairChat` | `1.cpp` | here the symbols count: streams are sequences of numbered characters and newlines, `recv` takes any beginning that fits, `send` any part. One action per `recv`, turn of the loop over the lines, `send`, and step of `main` |
| `Strace` | `strace.cpp`, `strace.h` | one action per `ptrace`, per `wait`, and per turn of the toggle; the tracee is external and stops at entry, at exit, and for signals. A line of output keeps, for the properties, at which stop of which call its registers were read |
| `MC…` | | shapes, descriptors and lines for TLC, and the symmetry of connections |

`ThreadChat`, `SelectChat`, `EpollChat` and `UringChat` compose with `Sockets` by
EXTENDS: an action of a server is a conjunction of what the code changes and
what the system call does to the sockets, and each server says what a client's
action means to it (in `EpollChat`, an edge).

Definitions that a comment heads "Mutant" are no part of a model. Each is a
plausible bug in place of the definition below it, with which TLC finds the
property named in `PROJECT.json` violated.

### Choices that matter

- `client_add` of `2.cpp` is two steps, the store to `connected` and the store
  to `fd`: `send_all` reads both without the lock. The Makefile does not
  optimise, so they happen in program order. Its `clients[-1]` is a cell of its
  own that no loop scans: in the build, the 16 bytes before `clients` are
  alignment padding and `sizeof(Client)` is 16.
- `recv` and `send` fetch the descriptor's connection when they are called and
  keep it while they block, whatever happens to the descriptor.
- A `send` that returns -1 ends the process: `SIGPIPE`, or `substr(-1)` throws
  and nothing catches it. The models have a step to "aborted"; what holds is
  said of a running server.
- A client that closes sends FIN, or RST when it has unread data. Sending to a
  client that closed succeeds once and draws an RST.
- epoll promises no order, so the ready list and the batch are sets; the kernel
  of io_uring ends requests in any order, and gives a recv any buffer it has.
- A `read_fd` or `pipefd` that was never set, or whose number has been closed,
  may be the number of any open descriptor: another pipe's end, which is then
  read or closed in its place, or the terminal's. That it is 0, 1 or 2, so that
  the shell would close its own terminal, is left aside.
- Of what `export` and `env` set, the model keeps whether `HOME` or `SHELL` holds
  its own name: `echo` replaces `$HOME` until there is none left, and `export
  HOME=$HOME` expands nothing.
- The handler of Ctrl-C calls `waitpid` too. In `ShellLoop` it may take the child
  that `wait` waits for ("reaped"); in `Pipeline` it is a step of its own.
- Programs and pipelines do not have to end. `ShellLoop` has them as a child that
  runs; how a pipeline ends is `Pipeline`'s.
- A tracee stops for a signal between calls only: one blocked in a call leaves
  the call first, and its exit is a stop of its own (ptrace(2)). After a
  successful execve there is a SIGTRAP more. All of them look alike to `wait`.
- `1.cpp`'s `buffer` is set to zeros and `recv` may fill it: then there is no
  NUL, and `split` goes on into the memory behind it, of which the model allows
  nothing or one more symbol.
- Ctrl-C reaches every process of the terminal; a child that has not executed
  its command yet has the shell's handler and survives.

## Runs

A passing run shows that its properties hold in every behaviour of its instance.

| Run | Module / cfg | Properties | Instance and why it is enough |
|---|---|---|---|
| thread_safety | `MCThreadChat` / `ThreadChat` | `TypeInv OwnSlot CountMatchesTable NoSlotLeak OnlyAuthorSkipped OrderedDelivery StoreWindow` | 4 clients, 2 slots, 3 descriptors, 2 writes between them, messages of 2 units to a buffer of 1: the table overflows, slots and descriptors are given out again while earlier occupants' messages are queued or half sent, and while a newcomer is being added |
| thread_live | `ThreadChatLive` | `QueueDrains LeaverDestroyed` | 2 clients, messages of 2 units to a buffer of 1: sends are short and wait |
| epoll_safety | `MCEpollChat` / `EpollChat` | `RegistryAgrees EventsCurrent NoLostEdge RoomPromise StrayOnlyWhenFull` | 4 clients, 2 slots, 3 descriptors, 2 chunks from one client or from two, batches of 2, two lines around an empty one: several chunks in one edge, a full table, reuse, batches smaller than the ready list, members that come and go during a broadcast's lines |
| epoll_zombie | `EpollZombie` | `LeaverDestroyed` (violated) | 2 clients, 2 writes each |
| select_room | `MCSelectChat` / `SelectChat` | `TableInv RoomPromise PendingServed Attended` | 3 clients, 2 slots, 3 descriptors, messages of 2 units: a full table, short sends |
| uring | `MCUringChat` / `UringChat` | `AcceptArmed OneReader TableHonest PendingServed Attended` | 2 clients, 2 descriptors, 2 slots, 1 buffer, 1 failing accept: every resource runs out, a slot because the failed accept takes one |
| pipeline | `Pipeline` / `Pipeline` | `NoFdLeak WholeOutput PipelineEnds` | 4 commands (first, two in the middle, last), 2 units, 2 Ctrl-C, 3 failures of `pipe` and `fork`, wherever they come: of the first command, of two in a row, of the last, of all but one |
| pipe_stuck | `PipelineStuck` | `AlwaysEnds` (violated) | 2 commands, 2 units, pipes of 1 |
| shell | `MCShellLoop` / `ShellLoop` | `TypeOK OneAtWork InterruptStopsLine OneLinePerInterrupt BackToPrompt` | 3 lines of commands of every kind, a history of 2, forks that fail, 2 Ctrl-C, Ctrl-D at any prompt; a line of three whose first two are not found, so that a line goes on in a shell below a shell, twice |
| redirect | `MCRedirect` / `Redirect` | `WordsKept PlainRedirects` | every command of up to 4 words out of 11: two redirections in any order, missing names and files, builtins told by the first and by the last word, in a pipeline and not |
| strace | `Strace` / `Strace` | `InStep CallLines HonestEnd TracerEnds` | 3 calls out of 4, 2 signals: out of step and in step again, SIGKILL in every state, a call without a name |
| pair | `MCPairChat` / `PairChat` | `WellFormed Relay Served` | 4 symbols one way and 1 the other, a buffer of 3, room for 2: lines in pieces, two lines in one `recv`, a full buffer, every message sent in parts, both directions at once |

`RoomPromise` is a refinement: `ServeRoom` maps the server to `ChatRoom`, and
TLC checks that every step of the server is a step of the room or a stutter.

Bounds: `MaxWrites` (chunks per client), `FewWrites` (a state constraint of
`MCThreadChat` and `MCEpollChat`: chunks of all clients together), `MaxFailures` (failed accepts in
`UringChat`, which would otherwise repeat for ever; failed calls of `pipe` and
`fork` in `Pipeline`), `MaxSigints`, `MaxLines`,
`MaxArgs`, `MaxCalls`, `MaxSignals`, `MaxWritten` (symbols per client of `1.cpp`); `Conn` bounds the connections, each made once. `SqSize` is 64 in
the run of `UringChat`, and no behaviour within the other bounds wraps it (the
code has 2048): the properties are about a queue in which no request has been
overwritten, as are the theorems (`Intact`). Symmetry in the connections is used in safety runs only.

Deadlock is not checked: clients and users do a bounded number of things and
then nothing, and the process may end.

### Where the program does not do what the repository says

Two of these have a run that is expected to find its property violated;
`findings` in `PROJECT.json` quotes the line that states the property.

| Run | Property | What the counterexample does |
|---|---|---|
| epoll_zombie | `LeaverDestroyed` | data and end in one edge: the second `recv` of the loop returns 0 and is taken for "no data yet" |
| pipe_stuck | `AlwaysEnds` | a full pipe whose reader is not forked yet |

Others were met while modelling. The models behave like the code in all of
them; the properties of the passing runs are stated with the condition under
which they hold, and that condition is named here.

| Where | What happens | Where the models say so |
|---|---|---|
| `2.cpp:47` | the check of the index is never true: with a full table `clients[-1]` is written, two such clients share one `Client`, and one thread closes the other's descriptor | `NeverOverflowed` |
| `2.cpp:52` | `client_add` marks a slot connected before it stores the descriptor; until then the slot holds its last client's number, which `accept` may have given to the author of the message being sent: the author gets it, where `lab3/README.md:45` says everybody but the sender. A newcomer that has that number too is sent the message twice, and in a slot never used the number is 0 and `send` fails, which ends the server | `InWindow` in `StoreWindow`, which says that all of this needs the window |
| `2.cpp:72` | after a short send the receiver leaves, its slot goes to a newcomer, and the newcomer is sent the rest of the message | `SendReturnsShort`, `SendCall`; `peer[d] # "reset"` in `OrderedDelivery` |
| `2.cpp:66, 104` | the author leaves, its slot goes to a newcomer before its message is sent, and the newcomer is passed over as the author | `smsg.chunk.from \in Alive` in `OnlyAuthorSkipped` |
| `2.cpp:188` | the only client leaves at once; `main` sees the count 0 and returns while another client waits | `CheckCount`; `~Running` in the liveness properties |
| `4.cpp:151` | two connections, one edge, one `accept`: the second waits for a third | `AcceptClient`; `PendingServed` is a property of `3.cpp` and `5.cpp` only |
| `4.cpp:154`, `3.cpp:112` | `client_add` returns -1 when the table is full and `main` ignores it: the client is accepted, its descriptor stays open in no table, and it is never served or closed | `AcceptWhenFull`; `StrayOnlyWhenFull`, which says that a descriptor is lost in no other way |
| `4.cpp:89` | `send` on a full non-blocking socket returns -1 and `substr(-1)` ends the server | `ServeAborts` |
| `5.cpp:295` | one buffer, several writes: the first completion gives the buffer back to the kernel | `ReapWrite` and `pool`, which counts how often a buffer is in the pool |
| `5.cpp:247` | `recv` fails with ENOBUFS when the pool is empty, and a healthy client is closed | `~IsOpen(c)` in `Attended` |
| `5.cpp:236` | an accept that failed is registered as client -1 | the exception for -1 in `TableHonest` |
| `5.cpp:287` | `main` writes through a stale sqe; once the queue has wrapped, this rewrites another request's user_data. With `SqSize = 4`, `MaxWrites = 2` and `SPECIFICATION Spec`, TLC finds `AcceptArmed` violated | `SqSize`; `Intact` in the theorems about `UringChat` |
| `shell.cpp:459` | the handler of Ctrl-C reaps the only child, the body of the wait loop does not run, and the next command reads whatever `read_fd` holds | `sigints = 0` in the properties of `Pipeline` |
| `shell.cpp:557` | `pipe` fails and the loop goes on: the command is not run and the next one reads what came before it. If it was the first command, `read_fd` was never set, and the next reads any pipe or the terminal | `PipeFails`; `Ran(0)` in `WholeOutput`, `stage[0] \in Failed` in `PipelineEnds` |
| `shell.cpp:583` | `fork` fails, and all that was to be done after it is left out: both ends of its pipe stay open in the shell for good. If no later command can be forked, neither is the read end in front of it closed | `ForkFails`; `"unforked"` in `NoFdLeak` |
| `shell.cpp:544` | `fork` fails for a single command: it is passed over without a word | `ForkFails` of `ShellLoop` |
| `shell.cpp:251` | with `HOME` or `SHELL` set to a text with its own name, `echo $HOME` has no end | `EchoLoops`; `At("echo")` in `BackToPrompt` |
| `shell.cpp:552` | Ctrl-C during a pipeline ends the programs that run; the shell forks the rest of them all the same | `Sigint` of `Pipeline`; a pipeline is one command in `InterruptStopsLine` |
| `shell.cpp:516` | Ctrl-C at the prompt gives up the next line, which is typed afterwards | `OneLinePerInterrupt`, which bounds the damage |
| `shell.cpp:443` | a command that is not found leaves a second shell | the stack `shells` |
| `shell.cpp:485` | the result of `fgets` is not looked at: after Ctrl-D the shell runs what is left in its buffer, the first word of the last line, again and again | `ReadAgain` |
| `shell.cpp:213` | `exit` in a pipeline saves the history and ends a child only | `ChildExits` |
| `shell.cpp:113, 253` | `history n` with too large an n, and `echo $HOME` without one, end the shell | `BuiltinCrashes` |
| `shell.cpp:118` | `!!` on an empty history and `!n` past its end end the shell | the empty line in `StartLine` |
| `shell.cpp:373, 407` | `n>`, `n<` and `n>&m` set the wrong ends | `PlainForms` in `PlainRedirects` |
| `1.cpp:27` | a line that `recv` returns in pieces becomes several messages, each with its header; `lab3/README.md:29` cuts only what one `recv` returned | `Recv`; `Relay` says that no message joins two lines, not that a line is one message |
| `1.cpp:21` | a full buffer has no NUL: what is behind it is sent as well | `Junk` in `TextOf` |
| `1.cpp:40` | a side that stays and writes after the other's RST ends the process | `SendAborts`; `SomebodyGone` in `Served` |
| `strace.cpp:96` | after an odd number of stops for signals and of successful execves, lines show the registers at entry: no result | `OutOfStep` in `InStep`, `extra = 0` in `CallLines` |
| `strace.cpp:88, 96` | after an odd number of such stops `exit_group` is printed twice, at its entry and at the exit of the tracee | the last conjunct of `CallLines` |
| `strace.cpp:82` | no signal is passed on: the tracee never gets one, save SIGKILL | `Resume` |
| `strace.cpp:87` | a tracee that is killed ends the tracer with "error getting registers" and no line | `GetRegsFails`; `HonestEnd` |
| `strace.cpp:130` | a pid is traced after `-p` only; `./strace pid`, as `lab2/strace/README.md:9` has it, runs a command of that name | `Argv` |
| `shell.cpp:532` | a builtin's redirections are not performed | `PlainRedirects` is about `pc = "exec"` |

## Fairness

Liveness is checked under weak fairness of each thread (or of the one thread of
`3.cpp`, `4.cpp`, `5.cpp`), which is what a preemptive kernel gives a thread
that can run; of the network and of clients reading what they are sent; in
`UringChat` of each request that could end; in `PairChat` of `main` and of each
`handle_chat` thread; in `Strace` of the tracer alone (nothing makes a tracee
call, stop or end); in `Pipeline` of every process; in
`ShellLoop` of the shell that has the terminal and of a child until it has
executed its program or, in a pipeline, saved the history (`Forked`). No program
has to end there, and no pipeline, since one may wait for itself (run
pipe_stuck): `BackToPrompt` allows for a child that runs for ever. Nobody is
obliged to connect, write, leave, type or press Ctrl-C.

With these, `QueueDrains` and the like still have to allow for the end of the
process, which a client can bring about (see above).
A client that never stops writing would keep the receive loop of `3.cpp` and
`4.cpp` at itself for ever; `MaxWrites` excludes it.

## Proofs

The theorems are about `Spec`, without fairness, and hold for any values of the
constants that satisfy the assumptions named in the modules: any finite sets of
connections and descriptors, any number of slots, chunks, commands, units,
calls, signals, Ctrl-C. A safety invariant of a run is seldom inductive; the
model has a named conjunction that is (`…Inv`), and the proof has a lemma for
each action that preserves it. TLC finds each of them to
hold with the cfg of its run, too (`DropInv` with the shells numbered up to 12
in place of `Nat`, which TLC cannot enumerate).

**`ThreadChatProofs`**

- `TypeCorrect`: `TypeInv`, that is, the types and `ControlInv`, which says that
  the data a thread works on is there when its control point needs it;
- `TableCorrect`: `TableInv`, and from it `OwnSlotCorrect`, `NoSlotLeakCorrect`,
  `CountCorrect`, `OnlyAuthorSkippedCorrect`;
- `NoOverflowCorrect`: with at most `MAX_CLIENT_NUMBER` clients the table never
  overflows, so that what the others say of a table that has not overflowed
  holds of every behaviour;
- `StoreWindowCorrect`, an action property;
- `OrderCorrect`: `OrderInv`, and from it `OrderedDeliveryCorrect`.

`OwnSlot` is not inductive. A handler's slot stays its own because no two
handlers have the same slot, because a slot that is marked connected always has
a handler or is being filled in (`SlotInv`), because no connection is accepted
twice (`PendingInv`), and because two open descriptors never stand for the same
connection (`FdInv`). `TableInv` is the conjunction. All of it is said of a table
that never overflowed: from the moment `clients[-1]` is stored to, `OwnSlot`
fails. `NoSlotLeak` follows from `SlotInv` by counting: the handlers map onto the
connected slots; and so does `NoOverflowCorrect`, since the client that is being
added has no handler yet. `CountCorrect` rests on the same invariant, with the
cardinality of the connected slots changing by one where the count does.
`OnlyAuthorSkipped` adds `MessageInv`: every queued message is marked with the
slot of its author's thread, and a thread that was started keeps its slot number
to its end.

`StoreWindow` is about the call of `send` in slot `si`, which `send_all` found
connected and which may have changed hands since. `SendInv` is what it rests on:
outside the window the number in that slot does not stand for the author's
connection, and stands for some connection as long as nobody has left. It is kept
because the author has had its thread, its slot and its descriptor since before
its message was queued, so that a slot which changes hands later never becomes
the author's, nor does a number that is given out again; because two slots with
handlers never share a connection (`FdInv`); and because a handler comes to
`client_destroy` only after its client has gone, the first conjunct.

`OrderedDelivery` compares what a client has heard with what was written long
before. `OrderInv` follows a chunk by its number: the chunks of one author leave
its socket in order, its thread has at most one, and those in `message_queue` are
in order and older than that one (`QueueInv`); whatever anybody has heard is older
than what is queued, and no later than the line that is being sent (`HeardInv`).
That the units of a message are not separated is another matter: a `send` that
was cut short may go on in another client once a connection has been reset, so
`PieceInv` says until then that the last unit each client has is the last of its
message, but for the client that a message is being sent to. `FreshInv` is for
the newcomer: it has heard nothing and nothing is being sent to it.

**`SelectProofs`**

- `SelectInvCorrect`: `SelectInv`, and from it `TableInvCorrect`;
- `RoomInvCorrect` and `RoomPromiseCorrect`: the server implements `ChatRoom`.

`TableInv` says that the bits of a round stand for registered clients although
clients are destroyed in the loop. It needs that the loop has passed the slot
it serves, that the slot is registered while it is served, and that two slots
never stand for one connection.

**`EpollProofs`**

- `EpollInvCorrect`: `EpollInv`, and from it `EpollTypeCorrect`,
  `RegistryAgreesCorrect`, `EventsCurrentCorrect` and `NoLostEdgeCorrect`;
- `StrayOnlyWhenFullCorrect`, an action property;
- `CountExactCorrect`, by the cardinality of the registered slots;
- `RoomInvCorrect` and `RoomPromiseCorrect`: the server implements `ChatRoom`.

The safety invariants of run epoll_safety are not inductive one by one. That no
event is stale needs that the client being served has no second event in the
batch (`ServeInv`), else `client_destroy` would leave that event behind. That
`send_all` sends to somebody needs that its receivers are registered (`LoopInv`),
and the types need it too. That no edge is lost when the loop takes an event
needs that two slots never share a descriptor (in `RegistryAgrees`): the event is
then the served client's and nobody else's. The edge given up when the loop ends
is no loss because `recv` has just failed. `LoopKept` covers the actions that
change neither the registry nor who is served.

*The refinement.* In both servers `accept` maps to the room's join, a `recv` that
returns a chunk to speak, the end of a client to leave, `client_destroy` to
expel; everything else, every `send` among it, to a stutter. The room hears a
chunk at once, the program's clients hear it send by send: what the broadcast
still owes a client (`Due`) is the difference, so that `recv` has to make `Due`
the text of the whole chunk, and a `send`, short or not, has to move exactly as
many units from the front of `Due` to the end of `inbox`. `Due` is the flattening
of a sequence with a member per line, all empty before the line that is being
sent (`Pieces` in the proofs). `SocketsProofs` shows what the recursive function
behind `FlattenSeq` yields by the least argument at which it would not, which
needs no induction theorem. `RoomInv` adds what a leave and an expel need: chunks
are received in the order of their numbers; and a `recv` fails for a client that
left only, which is not so of one that would wait. `select` said that its
descriptor is readable, and `epoll_wait` did; a step of the loop touches no
other descriptor with a bit or an event left, so it still is. `EpollProofs`
repeats some lemmas of `SelectProofs`: both are about the state of `ServeOne`,
under invariants of their own.

**`UringProofs`**: `UringInvCorrect`, and from it `TableHonestCorrect`,
`AcceptArmedCorrect` and `OneReaderCorrect`, each of the form
`Spec /\ []Intact => []…`. `Intact` says that no queued request has been
overwritten. It is a hypothesis because the code does not keep it (`5.cpp:287`
above); it fails only once the queue has wrapped, when the entry that
`main`'s pointer is to holds another request. The proof counts: a step takes a completion away and queues requests,
and for each kind of request and each descriptor the sum over the queue, the
flight and the completions stays what it was, or goes up when `accept` returns
the descriptor and down when it is closed. `RequestsInv` says that nothing is
under way but requests the program makes, `TableInv` that a descriptor whose
accept has not been answered is not in the table, else it would be added twice.

**`PipelineProofs`**: `PipelineInvCorrect`, and from it `TypeCorrect`,
`NoFdLeakCorrect`, `WholeOutputCorrect`, whatever calls of `pipe` and `fork` fail.
`RoundInv` says which commands have run or failed, run, and are not forked yet;
`FdInv` which ends the parent holds in each round: of the round's own pipe, of the
one `read_fd` is of until a command behind it has been waited for, and of those
whose command could not be forked. `ReadFdInv` and `DataInv` need that the first
command ran, else `read_fd` is not set when it is first read: then `read_fd` is the
pipe of the last command that ran and is open, and what command `i` has passed on,
what it holds, and what it has still to read are, one behind the other, all the
units. A failed `pipe` costs no descriptor, for the read end kept across it is
closed when the next command has been waited for. All but the types is said of a
pipeline without Ctrl-C: the handler that reaps a child leaves `read_fd` as it was
(`shell.cpp:459`).

**`ShellProofs`**: `ShellInvCorrect`, and from it `TypeCorrect`,
`OneAtWorkCorrect`, `InterruptStopsLineCorrect`, `OneLinePerInterruptCorrect`, for
any depth of nested shells. `LinesInv`: a shell's commands are those of one line,
in their order, and lines have numbers. `StopInv`: a command that a Ctrl-C was to
stop and that is still in the list is behind an `is_exit` that is set and has yet
to be looked at, in whichever shell has the line by now. `DropInv` counts: a
Ctrl-C that has not cost a shell its line yet is its `is_exit`, which the shell
hands down when it forks. A child is there exactly while the innermost shell
waits, one that the handler has reaped included (`OneAtWork`).

**`StraceProofs`** proves, under `CallsAssumption`, for any number of calls, signals
and names: `InStepCorrect`, `CallLinesCorrect` and `HonestEndCorrect`, from
`TracerInv`. The toggle is flipped at every stop, so whether it is right about a
stop is the parity of the stops that were of no call, `extra`. An invariant has to
follow one call through the toggle: at its entry it has no line (`Entered`); from
then to its exit it has its line already if the toggle is out of step, and gets
it at the exit if not (`Within`); between calls the newest has its line
(`Between`), and a stop for a signal is dealt with at the state in which it
changes the parity only (`Signalled`). That no call loses its line rests on
signals coming between calls. `exit_group` has no exit and is left at `Within`: it
has a line already exactly if the toggle is out of step, and gets that of the
tracee's exit (`EndInv`). `PlaceInv` says what the tracee can be doing at
each step of the tracer, hence that `ptrace` fails for a dead tracee only.

**Redirect**, in the second half of `ShellProofs`: `RedirectInvCorrect`, and from
it `WordsKeptCorrect` and `PlainRedirectsCorrect`, for a command of any number of
words. The code moves words to the front of the `argv` it is reading. `ScanInv`
says that the words from `i` on are as they were typed, that the first `j - 1`
are the reference's words before `i`, and that `i` is never at the name of a file,
which is why the loop may skip two words at an operator. `FdInv` says of a command
with `>`, `>>` and `<` only that until `execute` 0, 1 and 2 stand for what they
always did, while `fd` holds the ends the reference gives the words read so far;
a file is never opened as one of these three, so that the two `dup2` calls do
not overwrite each other's source. The reference is three recursive functions of
the line (`IsName`, `WordsBefore`, `After`). That each is what its definition says
follows from `RecursionExists`, a function on `0..N` with a given first value and
step exists, which is shown by the least number for which it would not.

**PairChat**, in the second half of `StraceProofs`: `PairInvCorrect`, and from it
`RelayCorrect` and `WellFormedCorrect`, for every text, sizes of the buffers, and
ways `recv` and `send` cut the streams. `Relay` is of what has arrived; inductive is
what it says of the *stream*, what has arrived with what is left of the message
being sent, which a `send` leaves as it is (`StreamInv`). When the receiver leaves
the rest of that message will never arrive, and the stream becomes a beginning
of itself, of which the same holds. The lines still to be sent are behind the
stream and in order, each without a newline among its characters, and every
character taken is in the stream or in one of them (`PendingInv`): so the next
line continues the stream without a gap. That needs `split` to leave nothing out and
repeat nothing, for every text: `SplitCuts` gives each piece its place in the
text. `split` recurs on texts, not on numbers; `SplitIs` makes the function from
its restrictions to texts of at most `n` symbols, which agree with each other
(`CutsExist`, `CutsUnique`), and `SplitCuts` looks at the shortest text for which
it would fail.

Every invariant that a run checks is now a theorem as well. Only model-checked:
liveness under fairness (`QueueDrains`, `LeaverDestroyed`, `PendingServed`,
`Attended`, `PipelineEnds`, `BackToPrompt`, `TracerEnds`, `Served`), which is out of
the provers' reach, as is `ENABLED`. The library's induction theorems cannot be
used with the provers at hand; what recursive functions yield is shown by least
counterexamples instead.

## Not modelled

- Lengths of chunks in `2.cpp` to `5.cpp`: each is shorter than the buffer, and
  `split` is the shape of a chunk. So not the missing NUL after a full buffer in
  `2.cpp` (`PairChat` has it for `1.cpp`), nor the text that `5.cpp` writes back
  into a buffer running over into the next. NUL bytes in what a client sends.
- The race of `message_queue.pop()` with `push` inside `std::queue`.
- The limit of listen's backlog, descriptors above `FD_SETSIZE`, and the overflow
  of io_uring's completion queue.
- In the shell: what the builtins do to the environment and the directory, but for
  a `HOME` or `SHELL` that holds its own name, `strtok` on quotes or spaces, lines
  longer than the buffers, a nested shell's redirected input.
- A `pthread_create` that fails, which `2.cpp:56` and `1.cpp:88` ignore.
- The names in `strace.h`: the table is the set of numbers that have one.
- Threads and children of `strace`'s tracee (they are not traced), arguments and
  results of calls, `is_debug`, which is never set.
- `lab1`: two programs that make a system call each.

## Plan

Done: `ThreadChat` first, as the program with the most concurrency; then the
servers with one thread and `ChatRoom`; the shell; `1.cpp` and `strace`; the
proofs about all of them.

1. `DequeRace`: the steps of push and pop on the deque's pointers. The rewriting
   of a chunk inside its buffer in `5.cpp`.
2. Compose `Redirect` with `ShellLoop`: a command that is not found, run with
   `<`, leaves a nested shell that reads the file.
