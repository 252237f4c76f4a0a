------------------------------ MODULE Pipeline ------------------------------
(***************************************************************************)
(* lab2/shell/shell.cpp, the part of main that runs "a | b | c": for one   *)
(* command after the other a pipe is made, a child is forked that connects *)
(* itself to the pipes and executes the command, and the parent waits for  *)
(* its children, doing its bookkeeping of the pipes once for every child   *)
(* that wait returns.  sigint_exit, the handler of Ctrl-C, waits for a     *)
(* child too.                                                              *)
(*                                                                         *)
(* The commands are external: the first writes Amount units and ends, the  *)
(* others copy their input to their output until its end.  Ctrl-C goes to  *)
(* every process of the terminal; a child that has not executed its        *)
(* command yet still has the shell's handler and survives it.              *)
(*                                                                         *)
(* A definition headed "Mutant" is a plausible bug in place of the one     *)
(* below it, which the properties are known to catch.                      *)
(***************************************************************************)
EXTENDS Integers, Sequences, FiniteSets

CONSTANTS CmdCount,    \* cmd_count
          Amount,      \* units the first command writes
          Capacity,    \* units a pipe holds
          MaxSigints,  \* bound: how often Ctrl-C is pressed
          MaxFailures  \* bound: how many calls of pipe and fork fail

ASSUME PipelineAssumption ==
  /\ CmdCount \in Nat /\ CmdCount > 1
  /\ Amount \in Nat /\ Capacity \in Nat \ {0}
  /\ MaxSigints \in Nat /\ MaxFailures \in Nat

VARIABLES
  i,         \* the command the parent's loop is at
  pc,        \* the parent: "pipe", "fork", "wait", "done"
  pipefd,    \* the pipe that pipefd holds the two ends of
  read_fd,   \* the pipe whose read end read_fd is
  readers, writers,  \* the processes that have the ends of pipe p open
  data,      \* data[p]: what is in pipe p
  stage,     \* stage[k]: what has become of command k
  input,     \* input[k]: the pipe command k reads
  wrote,     \* how many units the first command has written
  shown,     \* what the last command has written to the terminal
  held,      \* held[k]: the unit command k has read and not yet written
  sigint,    \* the shell has a SIGINT it has not handled
  sigints    \* how often Ctrl-C was pressed

fdVars == <<pipefd, read_fd, readers, writers>>
stageVars == <<stage, input, data, wrote, shown, held>>
vars == <<i, pc, fdVars, stageVars, sigint, sigints>>

Stage == 0..CmdCount - 1
Last == CmdCount - 1
Pipe == 0..CmdCount - 2     \* pipe p is made in round p of the loop
Terminal == -1              \* in place of a pipe: the shell's own stdin
Shell == -1                 \* in readers and writers: the parent

\* In place of a pipe, for a number that was never set or that was closed: it
\* may be the number of any descriptor, 0, 1 and 2 left aside.
None == CmdCount

\* What becomes of a command that pipe or fork fails for.
Failed == {"unpiped", "unforked"}

Init ==
  /\ i = 0 /\ pc = "pipe" /\ pipefd = None /\ read_fd = None
  /\ readers = [p \in Pipe |-> {}] /\ writers = [p \in Pipe |-> {}]
  /\ data = [p \in Pipe |-> <<>>]
  /\ stage = [k \in Stage |-> "none"]
  /\ input = [k \in Stage |-> Terminal]
  /\ wrote = 0 /\ shown = <<>> /\ held = [k \in Stage |-> 0]
  /\ sigint = FALSE /\ sigints = 0

-----------------------------------------------------------------------------
(* The parent. *)

\* Every command but the last one gets a pipe.
MakePipe ==
  /\ pc = "pipe"
  /\ IF i < Last
       THEN /\ pipefd' = i
            /\ readers' = [readers EXCEPT ![i] = {Shell}]
            /\ writers' = [writers EXCEPT ![i] = {Shell}]
       ELSE UNCHANGED <<pipefd, readers, writers>>
  /\ pc' = "fork"
  /\ UNCHANGED <<i, read_fd, stageVars, sigint, sigints>>

Fails(how) ==
  /\ Cardinality({k \in Stage : stage[k] \in Failed}) < MaxFailures
  /\ stage' = [stage EXCEPT ![i] = how]
  /\ UNCHANGED <<fdVars, input, data, wrote, shown, held, sigint, sigints>>

\* "continue": the command is not run, and pipefd and read_fd stay what they
\* are.
PipeFails ==
  /\ pc = "pipe"
  /\ i < Last
  /\ Fails("unpiped")
  /\ i' = i + 1
  /\ UNCHANGED pc

\* What dup2(read_fd, STDIN_FILENO) connects the child to: nothing new, or
\* whatever has the number, if read_fd is no pipe's.
OpenPipes == {p \in Pipe : Shell \in readers[p]}
InputOf(p) ==
  IF p = None THEN OpenPipes \cup {Terminal}
  ELSE IF p \in OpenPipes THEN {p} ELSE {Terminal}

\* The child has every descriptor the parent has, and closes none.
Fork ==
  /\ pc = "fork"
  /\ stage' = [stage EXCEPT ![i] = "forked"]
  /\ readers' = [p \in Pipe |-> IF Shell \in readers[p]
                                  THEN readers[p] \cup {i} ELSE readers[p]]
  /\ writers' = [p \in Pipe |-> IF Shell \in writers[p]
                                  THEN writers[p] \cup {i} ELSE writers[p]]
  /\ \E p \in IF i > 0 THEN InputOf(read_fd) ELSE {Terminal} :
       input' = [input EXCEPT ![i] = p]
  /\ pc' = "wait"
  /\ UNCHANGED <<i, pipefd, read_fd, data, wrote, shown, held, sigint, sigints>>

MoreCommands == i < Last

NextRound == IF MoreCommands THEN i' = i + 1 /\ pc' = "pipe"
                             ELSE pc' = "done" /\ UNCHANGED i

\* "if (pid > 0)" leaves out everything there is to do after fork: nothing is
\* waited for and nothing closed.
ForkFails ==
  /\ pc = "fork"
  /\ Fails("unforked")
  /\ NextRound

\* The end that close may close, given the number of one of pipe p; closing
\* what is not open does nothing.
Closes(p, side) == IF p = None THEN (Pipe \cup {None}) \X {"R", "W"} ELSE {<<p, side>>}
Nothing == {<<None, "R">>}

\* Mutant: the old read end is kept.
ReadEndKept == Nothing

\* Mutant: read_fd is set before it is closed.
NewReadEndClosed == IF i > 0 THEN Closes(pipefd, "R") ELSE Nothing

\* "if (i > 0) close(read_fd);"
CloseReadEnd == IF i > 0 THEN Closes(read_fd, "R") ELSE Nothing

\* Mutant: the write end is kept.
WriteEndKept == Nothing

\* "close(pipefd[W_END]);"
CloseWriteEnd == Closes(pipefd, "W")

\* wait has returned a child: the body of the loop around it.
WaitReturns ==
  /\ pc = "wait"
  /\ \E k \in Stage : /\ stage[k] = "zombie"
                      /\ stage' = [stage EXCEPT ![k] = "gone"]
  /\ \E r \in CloseReadEnd, w \in CloseWriteEnd :
       /\ readers' = [p \in Pipe |-> IF <<p, "R">> \in {r, w}
                                       THEN readers[p] \ {Shell} ELSE readers[p]]
       /\ writers' = [p \in Pipe |-> IF <<p, "W">> \in {r, w}
                                       THEN writers[p] \ {Shell} ELSE writers[p]]
  /\ read_fd' = IF pipefd \in OpenPipes' THEN pipefd ELSE None
  /\ UNCHANGED <<i, pc, pipefd, input, data, wrote, shown, held, sigint, sigints>>

\* wait has returned -1: there are no children.
NoChildren ==
  /\ pc = "wait"
  /\ \A k \in Stage : stage[k] \in {"none", "gone"} \cup Failed
  /\ NextRound
  /\ UNCHANGED <<fdVars, stageVars, sigint, sigints>>

\* sigint_exit: waitpid(0, &status, WNOHANG) takes a child that has ended.
SigintExit ==
  /\ sigint
  /\ sigint' = FALSE
  /\ IF \E k \in Stage : stage[k] = "zombie"
       THEN \E k \in Stage : /\ stage[k] = "zombie"
                             /\ stage' = [stage EXCEPT ![k] = "gone"]
       ELSE UNCHANGED stage
  /\ UNCHANGED <<i, pc, fdVars, input, data, wrote, shown, held, sigints>>

Parent == MakePipe \/ PipeFails \/ Fork \/ ForkFails \/ WaitReturns \/ NoChildren
          \/ SigintExit

-----------------------------------------------------------------------------
(* The children. *)

Running(k) == stage[k] = "running"

Exec(k) ==
  /\ stage[k] = "forked"
  /\ stage' = [stage EXCEPT ![k] = "running"]
  /\ UNCHANGED <<i, pc, fdVars, input, data, wrote, shown, held, sigint, sigints>>

\* A unit is read from a pipe; nobody types anything.
ReadUnit(k) ==
  /\ Running(k) /\ k > 0 /\ held[k] = 0
  /\ input[k] \in Pipe /\ data[input[k]] # <<>>
  /\ held' = [held EXCEPT ![k] = Head(data[input[k]])]
  /\ data' = [data EXCEPT ![input[k]] = Tail(@)]
  /\ UNCHANGED <<i, pc, fdVars, stage, input, wrote, shown, sigint, sigints>>

\* write waits for room in the pipe; somebody always has it open to read.
Output(k, unit) ==
  IF k = Last
    THEN shown' = Append(shown, unit) /\ UNCHANGED data
    ELSE /\ Len(data[k]) < Capacity
         /\ data' = [data EXCEPT ![k] = Append(@, unit)]
         /\ UNCHANGED shown

WriteUnit(k) ==
  /\ Running(k)
  /\ \/ /\ k = 0 /\ wrote < Amount
        /\ wrote' = wrote + 1
        /\ Output(k, wrote + 1)
        /\ UNCHANGED held
     \/ /\ k > 0 /\ held[k] # 0
        /\ Output(k, held[k])
        /\ held' = [held EXCEPT ![k] = 0]
        /\ UNCHANGED wrote
  /\ UNCHANGED <<i, pc, fdVars, stage, input, sigint, sigints>>

Ends(k) ==
  /\ stage' = [stage EXCEPT ![k] = "zombie"]
  /\ readers' = [p \in Pipe |-> readers[p] \ {k}]
  /\ writers' = [p \in Pipe |-> writers[p] \ {k}]
  /\ UNCHANGED <<i, pc, pipefd, read_fd, input, data, wrote, shown, held, sigints>>

\* The end of the input is there when the pipe is empty and nobody has its
\* write end open.
AtEnd(k) ==
  IF k = 0 THEN wrote = Amount
  ELSE /\ held[k] = 0
       /\ input[k] \in Pipe /\ data[input[k]] = <<>> /\ writers[input[k]] = {}

Finish(k) == Running(k) /\ AtEnd(k) /\ Ends(k) /\ UNCHANGED sigint

\* Ctrl-D ends the terminal's input.
CtrlD(k) ==
  /\ Running(k) /\ k > 0 /\ held[k] = 0 /\ input[k] = Terminal
  /\ Ends(k)
  /\ UNCHANGED sigint

\* Ctrl-C: the shell handles it, running commands die of it; which of them
\* is first is left open.
Sigint ==
  /\ sigints < MaxSigints
  /\ pc # "done"
  /\ sigints' = sigints + 1
  /\ sigint' = TRUE
  /\ stage' = [k \in Stage |-> IF Running(k) THEN "killed" ELSE stage[k]]
  /\ UNCHANGED <<i, pc, fdVars, input, data, wrote, shown, held>>

Die(k) == stage[k] = "killed" /\ Ends(k) /\ UNCHANGED sigint

Child(k) == Exec(k) \/ ReadUnit(k) \/ WriteUnit(k) \/ Finish(k) \/ Die(k)

Next == Parent \/ Sigint \/ \E k \in Stage : Child(k) \/ CtrlD(k)

\* Every process keeps being scheduled; nobody has to press a key.
Fairness == WF_vars(Parent) /\ \A k \in Stage : WF_vars(Child(k))

Spec == Init /\ [][Next]_vars
FairSpec == Spec /\ Fairness

-----------------------------------------------------------------------------
(* Properties. *)

StageState == {"none", "forked", "running", "killed", "zombie", "gone"} \cup Failed

TypeOK ==
  /\ i \in Stage
  /\ pc \in {"pipe", "fork", "wait", "done"}
  /\ pipefd \in Pipe \cup {None}
  /\ read_fd \in Pipe \cup {None}
  /\ readers \in [Pipe -> SUBSET (Stage \cup {Shell})]
  /\ writers \in [Pipe -> SUBSET (Stage \cup {Shell})]
  /\ data \in [Pipe -> Seq(1..Amount)]
  /\ \A p \in Pipe : Len(data[p]) <= Capacity
  /\ stage \in [Stage -> StageState]
  /\ input \in [Stage -> Pipe \cup {Terminal}]
  /\ wrote \in 0..Amount
  /\ shown \in Seq(1..Amount)
  /\ held \in [Stage -> 0..Amount]
  /\ sigint \in BOOLEAN
  /\ sigints \in 0..MaxSigints

\* Without Ctrl-C, when the shell is through with the pipeline it has no end
\* of a pipe left open, but for those a failed fork leaves it (shell.cpp:583):
\* both ends of the pipe made for it, and the read end of an earlier pipe when
\* no command behind it could be forked.  A failed pipe costs no descriptor.
NoFdLeak ==
  pc = "done" /\ sigints = 0 => \A p \in Pipe :
    /\ Shell \in writers[p] => stage[p] = "unforked"
    /\ Shell \in readers[p] =>
         stage[p] = "unforked" \/ \A k \in Stage : k > p => stage[k] \in Failed

Ran(k) == stage[k] \notin {"none"} \cup Failed

\* Command j ran, and none between it and k did.
Predecessor(j, k) ==
  /\ j \in Pipe /\ j < k /\ Ran(j)
  /\ \A m \in Stage : j < m /\ m < k => ~Ran(m)

\* Every command that runs behind another reads the pipe of the one before it.
KeepsReadEnd == \A k \in Stage : k > 0 /\ Ran(k) => Predecessor(input[k], k)

\* Without Ctrl-C, and if the first command runs, every later one that does
\* reads the pipe of the one before it; and what reaches the terminal is what
\* the first command wrote, in order and, at the end, all of it, unless the
\* last command could not be forked.  (If the first command fails, read_fd is
\* never set, and the second reads whatever has its number: shell.cpp:557.)
WholeOutput ==
  sigints = 0 /\ Ran(0) =>
    /\ KeepsReadEnd
    /\ \A j \in DOMAIN shown : shown[j] = j
    /\ pc = "done" /\ Ran(Last) => Len(shown) = Amount

\* The pipeline comes to its end, if a pipe holds what the first command
\* writes, the first command could be run and nobody presses Ctrl-C.
PipelineEnds == Amount <= Capacity =>
                  <>(pc = "done" \/ sigints > 0 \/ stage[0] \in Failed)

(* What these rest on, as long as nobody presses Ctrl-C. *)

\* One command after the other: those before i are gone or have failed, those
\* behind it are not there, and i is there when the parent has forked it.
RoundInv ==
  /\ ~sigint
  /\ \A k \in Stage : /\ k < i => stage[k] \in {"gone"} \cup Failed
                      /\ k > i => stage[k] = "none"
                      /\ stage[k] # "killed"
  /\ stage[i] = "none" <=> pc \in {"pipe", "fork"}
  /\ stage[i] \in Failed => pc = "done"
  /\ pc = "done" => i = Last /\ stage[i] \in {"gone"} \cup Failed

\* The parent's ends: of the pipe of the round, to read, and to write until
\* command i is waited for; of read_fd's, to read, until a command behind it
\* is waited for; and of those of commands that could not be forked.
Waited == stage[i] = "gone"
FdInv ==
  /\ i < Last /\ pc # "pipe" => pipefd = i
  /\ i < Last /\ pc = "fork" => Shell \in readers[i]
  /\ i = 0 /\ ~Waited => read_fd = None
  /\ Waited /\ i < Last => read_fd \in {i, None}
  /\ Waited /\ i < Last /\ Shell \in readers[i] => read_fd = i
  /\ \A p \in Pipe :
       /\ Shell \in writers[p] =>
            stage[p] = "unforked" \/ (p = i /\ pc # "pipe" /\ ~Waited)
       /\ Shell \in readers[p] =>
            \/ stage[p] = "unforked"
            \/ p = i /\ pc # "pipe"
            \/ p = read_fd /\ \A k \in Stage : k > p => stage[k] # "gone"

\* If the first command ran, read_fd is the last's that ran before i, and open.
ReadFdInv ==
  /\ i > 0 /\ ~Waited =>
       Predecessor(read_fd, i) /\ Shell \in readers[read_fd] /\ Shell \notin writers[read_fd]
  /\ i < Last /\ pc # "pipe" => Shell \in readers[i]
  /\ KeepsReadEnd

\* What command k has written is what it was to write, and so is, behind it,
\* what it holds and what it has yet to read.
Out(k) == IF k = Last THEN shown ELSE data[k]
Taken == IF held[i] = 0 THEN Len(Out(i)) ELSE Len(Out(i)) + 1
Source == IF Ran(i) THEN input[i] ELSE read_fd
DataInv ==
  /\ \A j \in DOMAIN Out(i) : Out(i)[j] = j
  /\ i = 0 => wrote = Len(Out(0))
  /\ i > 0 => /\ held[i] # 0 => held[i] = Taken
              /\ \A j \in DOMAIN data[Source] : data[Source][j] = Taken + j
              /\ Taken + Len(data[Source]) = Amount
  /\ stage[i] \in {"zombie", "gone"} => Len(Out(i)) = Amount

NothingOut ==
  /\ \A k \in Stage : ~Ran(k) => Out(k) = <<>> /\ held[k] = 0
  /\ ~Ran(0) => wrote = 0

PipelineInv ==
  TypeOK /\ (sigints = 0 => /\ RoundInv /\ FdInv /\ NothingOut
                            /\ Ran(0) => ReadFdInv /\ DataInv)

(* Stated by a comment, and not what the code does. *)

\* shell.cpp:582: the commands of a pipeline run concurrently.  A command
\* that has more to write than a pipe holds is read by the next one.
AlwaysEnds == <>(pc = "done")
=============================================================================
