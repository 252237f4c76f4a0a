------------------------------- MODULE Strace -------------------------------
(***************************************************************************)
(* lab2/strace/strace.cpp: a tracer that starts a program, or attaches to  *)
(* one, and prints a line for each of its system calls.  The program stops *)
(* at the entry and at the exit of a call, and looks the same at both:     *)
(* the tracer tells them apart by a toggle, syscall_state.  It also stops  *)
(* for every signal, and once more after each execve, and the tracer takes *)
(* such a stop for one of a system call; it lets the program go on with    *)
(* signal 0, so no signal but SIGKILL is ever delivered.                   *)
(*                                                                         *)
(* The tracee is external, modelled from ptrace(2) and wait(2): a stop for *)
(* a signal comes between system calls, never inside one.                  *)
(*                                                                         *)
(* A definition headed "Mutant" is a plausible bug in place of the one     *)
(* below it, which the properties are known to catch.                      *)
(***************************************************************************)
EXTENDS Integers, Sequences

CONSTANTS Calls,       \* the numbers of the system calls the tracee makes
          ExitCall,    \* exit_group, which does not return
          ExecCall,    \* execve
          TableSize,   \* entries of the initializer's table of names
          MaxCalls,    \* bound: calls the tracee makes
          MaxSignals   \* bound: signals sent to it

NoCall == -1           \* orig_rax when there is no system call to restart

ASSUME CallsAssumption ==
  /\ Calls \subseteq Nat /\ ExitCall \in Calls /\ ExecCall \in Calls
  /\ ExitCall # ExecCall
  /\ TableSize \in Nat /\ MaxCalls \in Nat /\ MaxSignals \in Nat

VARIABLES
  \* the tracer
  argv,             \* what it was called with
  pc,
  syscall_state,
  regs,             \* what PTRACE_GETREGS filled in: the number, and for the
                    \*   properties at which stop and of which call
  syscall_history,  \* every PRINT: regs and the name, in order
  \* the tracee
  tracee,           \* what it does: Running, Stopped or Over, see below
  reported,         \* whether wait has returned its last change
  call,             \* its orig_rax
  due,              \* a stop it owes: for SIGSTOP or for the SIGTRAP of execve
  signals,          \* signals it was sent
  made,             \* how many calls it has made since it is traced
  extra             \* for the properties: stops that were of no call

tracerVars == <<argv, pc, syscall_state, regs, syscall_history>>
traceeVars == <<tracee, reported, call, due, signals, made, extra>>
vars == <<tracerVars, traceeVars>>

Argv == {"", "-p", "-p pid", "prog"}

\* "new": forked, and not yet executing the program.
Running == {"new", "user", "inside"}
Stopped == {"entry", "exit", "signal"}
Over == {"exited", "killed"}

Regs == [orig_rax : Calls \cup {NoCall}, at : Stopped, no : Nat]

Init ==
  /\ argv \in Argv
  /\ pc = "main"
  /\ syscall_state = "PRE_SYSCALL"
  /\ regs = <<>>
  /\ syscall_history = <<>>
  /\ tracee = "none" /\ reported = TRUE
  /\ call = NoCall /\ due = FALSE
  /\ signals = 0 /\ made = 0 /\ extra = 0

-----------------------------------------------------------------------------
(* The tracer. *)

FATAL == pc' = "fatal" /\ UNCHANGED <<argv, syscall_state, regs, syscall_history>>

Usage ==
  /\ pc = "main"
  /\ argv \in {"", "-p"}
  /\ FATAL
  /\ UNCHANGED traceeVars

\* PTRACE_ATTACH sends a SIGSTOP.  What the process was doing is over by the
\* time it stops: a call it was blocked in is started again later.
Attach ==
  /\ pc = "main"
  /\ argv = "-p pid"
  /\ pc' = "first"
  /\ tracee' = "user" /\ due' = TRUE
  /\ call' \in Calls \cup {NoCall}
  /\ UNCHANGED <<argv, syscall_state, regs, syscall_history, reported, signals,
                 made, extra>>

\* No such process, or atoi has made 0 of the argument.
AttachFails ==
  /\ pc = "main"
  /\ argv = "-p pid"
  /\ FATAL
  /\ UNCHANGED traceeVars

Fork ==
  /\ pc = "main"
  /\ argv = "prog"
  /\ pc' = "first"
  /\ tracee' = "new"
  /\ UNCHANGED <<argv, syscall_state, regs, syscall_history, reported, call, due,
                 signals, made, extra>>

ForkFails ==
  /\ pc = "main"
  /\ argv = "prog"
  /\ FATAL
  /\ UNCHANGED traceeVars

\* Mutant: the options are set at once.
NoFirstWait ==
  /\ pc = "first"
  /\ pc' = "options"
  /\ UNCHANGED <<argv, syscall_state, regs, syscall_history, traceeVars>>

\* Mutant: the stop is taken for the entry of execve.
FirstStopCounts ==
  /\ pc = "first"
  /\ ~reported
  /\ reported' = TRUE
  /\ pc' = "options"
  /\ syscall_state' = "POST_SYSCALL"
  /\ UNCHANGED <<argv, regs, syscall_history, tracee, call, due, signals, made,
                 extra>>

\* wait returns for the first time: the program is about to start, or has
\* taken the SIGSTOP, or is already over.
FirstWait ==
  /\ pc = "first"
  /\ ~reported
  /\ reported' = TRUE
  /\ pc' = "options"
  /\ UNCHANGED <<argv, syscall_state, regs, syscall_history, tracee, call, due,
                 signals, made, extra>>

\* ptrace serves a tracee that is stopped, and fails otherwise.
Serves == tracee \in Stopped

SetOptions ==
  /\ pc = "options"
  /\ IF Serves
       THEN pc' = "resume" /\ UNCHANGED <<argv, syscall_state, regs, syscall_history>>
       ELSE FATAL
  /\ UNCHANGED traceeVars

\* Where the tracee goes on from a stop.
Resumed == IF tracee = "entry" THEN "inside" ELSE "user"

\* PTRACE_SYSCALL with signal 0.
Resume ==
  /\ pc = "resume"
  /\ IF Serves
       THEN /\ tracee' = Resumed /\ reported' = TRUE
            /\ pc' = "wait"
            /\ UNCHANGED <<argv, syscall_state, regs, syscall_history>>
       ELSE FATAL /\ UNCHANGED <<tracee, reported>>
  /\ UNCHANGED <<call, due, signals, made, extra>>

\* Mutant: wait is repeated until there is a stop.
WaitForStop ==
  /\ pc = "wait"
  /\ tracee \in Stopped
  /\ ~reported
  /\ reported' = TRUE
  /\ pc' = "regs"
  /\ UNCHANGED <<argv, syscall_state, regs, syscall_history, tracee, call, due,
                 signals, made, extra>>

Wait ==
  /\ pc = "wait"
  /\ ~reported
  /\ reported' = TRUE
  /\ pc' = IF tracee = "exited" THEN "exit" ELSE "regs"
  /\ UNCHANGED <<argv, syscall_state, regs, syscall_history, tracee, call, due,
                 signals, made, extra>>

\* initializer: entry n of the table is the name of call n, for which the
\* number stands here.
syscall_table == 0..TableSize - 1

NoName == -2
get_name_by_number(n) == IF n \in syscall_table THEN n ELSE NoName

\* A line: the name of regs' call, and "?" for its result after an exit.
PRINT(r, is_exit) ==
  syscall_history' = Append(syscall_history,
    [name |-> get_name_by_number(r.orig_rax), regs |-> r, is_exit |-> is_exit])

\* WIFEXITED: the registers are those of the last stop.
PrintExit ==
  /\ pc = "exit"
  /\ PRINT(regs, TRUE)
  /\ pc' = "done"
  /\ UNCHANGED <<argv, syscall_state, regs, traceeVars>>

TraceeRegs == [orig_rax |-> call, at |-> tracee, no |-> made]

GetRegs ==
  /\ pc = "regs"
  /\ Serves
  /\ regs' = TraceeRegs
  /\ pc' = "toggle"
  /\ UNCHANGED <<argv, syscall_state, syscall_history, traceeVars>>

\* WIFSIGNALED is not asked for: the tracee was killed, now or while stopped.
GetRegsFails ==
  /\ pc = "regs"
  /\ ~Serves
  /\ FATAL
  /\ UNCHANGED traceeVars

\* Mutant: a line for every stop.
ToggleForgotten ==
  /\ pc = "toggle"
  /\ PRINT(regs, FALSE)
  /\ pc' = "resume"
  /\ UNCHANGED <<argv, syscall_state, regs, traceeVars>>

Toggle ==
  /\ pc = "toggle"
  /\ IF syscall_state = "POST_SYSCALL"
       THEN PRINT(regs, FALSE) /\ syscall_state' = "PRE_SYSCALL"
       ELSE syscall_state' = "POST_SYSCALL" /\ UNCHANGED syscall_history
  /\ pc' = "resume"
  /\ UNCHANGED <<argv, regs, traceeVars>>

Tracer == Usage \/ Attach \/ AttachFails \/ Fork \/ ForkFails \/ FirstWait
          \/ SetOptions \/ Resume \/ Wait \/ PrintExit \/ GetRegs \/ GetRegsFails
          \/ Toggle

-----------------------------------------------------------------------------
(* The tracee. *)

\* What the tracee does next that wait can return.
Becomes(state) == tracee' = state /\ reported' = FALSE

\* PTRACE_TRACEME, and execvp has found the program: SIGTRAP.
ExecStops ==
  /\ tracee = "new"
  /\ Becomes("signal")
  /\ call' = ExecCall
  /\ UNCHANGED <<due, signals, made, extra>>

\* execvp has not found it: TRACEE returns, and so does the child's main.  Or
\* the process attached to was exiting already.
ExitsEarly ==
  /\ pc = "first"
  /\ tracee \in {"new", "user"}
  /\ Becomes("exited")
  /\ UNCHANGED <<call, due, signals, made, extra>>

EnterCall ==
  /\ tracee = "user"
  /\ ~due
  /\ made < MaxCalls
  /\ call' \in Calls
  /\ Becomes("entry")
  /\ made' = made + 1
  /\ UNCHANGED <<due, signals, extra>>

\* A call ends, interrupted by a signal or not; execve may have succeeded.
LeaveCall ==
  /\ tracee = "inside"
  /\ call # ExitCall
  /\ Becomes("exit")
  /\ due' \in {FALSE, call = ExecCall}
  /\ UNCHANGED <<call, signals, made, extra>>

ExitProcess ==
  /\ tracee = "inside"
  /\ call = ExitCall
  /\ Becomes("exited")
  /\ UNCHANGED <<call, due, signals, made, extra>>

\* A stop for a signal, on the way out of the last call or later.
StopForSignal ==
  /\ tracee = "user"
  /\ Becomes("signal")
  /\ \/ due /\ due' = FALSE /\ UNCHANGED signals
     \/ signals < MaxSignals /\ signals' = signals + 1 /\ UNCHANGED due
  /\ call' \in {call, NoCall}
  /\ extra' = extra + (IF pc = "first" THEN 0 ELSE 1)
  /\ UNCHANGED made

\* SIGKILL.
Kill ==
  /\ tracee \in Running \cup Stopped
  /\ signals < MaxSignals
  /\ signals' = signals + 1
  /\ Becomes("killed")
  /\ UNCHANGED <<call, due, made, extra>>

Tracee == /\ ExecStops \/ ExitsEarly \/ EnterCall \/ LeaveCall \/ ExitProcess
             \/ StopForSignal \/ Kill
          /\ UNCHANGED tracerVars

Next == Tracer \/ Tracee

\* The tracer keeps running; nothing makes the tracee call, exit or stop.
Spec == Init /\ [][Next]_vars
FairSpec == Spec /\ WF_vars(Tracer)

-----------------------------------------------------------------------------
(* Properties. *)

TypeOK ==
  /\ argv \in Argv
  /\ pc \in {"main", "first", "options", "resume", "wait", "regs", "toggle",
             "exit", "done", "fatal"}
  /\ syscall_state \in {"PRE_SYSCALL", "POST_SYSCALL"}
  /\ regs \in Regs \cup {<<>>}
  /\ syscall_history \in
       Seq([name : syscall_table \cup {NoName}, regs : Regs, is_exit : BOOLEAN])
  /\ tracee \in {"none"} \cup Running \cup Stopped \cup Over
  /\ reported \in BOOLEAN
  /\ call \in Calls \cup {NoCall}
  /\ due \in BOOLEAN
  /\ signals \in 0..MaxSignals
  /\ made \in 0..MaxCalls
  /\ extra \in Nat

\* Every variable keeps its type.  And the toggle is right about the stop the
\* tracer has just dealt with, or the opposite of right, and which of the two
\* is the parity of the stops so far that were of no call (strace.cpp:96).
Post == syscall_state = "POST_SYSCALL"
OutOfStep == extra % 2 = 1
InStep ==
  /\ TypeOK
  /\ pc = "resume" /\ tracee \in Stopped =>
       ((Post <=> tracee = "entry") <=> ~OutOfStep)

\* The lines printed at a stop of a call, and at one of call k.
IsCallLine(i) == syscall_history[i].regs.at # "signal" /\ ~syscall_history[i].is_exit
IsLineOf(i, k) == IsCallLine(i) /\ syscall_history[i].regs.no = k
Printed(k) == \E i \in DOMAIN syscall_history : IsLineOf(i, k)

\* Whatever signals the tracee gets, every call that is over has a line that
\* was printed at a stop of it, one, and in order: a stop that is of no call
\* costs none its line, because none comes between entry and exit.  The line
\* shows the call's result, and not the state at its entry, as long as there
\* was no such stop (strace.cpp:96).  One more line is printed at the exit of
\* the tracee (strace.cpp:88), the last of all; exit_group, whose line that
\* is, has another from its entry exactly when the tracer is out of step, and
\* so is printed twice then.
CallLines ==
  /\ \A i, j \in DOMAIN syscall_history :
       i < j /\ IsCallLine(i) /\ IsCallLine(j) =>
         syscall_history[i].regs.no < syscall_history[j].regs.no
  /\ pc = "resume" /\ tracee \in Stopped => \A k \in 1..made :
       (k = made /\ tracee = "entry") \/ Printed(k)
  /\ extra = 0 => \A i \in DOMAIN syscall_history :
       syscall_history[i].is_exit \/ syscall_history[i].regs.at = "exit"
  /\ \A i \in DOMAIN syscall_history :
       syscall_history[i].is_exit => pc = "done" /\ i = Len(syscall_history)
  /\ pc = "done" => \A k \in 1..made : Printed(k) <=> (k < made \/ OutOfStep)

\* The tracer ends with the line of the call that ended the tracee, or with
\* an error when there is no tracee to go on with; it never gives up, and so
\* (PTRACE_O_EXITKILL) never kills, one that is alive.
HonestEnd ==
  /\ pc = "done" =>
       /\ tracee = "exited" /\ syscall_history # <<>>
       /\ LET last == syscall_history[Len(syscall_history)]
          IN last.is_exit /\ last.regs.no = made /\ last.regs.orig_rax = ExitCall
  /\ pc = "fatal" => tracee \in {"none"} \cup Over

\* The tracer does not outlive its tracee for long, and a stopped tracee is
\* let go on.
Ended == pc \in {"done", "fatal"}
TracerEnds ==
  /\ tracee \in Over ~> Ended
  /\ tracee \in Stopped ~> tracee \notin Stopped

-----------------------------------------------------------------------------
(* What InStep, CallLines and HonestEnd rest on: the inductive invariant of  *)
(* StraceProofs.                                                             *)

\* What the tracee can be doing while the tracer is at each of its steps.
PlaceInv ==
  /\ pc = "main" => tracee = "none"
  /\ pc = "first" => tracee \in {"new", "user", "signal"} \cup Over
  /\ pc = "first" /\ tracee = "user" => due
  /\ pc = "options" => tracee \in {"signal"} \cup Over
  /\ pc \in {"resume", "regs", "toggle"} => tracee \in Stopped \cup {"killed"}
  /\ pc = "wait" => tracee \in {"user", "inside"} \cup Stopped \cup Over
  /\ pc \in {"exit", "done"} => tracee = "exited"
  /\ pc = "fatal" => tracee \in {"none"} \cup Over
  /\ tracee \in {"none"} \cup Running => reported
  /\ pc \in {"main", "first", "options"} =>
       ~Post /\ extra = 0 /\ made = 0 /\ syscall_history = <<>>

\* The registers are those of the last stop the tracer has dealt with.
RegsInv ==
  /\ pc = "toggle" => /\ regs \in Regs /\ regs.no = made
                      /\ tracee \in Stopped => regs = TraceeRegs
  /\ pc = "resume" /\ tracee = "entry" => regs = TraceeRegs
  /\ pc = "wait" /\ tracee = "inside" =>
       regs = [orig_rax |-> call, at |-> "entry", no |-> made]
  /\ pc \in {"wait", "exit"} /\ tracee = "exited" =>
       regs = [orig_rax |-> ExitCall, at |-> "entry", no |-> made]

\* The toggle and the line of the newest call: at its entry, from there until
\* its exit, or the tracee's, is dealt with, between calls, and at a signal
\* there.
Entered == made > 0 /\ ~Printed(made) /\ (Post <=> OutOfStep)
Within == made > 0 /\ (Printed(made) <=> OutOfStep) /\ (Post <=> ~OutOfStep)
NewestPrinted == made > 0 => Printed(made)
Between == NewestPrinted /\ (Post <=> OutOfStep)
Signalled == NewestPrinted /\ extra > 0 /\ (Post <=> ~OutOfStep)
ToggleInv ==
  /\ pc \in {"wait", "regs"} =>
       /\ tracee = "entry" => Entered
       /\ tracee \in {"inside", "exit"} => Within
       /\ tracee = "user" => Between
       /\ tracee = "signal" => Signalled
  /\ pc \in {"wait", "exit"} /\ tracee = "exited" => Within
  /\ pc = "toggle" =>
       /\ regs.at = "entry" => Entered
       /\ regs.at = "exit" => Within
       /\ regs.at = "signal" => Signalled
  /\ pc = "resume" =>
       /\ tracee = "entry" => Within
       /\ tracee \in {"exit", "signal"} => Between

\* The lines of the calls before the newest, and what lines there are.
LinesInv ==
  /\ \A k \in 1..made - 1 : Printed(k)
  /\ \A i \in DOMAIN syscall_history :
       /\ IsCallLine(i) => syscall_history[i].regs.no \in 1..made
       /\ extra = 0 => syscall_history[i].is_exit \/ syscall_history[i].regs.at = "exit"
  /\ \A i, j \in DOMAIN syscall_history :
       i < j /\ IsCallLine(i) /\ IsCallLine(j) =>
         syscall_history[i].regs.no < syscall_history[j].regs.no

\* The line of the tracee's exit, and how often its last call is printed.
EndInv ==
  /\ \A i \in DOMAIN syscall_history :
       syscall_history[i].is_exit => pc = "done" /\ i = Len(syscall_history)
  /\ pc = "done" =>
       /\ syscall_history # <<>>
       /\ LET last == syscall_history[Len(syscall_history)]
          IN last.is_exit /\ last.regs.no = made /\ last.regs.orig_rax = ExitCall
       /\ made > 0 /\ (Printed(made) <=> OutOfStep)

TracerInv == TypeOK /\ PlaceInv /\ RegsInv /\ ToggleInv /\ LinesInv /\ EndInv
=============================================================================
