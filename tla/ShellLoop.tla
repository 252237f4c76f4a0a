----------------------------- MODULE ShellLoop -----------------------------
(***************************************************************************)
(* lab2/shell/shell.cpp: the loop of main that reads a line, replaces "!!" *)
(* and "!n", runs the commands between the semicolons and adds the line to *)
(* the history; the history and its file; the handler of Ctrl-C.  What a   *)
(* pipeline does inside is in Pipeline, what redirection does in Redirect. *)
(*                                                                         *)
(* A command is of one of these kinds: "ext", a program that runs and      *)
(* ends; "pipe", a pipeline; "bad", a name that execvp does not find;      *)
(* "builtin"; "clear", for history -d; "exit".  execute returns in the     *)
(* child when execvp fails, and the child goes on in main's loop with a    *)
(* copy of everything: the shells form a stack, each waiting for the next, *)
(* and the one on top has the terminal.  Ctrl-C goes to all of them.       *)
(*                                                                         *)
(* A definition headed "Mutant" is a plausible bug in place of the one     *)
(* below it, which the properties are known to catch.                      *)
(***************************************************************************)
EXTENDS Integers, Sequences, FiniteSets

CONSTANTS Typed,       \* what may be typed: [ask, text, n]
          HistoryMax,  \* history_max
          MaxLines,    \* bound: lines typed
          MaxSigints   \* bound: how often Ctrl-C is pressed

Kind == {"ext", "bad", "builtin", "clear", "exit", "pipe"}
ASSUME ShellAssumption ==
  /\ HistoryMax \in Nat \ {0} /\ MaxLines \in Nat /\ MaxSigints \in Nat
  /\ \A t \in Typed : /\ t.ask \in {"text", "last", "nth"}
                      /\ t.text \in Seq(Kind) /\ t.n \in Int
                      /\ t.ask = "text" => t.text # <<>>

VARIABLES
  shells,   \* the shells, from the outermost to the one with the terminal
  child,    \* what that one waits for: "none"; "forked", "running"; a
            \*   pipeline, "piping", or "saving" if it is to run exit; "ended"
            \*   and then "reaped", when there is nothing left to wait for
  file,     \* the history file
  lines,    \* how many lines were typed
  sigints,  \* how often Ctrl-C was pressed
  doomed,   \* for the properties: what no shell was to start any more and
  started,  \*   what was started, <<shell, command>>, and the lines that
  dropped   \*   were given up, <<shell, line>>

ghosts == <<doomed, started, dropped>>
vars == <<shells, child, file, lines, sigints, ghosts>>

\* One shell: its history, is_exit, whether its stdin has come to an end,
\* whether HOME or SHELL holds its own name, the commands of its line still to
\* be run, the line as it will be added to the history, and what the line's
\* buffer holds up to the first 0 (at first anything).
NewShell(hist) == [history_cmds |-> hist, is_exit |-> FALSE, eof |-> FALSE,
                   selfref |-> FALSE, pc |-> "prompt", todo |-> <<>>, line |-> 0,
                   backup_command |-> <<>>, command_line |-> <<>>]

Init ==
  /\ shells = <<NewShell(<<>>)>>
  /\ child = "none" /\ file = <<>> /\ lines = 0 /\ sigints = 0
  /\ doomed = {} /\ started = {} /\ dropped = {}

Top == Len(shells)
top == shells[Top]
At(pc) == shells # <<>> /\ top.pc = pc

-----------------------------------------------------------------------------
(* A line. *)

\* get_history_by_number; the number is compared as an unsigned one.  There
\* is no string at place 0 or, in an empty history, at the end.
get_history_by_number(hist, t) ==
  CASE t.ask = "last" /\ hist # <<>> -> hist[Len(hist)]
    [] t.ask = "nth" /\ t.n \in 1..Len(hist) -> hist[t.n]
    [] OTHER -> <<>>

\* The line typed, with "!!" and "!n" replaced.
Expanded(t) ==
  IF t.ask = "text" THEN t.text ELSE get_history_by_number(top.history_cmds, t)

\* The shell on top is gone, and the one below, if there is one, gets on.
Gone ==
  shells' = [s \in 1..Top - 1 |->
               IF s = Top - 1 THEN [shells[s] EXCEPT !.pc = "check"] ELSE shells[s]]

\* text is in the buffer.  split_c puts a 0 behind its first command; on an
\* empty line it calls strlen on a null pointer.
StartLine(text) ==
  /\ At("prompt")
  /\ lines < MaxLines
  /\ lines' = lines + 1
  /\ \/ /\ text # <<>>
        /\ shells' = [shells EXCEPT ![Top].pc = "check", ![Top].line = lines',
                        ![Top].todo = [j \in DOMAIN text |->
                           [kind |-> text[j], line |-> lines', place |-> j]],
                        ![Top].backup_command = text,
                        ![Top].command_line = SubSeq(text, 1, 1)]
     \/ text = <<>> /\ Gone
  /\ UNCHANGED <<child, file, sigints, ghosts>>

ReadLine(t) == At("prompt") /\ ~top.eof /\ StartLine(Expanded(t))

\* Ctrl-D: the end of file of stdin stays with it.
EndOfInput ==
  /\ At("prompt")
  /\ ~top.eof
  /\ shells' = [shells EXCEPT ![Top].eof = TRUE]
  /\ UNCHANGED <<child, file, lines, sigints, ghosts>>

\* fgets fails, and the buffer is used all the same.  A pipeline was cut
\* behind its first command, which may be any, or not yet.
Leftover(s) ==
  CASE s.command_line = <<>> -> {<<>>, <<"bad">>}
    [] s.command_line = <<"pipe">> -> {<<k>> : k \in Kind}
    [] OTHER -> {s.command_line}
ReadAgain ==
  /\ At("prompt")
  /\ top.eof
  /\ \E text \in Leftover(top) : StartLine(text)

\* Mutant: the history is not limited.
add_unlimited(hist, line) == Append(hist, line)

add_history_inst(hist, line) ==
  IF Len(hist) >= HistoryMax THEN hist ELSE Append(hist, line)

Recorded(s) ==
  [s EXCEPT !.pc = "prompt", !.todo = <<>>,
            !.history_cmds = add_history_inst(@, s.backup_command)]

LineDone ==
  /\ At("check")
  /\ top.todo = <<>>
  /\ shells' = [shells EXCEPT ![Top] = Recorded(@)]
  /\ UNCHANGED <<child, file, lines, sigints, ghosts>>

\* Mutant: is_exit is not cleared.
FlagKept(s) == Recorded(s)

AfterBreak(s) == [Recorded(s) EXCEPT !.is_exit = FALSE]

\* "if (is_exit)": the rest of the line is given up.
Break ==
  /\ At("check")
  /\ top.todo # <<>>
  /\ top.is_exit
  /\ shells' = [shells EXCEPT ![Top] = AfterBreak(@)]
  /\ dropped' = dropped \cup {<<Top, top.line>>}
  /\ UNCHANGED <<child, file, lines, sigints, doomed, started>>

Continue ==
  /\ At("check")
  /\ top.todo # <<>>
  /\ ~top.is_exit
  /\ shells' = [shells EXCEPT ![Top].pc = "run"]
  /\ UNCHANGED <<child, file, lines, sigints, ghosts>>

-----------------------------------------------------------------------------
(* A command. *)

Starts(kind) ==
  /\ At("run")
  /\ Head(top.todo).kind = kind
  /\ started' = started \cup {<<Top, Head(top.todo)>>}
  /\ UNCHANGED <<lines, sigints, doomed, dropped>>

\* A first command is left in the buffer without its arguments.
FirstWord(s) ==
  IF Head(s.todo).place = 1 THEN <<"builtin">> ELSE s.command_line

\* export and env may set HOME and SHELL, and expand nothing.
AfterBuiltin(s) ==
  {[s EXCEPT !.pc = "check", !.todo = Tail(@), !.command_line = FirstWord(s),
             !.selfref = selfref,
             !.history_cmds = IF Head(s.todo).kind = "clear" THEN <<>> ELSE @] :
     selfref \in IF Head(s.todo).kind = "builtin" THEN BOOLEAN ELSE {s.selfref}}

RunBuiltin ==
  /\ Starts("builtin") \/ Starts("clear")
  /\ \E s \in AfterBuiltin(top) : shells' = [shells EXCEPT ![Top] = s]
  /\ UNCHANGED <<child, file>>

\* echo replaces $HOME by HOME until there is none left.
EchoLoops ==
  /\ Starts("builtin")
  /\ top.selfref
  /\ shells' = [shells EXCEPT ![Top].pc = "echo", ![Top].todo = Tail(@)]
  /\ UNCHANGED <<child, file>>

\* history n reads outside the history when there are not n entries; echo
\* makes a string of a null pointer when HOME or SHELL is not set, and one
\* that outgrows the memory when it holds more than its own name.
BuiltinCrashes ==
  /\ Starts("builtin")
  /\ Gone
  /\ UNCHANGED <<child, file>>

\* The history is saved, over what the file held; the line is not added.
RunExit ==
  /\ Starts("exit")
  /\ file' = top.history_cmds
  /\ Gone
  /\ UNCHANGED child

\* Mutant: the parent goes on at once.
NotWaiting(s) == [s EXCEPT !.pc = "check", !.todo = Tail(@)]

\* The parent after fork.
Waiting(s) == [s EXCEPT !.pc = "wait", !.todo = Tail(@)]

ForkProgram ==
  /\ \/ Starts("ext") /\ child' = "forked"
     \/ Starts("pipe") /\ child' \in {"piping", "saving"}
  /\ shells' = [shells EXCEPT ![Top] = Waiting(@)]
  /\ UNCHANGED file

\* The command is passed over without a word; of a pipeline, every one is.
ForkFails ==
  /\ Starts("ext") \/ Starts("bad") \/ Starts("pipe")
  /\ shells' = [shells EXCEPT ![Top].pc = "check", ![Top].todo = Tail(@)]
  /\ UNCHANGED <<child, file>>

Exec ==
  /\ child = "forked"
  /\ child' = "running"
  /\ UNCHANGED <<shells, file, lines, sigints, ghosts>>

\* exit in a pipeline, run in a child, saves the history, which is still its parent's.
ChildExits ==
  /\ child = "saving"
  /\ child' = "piping"
  /\ file' = top.history_cmds
  /\ UNCHANGED <<shells, lines, sigints, ghosts>>

ProgramEnds ==
  /\ child \in {"running", "piping"}
  /\ child' = "ended"
  /\ UNCHANGED <<shells, file, lines, sigints, ghosts>>

\* Mutant: what interrupted the command is forgotten with it.
WaitClears(s) == [s EXCEPT !.pc = "check", !.is_exit = FALSE]

\* Mutant: wait is called until it returns a child.
StillWaiting(s) == [s EXCEPT !.pc = IF child = "reaped" THEN "wait" ELSE "check"]

\* wait(NULL) returns, the child or -1 when the handler was first.
AfterWait(s) == [s EXCEPT !.pc = "check"]

WaitReturns ==
  /\ At("wait")
  /\ child \in {"ended", "reaped"}
  /\ child' = "none"
  /\ shells' = [shells EXCEPT ![Top] = AfterWait(@)]
  /\ UNCHANGED <<file, lines, sigints, ghosts>>

\* The child that execute has returned in: a shell like its parent.
Child == [top EXCEPT !.pc = "check", !.todo = Tail(@)]

\* What is noted of the shells there are: the new one's place may have been
\* that of a shell which is gone.
OfShells(noted) == {x \in noted : x[1] <= Top}

ForkBad ==
  /\ At("run")
  /\ Head(top.todo).kind = "bad"
  /\ shells' = Append([shells EXCEPT ![Top] = Waiting(@)], Child)
  /\ started' = OfShells(started) \cup {<<Top, Head(top.todo)>>}
  /\ doomed' = OfShells(doomed)
  /\ UNCHANGED <<child, file, lines, sigints, dropped>>

\* The commands of shell s that have not got through the check.
NotChecked(s) == {j \in DOMAIN shells[s].todo : j > 1 \/ shells[s].pc # "run"}

\* What becomes of the child: a program that has been executed may die of
\* Ctrl-C, and a pipeline end; waitpid in the handler takes a child that ends,
\* if wait has not.
Interrupted ==
  CASE child \in {"running", "piping"} -> {child, "ended", "reaped"}
    [] child = "ended" -> {"ended", "reaped"}
    [] OTHER -> {child}

\* Ctrl-C: every shell's handler sets is_exit.
Sigint ==
  /\ shells # <<>>
  /\ sigints < MaxSigints
  /\ sigints' = sigints + 1
  /\ shells' = [s \in DOMAIN shells |-> [shells[s] EXCEPT !.is_exit = TRUE]]
  /\ child' \in Interrupted
  /\ doomed' = doomed \cup
       UNION {{<<s, shells[s].todo[j]>> : j \in NotChecked(s)} : s \in DOMAIN shells}
  /\ UNCHANGED <<file, lines, started, dropped>>

\* The shell is started again: the history is read from the file.
NewSession ==
  /\ shells = <<>>
  /\ lines < MaxLines
  /\ shells' = <<NewShell(file)>>
  /\ UNCHANGED <<child, file, lines, sigints, ghosts>>

User == NewSession \/ Sigint \/ EndOfInput \/ \E t \in Typed : ReadLine(t)
Shell == ReadAgain \/ LineDone \/ Break \/ Continue \/ RunBuiltin \/ EchoLoops
         \/ BuiltinCrashes \/ RunExit \/ ForkProgram \/ ForkFails
         \/ WaitReturns \/ ForkBad
Forked == Exec \/ ChildExits
Program == Forked \/ ProgramEnds

Next == User \/ Shell \/ Program

\* The shells and what they fork keep going; nobody has to type, and no
\* program has to end.
Spec == Init /\ [][Next]_vars
FairSpec == Spec /\ WF_vars(Shell) /\ WF_vars(Forked)

-----------------------------------------------------------------------------
(* Properties. *)

Command == [kind : Kind, line : 1..MaxLines, place : Nat]
ShellType == [history_cmds : Seq(Seq(Kind)), is_exit : BOOLEAN, eof : BOOLEAN,
              selfref : BOOLEAN,
              pc : {"prompt", "check", "run", "wait", "echo"},
              todo : Seq(Command), line : 0..MaxLines, backup_command : Seq(Kind),
              command_line : Seq(Kind)]

TypeOK ==
  /\ shells \in Seq(ShellType)
  /\ child \in {"none", "forked", "running", "piping", "saving", "ended", "reaped"}
  /\ file \in Seq(Seq(Kind))
  /\ \A h \in {file} \cup {shells[s].history_cmds : s \in DOMAIN shells} :
       Len(h) <= HistoryMax
  /\ lines \in 0..MaxLines /\ sigints \in 0..MaxSigints
  /\ doomed \cup started \subseteq Nat \X Command
  /\ dropped \subseteq Nat \X (1..MaxLines)

\* Only the shell with the terminal does anything, and only it has a child
\* that is not a shell: one wait never takes another one's child.
OneAtWork ==
  /\ \A s \in 1..Top - 1 : shells[s].pc = "wait"
  /\ child # "none" => At("wait")
  /\ At("wait") => child # "none"

\* After Ctrl-C no command is started that had not got through the check of
\* is_exit by then, in whatever shell its line is being run.  A pipeline is
\* one command: once it is started, Ctrl-C ends the programs that run, and
\* the shell forks the rest of it all the same (shell.cpp:552).
InterruptStopsLine == started \cap doomed = {}

\* A Ctrl-C costs each shell at most one line, whenever it is pressed; the
\* line may be the next one, when it was pressed at the prompt or during a
\* line's last command.
Lost(s) == Cardinality({d \in dropped : d[1] = s})
OneLinePerInterrupt == \A s \in {d[1] : d \in dropped} : Lost(s) <= sigints

\* What the last three rest on.  A shell's commands are those of one line, in
\* their order, and lines have numbers of their own.
LinesInv ==
  /\ \A s \in DOMAIN shells :
       /\ shells[s].line <= lines
       /\ shells[s].pc = "run" => shells[s].todo # <<>>
       /\ \A j \in DOMAIN shells[s].todo : shells[s].todo[j].line = shells[s].line
       /\ \A j, k \in DOMAIN shells[s].todo :
            j < k => shells[s].todo[j].place < shells[s].todo[k].place
  /\ \A x \in doomed \cup started : x[2].line <= lines

\* A command that is still to be started was not started yet, and if it was to
\* be started no more, the shell's is_exit is set and has yet to be looked at.
StopInv ==
  \A s \in DOMAIN shells : \A j \in DOMAIN shells[s].todo :
    /\ <<s, shells[s].todo[j]>> \notin started
    /\ <<s, shells[s].todo[j]>> \in doomed =>
         shells[s].is_exit /\ j \in NotChecked(s)

\* A Ctrl-C that has not cost a line yet is an is_exit that is set.  The shell
\* on top hands its own down when it forks.
Owed(s) ==
  IF s \in DOMAIN shells THEN shells[s].is_exit ELSE At("run") /\ top.is_exit
DropInv == \A s \in Nat : Lost(s) + (IF Owed(s) THEN 1 ELSE 0) <= sigints

ShellInv == TypeOK /\ OneAtWork /\ LinesInv /\ StopInv /\ InterruptStopsLine /\ DropInv

\* Nothing but a program or a pipeline that runs, or an echo that has no end,
\* keeps the shells from their prompt for ever: not a child that the handler
\* has taken from wait (shell.cpp:459), a fork that fails or the end of the
\* input.
BackToPrompt ==
  []<>(shells = <<>> \/ At("prompt") \/ At("echo") \/ child \in {"running", "piping"})

=============================================================================
