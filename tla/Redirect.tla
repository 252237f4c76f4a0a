------------------------------ MODULE Redirect ------------------------------
(***************************************************************************)
(* lab2/shell/shell.cpp, what happens to the words of one command:         *)
(* exec_builtin as far as it decides whether a command is a builtin,       *)
(* process_redirect, which opens the files, leaves their descriptors in fd *)
(* and moves the other words to the front of argv, and execute, which puts *)
(* fd in place of stdin and stdout.  A builtin outside a pipeline is run   *)
(* by main before any of this.                                             *)
(*                                                                         *)
(* A word is a record: op says which of the forms process_redirect tells   *)
(* apart it has, n and m are the numbers in "n>", "n<" and "n>&m", name is *)
(* what it is called when taken as a file or a command.  argv counts from  *)
(* 1 here, and a step is one turn of the loop.                             *)
(*                                                                         *)
(* A definition headed "Mutant" is a plausible bug in place of the one     *)
(* below it, which the properties are known to catch.                      *)
(***************************************************************************)
EXTENDS Integers, Sequences, FiniteSets

CONSTANTS Words,     \* the words a command may be made of
          MaxArgs,   \* bound: words of a command
          Existing,  \* the names of files that can be opened for reading
          Builtins,  \* the builtin commands told by the first word
          Env        \* the one told by the last word

ASSUME RedirectAssumption ==
  /\ MaxArgs \in Nat
  /\ \A w \in Words : w.op \in {"word", ">", ">>", "<", "n>", "n<", "n>&m"}
                      /\ w.n \in Nat /\ w.m \in Nat

VARIABLES
  line,   \* the words as they were typed
  piped,  \* whether the command is part of a pipeline
  pc,     \* "start", "scan", "dup", and "exec" or "builtin" at the end
  argv, i, j,
  fd,     \* fd[R_END] and fd[W_END]
  desc    \* desc[d]: what descriptor d of the process stands for

redirectVars == <<line, piped, pc, argv, i, j, fd, desc>>

R_END == 0
W_END == 1
argc == Len(line)

\* What a descriptor may stand for: nothing, what the shell had there, a
\* file opened in some way.
Closed == [file |-> "none", how |-> "none"]
Std(d) == [file |-> "std", how |-> <<"in", "out", "err">>[d + 1]]
Opened(name, how) == [file |-> name, how |-> how]
Descriptor == 0..2 + MaxArgs

RedirectInit ==
  /\ line \in UNION {[1..n -> Words] : n \in 1..MaxArgs}
  /\ piped \in BOOLEAN
  /\ pc = "start" /\ argv = line /\ i = 1 /\ j = 1
  /\ fd = [e \in {R_END, W_END} |-> e]
  /\ desc = [d \in Descriptor |-> IF d <= 2 THEN Std(d) ELSE Closed]

-----------------------------------------------------------------------------
\* What exec_builtin takes, returning 0; it takes no words at all, too.
exec_builtin(words) ==
  \/ words = <<>>
  \/ words[1].name \in Builtins
  \/ words[Len(words)].name = Env

\* main, without a pipeline, tries exec_builtin on the words as they are.
Start ==
  /\ pc = "start"
  /\ pc' = IF ~piped /\ exec_builtin(argv) THEN "builtin" ELSE "scan"
  /\ UNCHANGED <<line, piped, argv, i, j, fd, desc>>

How(op) ==
  CASE op \in {">", "n>"} -> "truncate"
    [] op = ">>" -> "append"
    [] op \in {"<", "n<"} -> "read"

\* open fails for want of a name, or of the file.
CanOpen(op) ==
  /\ i < argc
  /\ How(op) = "read" => argv[i + 1].name \in Existing

\* Mutant: the ends are the wrong way round.
NewFdSwapped(op, n, tfd) ==
  CASE op \in {">", ">>"} -> [fd EXCEPT ![R_END] = tfd]
    [] op = "<" -> [fd EXCEPT ![W_END] = tfd]
    [] op = "n<" -> [e \in {R_END, W_END} |-> IF e = R_END THEN tfd ELSE n]
    [] op = "n>" -> [e \in {R_END, W_END} |-> IF e = W_END THEN tfd ELSE n]

\* Where the descriptor of a file that was opened goes; for "n>" and "n<"
\* the number goes to the other end.
NewFd(op, n, tfd) ==
  CASE op \in {">", ">>"} -> [fd EXCEPT ![W_END] = tfd]
    [] op = "<" -> [fd EXCEPT ![R_END] = tfd]
    [] op = "n<" -> [e \in {R_END, W_END} |-> IF e = R_END THEN tfd ELSE n]
    [] op = "n>" -> [e \in {R_END, W_END} |-> IF e = W_END THEN tfd ELSE n]

\* An operator and the name of the file.
TakesTwo == 2

\* A redirection to or from the file that the next word names.
OpenFile ==
  /\ pc = "scan" /\ i <= argc
  /\ LET op == argv[i].op IN
       /\ op \in {">", ">>", "<", "n>", "n<"}
       /\ IF CanOpen(op)
            THEN \E tfd \in Descriptor :
                   /\ desc[tfd] = Closed /\ \A d \in 0..tfd - 1 : desc[d] # Closed
                   /\ desc' = [desc EXCEPT ![tfd] = Opened(argv[i + 1].name, How(op))]
                   /\ fd' = NewFd(op, argv[i].n, tfd)
            ELSE UNCHANGED <<desc, fd>>
  /\ i' = i + TakesTwo
  /\ UNCHANGED <<line, piped, pc, argv, j>>

\* "n>&m": both numbers are read from the first one.
Duplicate ==
  /\ pc = "scan" /\ i <= argc
  /\ argv[i].op = "n>&m"
  /\ fd' = [e \in {R_END, W_END} |-> argv[i].n]
  /\ i' = i + 1
  /\ UNCHANGED <<line, piped, pc, argv, j, desc>>

\* Mutant: the word is not moved.
MoveNothing == UNCHANGED argv

\* "argv[j++] = argv[i++]".
MoveWord == argv' = [argv EXCEPT ![j] = argv[i]]

KeepWord ==
  /\ pc = "scan" /\ i <= argc
  /\ argv[i].op = "word"
  /\ MoveWord
  /\ i' = i + 1 /\ j' = j + 1
  /\ UNCHANGED <<line, piped, pc, fd, desc>>

\* The loop is over: argc is the number of words kept; in a child, too, a
\* builtin, or no word at all, comes before fd is looked at.
ScanDone ==
  /\ pc = "scan" /\ i > argc
  /\ argv' = SubSeq(argv, 1, j - 1)
  /\ pc' = IF exec_builtin(argv') THEN "builtin" ELSE "dup"
  /\ UNCHANGED <<line, piped, i, j, fd, desc>>

\* dup2 does nothing when its first descriptor is not open.
Dup2(table, from, to) ==
  IF table[from] = Closed THEN table ELSE [table EXCEPT ![to] = table[from]]

Execute ==
  /\ pc = "dup"
  /\ desc' = Dup2(Dup2(desc, fd[R_END], 0), fd[W_END], 1)
  /\ pc' = "exec"
  /\ UNCHANGED <<line, piped, argv, i, j, fd>>

RedirectNext == Start \/ OpenFile \/ Duplicate \/ KeepWord \/ ScanDone \/ Execute

RedirectSpec == RedirectInit /\ [][RedirectNext]_redirectVars

-----------------------------------------------------------------------------
(* Reference: what the shell syntax means, redirections taken from left to  *)
(* right.                                                                   *)

IsOpening(k) == line[k].op \in {">", ">>", "<", "n>", "n<"}
IsName[k \in 0..MaxArgs] == IF k <= 1 THEN FALSE ELSE IsOpening(k - 1) /\ ~IsName[k - 1]
IsRedirect(k) == line[k].op # "word" /\ ~IsName[k]

\* The words that are neither redirections nor names of their files.
WordsBefore[k \in 0..MaxArgs] ==
  IF k = 0 THEN <<>>
  ELSE IF line[k].op = "word" /\ ~IsName[k] THEN Append(WordsBefore[k - 1], line[k])
  ELSE WordsBefore[k - 1]

\* What descriptors 0 to 2 stand for after the first k words, if these hold
\* no operator but ">", ">>" and "<".
Target(k) == IF line[k].op = "<" THEN 0 ELSE 1
After[k \in 0..MaxArgs] ==
  IF k = 0 THEN [d \in 0..2 |-> Std(d)]
  ELSE IF ~IsRedirect(k) THEN After[k - 1]
  ELSE [After[k - 1] EXCEPT
          ![Target(k)] = Opened(line[k + 1].name, How(line[k].op))]

\* Every file is named, and there when it has to be.
WellFormed ==
  \A k \in 1..argc : IsRedirect(k) /\ IsOpening(k) =>
    /\ k < argc
    /\ How(line[k].op) = "read" => line[k + 1].name \in Existing

-----------------------------------------------------------------------------
(* Properties. *)

RedirectTypeOK ==
  /\ pc \in {"start", "scan", "dup", "exec", "builtin"}
  /\ argv \in Seq(Words)
  /\ i \in 1..MaxArgs + 2 /\ j \in 1..MaxArgs + 1
  /\ fd \in [{R_END, W_END} -> Nat]
  /\ DOMAIN desc = Descriptor

\* The words are moved inside argv while it is being read: none is lost,
\* repeated or overwritten before it was read, and the command gets exactly
\* those that belong to no redirection.
WordsKept ==
  /\ RedirectTypeOK
  /\ pc = "scan" => /\ j <= i
                    /\ \A k \in i..argc : argv[k] = line[k]
  /\ pc \in {"dup", "exec"} => argv = WordsBefore[argc]

\* A command with redirections ">", ">>" and "<" only has its stdin, stdout
\* and stderr where they say, the last of several for one descriptor
\* counting.
PlainForms == \A k \in 1..argc : line[k].op \in {"word", ">", ">>", "<"}
PlainRedirects ==
  pc = "exec" /\ PlainForms /\ WellFormed => \A d \in 0..2 : desc[d] = After[argc][d]

(* What these rest on. *)

\* The loop is at a word that names no file, or past the end; behind j are
\* the words kept so far.
ScanInv ==
  /\ line \in Seq(Words) /\ argc \in 1..MaxArgs
  /\ pc = "start" => i = 1
  /\ pc \in {"start", "scan"} =>
       /\ Len(argv) = argc /\ i <= argc + 2 /\ j <= i /\ j <= argc + 1
       /\ \A k \in i..argc : argv[k] = line[k]
       /\ i <= argc => ~IsName[i]
       /\ SubSeq(argv, 1, j - 1) = WordsBefore[IF i <= argc THEN i - 1 ELSE argc]

\* Until execute, fd holds what is to become of 0 and 1, which stand for what
\* they always did; no file was opened as one of them.
FdInv ==
  PlainForms /\ WellFormed /\ pc \in {"start", "scan", "dup"} =>
    /\ pc # "dup" => i <= argc + 1
    /\ \A d \in 0..2 : desc[d] = Std(d)
    /\ LET past == After[IF pc = "dup" THEN argc ELSE i - 1] IN
         /\ past[0] = desc[fd[R_END]] /\ past[1] = desc[fd[W_END]] /\ past[2] = Std(2)
    /\ \A e \in {R_END, W_END} :
         /\ fd[e] \in Descriptor /\ desc[fd[e]] # Closed
         /\ fd[e] = e \/ fd[e] > 2

RedirectInv == WordsKept /\ PlainRedirects /\ ScanInv /\ FdInv
=============================================================================
