---------------------------- MODULE ShellProofs ----------------------------
(* What holds of ShellLoop for any lines typed, any number of them and of   *)
(* Ctrl-C, and any length of the history; and of Redirect, in the second    *)
(* half, for commands of any number of words.                               *)
EXTENDS ShellLoop, Redirect, TLAPS, FiniteSetTheorems, SequenceTheorems, WellFoundedInduction

-----------------------------------------------------------------------------
(* The stack of shells.                                                     *)

\* The shell on top, when there is one.
LEMMA TopType ==
  ASSUME TypeOK, shells # <<>>
  PROVE  /\ Top \in Nat /\ Top > 0 /\ Top \in DOMAIN shells
         /\ DOMAIN shells = 1..Top
         /\ top \in ShellType /\ Len(top.history_cmds) <= HistoryMax
<1>1. shells \in Seq(ShellType)
  BY DEF TypeOK
<1>2. Len(shells) \in Nat /\ Len(shells) > 0 /\ DOMAIN shells = 1..Len(shells)
  BY <1>1
<1>3. Len(shells) \in DOMAIN shells
  BY <1>2
<1>4. shells[Len(shells)] \in ShellType
  BY <1>1, <1>3
<1>5. QED
  BY <1>2, <1>3, <1>4 DEF Top, top, TypeOK

\* The shell on top becomes n.
Becomes(n) == shells' = [shells EXCEPT ![Top] = n]

LEMMA TopChanges ==
  ASSUME TypeOK, shells # <<>>, NEW n \in ShellType, Becomes(n)
  PROVE  /\ shells' \in Seq(ShellType) /\ shells' # <<>>
         /\ Top' = Top /\ top' = n /\ DOMAIN shells' = DOMAIN shells
         /\ shells'[Top] = n
         /\ \A s \in DOMAIN shells : s # Top => shells'[s] = shells[s]
<1>1. shells \in Seq(ShellType) /\ Top \in 1..Len(shells) /\ Top = Len(shells)
  BY TopType DEF TypeOK, Top
<1>2. /\ shells' \in Seq(ShellType) /\ Len(shells') = Len(shells)
      /\ DOMAIN shells' = DOMAIN shells
      /\ shells'[Top] = n
      /\ \A s \in DOMAIN shells : s # Top => shells'[s] = shells[s]
  BY <1>1 DEF Becomes
<1>3. QED
  BY <1>1, <1>2 DEF Top, top

\* The shell on top is gone.
LEMMA TopGone ==
  ASSUME TypeOK, shells # <<>>, Gone
  PROVE  /\ shells' \in Seq(ShellType)
         /\ Top' = Top - 1 /\ DOMAIN shells' = 1..Top - 1
         /\ \A s \in 1..Top - 1 :
              /\ s \in DOMAIN shells /\ shells[s] \in ShellType
              /\ shells'[s] = IF s = Top - 1 THEN [shells[s] EXCEPT !.pc = "check"]
                                             ELSE shells[s]
<1>1. /\ shells \in Seq(ShellType) /\ Top = Len(shells) /\ Top - 1 \in Nat
      /\ DOMAIN shells = 1..Top
  BY TopType DEF TypeOK, Top
<1> DEFINE g(s) == IF s = Top - 1 THEN [shells[s] EXCEPT !.pc = "check"] ELSE shells[s]
<1>2. \A s \in 1..Top - 1 : s \in DOMAIN shells /\ shells[s] \in ShellType
  BY <1>1
<1>3. \A s \in 1..Top - 1 : [shells[s] EXCEPT !.pc = "check"] \in ShellType
  BY <1>2 DEF ShellType
<1>4. \A s \in 1..Top - 1 : g(s) \in ShellType
  BY <1>2, <1>3
<1>5. shells' = [s \in 1..Top - 1 |-> g(s)]
  BY DEF Gone
<1> HIDE DEF g
<1>6. /\ shells' \in Seq(ShellType) /\ Len(shells') = Top - 1
      /\ DOMAIN shells' = 1..Top - 1
      /\ \A s \in 1..Top - 1 : shells'[s] = g(s)
  BY <1>1, <1>4, <1>5
<1>7. QED
  BY <1>2, <1>6 DEF Top, g

\* What each action makes of the shell on top.
LEMMA Changes ==
  ASSUME TypeOK, shells # <<>>
  PROVE  /\ Continue => Becomes([top EXCEPT !.pc = "run"])
         /\ EndOfInput => Becomes([top EXCEPT !.eof = TRUE])
         /\ LineDone => Becomes(Recorded(top))
         /\ Break => Becomes(AfterBreak(top))
         /\ ForkProgram => Becomes(Waiting(top))
         /\ WaitReturns => Becomes(AfterWait(top))
         /\ RunBuiltin => \E n \in AfterBuiltin(top) : Becomes(n)
         /\ EchoLoops => Becomes([top EXCEPT !.pc = "echo", !.todo = Tail(@)])
         /\ ForkFails => Becomes([top EXCEPT !.pc = "check", !.todo = Tail(@)])
<1>1. shells \in Seq(ShellType) /\ Top \in DOMAIN shells /\ top = shells[Top]
      /\ top \in ShellType
  BY TopType DEF TypeOK, top
<1>2. QED
  BY <1>1 DEF Continue, EndOfInput, LineDone, Break, ForkProgram, WaitReturns,
              RunBuiltin, EchoLoops, ForkFails, Becomes, top

-----------------------------------------------------------------------------
(* Type correctness.                                                        *)

\* A shell whose history keeps to its limit.
Bounded == {s \in ShellType : Len(s.history_cmds) <= HistoryMax}

\* What the shell on top becomes is a shell.
LEMMA RecordedType ==
  ASSUME NEW s \in Bounded
  PROVE  /\ Recorded(s) \in Bounded /\ AfterBreak(s) \in Bounded
         /\ AfterBreak(s).todo = <<>> /\ Recorded(s).todo = <<>>
<1> DEFINE h == add_history_inst(s.history_cmds, s.backup_command)
<1>1. s \in ShellType /\ Len(s.history_cmds) <= HistoryMax
      /\ s.history_cmds \in Seq(Seq(Kind)) /\ s.backup_command \in Seq(Kind)
  BY DEF Bounded, ShellType
<1>2. h \in Seq(Seq(Kind)) /\ Len(h) <= HistoryMax
  <2>1. CASE Len(s.history_cmds) >= HistoryMax
    BY <1>1, <2>1 DEF add_history_inst
  <2>2. CASE ~(Len(s.history_cmds) >= HistoryMax)
    <3> HIDE DEF Kind
    <3>1. h = Append(s.history_cmds, s.backup_command)
      BY <2>2 DEF add_history_inst
    <3>2. /\ Append(s.history_cmds, s.backup_command) \in Seq(Seq(Kind))
          /\ Len(Append(s.history_cmds, s.backup_command)) = Len(s.history_cmds) + 1
      BY <1>1
    <3>3. Len(s.history_cmds) + 1 <= HistoryMax
      BY <1>1, <2>2, ShellAssumption
    <3>4. QED
      BY <3>1, <3>2, <3>3
  <2>3. QED
    BY <2>1, <2>2
<1> HIDE DEF h
<1>3. Recorded(s) = [s EXCEPT !.pc = "prompt", !.todo = <<>>, !.history_cmds = h]
  BY DEF Recorded, h
<1>4. Recorded(s) \in ShellType /\ Recorded(s).history_cmds = h /\ Recorded(s).todo = <<>>
  <2>1. <<>> \in Seq(Command) /\ "prompt" \in {"prompt", "check", "run", "wait", "echo"}
    OBVIOUS
  <2>2. QED
    BY <1>1, <1>2, <1>3, <2>1 DEF ShellType
<1>5. /\ AfterBreak(s) \in ShellType /\ AfterBreak(s).history_cmds = h
      /\ AfterBreak(s).todo = <<>>
  BY <1>4 DEF AfterBreak, ShellType
<1>6. QED
  BY <1>2, <1>4, <1>5 DEF Bounded

\* The same for the steps of a command.
LEMMA CommandType ==
  ASSUME NEW s \in Bounded, s.todo # <<>>
  PROVE  /\ Head(s.todo) \in Command /\ Tail(s.todo) \in Seq(Command)
         /\ Waiting(s) \in Bounded
         /\ [s EXCEPT !.pc = "check", !.todo = Tail(@)] \in Bounded
         /\ [s EXCEPT !.pc = "echo", !.todo = Tail(@)] \in Bounded
         /\ AfterBuiltin(s) \subseteq Bounded
<1>1. s \in ShellType /\ s.todo \in Seq(Command) /\ s.command_line \in Seq(Kind)
      /\ s.history_cmds \in Seq(Seq(Kind)) /\ Len(s.history_cmds) <= HistoryMax
      /\ s.selfref \in BOOLEAN
  BY DEF Bounded, ShellType
<1>2. Head(s.todo) \in Command /\ Tail(s.todo) \in Seq(Command)
  BY <1>1
<1>3. Waiting(s) \in Bounded
  BY <1>1, <1>2 DEF Waiting, Bounded, ShellType
<1>4. \A x \in {"check", "echo"} : [s EXCEPT !.pc = x, !.todo = Tail(@)] \in Bounded
  BY <1>1, <1>2 DEF Bounded, ShellType
<1>5. FirstWord(s) \in Seq(Kind)
  <2>1. "builtin" \in Kind
    BY DEF Kind
  <2>2. <<"builtin">> \in Seq(Kind)
    BY <2>1
  <2>3. QED
    BY <1>1, <2>2 DEF FirstWord
<1> DEFINE h == IF Head(s.todo).kind = "clear" THEN <<>> ELSE s.history_cmds
<1>6. h \in Seq(Seq(Kind)) /\ Len(h) <= HistoryMax
  BY <1>1, ShellAssumption
<1> DEFINE n(b) == [s EXCEPT !.pc = "check", !.todo = Tail(@),
                             !.command_line = FirstWord(s), !.selfref = b,
                             !.history_cmds = h]
<1>7. \A m \in AfterBuiltin(s) : \E b \in BOOLEAN : m = n(b)
  BY <1>1 DEF AfterBuiltin
<1> HIDE DEF h
<1>8. \A b \in BOOLEAN : n(b) \in ShellType /\ n(b).history_cmds = h
  BY <1>1, <1>2, <1>5, <1>6 DEF ShellType
<1>9. \A b \in BOOLEAN : n(b) \in Bounded
  BY <1>6, <1>8 DEF Bounded
<1> HIDE DEF n
<1>10. QED
  BY <1>2, <1>3, <1>4, <1>7, <1>9

\* A history holds commands, and so does what it is asked for.
LEMMA ExpandedType ==
  ASSUME TypeOK, shells # <<>>, NEW t \in Typed
  PROVE  Expanded(t) \in Seq(Kind)
<1>1. top.history_cmds \in Seq(Seq(Kind)) /\ t.text \in Seq(Kind) /\ t.n \in Int
  BY TopType, ShellAssumption DEF ShellType
<1> DEFINE h == top.history_cmds
<1>2. h # <<>> => h[Len(h)] \in Seq(Kind)
  <2> SUFFICES ASSUME h # <<>>
               PROVE  h[Len(h)] \in Seq(Kind)
    OBVIOUS
  <2> HIDE DEF h
  <2>1. h \in Seq(Seq(Kind))
    BY <1>1 DEF h
  <2>2. Len(h) \in 1..Len(h)
    BY <2>1
  <2>3. QED
    BY <2>1, <2>2
<1>3. \A n \in 1..Len(h) : h[n] \in Seq(Kind)
  BY <1>1
<1> HIDE DEF h
<1>4. get_history_by_number(h, t) \in Seq(Kind)
  BY <1>2, <1>3 DEF get_history_by_number
<1>5. QED
  BY <1>1, <1>4 DEF Expanded, h

LEMMA LeftoverType ==
  ASSUME TypeOK, shells # <<>>, NEW text \in Leftover(top)
  PROVE  text \in Seq(Kind)
<1>1. top.command_line \in Seq(Kind)
  BY TopType DEF ShellType
<1>2. "bad" \in Kind
  BY DEF Kind
<1> HIDE DEF Kind
<1>3. CASE top.command_line = <<>>
  <2>1. text = <<>> \/ text = <<"bad">>
    BY <1>3 DEF Leftover
  <2>2. <<>> \in Seq(Kind)
    OBVIOUS
  <2>3. <<"bad">> \in Seq(Kind)
    BY <1>2
  <2>4. QED
    BY <2>1, <2>2, <2>3
<1>4. CASE top.command_line = <<"pipe">>
  <2>1. PICK k \in Kind : text = <<k>>
    BY <1>4 DEF Leftover
  <2>2. QED
    BY <2>1
<1>5. CASE top.command_line # <<>> /\ top.command_line # <<"pipe">>
  BY <1>1, <1>5 DEF Leftover
<1>6. QED
  BY <1>3, <1>4, <1>5

\* What the shell on top becomes with a line that is not empty.
NewLine(text) ==
  [top EXCEPT !.pc = "check", !.line = lines + 1,
              !.todo = [z \in DOMAIN text |->
                          [kind |-> text[z], line |-> lines + 1, place |-> z]],
              !.backup_command = text,
              !.command_line = SubSeq(text, 1, 1)]

LEMMA NewLineType ==
  ASSUME TypeOK, shells # <<>>, NEW text \in Seq(Kind), text # <<>>, lines < MaxLines
  PROVE  NewLine(text) \in Bounded
<1>1. top \in ShellType /\ Len(top.history_cmds) <= HistoryMax
  BY TopType
<1>2. lines + 1 \in 1..MaxLines /\ lines + 1 \in 0..MaxLines
  BY ShellAssumption DEF TypeOK
<1> DEFINE c(z) == [kind |-> text[z], line |-> lines + 1, place |-> z]
<1>3. Len(text) \in Nat /\ DOMAIN text = 1..Len(text) /\ \A z \in DOMAIN text : text[z] \in Kind
  OBVIOUS
<1>4. \A z \in DOMAIN text : c(z) \in Command
  BY <1>2, <1>3 DEF Command
<1> HIDE DEF c
<1>5. [z \in 1..Len(text) |-> c(z)] \in Seq(Command)
  BY <1>3, <1>4
<1>6. SubSeq(text, 1, 1) \in Seq(Kind)
  <2>1. Len(text) >= 1
    BY <1>3
  <2>2. QED
    BY <1>3, <2>1, SubSeqProperties
<1> DEFINE d == [z \in 1..Len(text) |-> c(z)]
<1>7. NewLine(text) = [top EXCEPT !.pc = "check", !.line = lines + 1, !.todo = d,
                                  !.backup_command = text,
                                  !.command_line = SubSeq(text, 1, 1)]
  BY <1>3 DEF NewLine, c
<1> HIDE DEF d
<1>8. d \in Seq(Command)
  BY <1>5 DEF d
<1>9. QED
  BY <1>1, <1>2, <1>6, <1>7, <1>8 DEF ShellType, Bounded

\* The two ways a line starts.
LEMMA LineStarts ==
  ASSUME TypeOK, (\E t \in Typed : ReadLine(t)) \/ ReadAgain
  PROVE  /\ At("prompt") /\ lines < MaxLines /\ lines' = lines + 1
         /\ UNCHANGED <<child, file, sigints, ghosts>>
         /\ \/ Gone
            \/ \E text \in Seq(Kind) : text # <<>> /\ Becomes(NewLine(text))
<1>1. At("prompt") /\ shells # <<>>
  BY DEF ReadLine, ReadAgain, At
<1>2. PICK text \in Seq(Kind) : StartLine(text)
  BY <1>1, ExpandedType, LeftoverType DEF ReadLine, ReadAgain
<1>3. shells \in Seq(ShellType) /\ Top \in DOMAIN shells /\ top = shells[Top]
      /\ top \in ShellType
  BY <1>1, TopType DEF TypeOK, top
<1>4. ASSUME text # <<>>, lines' = lines + 1,
             shells' = [shells EXCEPT ![Top].pc = "check", ![Top].line = lines',
                        ![Top].todo = [z \in DOMAIN text |->
                           [kind |-> text[z], line |-> lines', place |-> z]],
                        ![Top].backup_command = text,
                        ![Top].command_line = SubSeq(text, 1, 1)]
      PROVE  Becomes(NewLine(text))
  BY <1>3, <1>4 DEF Becomes, NewLine, top
<1>5. QED
  BY <1>1, <1>2, <1>4 DEF StartLine

LEMMA AllBounded ==
  ASSUME TypeOK
  PROVE  /\ \A s \in DOMAIN shells : shells[s] \in Bounded
         /\ shells # <<>> => top \in Bounded /\ top = shells[Top] /\ Top \in DOMAIN shells
<1>1. \A s \in DOMAIN shells : shells[s] \in Bounded
  <2>1. shells \in Seq(ShellType)
    BY DEF TypeOK
  <2>2. \A s \in DOMAIN shells : shells[s] \in ShellType
    BY <2>1
  <2>3. \A s \in DOMAIN shells : Len(shells[s].history_cmds) <= HistoryMax
    BY DEF TypeOK
  <2>4. QED
    BY <2>2, <2>3 DEF Bounded
<1>2. QED
  BY <1>1, TopType DEF top

\* The command that is being started.
LEMMA HeadType ==
  ASSUME ShellInv, At("run")
  PROVE  /\ top.todo # <<>> /\ top \in Bounded /\ Top \in Nat /\ shells # <<>>
         /\ Head(top.todo) = top.todo[1] /\ 1 \in DOMAIN top.todo
         /\ Head(top.todo) \in Command /\ top.todo \in Seq(Command)
<1>1. TypeOK /\ shells # <<>> /\ top.pc = "run"
  BY DEF ShellInv, At
<1>2. /\ top \in Bounded /\ top = shells[Top] /\ Top \in DOMAIN shells /\ Top \in Nat
  BY <1>1, AllBounded, TopType
<1>3. top.todo # <<>> /\ top.todo \in Seq(Command)
  BY <1>1, <1>2 DEF ShellInv, LinesInv, Bounded, ShellType
<1>4. QED
  BY <1>1, <1>2, <1>3

\* The line of a shell with commands left is one that was typed.
LEMMA LineType ==
  ASSUME ShellInv, NEW s \in DOMAIN shells, shells[s].todo # <<>>
  PROVE  shells[s].line \in 1..MaxLines
<1>1. shells[s].todo \in Seq(Command)
  BY AllBounded DEF ShellInv, Bounded, ShellType
<1>2. shells[s].todo[1] \in Command /\ 1 \in DOMAIN shells[s].todo
  BY <1>1
<1>3. shells[s].todo[1].line = shells[s].line
  BY <1>2 DEF ShellInv, LinesInv
<1>4. QED
  BY <1>2, <1>3 DEF Command

\* What the actions do to the stack: the shell on top changes or is gone.
LEMMA StackStep ==
  ASSUME ShellInv, [Shell \/ Program \/ EndOfInput \/ \E t \in Typed : ReadLine(t)]_vars,
         ~ForkBad
  PROVE  \/ UNCHANGED shells
         \/ shells # <<>> /\ Gone
         \/ shells # <<>> /\ \E n \in Bounded : Becomes(n)
<1>0. TypeOK
  BY DEF ShellInv
<1>1. CASE ReadAgain \/ \E t \in Typed : ReadLine(t)
  BY <1>0, <1>1, LineStarts, NewLineType DEF At
<1>2. CASE EndOfInput
  <2>1. shells # <<>> /\ top \in Bounded
    BY <1>0, <1>2, AllBounded DEF EndOfInput, At
  <2>2. [top EXCEPT !.eof = TRUE] \in Bounded
    BY <2>1 DEF Bounded, ShellType
  <2>3. QED
    BY <1>0, <1>2, <2>1, <2>2, Changes
<1>3. CASE LineDone \/ Break
  <2>1. shells # <<>> /\ top \in Bounded
    BY <1>0, <1>3, AllBounded DEF LineDone, Break, At
  <2>2. QED
    BY <1>0, <1>3, <2>1, RecordedType, Changes
<1>4. CASE Continue
  <2>1. shells # <<>> /\ top \in Bounded
    BY <1>0, <1>4, AllBounded DEF Continue, At
  <2>2. [top EXCEPT !.pc = "run"] \in Bounded
    BY <2>1 DEF Bounded, ShellType
  <2>3. QED
    BY <1>0, <1>4, <2>1, <2>2, Changes
<1>5. CASE RunBuiltin \/ EchoLoops \/ ForkProgram \/ ForkFails
  <2>1. shells # <<>> /\ top \in Bounded /\ top.todo # <<>>
    BY <1>5, HeadType DEF RunBuiltin, EchoLoops, ForkProgram, ForkFails, Starts
  <2>2. QED
    BY <1>0, <1>5, <2>1, CommandType, Changes
<1>6. CASE BuiltinCrashes \/ RunExit
  BY <1>6 DEF BuiltinCrashes, RunExit, Starts, At
<1>7. CASE WaitReturns
  <2>1. shells # <<>> /\ top \in Bounded
    BY <1>0, <1>7, AllBounded DEF WaitReturns, At
  <2>2. AfterWait(top) \in Bounded
    BY <2>1 DEF Bounded, ShellType, AfterWait
  <2>3. QED
    BY <1>0, <1>7, <2>1, <2>2, Changes
<1>8. CASE Program \/ UNCHANGED vars
  BY <1>8 DEF Program, Forked, Exec, ChildExits, ProgramEnds, vars
<1>9. QED
  BY <1>1, <1>2, <1>3, <1>4, <1>5, <1>6, <1>7, <1>8 DEF Shell

\* A child of a shell, with a copy of its parent's line.
LEMMA ForkStack ==
  ASSUME ShellInv, ForkBad
  PROVE  /\ shells' \in Seq(Bounded) /\ shells \in Seq(Bounded)
         /\ Top \in Nat /\ Top > 0 /\ Top' = Top + 1
         /\ DOMAIN shells = 1..Top /\ DOMAIN shells' = 1..Top + 1
         /\ \A s \in 1..Top - 1 : shells'[s] = shells[s]
         /\ shells'[Top] = Waiting(top) /\ shells'[Top + 1] = Child
         /\ top' = Child
<1>0. TypeOK /\ shells # <<>>
  BY DEF ShellInv, ForkBad, At
<1>1. /\ shells \in Seq(ShellType) /\ Top = Len(shells) /\ Top \in Nat /\ Top > 0
      /\ DOMAIN shells = 1..Top /\ \A s \in DOMAIN shells : shells[s] \in Bounded
      /\ top = shells[Top]
  BY <1>0, TopType, AllBounded DEF TypeOK, Top
<1>2. shells \in Seq(Bounded)
  BY <1>1
<1>3. Waiting(top) \in Bounded /\ Child \in Bounded
  BY HeadType, CommandType DEF ForkBad, Child
<1> DEFINE w == [shells EXCEPT ![Top] = Waiting(@)]
<1>4. shells' = Append(w, Child)
  BY DEF ForkBad
<1> HIDE DEF ShellType, Bounded
<1>5. w = [shells EXCEPT ![Top] = Waiting(top)]
  BY <1>1
<1>6. /\ w \in Seq(Bounded) /\ Len(w) = Top
      /\ w[Top] = Waiting(top) /\ \A s \in 1..Top - 1 : w[s] = shells[s]
  BY <1>1, <1>2, <1>3, <1>5
<1> HIDE DEF w
<1>7. /\ shells' \in Seq(Bounded) /\ Len(shells') = Top + 1
      /\ \A s \in 1..Top : shells'[s] = w[s]
      /\ shells'[Top + 1] = Child
  BY <1>1, <1>3, <1>4, <1>6
<1>8. QED
  BY <1>1, <1>2, <1>6, <1>7 DEF Top, top

\* The handler of every shell sets its is_exit.
LEMMA SigintStack ==
  ASSUME ShellInv, Sigint
  PROVE  /\ shells' \in Seq(Bounded) /\ Top' = Top /\ DOMAIN shells' = DOMAIN shells
         /\ \A s \in DOMAIN shells : shells'[s] = [shells[s] EXCEPT !.is_exit = TRUE]
         /\ top' = [top EXCEPT !.is_exit = TRUE]
<1>0. TypeOK /\ shells # <<>>
  BY DEF ShellInv, Sigint
<1>1. /\ shells \in Seq(ShellType) /\ Top = Len(shells) /\ Top \in DOMAIN shells
      /\ \A s \in DOMAIN shells : shells[s] \in Bounded
  BY <1>0, TopType, AllBounded DEF TypeOK, Top
<1> DEFINE g(s) == [shells[s] EXCEPT !.is_exit = TRUE]
<1>2. \A s \in DOMAIN shells : g(s) \in Bounded
  BY <1>1 DEF Bounded, ShellType
<1>3. shells' = [s \in 1..Len(shells) |-> g(s)] /\ Len(shells) \in Nat
      /\ DOMAIN shells = 1..Len(shells)
  BY <1>1 DEF Sigint
<1> HIDE DEF g, Bounded, ShellType
<1>4. /\ shells' \in Seq(Bounded) /\ Len(shells') = Len(shells)
      /\ \A s \in DOMAIN shells : shells'[s] = g(s)
  BY <1>2, <1>3
<1>5. QED
  BY <1>1, <1>3, <1>4 DEF Top, top, g

LEMMA TypeStep ==
  ASSUME ShellInv, [Next]_vars
  PROVE  TypeOK'
<1>0. TypeOK
  BY DEF ShellInv
<1>1. shells' \in Seq(ShellType) /\ \A s \in DOMAIN shells' : shells'[s] \in Bounded
  <2>1. CASE UNCHANGED shells
    BY <1>0, <2>1, AllBounded DEF TypeOK
  <2>2. CASE shells # <<>> /\ Gone
    <3>1. /\ shells' \in Seq(ShellType) /\ DOMAIN shells' = 1..Top - 1
          /\ \A s \in 1..Top - 1 :
              /\ s \in DOMAIN shells
              /\ shells'[s] = IF s = Top - 1 THEN [shells[s] EXCEPT !.pc = "check"]
                                             ELSE shells[s]
      BY <1>0, <2>2, TopGone
    <3>2. \A s \in DOMAIN shells : [shells[s] EXCEPT !.pc = "check"] \in Bounded
      BY <1>0, AllBounded DEF Bounded, ShellType
    <3>3. QED
      BY <1>0, <3>1, <3>2, AllBounded
  <2>3. CASE shells # <<>> /\ \E n \in Bounded : Becomes(n)
    <3>1. PICK n \in Bounded : Becomes(n)
      BY <2>3
    <3>2. n \in ShellType
      BY DEF Bounded
    <3>3. QED
      BY <1>0, <2>3, <3>1, <3>2, TopChanges, AllBounded
  <2>4. CASE ForkBad \/ Sigint
    <3>1. shells' \in Seq(Bounded)
      BY <2>4, ForkStack, SigintStack
    <3>2. Bounded \subseteq ShellType
      BY DEF Bounded
    <3>3. QED
      BY <3>1, <3>2
  <2>5. CASE NewSession
    <3>1. NewShell(file) \in Bounded
      <4>1. file \in Seq(Seq(Kind)) /\ Len(file) <= HistoryMax
        BY <1>0 DEF TypeOK
      <4>2. <<>> \in Seq(Command) /\ <<>> \in Seq(Kind) /\ 0 \in 0..MaxLines
        BY ShellAssumption
      <4>3. QED
        BY <4>1, <4>2 DEF NewShell, Bounded, ShellType
    <3>2. shells' = <<NewShell(file)>>
      BY <2>5 DEF NewSession
    <3>3. Bounded \subseteq ShellType
      BY DEF Bounded
    <3>4. QED
      BY <3>1, <3>2, <3>3
  <2>6. QED
    BY <2>1, <2>2, <2>3, <2>4, <2>5, StackStep DEF Next, User
<1>2. /\ child' \in {"none", "forked", "running", "piping", "saving", "ended", "reaped"}
      /\ lines' \in 0..MaxLines /\ sigints' \in 0..MaxSigints
  <2>1. /\ child \in {"none", "forked", "running", "piping", "saving", "ended", "reaped"}
        /\ lines \in Nat /\ lines \in 0..MaxLines /\ sigints \in 0..MaxSigints
    BY <1>0, ShellAssumption DEF TypeOK
  <2>2. CASE ReadAgain \/ \E t \in Typed : ReadLine(t)
    <3>1. lines < MaxLines /\ lines' = lines + 1 /\ UNCHANGED <<child, sigints>>
      BY <1>0, <2>2, LineStarts
    <3>2. QED
      BY <2>1, <3>1, ShellAssumption
  <2>3. CASE Sigint
    BY <2>1, <2>3, ShellAssumption DEF Sigint, Interrupted
  <2>4. CASE NewSession \/ EndOfInput \/ LineDone \/ Break \/ Continue
             \/ WaitReturns \/ UNCHANGED vars
    BY <2>1, <2>4 DEF NewSession, EndOfInput, LineDone, Break, Continue, WaitReturns, vars
  <2>5. CASE RunBuiltin \/ EchoLoops \/ BuiltinCrashes \/ RunExit \/ ForkProgram
             \/ ForkFails \/ ForkBad
    BY <2>1, <2>5 DEF RunBuiltin, EchoLoops, BuiltinCrashes, RunExit, ForkProgram,
                      ForkFails, ForkBad, Starts
  <2>6. CASE Program
    BY <2>1, <2>6 DEF Program, Forked, Exec, ChildExits, ProgramEnds
  <2>7. QED
    BY <2>2, <2>3, <2>4, <2>5, <2>6 DEF Next, User, Shell
<1>3. file' \in Seq(Seq(Kind)) /\ Len(file') <= HistoryMax
  <2>1. UNCHANGED file \/ (shells # <<>> /\ file' = top.history_cmds)
    BY <1>0, LineStarts
    DEF Next, User, Shell, Program, Forked, NewSession, Sigint, EndOfInput, LineDone,
        Break, Continue, RunBuiltin, EchoLoops,
        BuiltinCrashes, RunExit, ForkProgram, ForkFails, WaitReturns,
        ForkBad, Exec, ChildExits, ProgramEnds, Starts, vars, At, ShellInv, OneAtWork
  <2>2. QED
    BY <1>0, <2>1, TopType DEF TypeOK, ShellType
<1>4. doomed' \cup started' \subseteq Nat \X Command
  <2>1. doomed \cup started \subseteq Nat \X Command
    BY <1>0 DEF TypeOK
  <2>2. At("run") => <<Top, Head(top.todo)>> \in Nat \X Command
    BY HeadType
  <2>3. Sigint => doomed' \subseteq Nat \X Command /\ UNCHANGED started
    <3> SUFFICES ASSUME Sigint, NEW s \in DOMAIN shells, NEW z \in NotChecked(s)
                 PROVE  <<s, shells[s].todo[z]>> \in Nat \X Command
      BY <2>1 DEF Sigint
    <3>1. s \in Nat /\ shells[s].todo \in Seq(Command)
      BY <1>0, AllBounded, TopType DEF Sigint, Bounded, ShellType
    <3>2. QED
      BY <3>1 DEF NotChecked
  <2>4. QED
    BY <1>0, <2>1, <2>2, <2>3, LineStarts
    DEF Next, User, Shell, Program, Forked, NewSession, EndOfInput, LineDone,
        Break, Continue, RunBuiltin, EchoLoops,
        BuiltinCrashes, RunExit, ForkProgram, ForkFails, WaitReturns,
        ForkBad, OfShells, Exec, ChildExits, ProgramEnds, Starts, vars, ghosts
<1>5. dropped' \subseteq Nat \X (1..MaxLines)
  <2>1. dropped \subseteq Nat \X (1..MaxLines)
    BY <1>0 DEF TypeOK
  <2>2. Break => <<Top, top.line>> \in Nat \X (1..MaxLines)
    BY <1>0, TopType, AllBounded, LineType DEF Break, At, ShellInv
  <2>3. QED
    BY <1>0, <2>1, <2>2, LineStarts
    DEF Next, User, Shell, Program, Forked, NewSession, Sigint, EndOfInput, LineDone,
        Break, Continue, RunBuiltin, EchoLoops,
        BuiltinCrashes, RunExit, ForkProgram, ForkFails, WaitReturns,
        ForkBad, Exec, ChildExits, ProgramEnds, Starts, vars, ghosts
<1>6. \A h \in {file'} \cup {shells'[s].history_cmds : s \in DOMAIN shells'} :
        Len(h) <= HistoryMax
  BY <1>1, <1>3 DEF Bounded
<1>7. QED
  BY <1>1, <1>2, <1>3, <1>4, <1>5, <1>6 DEF TypeOK

-----------------------------------------------------------------------------
(* The rest of the invariant.                                               *)

Rest == OneAtWork /\ LinesInv /\ StopInv /\ InterruptStopsLine /\ DropInv

\* A shell loses finitely many lines.
LEMMA LostFinite ==
  ASSUME TypeOK, NEW s
  PROVE  IsFiniteSet({x \in dropped : x[1] = s})
<1>1. {x \in dropped : x[1] = s} \subseteq {s} \X (1..MaxLines)
  BY DEF TypeOK
<1>2. IsFiniteSet({s})
  BY FS_Singleton
<1>3. MaxLines \in Int
  BY ShellAssumption
<1>4. IsFiniteSet(1..MaxLines)
  BY <1>3, FS_Interval
<1>5. IsFiniteSet({s} \X (1..MaxLines))
  BY <1>2, <1>4, FS_Product
<1>6. QED
  BY <1>1, <1>5, FS_Subset

\* Steps after which nobody owes a line who did not owe one before.
LEMMA DropKept ==
  ASSUME TypeOK, DropInv, UNCHANGED dropped, sigints' \in Nat, sigints <= sigints',
         \A s \in Nat : Owed(s)' => Owed(s)
  PROVE  DropInv'
<1> SUFFICES ASSUME NEW s \in Nat
             PROVE  (Lost(s) + (IF Owed(s) THEN 1 ELSE 0) <= sigints)'
  BY DEF DropInv
<1>1. Lost(s) + (IF Owed(s) THEN 1 ELSE 0) <= sigints
  BY DEF DropInv
<1>2. Lost(s)' = Lost(s) /\ Lost(s) \in Nat
  BY LostFinite, FS_CardinalityType DEF Lost
<1>3. Owed(s)' => Owed(s)
  OBVIOUS
<1>4. sigints \in Nat
  BY ShellAssumption DEF TypeOK
<1>5. CASE Owed(s)
  BY <1>1, <1>2, <1>4, <1>5
<1>6. CASE ~Owed(s)
  BY <1>1, <1>2, <1>3, <1>4, <1>6
<1>7. QED
  BY <1>5, <1>6

\* A shell is gone, and its parent gets on.
LEMMA GoneStep ==
  ASSUME ShellInv, shells # <<>>, Gone, child = "none",
         UNCHANGED <<child, sigints, doomed, dropped>>,
         lines' = lines \/ lines' = lines + 1,
         \/ UNCHANGED started
         \/ At("run") /\ started' = started \cup {<<Top, Head(top.todo)>>}
  PROVE  Rest'
<1>0. TypeOK /\ Top \in Nat /\ Top > 0 /\ Top \in DOMAIN shells /\ DOMAIN shells = 1..Top
      /\ top = shells[Top] /\ lines \in Nat /\ sigints \in Nat
  BY TopType, ShellAssumption DEF ShellInv, TypeOK, top
<1>1. /\ Top' = Top - 1 /\ DOMAIN shells' = 1..Top - 1
      /\ \A s \in 1..Top - 1 :
           /\ s \in DOMAIN shells /\ shells[s] \in ShellType
           /\ shells'[s] = IF s = Top - 1 THEN [shells[s] EXCEPT !.pc = "check"]
                                          ELSE shells[s]
  BY <1>0, TopGone
<1>2. \A s \in 1..Top - 1 : /\ shells'[s].todo = shells[s].todo
                            /\ shells'[s].line = shells[s].line
                            /\ shells'[s].is_exit = shells[s].is_exit
                            /\ shells'[s].pc = IF s = Top - 1 THEN "check" ELSE "wait"
  BY <1>0, <1>1 DEF ShellType, ShellInv, OneAtWork
<1>3. \A x \in {"run", "wait"} : ~At(x)'
  <2>1. CASE Top = 1
    <3>1. Top' = 0 /\ DOMAIN shells' = {}
      BY <1>0, <1>1, <2>1
    <3>2. shells' \in Seq(ShellType)
      BY <1>0, TopGone
    <3>3. shells' = <<>>
      BY <3>1, <3>2
    <3>4. QED
      BY <3>3 DEF At
  <2>2. CASE Top # 1
    <3>1. Top' \in 1..Top - 1 /\ top' = shells'[Top']
      BY <1>0, <1>1, <2>2 DEF top, Top
    <3>2. QED
      BY <1>1, <1>2, <3>1 DEF At
  <2>3. QED
    BY <2>1, <2>2
<1>4. OneAtWork'
  <2>1. \A s \in 1..Top' - 1 : shells'[s].pc = "wait"
    BY <1>0, <1>1, <1>2
  <2>2. QED
    BY <1>3, <2>1 DEF OneAtWork
<1>5. At("run") => /\ Head(top.todo) = top.todo[1] /\ 1 \in DOMAIN top.todo
                   /\ Head(top.todo).line <= lines
                   /\ <<Top, Head(top.todo)>> \notin doomed
  <2>1. At("run") => /\ Head(top.todo) = top.todo[1] /\ 1 \in DOMAIN top.todo
                     /\ top.pc = "run"
    BY HeadType DEF At
  <2>2. At("run") => Head(top.todo).line <= lines
    BY <1>0, <2>1 DEF ShellInv, LinesInv
  <2>3. At("run") => 1 \notin NotChecked(Top)
    BY <1>0, <2>1 DEF NotChecked
  <2>4. QED
    BY <1>0, <2>1, <2>2, <2>3 DEF ShellInv, StopInv
<1>6. LinesInv'
  <2>1. \A x \in doomed' \cup started' : x[2].line <= lines
    BY <1>5 DEF ShellInv, LinesInv
  <2>2. \A x \in doomed' \cup started' : x[2].line \in Int
    <3>1. doomed \cup started \subseteq Nat \X Command
      BY <1>0 DEF TypeOK
    <3>2. At("run") => Head(top.todo) \in Command
      BY HeadType
    <3>3. QED
      BY <3>1, <3>2 DEF Command
  <2>3. \A s \in 1..Top - 1 : shells[s].line \in Int
    BY <1>1 DEF ShellType
  <2>4. QED
    BY <1>0, <1>1, <1>2, <2>1, <2>2, <2>3 DEF LinesInv, ShellInv
<1>7. StopInv'
  <2> SUFFICES ASSUME NEW s \in 1..Top - 1, NEW z \in DOMAIN shells[s].todo
               PROVE  /\ <<s, shells[s].todo[z]>> \notin started'
                      /\ <<s, shells[s].todo[z]>> \in doomed =>
                           shells'[s].is_exit /\ z \in NotChecked(s)'
    BY <1>1, <1>2 DEF StopInv
  <2>1. s \in DOMAIN shells /\ s # Top
    BY <1>0, <1>1
  <2>2. <<s, shells[s].todo[z]>> \notin started'
    BY <2>1 DEF StopInv, ShellInv
  <2>3. z \in NotChecked(s)'
    BY <1>2 DEF NotChecked
  <2>4. QED
    BY <1>2, <2>1, <2>2, <2>3 DEF StopInv, ShellInv
<1>8. InterruptStopsLine'
  BY <1>5 DEF InterruptStopsLine, ShellInv
<1>9. DropInv'
  <2>1. \A s \in Nat : Owed(s)' => Owed(s)
    BY <1>0, <1>1, <1>2, <1>3 DEF Owed
  <2>2. QED
    BY <1>0, <2>1, DropKept DEF ShellInv
<1>10. QED
  BY <1>4, <1>6, <1>7, <1>8, <1>9 DEF Rest

\* The shell on top goes on in its line, after it has started d commands.
Follows(n, d) ==
  /\ n.line = top.line /\ n.is_exit = top.is_exit
  /\ \A z \in DOMAIN n.todo : z + d \in DOMAIN top.todo /\ n.todo[z] = top.todo[z + d]
  /\ \/ d = 0 /\ UNCHANGED started
     \/ d = 1 /\ At("run") /\ started' = started \cup {<<Top, Head(top.todo)>>}
LEMMA TopStep ==
  ASSUME ShellInv, shells # <<>>, NEW n \in Bounded, Becomes(n), NEW d \in {0, 1},
         Follows(n, d), n.pc = "run" => n.todo # <<>> /\ ~top.is_exit,
         n.pc = "wait" <=> child' # "none",
         UNCHANGED <<doomed, lines, sigints, dropped>>
  PROVE  Rest'
<1> USE DEF Follows
<1>0. /\ TypeOK /\ Top \in Nat /\ Top > 0 /\ Top \in DOMAIN shells
      /\ DOMAIN shells = 1..Top /\ top = shells[Top] /\ sigints \in Nat
  BY TopType, ShellAssumption DEF ShellInv, TypeOK, top
<1>1. /\ shells' # <<>> /\ Top' = Top /\ top' = n /\ DOMAIN shells' = DOMAIN shells
      /\ shells'[Top] = n
      /\ \A s \in DOMAIN shells : s # Top => shells'[s] = shells[s]
  <2>1. n \in ShellType
    BY DEF Bounded
  <2>2. QED
    BY <1>0, <2>1, TopChanges
<1>2. OneAtWork'
  BY <1>0, <1>1 DEF OneAtWork, ShellInv, At
<1>3. n.todo \in Seq(Command) /\ top.todo \in Seq(Command)
  BY <1>0, TopType DEF Bounded, ShellType
<1>4. d = 1 => /\ Head(top.todo) = top.todo[1] /\ 1 \in DOMAIN top.todo
               /\ Head(top.todo).line <= lines
               /\ <<Top, Head(top.todo)>> \notin doomed
  <2>1. d = 1 => /\ Head(top.todo) = top.todo[1] /\ 1 \in DOMAIN top.todo
                 /\ top.pc = "run"
    BY HeadType DEF At
  <2>2. d = 1 => Head(top.todo).line <= lines
    BY <1>0, <2>1 DEF ShellInv, LinesInv
  <2>3. d = 1 => 1 \notin NotChecked(Top)
    BY <1>0, <2>1 DEF NotChecked
  <2>4. QED
    BY <1>0, <2>1, <2>2, <2>3 DEF ShellInv, StopInv
<1>5. LinesInv'
  <2>1. \A x \in doomed' \cup started' : x[2].line <= lines
    BY <1>4 DEF ShellInv, LinesInv
  <2>2. /\ n.line <= lines
        /\ n.pc = "run" => n.todo # <<>>
        /\ \A z \in DOMAIN n.todo : n.todo[z].line = n.line
    BY <1>0 DEF ShellInv, LinesInv
  <2>3. \A z, k \in DOMAIN n.todo : z < k => n.todo[z].place < n.todo[k].place
    <3> SUFFICES ASSUME NEW z \in DOMAIN n.todo, NEW k \in DOMAIN n.todo, z < k
                 PROVE  n.todo[z].place < n.todo[k].place
      OBVIOUS
    <3>1. z \in Int /\ k \in Int /\ z + d < k + d
      BY <1>3
    <3>2. \A a, b \in DOMAIN top.todo : a < b => top.todo[a].place < top.todo[b].place
      BY <1>0 DEF ShellInv, LinesInv
    <3>3. QED
      BY <3>1, <3>2
  <2>4. QED
    BY <1>0, <1>1, <2>1, <2>2, <2>3 DEF LinesInv, ShellInv
<1>6. StopInv'
  <2> SUFFICES ASSUME NEW s \in DOMAIN shells, NEW z \in DOMAIN shells'[s].todo
               PROVE  /\ <<s, shells'[s].todo[z]>> \notin started'
                      /\ <<s, shells'[s].todo[z]>> \in doomed =>
                           shells'[s].is_exit /\ z \in NotChecked(s)'
    BY <1>1 DEF StopInv
  <2>1. CASE s # Top
    <3>1. shells'[s] = shells[s]
      BY <1>1, <2>1
    <3>2. <<s, shells[s].todo[z]>> \notin started'
      <4>1. <<s, shells[s].todo[z]>> \notin started
        BY <3>1 DEF StopInv, ShellInv
      <4>2. started' \subseteq started \cup {<<Top, Head(top.todo)>>}
        OBVIOUS
      <4>3. QED
        BY <2>1, <4>1, <4>2
    <3>3. QED
      BY <3>1, <3>2 DEF StopInv, ShellInv, NotChecked
  <2>2. CASE s = Top
    <3>1. /\ n.todo[z] = top.todo[z + d] /\ z + d \in DOMAIN top.todo
          /\ z \in Nat /\ z > 0
      BY <1>1, <1>3, <2>2
    <3>2. <<Top, n.todo[z]>> \notin started
      BY <1>0, <3>1 DEF StopInv, ShellInv
    <3>3. d = 1 => n.todo[z] # Head(top.todo)
      <4> SUFFICES ASSUME d = 1
                   PROVE  n.todo[z] # Head(top.todo)
        OBVIOUS
      <4>1. 1 < z + 1 /\ 1 \in DOMAIN top.todo /\ z + 1 \in DOMAIN top.todo
        BY <1>4, <3>1
      <4>2. top.todo[1].place < top.todo[z + 1].place
        BY <1>0, <4>1 DEF LinesInv, ShellInv
      <4>3. top.todo[1] \in Command
        BY <1>3, <4>1
      <4>4. top.todo[1].place \in Nat
        BY <4>3 DEF Command
      <4>5. top.todo[z + 1] # top.todo[1]
        BY <4>2, <4>4
      <4>6. QED
        BY <1>4, <3>1, <4>5
    <3>4. <<Top, n.todo[z]>> \notin started'
      BY <3>2, <3>3
    <3>5. <<Top, n.todo[z]>> \in doomed => top.is_exit
      BY <1>0, <3>1 DEF StopInv, ShellInv
    <3>6. top.is_exit => z \in NotChecked(Top)'
      BY <1>1, <2>2 DEF NotChecked
    <3>7. QED
      BY <1>1, <2>2, <3>4, <3>5, <3>6
  <2>3. QED
    BY <2>1, <2>2
<1>7. InterruptStopsLine'
  BY <1>4 DEF InterruptStopsLine, ShellInv
<1>8. DropInv'
  <2>1. \A s \in Nat : Owed(s)' => Owed(s)
    BY <1>0, <1>1 DEF Owed, At
  <2>2. QED
    BY <1>0, <2>1, DropKept DEF ShellInv
<1>9. QED
  BY <1>2, <1>5, <1>6, <1>7, <1>8 DEF Rest

\* A line is typed: it has a number of its own.
LEMMA NewLineStep ==
  ASSUME ShellInv, At("prompt"), lines < MaxLines, lines' = lines + 1,
         UNCHANGED <<child, file, sigints, ghosts>>,
         NEW text \in Seq(Kind), text # <<>>, Becomes(NewLine(text))
  PROVE  Rest'
<1> DEFINE n == NewLine(text)
<1>0. /\ TypeOK /\ shells # <<>> /\ Top \in Nat /\ Top > 0 /\ Top \in DOMAIN shells
      /\ DOMAIN shells = 1..Top /\ top = shells[Top] /\ sigints \in Nat /\ lines \in Nat
      /\ top \in ShellType /\ top.pc = "prompt" /\ child = "none"
  BY TopType, ShellAssumption DEF ShellInv, TypeOK, top, At, OneAtWork
<1>1. /\ n.pc = "check" /\ n.line = lines + 1 /\ n.is_exit = top.is_exit
      /\ DOMAIN n.todo = DOMAIN text
      /\ \A z \in DOMAIN n.todo : n.todo[z].line = lines + 1 /\ n.todo[z].place = z
  BY <1>0 DEF NewLine, ShellType
<1>2. n \in ShellType
  BY <1>0, NewLineType DEF Bounded
<1> HIDE DEF n
<1>3. /\ shells' # <<>> /\ Top' = Top /\ top' = n /\ DOMAIN shells' = DOMAIN shells
      /\ shells'[Top] = n
      /\ \A s \in DOMAIN shells : s # Top => shells'[s] = shells[s]
  BY <1>0, <1>2, TopChanges DEF n
<1>4. OneAtWork'
  BY <1>0, <1>1, <1>3 DEF OneAtWork, ShellInv, At
<1>5. doomed \cup started \subseteq Nat \X Command
  BY <1>0 DEF TypeOK
<1>6. \A x \in doomed \cup started : x[2].line \in Nat /\ x[2].line <= lines
  BY <1>5 DEF ShellInv, LinesInv, Command
<1>7. LinesInv'
  <2>1. \A s \in DOMAIN shells : shells[s].line \in Nat
    BY <1>0, AllBounded DEF Bounded, ShellType
  <2>2. UNCHANGED <<doomed, started>>
    BY DEF ghosts
  <2>3. QED
    BY <1>0, <1>1, <1>3, <1>6, <2>1, <2>2 DEF LinesInv, ShellInv
<1>8. StopInv'
  <2> SUFFICES ASSUME NEW s \in DOMAIN shells, NEW z \in DOMAIN shells'[s].todo
               PROVE  /\ <<s, shells'[s].todo[z]>> \notin started
                      /\ <<s, shells'[s].todo[z]>> \in doomed =>
                           shells'[s].is_exit /\ z \in NotChecked(s)'
    BY <1>3 DEF StopInv, ghosts
  <2>1. CASE s # Top
    BY <1>3, <2>1 DEF StopInv, ShellInv, NotChecked
  <2>2. CASE s = Top
    <3>1. shells'[s].todo[z].line = lines + 1
      BY <1>1, <1>3, <2>2
    <3>2. QED
      BY <1>0, <1>6, <3>1
  <2>3. QED
    BY <2>1, <2>2
<1>9. InterruptStopsLine'
  BY DEF InterruptStopsLine, ShellInv, ghosts
<1>10. DropInv'
  <2>1. \A s \in Nat : Owed(s)' => Owed(s)
    BY <1>0, <1>1, <1>3 DEF Owed, At
  <2>2. QED
    BY <1>0, <2>1, DropKept DEF ShellInv, ghosts
<1>11. QED
  BY <1>4, <1>7, <1>8, <1>9, <1>10 DEF Rest

\* The rest of a line is given up: what its shell owed is paid.
LEMMA BreakStep ==
  ASSUME ShellInv, Break
  PROVE  Rest'
<1> DEFINE n == AfterBreak(top)
<1>0. /\ TypeOK /\ shells # <<>> /\ Top \in Nat /\ Top > 0 /\ Top \in DOMAIN shells
      /\ DOMAIN shells = 1..Top /\ top = shells[Top] /\ sigints \in Nat /\ lines \in Nat
      /\ top \in Bounded /\ top.pc = "check" /\ child = "none" /\ top.is_exit
  BY TopType, AllBounded, ShellAssumption
  DEF ShellInv, TypeOK, top, At, OneAtWork, Break
<1>1. /\ n.pc = "prompt" /\ n.line = top.line /\ n.is_exit = FALSE /\ n.todo = <<>>
  BY <1>0 DEF AfterBreak, Recorded, ShellType, Bounded
<1>2. n \in ShellType /\ Becomes(n)
  BY <1>0, RecordedType, Changes DEF Bounded
<1> HIDE DEF n
<1>3. /\ shells' # <<>> /\ Top' = Top /\ top' = n /\ DOMAIN shells' = DOMAIN shells
      /\ shells'[Top] = n
      /\ \A s \in DOMAIN shells : s # Top => shells'[s] = shells[s]
  BY <1>0, <1>2, TopChanges
<1>4. OneAtWork'
  BY <1>0, <1>1, <1>3 DEF OneAtWork, ShellInv, At, Break
<1>5. LinesInv'
  BY <1>0, <1>1, <1>3 DEF LinesInv, ShellInv, Break
<1>6. StopInv'
  BY <1>0, <1>1, <1>3 DEF StopInv, ShellInv, NotChecked, Break
<1>7. InterruptStopsLine'
  BY DEF InterruptStopsLine, ShellInv, Break
<1>8. DropInv'
  <2> SUFFICES ASSUME NEW s \in Nat
               PROVE  (Lost(s) + (IF Owed(s) THEN 1 ELSE 0) <= sigints)'
    BY DEF DropInv
  <2>1. Lost(s) + (IF Owed(s) THEN 1 ELSE 0) <= sigints
    BY DEF DropInv, ShellInv
  <2>2. Owed(s)' => Owed(s) /\ s # Top
    BY <1>0, <1>1, <1>3 DEF Owed, At
  <2>3. sigints' = sigints
    BY DEF Break
  <2> DEFINE L == {x \in dropped : x[1] = s}
  <2>4. IsFiniteSet(L)
    BY <1>0, LostFinite
  <2>5. Lost(s) = Cardinality(L) /\ Cardinality(L) \in Nat
    BY <2>4, FS_CardinalityType DEF Lost
  <2>6. CASE s # Top
    <3>1. {x \in dropped' : x[1] = s} = L
      BY <2>6 DEF Break
    <3>2. Lost(s)' = Lost(s)
      BY <3>1 DEF Lost
    <3>3. QED
      BY <1>0, <2>1, <2>2, <2>3, <2>5, <3>2
  <2>7. CASE s = Top
    <3>1. {x \in dropped' : x[1] = s} = L \cup {<<Top, top.line>>}
      BY <2>7 DEF Break
    <3>2. Cardinality(L \cup {<<Top, top.line>>}) <= Cardinality(L) + 1
      <4> HIDE DEF L
      <4>1. \/ Cardinality(L \cup {<<Top, top.line>>}) = Cardinality(L)
            \/ Cardinality(L \cup {<<Top, top.line>>}) = Cardinality(L) + 1
        BY <2>4, FS_AddElement
      <4>2. QED
        BY <2>5, <4>1
    <3>3. Lost(s)' = Cardinality(L \cup {<<Top, top.line>>})
      BY <3>1 DEF Lost
    <3>4. Cardinality(L \cup {<<Top, top.line>>}) \in Nat
      BY <2>4, FS_AddElement, FS_CardinalityType
    <3>5. Owed(s)
      BY <1>0, <2>7 DEF Owed
    <3>6. ~Owed(s)'
      BY <2>2, <2>7
    <3> HIDE DEF L
    <3>7. QED
      BY <1>0, <2>1, <2>3, <2>5, <3>2, <3>3, <3>4, <3>5, <3>6
  <2>8. QED
    BY <2>6, <2>7
<1>9. QED
  BY <1>4, <1>5, <1>6, <1>7, <1>8 DEF Rest

\* A command that is not found: its child is a shell, which takes over what its
\* parent owes.
LEMMA ForkBadStep ==
  ASSUME ShellInv, ForkBad
  PROVE  Rest'
<1>0. /\ TypeOK /\ At("run") /\ child = "none" /\ sigints \in Nat
      /\ UNCHANGED <<child, file, lines, sigints, dropped>>
      /\ started' = OfShells(started) \cup {<<Top, Head(top.todo)>>}
      /\ doomed' = OfShells(doomed)
  BY ShellAssumption DEF ShellInv, TypeOK, ForkBad, OneAtWork, At
<1>1. /\ Top \in Nat /\ Top > 0 /\ Top' = Top + 1
      /\ DOMAIN shells = 1..Top /\ DOMAIN shells' = 1..Top + 1
      /\ \A s \in 1..Top - 1 : shells'[s] = shells[s]
      /\ shells'[Top] = Waiting(top) /\ shells'[Top + 1] = Child
      /\ top' = Child /\ top = shells[Top] /\ Top \in DOMAIN shells
  BY ForkStack DEF top
<1>2. /\ top.todo # <<>> /\ top.todo \in Seq(Command) /\ top \in ShellType
      /\ Head(top.todo) = top.todo[1] /\ 1 \in DOMAIN top.todo /\ top.pc = "run"
  BY <1>0, HeadType DEF Bounded, At
<1> DEFINE rest == Tail(top.todo)
<1>3. /\ Waiting(top).pc = "wait" /\ Child.pc = "check"
      /\ \A n \in {Waiting(top), Child} :
           n.todo = rest /\ n.line = top.line /\ n.is_exit = top.is_exit
  BY <1>2 DEF Waiting, Child, ShellType
<1>4. \A z \in DOMAIN rest : /\ z + 1 \in DOMAIN top.todo /\ rest[z] = top.todo[z + 1]
                             /\ z \in Nat /\ z > 0
  BY <1>2
<1> HIDE DEF rest
<1>5. OneAtWork'
  BY <1>0, <1>1, <1>3 DEF OneAtWork, ShellInv, At
<1>6. /\ top.line <= lines
      /\ \A z \in DOMAIN top.todo : top.todo[z].line = top.line
      /\ \A z, k \in DOMAIN top.todo : z < k => top.todo[z].place < top.todo[k].place
  BY <1>1 DEF ShellInv, LinesInv
<1>7. \A z, k \in DOMAIN rest : z < k => rest[z].place < rest[k].place
  BY <1>4, <1>6
<1>8. LinesInv'
  <2>1. \A x \in doomed' \cup started' : x[2].line <= lines
    BY <1>0, <1>2, <1>6 DEF ShellInv, LinesInv, OfShells
  <2>2. \A s \in 1..Top + 1 : s \in 1..Top - 1 \/ s = Top \/ s = Top + 1
    BY <1>1
  <2>3. \A z \in DOMAIN rest : rest[z].line = top.line
    BY <1>4, <1>6
  <2>4. QED
    BY <1>0, <1>1, <1>3, <1>6, <1>7, <2>1, <2>2, <2>3 DEF LinesInv, ShellInv
<1>9. <<Top, top.todo[1]>> \notin doomed
  <2>1. 1 \notin NotChecked(Top)
    BY <1>1, <1>2 DEF NotChecked
  <2>2. QED
    BY <1>1, <1>2, <2>1 DEF StopInv, ShellInv
<1>10. StopInv'
  <2> SUFFICES ASSUME NEW s \in 1..Top + 1, NEW z \in DOMAIN shells'[s].todo
               PROVE  /\ <<s, shells'[s].todo[z]>> \notin started'
                      /\ <<s, shells'[s].todo[z]>> \in doomed' =>
                           shells'[s].is_exit /\ z \in NotChecked(s)'
    BY <1>1 DEF StopInv
  <2>1. /\ started' \subseteq started \cup {<<Top, Head(top.todo)>>}
        /\ doomed' \subseteq doomed
    BY <1>0 DEF OfShells
  <2>2. CASE s \in 1..Top - 1
    <3>1. shells'[s] = shells[s] /\ s \in DOMAIN shells /\ s # Top
      BY <1>1, <2>2
    <3>2. <<s, shells[s].todo[z]>> \notin started
      BY <3>1 DEF StopInv, ShellInv
    <3>3. <<s, shells[s].todo[z]>> \notin started'
      BY <2>1, <3>1, <3>2
    <3>4. QED
      BY <2>1, <3>1, <3>3 DEF StopInv, ShellInv, NotChecked
  <2>3. CASE s = Top
    <3>1. /\ shells'[s].todo[z] = top.todo[z + 1] /\ z + 1 \in DOMAIN top.todo /\ 1 < z + 1
          /\ shells'[s].is_exit = top.is_exit /\ shells'[s].pc = "wait"
      BY <1>1, <1>3, <1>4, <2>3
    <3>2. <<Top, top.todo[z + 1]>> \notin started
      BY <1>1, <3>1 DEF StopInv, ShellInv
    <3>3. top.todo[z + 1] # Head(top.todo)
      <4>1. top.todo[1].place < top.todo[z + 1].place
        BY <1>2, <1>6, <3>1
      <4>2. top.todo[1] \in Command
        BY <1>2
      <4>3. top.todo[1].place \in Nat
        BY <4>2 DEF Command
      <4>4. top.todo[z + 1] # top.todo[1]
        BY <4>1, <4>3
      <4>5. QED
        BY <1>2, <4>4
    <3>4. <<Top, top.todo[z + 1]>> \in doomed => top.is_exit
      BY <1>1, <3>1 DEF StopInv, ShellInv
    <3>5. z \in NotChecked(s)'
      BY <3>1 DEF NotChecked
    <3>6. QED
      BY <2>1, <2>3, <3>1, <3>2, <3>3, <3>4, <3>5
  <2>4. CASE s = Top + 1
    <3>1. \A c : <<Top + 1, c>> \notin doomed' \cup started'
      BY <1>0, <1>1 DEF OfShells
    <3>2. QED
      BY <2>4, <3>1
  <2>5. QED
    BY <1>1, <2>2, <2>3, <2>4
<1>11. InterruptStopsLine'
  BY <1>0, <1>2, <1>9 DEF InterruptStopsLine, ShellInv, OfShells
<1>12. DropInv'
  <2>1. ASSUME NEW s \in Nat, Owed(s)'
        PROVE  Owed(s)
    <3>1. CASE s \in 1..Top - 1
      BY <1>1, <2>1, <3>1 DEF Owed
    <3>2. CASE s = Top
      BY <1>1, <1>3, <2>1, <3>2 DEF Owed
    <3>3. CASE s = Top + 1
      BY <1>0, <1>1, <1>3, <2>1, <3>3 DEF Owed
    <3>4. CASE s \notin 1..Top + 1
      BY <1>1, <1>3, <2>1, <3>4 DEF Owed, At
    <3>5. QED
      BY <1>1, <3>1, <3>2, <3>3, <3>4
  <2>2. QED
    BY <1>0, <2>1, DropKept DEF ShellInv
<1>13. QED
  BY <1>5, <1>8, <1>10, <1>11, <1>12 DEF Rest

\* Ctrl-C: everybody owes a line, and the commands that are not to be started
\* have not been.
LEMMA SigintStep ==
  ASSUME ShellInv, Sigint
  PROVE  Rest'
<1>0. /\ TypeOK /\ shells # <<>> /\ sigints \in Nat /\ sigints' = sigints + 1
      /\ UNCHANGED <<file, lines, started, dropped>>
      /\ Top \in DOMAIN shells /\ DOMAIN shells = 1..Top /\ Top \in Nat
      /\ top = shells[Top]
  BY TopType, ShellAssumption DEF ShellInv, TypeOK, Sigint, top
<1>1. /\ Top' = Top /\ DOMAIN shells' = DOMAIN shells
      /\ \A s \in DOMAIN shells : shells'[s] = [shells[s] EXCEPT !.is_exit = TRUE]
      /\ top' = [top EXCEPT !.is_exit = TRUE]
  BY SigintStack
<1>2. \A s \in DOMAIN shells : shells[s] \in ShellType
  BY <1>0, AllBounded DEF Bounded
<1>3. \A s \in DOMAIN shells : /\ shells'[s].todo = shells[s].todo
                               /\ shells'[s].line = shells[s].line
                               /\ shells'[s].pc = shells[s].pc
                               /\ shells'[s].is_exit = TRUE
                               /\ shells[s].todo \in Seq(Command)
  BY <1>1, <1>2 DEF ShellType
<1>4. top'.pc = top.pc
  BY <1>0, <1>1, <1>2 DEF ShellType
<1>5. shells' # <<>>
  BY <1>0, <1>1
<1>6. OneAtWork'
  <2>1. child' = "none" <=> child = "none"
    BY DEF Sigint, Interrupted
  <2>2. QED
    BY <1>0, <1>1, <1>3, <1>4, <1>5, <2>1 DEF OneAtWork, ShellInv, At
<1>7. \A x \in doomed' : x \in doomed \/
        \E s \in DOMAIN shells : \E z \in NotChecked(s) : x = <<s, shells[s].todo[z]>>
  BY DEF Sigint
<1>8. LinesInv'
  <2>1. \A x \in doomed' \cup started' : x[2].line <= lines
    <3>1. \A s \in DOMAIN shells : \A z \in DOMAIN shells[s].todo :
            shells[s].todo[z].line <= lines
      BY DEF ShellInv, LinesInv
    <3>2. QED
      BY <1>0, <1>7, <3>1 DEF ShellInv, LinesInv, NotChecked
  <2>2. QED
    BY <1>0, <1>1, <1>3, <2>1 DEF LinesInv, ShellInv
<1>9. \A s \in DOMAIN shells : NotChecked(s)' = NotChecked(s)
  BY <1>3 DEF NotChecked
<1>10. StopInv'
  <2> SUFFICES ASSUME NEW s \in DOMAIN shells, NEW z \in DOMAIN shells[s].todo
               PROVE  /\ <<s, shells[s].todo[z]>> \notin started
                      /\ <<s, shells[s].todo[z]>> \in doomed' => z \in NotChecked(s)
    <3>1. \A s \in DOMAIN shells : \A z \in DOMAIN shells[s].todo :
            z \in NotChecked(s)' <=> z \in NotChecked(s)
      BY <1>9
    <3>2. UNCHANGED started
      BY <1>0
    <3>3. QED
      BY <1>1, <1>3, <3>1, <3>2 DEF StopInv
  <2>1. /\ <<s, shells[s].todo[z]>> \notin started
        /\ <<s, shells[s].todo[z]>> \in doomed => z \in NotChecked(s)
    BY DEF StopInv, ShellInv
  <2>2. ASSUME NEW k \in NotChecked(s), shells[s].todo[z] = shells[s].todo[k]
        PROVE  z = k
    <3>1. k \in DOMAIN shells[s].todo
      BY DEF NotChecked
    <3>2. shells[s].todo[z] \in Command /\ z \in Int /\ k \in Int
      BY <1>3, <3>1
    <3>3. shells[s].todo[z].place \in Int
      BY <3>2 DEF Command
    <3>4. /\ z < k => shells[s].todo[z].place < shells[s].todo[k].place
          /\ k < z => shells[s].todo[k].place < shells[s].todo[z].place
      BY <3>1 DEF ShellInv, LinesInv
    <3>5. QED
      BY <2>2, <3>2, <3>3, <3>4
  <2>3. QED
    BY <1>7, <2>1, <2>2
<1>11. InterruptStopsLine'
  <2>1. \A s \in DOMAIN shells : \A z \in NotChecked(s) : <<s, shells[s].todo[z]>> \notin started
    BY DEF ShellInv, StopInv, NotChecked
  <2>2. QED
    BY <1>0, <1>7, <2>1 DEF InterruptStopsLine, ShellInv
<1>12. DropInv'
  <2> SUFFICES ASSUME NEW s \in Nat
               PROVE  (Lost(s) + (IF Owed(s) THEN 1 ELSE 0) <= sigints)'
    BY DEF DropInv
  <2>1. Lost(s) + (IF Owed(s) THEN 1 ELSE 0) <= sigints
    BY DEF DropInv, ShellInv
  <2>2. Lost(s)' = Lost(s) /\ Lost(s) \in Nat
    BY <1>0, LostFinite, FS_CardinalityType DEF Lost
  <2>3. Lost(s) <= sigints
    BY <1>0, <2>1, <2>2
  <2>4. QED
    BY <1>0, <2>2, <2>3
<1>13. QED
  BY <1>6, <1>8, <1>10, <1>11, <1>12 DEF Rest

\* The first shell of a session.
LEMMA NewSessionStep ==
  ASSUME ShellInv, NewSession
  PROVE  Rest'
<1> DEFINE n == NewShell(file)
<1>1. /\ TypeOK /\ shells = <<>> /\ shells' = <<n>> /\ child = "none" /\ sigints \in Nat
      /\ UNCHANGED <<child, file, lines, sigints, ghosts>> /\ lines \in Nat
  BY ShellAssumption DEF NewSession, ShellInv, TypeOK, OneAtWork, At
<1>2. /\ n.pc = "prompt" /\ n.todo = <<>> /\ n.line = 0 /\ n.is_exit = FALSE
  BY DEF NewShell
<1> HIDE DEF n
<1>3. Top' = 1 /\ top' = n /\ DOMAIN shells' = {1} /\ shells'[1] = n
  BY <1>1 DEF Top, top
<1>4. OneAtWork'
  BY <1>1, <1>2, <1>3 DEF OneAtWork, At
<1>5. LinesInv'
  BY <1>1, <1>2, <1>3 DEF LinesInv, ShellInv, ghosts
<1>6. StopInv' /\ InterruptStopsLine'
  BY <1>1, <1>2, <1>3 DEF StopInv, InterruptStopsLine, ShellInv, ghosts
<1>7. DropInv'
  <2>1. \A s \in Nat : ~Owed(s)'
    BY <1>1, <1>2, <1>3 DEF Owed, At
  <2>2. QED
    BY <1>1, <2>1, DropKept DEF ShellInv, ghosts
<1>8. QED
  BY <1>4, <1>5, <1>6, <1>7 DEF Rest

\* The program that a shell waits for.
LEMMA ProgramStep ==
  ASSUME ShellInv, [Program]_vars
  PROVE  Rest'
<1>1. /\ UNCHANGED <<shells, lines, sigints, ghosts>>
      /\ child' = "none" <=> child = "none"
  BY DEF Program, Forked, Exec, ChildExits, ProgramEnds, vars
<1>2. top' = top /\ Top' = Top
  BY <1>1 DEF top, Top
<1>3. OneAtWork' /\ LinesInv' /\ StopInv' /\ InterruptStopsLine'
  BY <1>1, <1>2
  DEF OneAtWork, At, LinesInv, StopInv, InterruptStopsLine, ShellInv, ghosts, NotChecked
<1>4. DropInv'
  BY <1>1, <1>2 DEF DropInv, ShellInv, ghosts, Lost, Owed, At
<1>5. QED
  BY <1>3, <1>4 DEF Rest

\* The steps in which the shell on top goes on.
LEMMA GoesOn ==
  ASSUME ShellInv, Continue \/ EndOfInput \/ LineDone \/ WaitReturns
  PROVE  Rest'
<1>0. /\ TypeOK /\ shells # <<>> /\ top \in Bounded /\ top \in ShellType
      /\ top.todo \in Seq(Command)
      /\ UNCHANGED <<doomed, started, lines, sigints, dropped>>
      /\ child' = "none"
  BY AllBounded
  DEF ShellInv, OneAtWork, Continue, EndOfInput, LineDone, WaitReturns, At, ghosts,
      Bounded, ShellType
<1>2. CASE Continue
  <2> DEFINE n == [top EXCEPT !.pc = "run"]
  <2>1. n \in Bounded /\ Becomes(n)
    BY <1>0, <1>2, Changes DEF Bounded, ShellType
  <2>2. /\ n.line = top.line /\ n.is_exit = top.is_exit /\ n.todo = top.todo
        /\ n.pc = "run" /\ top.todo # <<>> /\ ~top.is_exit
    BY <1>0, <1>2 DEF Continue, ShellType
  <2>3. Follows(n, 0)
    BY <1>0, <2>2 DEF Follows
  <2> HIDE DEF n
  <2>4. QED
    BY <1>0, <2>1, <2>2, <2>3, TopStep
<1>3. CASE EndOfInput
  <2> DEFINE n == [top EXCEPT !.eof = TRUE]
  <2>1. n \in Bounded /\ Becomes(n)
    BY <1>0, <1>3, Changes DEF Bounded, ShellType
  <2>2. /\ n.line = top.line /\ n.is_exit = top.is_exit /\ n.todo = top.todo
        /\ n.pc = "prompt"
    BY <1>0, <1>3 DEF EndOfInput, ShellType, At
  <2>3. Follows(n, 0)
    BY <1>0, <2>2 DEF Follows
  <2> HIDE DEF n
  <2>4. QED
    BY <1>0, <2>1, <2>2, <2>3, TopStep
<1>4. CASE LineDone
  <2> DEFINE n == Recorded(top)
  <2>1. n \in Bounded /\ Becomes(n)
    BY <1>0, <1>4, RecordedType, Changes
  <2>2. /\ n.line = top.line /\ n.is_exit = top.is_exit /\ n.todo = <<>>
        /\ n.pc = "prompt"
    BY <1>0 DEF Recorded, ShellType
  <2>3. Follows(n, 0)
    BY <1>0, <2>2 DEF Follows
  <2> HIDE DEF n
  <2>4. QED
    BY <1>0, <2>1, <2>2, <2>3, TopStep
<1>5. CASE WaitReturns
  <2> DEFINE n == AfterWait(top)
  <2>1. n \in Bounded /\ Becomes(n)
    BY <1>0, <1>5, Changes DEF Bounded, ShellType, AfterWait
  <2>2. /\ n.line = top.line /\ n.is_exit = top.is_exit /\ n.todo = top.todo
        /\ n.pc = "check"
    BY <1>0 DEF AfterWait, ShellType
  <2>3. Follows(n, 0)
    BY <1>0, <2>2 DEF Follows
  <2> HIDE DEF n
  <2>4. QED
    BY <1>0, <2>1, <2>2, <2>3, TopStep
<1>6. QED
  BY <1>2, <1>3, <1>4, <1>5

\* The steps that start a command.
LEMMA GoesOnWithCommand ==
  ASSUME ShellInv, RunBuiltin \/ EchoLoops \/ ForkProgram \/ ForkFails
  PROVE  Rest'
<1>0. /\ TypeOK /\ shells # <<>> /\ top \in Bounded /\ top \in ShellType
      /\ top.todo \in Seq(Command) /\ top.todo # <<>> /\ At("run") /\ child = "none"
      /\ UNCHANGED <<doomed, lines, sigints, dropped>>
      /\ started' = started \cup {<<Top, Head(top.todo)>>}
  BY AllBounded, HeadType
  DEF ShellInv, OneAtWork, RunBuiltin, EchoLoops, ForkProgram, ForkFails, Starts, At,
      Bounded
<1>1. \A z \in DOMAIN Tail(top.todo) : /\ z + 1 \in DOMAIN top.todo
                                       /\ Tail(top.todo)[z] = top.todo[z + 1]
  BY <1>0
<1>2. CASE RunBuiltin
  <2>1. PICK n \in AfterBuiltin(top) : Becomes(n)
    BY <1>0, <1>2, Changes
  <2>2. n \in Bounded
    BY <1>0, <2>1, CommandType
  <2>3. /\ n.line = top.line /\ n.is_exit = top.is_exit /\ n.todo = Tail(top.todo)
        /\ n.pc = "check" /\ child' = "none"
    BY <1>0, <1>2, <2>1 DEF RunBuiltin, AfterBuiltin, ShellType
  <2>4. Follows(n, 1)
    BY <1>0, <1>1, <2>3 DEF Follows
  <2>5. QED
    BY <1>0, <2>1, <2>2, <2>3, <2>4, TopStep
<1>3. CASE ForkProgram
  <2> DEFINE n == Waiting(top)
  <2>1. n \in Bounded /\ Becomes(n)
    BY <1>0, <1>3, CommandType, Changes
  <2>2. /\ n.line = top.line /\ n.is_exit = top.is_exit /\ n.todo = Tail(top.todo)
        /\ n.pc = "wait" /\ child' # "none"
    BY <1>0, <1>3 DEF ForkProgram, ShellType, Waiting
  <2>3. Follows(n, 1)
    BY <1>0, <1>1, <2>2 DEF Follows
  <2> HIDE DEF n
  <2>4. QED
    BY <1>0, <2>1, <2>2, <2>3, TopStep
<1>4. CASE EchoLoops \/ ForkFails
  <2> DEFINE n(x) == [top EXCEPT !.pc = x, !.todo = Tail(@)]
  <2>1. PICK x \in {"echo", "check"} : n(x) \in Bounded /\ Becomes(n(x))
    BY <1>0, <1>4, CommandType, Changes
  <2>2. /\ n(x).line = top.line /\ n(x).is_exit = top.is_exit
        /\ n(x).todo = Tail(top.todo) /\ n(x).pc = x /\ child' = "none"
    BY <1>0, <1>4 DEF EchoLoops, ForkFails, ShellType
  <2> DEFINE m == n(x)
  <2>3. /\ m \in Bounded /\ Becomes(m) /\ m.pc \in {"echo", "check"}
        /\ m.line = top.line /\ m.is_exit = top.is_exit /\ m.todo = Tail(top.todo)
    BY <2>1, <2>2
  <2> HIDE DEF n, m
  <2>4. Follows(m, 1)
    BY <1>0, <1>1, <2>3 DEF Follows
  <2>5. QED
    BY <1>0, <2>2, <2>3, <2>4, TopStep
<1>5. QED
  BY <1>2, <1>3, <1>4

LEMMA RestStep ==
  ASSUME ShellInv, [Next]_vars
  PROVE  Rest'
<1>1. CASE NewSession
  BY <1>1, NewSessionStep
<1>2. CASE Sigint
  BY <1>2, SigintStep
<1>3. CASE EndOfInput \/ LineDone \/ Continue \/ WaitReturns
  BY <1>3, GoesOn
<1>4. CASE ReadAgain \/ \E t \in Typed : ReadLine(t)
  <2>1. /\ At("prompt") /\ lines < MaxLines /\ lines' = lines + 1
        /\ UNCHANGED <<child, file, sigints, ghosts>>
        /\ \/ Gone
           \/ \E text \in Seq(Kind) : text # <<>> /\ Becomes(NewLine(text))
    BY <1>4, LineStarts DEF ShellInv
  <2>2. CASE Gone
    <3>1. shells # <<>> /\ child = "none"
      BY <2>1 DEF ShellInv, OneAtWork, At
    <3>2. UNCHANGED <<doomed, started, dropped>>
      BY <2>1 DEF ghosts
    <3>3. QED
      BY <2>1, <2>2, <3>1, <3>2, GoneStep
  <2>3. QED
    BY <2>1, <2>2, NewLineStep
<1>5. CASE Break
  BY <1>5, BreakStep
<1>6. CASE RunBuiltin \/ EchoLoops \/ ForkProgram \/ ForkFails
  BY <1>6, GoesOnWithCommand
<1>7. CASE BuiltinCrashes \/ RunExit
  <2>1. /\ At("run") /\ Gone /\ started' = started \cup {<<Top, Head(top.todo)>>}
        /\ UNCHANGED <<child, lines, sigints, doomed, dropped>>
    BY <1>7 DEF BuiltinCrashes, RunExit, Starts
  <2>2. shells # <<>> /\ child = "none"
    BY <2>1 DEF ShellInv, OneAtWork, At
  <2>3. QED
    BY <2>1, <2>2, GoneStep
<1>8. CASE ForkBad
  BY <1>8, ForkBadStep
<1>9. CASE Program \/ UNCHANGED vars
  BY <1>9, ProgramStep
<1>10. QED
  BY <1>1, <1>2, <1>3, <1>4, <1>5, <1>6, <1>7, <1>8, <1>9 DEF Next, User, Shell

-----------------------------------------------------------------------------
(* The theorems.                                                            *)

LEMMA ShellInit ==
  ASSUME Init
  PROVE  ShellInv
<1> DEFINE n == NewShell(<<>>)
<1>1. /\ shells = <<n>> /\ child = "none" /\ file = <<>> /\ lines = 0 /\ sigints = 0
      /\ doomed = {} /\ started = {} /\ dropped = {}
  BY DEF Init
<1>2. n \in Bounded
  <2>1. /\ <<>> \in Seq(Seq(Kind)) /\ <<>> \in Seq(Command) /\ <<>> \in Seq(Kind)
        /\ 0 \in 0..MaxLines /\ 0 <= HistoryMax
    BY ShellAssumption
  <2>2. Len(<<>>) = 0
    OBVIOUS
  <2>3. QED
    BY <2>1, <2>2 DEF NewShell, Bounded, ShellType
<1>3. /\ n.pc = "prompt" /\ n.todo = <<>> /\ n.line = 0 /\ n.is_exit = FALSE
  BY DEF NewShell
<1> HIDE DEF n
<1>4. Top = 1 /\ top = n /\ DOMAIN shells = {1} /\ shells[1] = n
  BY <1>1 DEF Top, top
<1>5. TypeOK
  <2>1. n \in ShellType /\ Len(n.history_cmds) <= HistoryMax
    BY <1>2 DEF Bounded
  <2>2. shells \in Seq(ShellType)
    BY <1>1, <2>1
  <2>3. /\ file \in Seq(Seq(Kind)) /\ Len(file) <= HistoryMax
        /\ lines \in 0..MaxLines /\ sigints \in 0..MaxSigints
    BY <1>1, ShellAssumption
  <2>4. QED
    BY <1>1, <1>4, <2>1, <2>2, <2>3 DEF TypeOK
<1>6. OneAtWork /\ LinesInv /\ StopInv /\ InterruptStopsLine
  BY <1>1, <1>3, <1>4 DEF OneAtWork, At, LinesInv, StopInv, InterruptStopsLine
<1>7. DropInv
  <2>1. \A s \in Nat : Lost(s) = 0
    BY <1>1, FS_EmptySet DEF Lost
  <2>2. \A s \in Nat : ~Owed(s)
    BY <1>3, <1>4 DEF Owed, At
  <2>3. QED
    BY <1>1, <2>1, <2>2 DEF DropInv
<1>8. QED
  BY <1>5, <1>6, <1>7 DEF ShellInv

\* The invariant of the shells holds in every state, for any lines typed and any
\* number of Ctrl-C.
THEOREM ShellInvCorrect == Spec => []ShellInv
<1>1. Init => ShellInv
  BY ShellInit
<1>2. ShellInv /\ [Next]_vars => ShellInv'
  BY TypeStep, RestStep DEF ShellInv, Rest
<1>3. QED
  BY <1>1, <1>2, PTL DEF Spec

\* What the shells keep has its type: a history never grows beyond history_max,
\* the one in the file neither, whatever shell wrote it.
THEOREM TypeCorrect == Spec => []TypeOK
<1>1. ShellInv => TypeOK
  BY DEF ShellInv
<1>2. QED
  BY <1>1, ShellInvCorrect, PTL

\* Only the shell on top of the stack does anything, and it waits if and only if
\* it has a child that is a program: no wait of main takes another shell's child.
THEOREM OneAtWorkCorrect == Spec => []OneAtWork
<1>1. ShellInv => OneAtWork
  BY DEF ShellInv
<1>2. QED
  BY <1>1, ShellInvCorrect, PTL

\* A command that had not got through the check of is_exit when Ctrl-C was
\* pressed is never started, by the shell that read its line or by one that a
\* missing program has left in that line.
THEOREM InterruptStopsLineCorrect == Spec => []InterruptStopsLine
<1>1. ShellInv => InterruptStopsLine
  BY DEF ShellInv
<1>2. QED
  BY <1>1, ShellInvCorrect, PTL

\* No shell gives up more lines than Ctrl-C was pressed times, although is_exit
\* may be set at the prompt and is handed down to the shells that are forked.
THEOREM OneLinePerInterruptCorrect == Spec => []OneLinePerInterrupt
<1>1. ShellInv => OneLinePerInterrupt
  <2> SUFFICES ASSUME ShellInv, NEW d \in dropped
               PROVE  Lost(d[1]) <= sigints
    BY DEF OneLinePerInterrupt
  <2>1. TypeOK /\ DropInv
    BY DEF ShellInv
  <2>2. d[1] \in Nat
    BY <2>1 DEF TypeOK
  <2>3. Lost(d[1]) + (IF Owed(d[1]) THEN 1 ELSE 0) <= sigints
    BY <2>1, <2>2 DEF DropInv
  <2>4. IsFiniteSet({x \in dropped : x[1] = d[1]})
    BY <2>1, LostFinite
  <2>5. Lost(d[1]) \in Nat
    BY <2>4, FS_CardinalityType DEF Lost
  <2>6. sigints \in Nat
    BY <2>1, ShellAssumption DEF TypeOK
  <2>7. QED
    BY <2>3, <2>5, <2>6
<1>2. QED
  BY <1>1, ShellInvCorrect, PTL

-----------------------------------------------------------------------------
(* The reference definitions are recursive functions of the number of words. *)
(* What such a function yields is shown by the least number at which it      *)
(* would not.                                                                *)

LEMMA Least ==
  ASSUME NEW T \in SUBSET Nat, T # {}
  PROVE  \E n \in T : \A m \in T : n <= m
<1> DEFINE R == {ss \in Nat \X Nat : ss[1] < ss[2]}
<1>1. IsWellFoundedOn(R, Nat)
  BY NatLessThanWellFounded DEF OpToRel
<1>2. PICK n \in T : \A m \in T : ~(<<m, n>> \in R)
  <2> HIDE DEF R
  <2>1. QED
    BY <1>1, WFMin
<1>3. \A m \in T : n <= m
  <2> TAKE m \in T
  <2>1. n \in Nat /\ m \in Nat
    OBVIOUS
  <2>2. ~(m < n)
    BY <2>1, <1>2
  <2>3. QED
    BY <2>1, <2>2
<1>4. QED
  BY <1>3

\* A function on 0..N is defined by its first value and by a step.
StepsBy(f, base, step, n) ==
  /\ f[0] = base
  /\ \A k \in 1..n : f[k] = step[<<k, f[k - 1]>>]

LEMMA RecursionExists ==
  ASSUME NEW N \in Nat, NEW S, NEW base \in S, NEW step \in [(1..N) \X S -> S]
  PROVE  \E f \in [0..N -> S] : StepsBy(f, base, step, N)
<1> DEFINE T == {n \in 0..N : ~ \E f \in [0..n -> S] : StepsBy(f, base, step, n)}
<1>1. ASSUME T # {}
      PROVE  FALSE
  <2>1. T \in SUBSET Nat
    OBVIOUS
  <2>2. PICK n \in T : \A m \in T : n <= m
    <3> HIDE DEF T
    <3>1. QED
      BY <1>1, <2>1, Least
  <2>3. n \in 0..N
    OBVIOUS
  <2>4. CASE n = 0
    <3> DEFINE g == [k \in 0..0 |-> base]
    <3>1. g \in [0..n -> S] /\ StepsBy(g, base, step, n)
      BY <2>4 DEF StepsBy
    <3>2. QED
      BY <3>1
  <2>5. CASE n # 0
    <3>1. n - 1 \in 0..N /\ n - 1 \notin T
      BY <2>2, <2>3, <2>5
    <3>2. PICK e \in [0..n - 1 -> S] : StepsBy(e, base, step, n - 1)
      BY <3>1
    <3> DEFINE g == [k \in 0..n |-> IF k = n THEN step[<<n, e[n - 1]>>] ELSE e[k]]
    <3>3. step[<<n, e[n - 1]>>] \in S
      BY <2>3, <2>5
    <3>4. \A k \in 0..n : k # n => k \in 0..n - 1 /\ e[k] \in S
      BY <2>3
    <3>5. g \in [0..n -> S]
      BY <3>3, <3>4
    <3>6. StepsBy(g, base, step, n)
      <4>1. g[0] = base
        BY <2>3, <2>5, <3>2 DEF StepsBy
      <4>2. ASSUME NEW k \in 1..n
            PROVE  g[k] = step[<<k, g[k - 1]>>]
        <5>1. k - 1 \in 0..n /\ k - 1 # n /\ g[k - 1] = e[k - 1]
          BY <2>3
        <5>2. CASE k = n
          BY <2>3, <5>1, <5>2
        <5>3. CASE k # n
          <6>1. k \in 1..n - 1
            BY <2>3, <5>3
          <6>2. QED
            BY <2>3, <3>2, <5>1, <5>3, <6>1 DEF StepsBy
        <5>4. QED
          BY <5>2, <5>3
      <4>3. QED
        BY <4>1, <4>2 DEF StepsBy
    <3>7. QED
      BY <3>5, <3>6
  <2>6. QED
    BY <2>4, <2>5
<1>2. QED
  BY <1>1

\* Which words are names of files.
LEMMA NamesAre ==
  \A k \in 0..MaxArgs :
    /\ k <= 1 => ~IsName[k]
    /\ k > 1 => (IsName[k] <=> IsOpening(k - 1) /\ ~IsName[k - 1])
<1> DEFINE Step == [p \in (1..MaxArgs) \X BOOLEAN |-> p[1] > 1 /\ IsOpening(p[1] - 1) /\ ~p[2]]
           Names(g) == [k \in 0..MaxArgs |->
                           IF k <= 1 THEN FALSE ELSE IsOpening(k - 1) /\ ~g[k - 1]]
<1>1. MaxArgs \in Nat
  BY RedirectAssumption
<1>2. Step \in [(1..MaxArgs) \X BOOLEAN -> BOOLEAN]
  BY <1>1 DEF IsOpening
<1>3. PICK f \in [0..MaxArgs -> BOOLEAN] : StepsBy(f, FALSE, Step, MaxArgs)
  <2> HIDE DEF Step
  <2>1. QED
    BY <1>1, <1>2, RecursionExists
<1>4. f = Names(f)
  <2>1. ASSUME NEW k \in 0..MaxArgs
        PROVE  f[k] = Names(f)[k]
    <3>1. CASE k = 0
      <4>1. f[k] = FALSE
        BY <1>3, <3>1 DEF StepsBy
      <4>2. Names(f)[k] = FALSE
        BY <3>1
      <4>3. QED
        BY <4>1, <4>2
    <3>2. CASE k # 0
      <4>1. k \in 1..MaxArgs /\ k - 1 \in 0..MaxArgs
        BY <1>1, <3>2
      <4>2. f[k] = Step[<<k, f[k - 1]>>] /\ f[k - 1] \in BOOLEAN
        BY <1>3, <4>1 DEF StepsBy
      <4>3. f[k] = (k > 1 /\ IsOpening(k - 1) /\ ~f[k - 1])
        BY <4>1, <4>2
      <4>4. CASE k > 1
        <5>0. ~(k <= 1)
          BY <4>4
        <5>1. Names(f)[k] = (IsOpening(k - 1) /\ ~f[k - 1])
          BY <5>0, Zenon
        <5>2. QED
          BY <4>3, <4>4, <5>1
      <4>5. CASE ~(k > 1)
        <5>1. k <= 1
          BY <1>1, <4>5
        <5>2. Names(f)[k] = FALSE
          BY <5>1
        <5>3. f[k] = FALSE
          BY <4>3, <4>5
        <5>4. QED
          BY <5>2, <5>3
      <4>6. QED
        BY <4>4, <4>5
    <3>3. QED
      BY <3>1, <3>2
  <2> DEFINE g == Names(f)
  <2>2. DOMAIN g = 0..MaxArgs /\ g = [k \in 0..MaxArgs |-> g[k]]
    OBVIOUS
  <2>3. f = [k \in 0..MaxArgs |-> f[k]]
    OBVIOUS
  <2> HIDE DEF g
  <2>4. \A k \in 0..MaxArgs : f[k] = g[k]
    BY <2>1 DEF g
  <2>5. f = g
    BY <2>2, <2>3, <2>4
  <2>6. QED
    BY <2>5 DEF g
<1>5. IsName = CHOOSE g : g = Names(g)
  BY DEF IsName
<1>6. IsName = Names(IsName)
  <2> HIDE DEF Names
  <2>1. QED
    BY <1>4, <1>5
<1>7. ASSUME NEW k \in 0..MaxArgs
      PROVE  IsName[k] = IF k <= 1 THEN FALSE ELSE IsOpening(k - 1) /\ ~IsName[k - 1]
  BY <1>6
<1>8. ASSUME NEW k \in 0..MaxArgs, k <= 1
      PROVE  ~IsName[k]
  BY <1>7, <1>8, Zenon
<1>9. ASSUME NEW k \in 0..MaxArgs, k > 1
      PROVE  IsName[k] <=> IsOpening(k - 1) /\ ~IsName[k - 1]
  <2>1. ~(k <= 1)
    BY <1>9
  <2>2. QED
    BY <1>7, <2>1, Zenon
<1>10. QED
  BY <1>8, <1>9

\* A word that is kept comes behind those before it.
Kept(k) == line[k].op = "word" /\ ~IsName[k]
LEMMA WordsAre ==
  /\ WordsBefore[0] = <<>>
  /\ \A k \in 1..MaxArgs :
       /\ Kept(k) => WordsBefore[k] = Append(WordsBefore[k - 1], line[k])
       /\ ~Kept(k) => WordsBefore[k] = WordsBefore[k - 1]
<1> DEFINE U == {line[k] : k \in 1..MaxArgs}
           Step == [p \in (1..MaxArgs) \X Seq(U) |->
                      IF Kept(p[1]) THEN Append(p[2], line[p[1]]) ELSE p[2]]
           Kepts(g) == [k \in 0..MaxArgs |->
                          IF k = 0 THEN <<>>
                          ELSE IF line[k].op = "word" /\ ~IsName[k] THEN Append(g[k - 1], line[k])
                          ELSE g[k - 1]]
<1>1. MaxArgs \in Nat
  BY RedirectAssumption
<1>2. Step \in [(1..MaxArgs) \X Seq(U) -> Seq(U)]
  <2>1. ASSUME NEW k \in 1..MaxArgs, NEW u \in Seq(U)
        PROVE  Append(u, line[k]) \in Seq(U)
    <3>1. line[k] \in U
      OBVIOUS
    <3> HIDE DEF U
    <3>2. QED
      BY <3>1
  <2> HIDE DEF U
  <2>2. QED
    BY <2>1
<1>3. PICK f \in [0..MaxArgs -> Seq(U)] : StepsBy(f, <<>>, Step, MaxArgs)
  <2>1. <<>> \in Seq(U)
    OBVIOUS
  <2> HIDE DEF Step, U
  <2>2. QED
    BY <1>1, <1>2, <2>1, RecursionExists
<1>4. f = Kepts(f)
  <2>1. ASSUME NEW k \in 0..MaxArgs
        PROVE  f[k] = Kepts(f)[k]
    <3>1. CASE k = 0
      BY <1>3, <3>1 DEF StepsBy
    <3>2. CASE k # 0
      <4>1. k \in 1..MaxArgs /\ k - 1 \in 0..MaxArgs
        BY <1>1, <3>2
      <4>2. f[k] = Step[<<k, f[k - 1]>>] /\ f[k - 1] \in Seq(U)
        <5> HIDE DEF U, Step
        <5>1. QED
          BY <1>3, <4>1 DEF StepsBy
      <4>3. f[k] = IF Kept(k) THEN Append(f[k - 1], line[k]) ELSE f[k - 1]
        <5> HIDE DEF U
        <5>1. QED
          BY <4>1, <4>2
      <4>4. QED
        BY <3>2, <4>3 DEF Kept
    <3>3. QED
      BY <3>1, <3>2
  <2> DEFINE g == Kepts(f)
  <2>2. DOMAIN g = 0..MaxArgs /\ g = [k \in 0..MaxArgs |-> g[k]]
    OBVIOUS
  <2>3. f = [k \in 0..MaxArgs |-> f[k]]
    OBVIOUS
  <2> HIDE DEF g
  <2>4. \A k \in 0..MaxArgs : f[k] = g[k]
    BY <2>1 DEF g
  <2>5. f = g
    BY <2>2, <2>3, <2>4
  <2>6. QED
    BY <2>5 DEF g
<1>5. WordsBefore = CHOOSE g : g = Kepts(g)
  BY DEF WordsBefore
<1>6. WordsBefore = Kepts(WordsBefore)
  <2> HIDE DEF Kepts
  <2>1. QED
    BY <1>4, <1>5
<1>7. ASSUME NEW k \in 0..MaxArgs
      PROVE  WordsBefore[k] = IF k = 0 THEN <<>>
                              ELSE IF line[k].op = "word" /\ ~IsName[k]
                                THEN Append(WordsBefore[k - 1], line[k])
                              ELSE WordsBefore[k - 1]
  BY <1>6
<1>8. ASSUME NEW k \in 1..MaxArgs
      PROVE  k \in 0..MaxArgs /\ k # 0
  BY <1>1
<1>9. 0 \in 0..MaxArgs
  BY <1>1
<1>10. QED
  BY <1>7, <1>8, <1>9, Zenon DEF Kept

\* A redirection to a file changes what the descriptor it is for stands for.
LEMMA AfterIs ==
  /\ After[0] = [d \in 0..2 |-> Std(d)]
  /\ \A k \in 1..MaxArgs :
       /\ ~IsRedirect(k) => After[k] = After[k - 1]
       /\ IsRedirect(k) =>
            After[k] = [After[k - 1] EXCEPT
                          ![Target(k)] = Opened(line[k + 1].name, How(line[k].op))]
<1> DEFINE U == {Std(d) : d \in 0..2}
                \cup {Opened(line[k + 1].name, How(line[k].op)) : k \in 1..MaxArgs}
           V == [0..2 -> U]
           base == [d \in 0..2 |-> Std(d)]
           Step == [p \in (1..MaxArgs) \X V |->
                      IF ~IsRedirect(p[1]) THEN p[2]
                      ELSE [p[2] EXCEPT ![Target(p[1])] =
                              Opened(line[p[1] + 1].name, How(line[p[1]].op))]]
           Afters(g) == [k \in 0..MaxArgs |->
                           IF k = 0 THEN [d \in 0..2 |-> Std(d)]
                           ELSE IF ~IsRedirect(k) THEN g[k - 1]
                           ELSE [g[k - 1] EXCEPT
                                   ![Target(k)] = Opened(line[k + 1].name, How(line[k].op))]]
<1>1. MaxArgs \in Nat
  BY RedirectAssumption
<1>2. Step \in [(1..MaxArgs) \X V -> V]
  <2>1. ASSUME NEW k \in 1..MaxArgs
        PROVE  Target(k) \in 0..2 /\ Opened(line[k + 1].name, How(line[k].op)) \in U
    BY DEF Target
  <2> HIDE DEF U
  <2>2. QED
    BY <2>1
<1>3. PICK f \in [0..MaxArgs -> V] : StepsBy(f, base, Step, MaxArgs)
  <2>1. base \in V
    OBVIOUS
  <2> HIDE DEF Step, V, base
  <2>2. QED
    BY <1>1, <1>2, <2>1, RecursionExists
<1>4. f = Afters(f)
  <2>1. ASSUME NEW k \in 0..MaxArgs
        PROVE  f[k] = Afters(f)[k]
    <3>1. CASE k = 0
      BY <1>3, <3>1 DEF StepsBy
    <3>2. CASE k # 0
      <4>1. k \in 1..MaxArgs /\ k - 1 \in 0..MaxArgs
        BY <1>1, <3>2
      <4>2. f[k] = Step[<<k, f[k - 1]>>] /\ f[k - 1] \in V
        <5> HIDE DEF V, Step
        <5>1. QED
          BY <1>3, <4>1 DEF StepsBy
      <4>3. f[k] = IF ~IsRedirect(k) THEN f[k - 1]
                   ELSE [f[k - 1] EXCEPT
                           ![Target(k)] = Opened(line[k + 1].name, How(line[k].op))]
        <5> HIDE DEF V
        <5>1. QED
          BY <4>1, <4>2
      <4>4. QED
        BY <3>2, <4>3
    <3>3. QED
      BY <3>1, <3>2
  <2> DEFINE g == Afters(f)
  <2>2. DOMAIN g = 0..MaxArgs /\ g = [k \in 0..MaxArgs |-> g[k]]
    OBVIOUS
  <2>3. f = [k \in 0..MaxArgs |-> f[k]]
    OBVIOUS
  <2> HIDE DEF g
  <2>4. \A k \in 0..MaxArgs : f[k] = g[k]
    BY <2>1 DEF g
  <2>5. f = g
    BY <2>2, <2>3, <2>4
  <2>6. QED
    BY <2>5 DEF g
<1>5. After = CHOOSE g : g = Afters(g)
  BY DEF After
<1>6. After = Afters(After)
  <2> HIDE DEF Afters
  <2>1. QED
    BY <1>4, <1>5
<1>7. ASSUME NEW k \in 0..MaxArgs
      PROVE  After[k] = IF k = 0 THEN [d \in 0..2 |-> Std(d)]
                        ELSE IF ~IsRedirect(k) THEN After[k - 1]
                        ELSE [After[k - 1] EXCEPT
                                ![Target(k)] = Opened(line[k + 1].name, How(line[k].op))]
  BY <1>6
<1>8. ASSUME NEW k \in 1..MaxArgs
      PROVE  k \in 0..MaxArgs /\ k # 0
  BY <1>1
<1>9. 0 \in 0..MaxArgs
  BY <1>1
<1>10. QED
  BY <1>7, <1>8, <1>9, Zenon

\* What the descriptors 0 to 2 stand for is a function of them.
LEMMA AfterType ==
  \A k \in 0..MaxArgs : After[k] = [d \in 0..2 |-> After[k][d]]
<1> DEFINE IsTable(g) == g = [d \in 0..2 |-> g[d]]
           T == {k \in 0..MaxArgs : ~IsTable(After[k])}
<1>1. MaxArgs \in Nat
  BY RedirectAssumption
<1>2. ASSUME T # {}
      PROVE  FALSE
  <2>1. T \in SUBSET Nat
    BY <1>1
  <2>2. PICK k \in T : \A m \in T : k <= m
    <3> HIDE DEF T
    <3>1. QED
      BY <1>2, <2>1, Least
  <2>3. k \in 0..MaxArgs /\ ~IsTable(After[k])
    OBVIOUS
  <2>4. k # 0
    BY <2>3, AfterIs
  <2>5. k \in 1..MaxArgs /\ k - 1 \in 0..MaxArgs /\ k - 1 \notin T
    BY <1>1, <2>2, <2>3, <2>4
  <2>6. IsTable(After[k - 1])
    BY <2>5
  <2>7. CASE ~IsRedirect(k)
    BY <2>3, <2>5, <2>6, <2>7, AfterIs
  <2>8. CASE IsRedirect(k)
    <3> DEFINE g == After[k - 1]
               x == Opened(line[k + 1].name, How(line[k].op))
               t == Target(k)
    <3>1. After[k] = [g EXCEPT ![t] = x]
      BY <2>5, <2>8, AfterIs
    <3>2. IsTable(g)
      BY <2>6
    <3> HIDE DEF g, x, t
    <3>3. IsTable([g EXCEPT ![t] = x])
      BY <3>2
    <3>4. QED
      BY <2>3, <3>1, <3>3
  <2>9. QED
    BY <2>7, <2>8
<1>3. QED
  BY <1>2

\* A line that stays has its names, words and redirections as they were.
LEMMA ReferenceKept ==
  ASSUME UNCHANGED line
  PROVE  UNCHANGED <<IsName, WordsBefore, After>>
<1> DEFINE N(u) == CHOOSE g : g = [k \in 0..MaxArgs |->
                     IF k <= 1 THEN FALSE
                     ELSE u[k - 1].op \in {">", ">>", "<", "n>", "n<"} /\ ~g[k - 1]]
           W(u, v) == CHOOSE g : g = [k \in 0..MaxArgs |->
                        IF k = 0 THEN <<>>
                        ELSE IF u[k].op = "word" /\ ~v[k] THEN Append(g[k - 1], u[k])
                        ELSE g[k - 1]]
           A(u, v) == CHOOSE g : g = [k \in 0..MaxArgs |->
                        IF k = 0 THEN [d \in 0..2 |-> Std(d)]
                        ELSE IF ~(u[k].op # "word" /\ ~v[k]) THEN g[k - 1]
                        ELSE [g[k - 1] EXCEPT
                                ![IF u[k].op = "<" THEN 0 ELSE 1] =
                                    Opened(u[k + 1].name, How(u[k].op))]]
<1>1. /\ IsName = N(line)
      /\ WordsBefore = W(line, IsName)
      /\ After = A(line, IsName)
  BY DEF IsName, IsOpening, WordsBefore, After, IsRedirect, Target
<1>2. /\ IsName' = N(line')
      /\ WordsBefore' = W(line', IsName')
      /\ After' = A(line', IsName')
  BY DEF IsName, IsOpening, WordsBefore, After, IsRedirect, Target
<1> HIDE DEF N, W, A
<1>3. QED
  BY <1>1, <1>2

\* The properties of a line that stays.
LEMMA FormsKept ==
  ASSUME UNCHANGED line
  PROVE  /\ UNCHANGED argc
         /\ PlainForms' <=> PlainForms
         /\ WellFormed' <=> WellFormed
<1>1. UNCHANGED IsName
  BY ReferenceKept
<1>2. UNCHANGED argc
  BY DEF argc
<1>3. PlainForms' <=> PlainForms
  BY <1>2 DEF PlainForms
<1>4. \A k : (IsRedirect(k)' <=> IsRedirect(k)) /\ (IsOpening(k)' <=> IsOpening(k))
  BY <1>1 DEF IsRedirect, IsOpening
<1>5. WellFormed' <=> WellFormed
  BY <1>2, <1>4 DEF WellFormed
<1>6. QED
  BY <1>2, <1>3, <1>5

\* The word behind an operator is the name of its file, and no word of its
\* own; the one behind that, and behind any other word, is no name.
LEMMA PastOpening ==
  ASSUME NEW k \in 1..MaxArgs, IsOpening(k), ~IsName[k]
  PROVE  /\ WordsBefore[k] = WordsBefore[k - 1]
         /\ k + 1 <= MaxArgs => /\ IsName[k + 1] /\ ~IsRedirect(k + 1)
                                /\ WordsBefore[k + 1] = WordsBefore[k - 1]
                                /\ After[k + 1] = After[k]
         /\ k + 2 <= MaxArgs => ~IsName[k + 2]
<1>1. MaxArgs \in Nat
  BY RedirectAssumption
<1>2. WordsBefore[k] = WordsBefore[k - 1]
  <2>1. line[k].op # "word"
    BY DEF IsOpening
  <2>2. QED
    BY <2>1, WordsAre DEF Kept
<1>3. ASSUME k + 1 <= MaxArgs
      PROVE  IsName[k + 1] /\ k + 1 \in 1..MaxArgs
  <2>1. k + 1 \in 0..MaxArgs /\ k + 1 > 1 /\ (k + 1) - 1 = k
    BY <1>1, <1>3
  <2>2. QED
    BY <2>1, NamesAre
<1>4. ASSUME k + 1 <= MaxArgs
      PROVE  /\ WordsBefore[k + 1] = WordsBefore[k]
             /\ After[k + 1] = After[k]
             /\ ~IsRedirect(k + 1)
  <2>1. k + 1 \in 1..MaxArgs /\ (k + 1) - 1 = k
    BY <1>1, <1>4
  <2>2. ~Kept(k + 1) /\ ~IsRedirect(k + 1)
    BY <1>3, <1>4 DEF Kept, IsRedirect
  <2>3. WordsBefore[k + 1] = WordsBefore[(k + 1) - 1]
    BY <2>1, <2>2, WordsAre
  <2>4. After[k + 1] = After[(k + 1) - 1]
    BY <2>1, <2>2, AfterIs
  <2>5. QED
    BY <2>1, <2>2, <2>3, <2>4
<1>5. ASSUME k + 2 <= MaxArgs
      PROVE  ~IsName[k + 2]
  <2>1. k + 2 \in 0..MaxArgs /\ k + 2 > 1 /\ (k + 2) - 1 = k + 1 /\ k + 1 <= MaxArgs
    BY <1>1, <1>5
  <2>2. IsName[(k + 2) - 1]
    BY <1>3, <2>1
  <2>3. QED
    BY <2>1, <2>2, NamesAre
<1>6. QED
  BY <1>2, <1>3, <1>4, <1>5

LEMMA PastOther ==
  ASSUME NEW k \in 1..MaxArgs, ~IsOpening(k), k + 1 <= MaxArgs
  PROVE  ~IsName[k + 1]
<1>1. k + 1 \in 0..MaxArgs /\ k + 1 > 1 /\ (k + 1) - 1 = k
  BY RedirectAssumption
<1>2. QED
  BY <1>1, NamesAre

-----------------------------------------------------------------------------
(* The steps.                                                               *)

LEMMA RedirectFirst == RedirectInit => RedirectInv
<1> SUFFICES ASSUME RedirectInit
             PROVE  RedirectInv
  OBVIOUS
<1>1. PICK n \in 1..MaxArgs : line \in [1..n -> Words]
  BY DEF RedirectInit
<1>2. /\ pc = "start" /\ argv = line /\ i = 1 /\ j = 1
      /\ fd = [e \in {R_END, W_END} |-> e]
      /\ desc = [d \in Descriptor |-> IF d <= 2 THEN Std(d) ELSE Closed]
  BY DEF RedirectInit
<1>3. MaxArgs \in Nat /\ n \in Nat
  BY RedirectAssumption
<1>4. line \in Seq(Words) /\ Len(line) = n
  BY <1>1, <1>3
<1>5. RedirectTypeOK
  BY <1>2, <1>3, <1>4 DEF RedirectTypeOK, R_END, W_END
<1>6. WordsKept
  BY <1>2, <1>5 DEF WordsKept
<1>7. ScanInv
  <2>1. SubSeq(argv, 1, j - 1) = <<>>
    BY <1>2, <1>4
  <2>2. WordsBefore[IF i <= argc THEN i - 1 ELSE argc] = <<>>
    BY <1>2, <1>4, <1>3, WordsAre DEF argc
  <2>3. ~IsName[i]
    BY <1>2, <1>3, NamesAre
  <2>4. QED
    BY <1>2, <1>3, <1>4, <2>1, <2>2, <2>3 DEF ScanInv, argc
<1>8. FdInv
  <2>1. \A d \in 0..2 : d \in Descriptor /\ desc[d] = Std(d) /\ Std(d) # Closed
    BY <1>2, <1>3 DEF Descriptor, Std, Closed
  <2>2. After[0] = [d \in 0..2 |-> Std(d)]
    BY AfterIs
  <2>3. fd[R_END] = 0 /\ fd[W_END] = 1
    BY <1>2 DEF R_END, W_END
  <2>4. QED
    BY <1>2, <1>3, <1>4, <2>1, <2>2, <2>3 DEF FdInv, argc, R_END, W_END
<1>9. PlainRedirects
  BY <1>2 DEF PlainRedirects
<1>10. QED
  BY <1>6, <1>7, <1>8, <1>9 DEF RedirectInv

LEMMA StartKeeps ==
  ASSUME RedirectInv, Start
  PROVE  RedirectInv'
<1>1. /\ UNCHANGED <<line, argv, i, j, fd, desc>>
      /\ pc = "start" /\ pc' \in {"builtin", "scan"}
  BY DEF Start
<1>2. /\ UNCHANGED <<argc, IsName, WordsBefore, After>>
      /\ PlainForms' <=> PlainForms
      /\ WellFormed' <=> WellFormed
  BY <1>1, ReferenceKept, FormsKept
<1>3. WordsKept'
  BY <1>1, <1>2 DEF RedirectInv, WordsKept, ScanInv, RedirectTypeOK
<1>4. ScanInv'
  BY <1>1, <1>2 DEF RedirectInv, ScanInv
<1>5. FdInv'
  BY <1>1, <1>2 DEF RedirectInv, FdInv
<1>6. PlainRedirects'
  BY <1>1 DEF PlainRedirects
<1>7. QED
  BY <1>3, <1>4, <1>5, <1>6 DEF RedirectInv

\* What the loop knows of the word it is at.
LEMMA AtWord ==
  ASSUME RedirectInv, pc = "scan", i <= argc
  PROVE  /\ i \in 1..MaxArgs /\ argc \in 1..MaxArgs /\ MaxArgs \in Nat
         /\ i \in DOMAIN argv /\ argv[i] = line[i] /\ argv[i] \in Words
         /\ argv \in Seq(Words) /\ Len(argv) = argc
         /\ ~IsName[i] /\ j \in 1..i
         /\ SubSeq(argv, 1, j - 1) = WordsBefore[i - 1]
<1>1. MaxArgs \in Nat
  BY RedirectAssumption
<1>2. argc \in 1..MaxArgs /\ i \in 1..MaxArgs /\ j \in 1..i
  BY <1>1 DEF RedirectInv, ScanInv, WordsKept, RedirectTypeOK
<1>3. argv \in Seq(Words) /\ Len(argv) = argc /\ argv[i] = line[i]
  BY <1>1, <1>2 DEF RedirectInv, ScanInv, WordsKept, RedirectTypeOK
<1>4. i \in DOMAIN argv /\ argv[i] \in Words
  BY <1>2, <1>3
<1>5. QED
  BY <1>1, <1>2, <1>3, <1>4 DEF RedirectInv, ScanInv

LEMMA KeepKeeps ==
  ASSUME RedirectInv, KeepWord
  PROVE  RedirectInv'
<1>1. /\ pc = "scan" /\ i <= argc /\ argv[i].op = "word"
      /\ argv' = [argv EXCEPT ![j] = argv[i]]
      /\ i' = i + 1 /\ j' = j + 1
      /\ UNCHANGED <<line, pc, fd, desc>>
  BY DEF KeepWord, MoveWord
<1>2. /\ UNCHANGED <<argc, IsName, WordsBefore, After>>
      /\ PlainForms' <=> PlainForms
      /\ WellFormed' <=> WellFormed
  BY <1>1, ReferenceKept, FormsKept
<1>3. /\ i \in 1..MaxArgs /\ argc \in 1..MaxArgs /\ MaxArgs \in Nat
      /\ i \in DOMAIN argv /\ argv[i] = line[i] /\ argv[i] \in Words
      /\ argv \in Seq(Words) /\ Len(argv) = argc
      /\ ~IsName[i] /\ j \in 1..i
      /\ SubSeq(argv, 1, j - 1) = WordsBefore[i - 1]
  BY <1>1, AtWord
<1>4. /\ argv' \in Seq(Words) /\ Len(argv') = argc
      /\ \A k \in i + 1..argc : argv'[k] = argv[k]
      /\ \A k \in 1..j - 1 : argv'[k] = argv[k]
      /\ argv'[j] = argv[i]
  BY <1>1, <1>3
<1>5. SubSeq(argv', 1, j) = Append(SubSeq(argv, 1, j - 1), argv[i])
  BY <1>3, <1>4
<1>6. WordsBefore[i] = Append(WordsBefore[i - 1], line[i])
  BY <1>1, <1>3, WordsAre DEF Kept
<1>7. i' <= argc => ~IsName[i']
  <2>1. ~IsOpening(i)
    BY <1>1, <1>3 DEF IsOpening
  <2>2. QED
    BY <1>1, <1>3, <2>1, PastOther
<1>8. \A k \in i'..argc : argv'[k] = line[k]
  <2>1. \A k \in i'..argc : k \in i + 1..argc /\ k \in i..argc
    BY <1>1, <1>3
  <2>2. \A k \in i..argc : argv[k] = line[k]
    BY <1>1 DEF RedirectInv, ScanInv
  <2>3. QED
    BY <1>4, <2>1, <2>2
<1>9. WordsKept'
  <2>1. RedirectTypeOK'
    BY <1>1, <1>3, <1>4 DEF RedirectInv, WordsKept, RedirectTypeOK
  <2>2. QED
    BY <1>1, <1>2, <1>3, <1>8, <2>1 DEF WordsKept
<1>10. ScanInv'
  <2>1. SubSeq(argv', 1, j' - 1) = WordsBefore[i]
    BY <1>1, <1>3, <1>5, <1>6
  <2>2. (IF i' <= argc THEN i' - 1 ELSE argc) = i
    BY <1>1, <1>3
  <2>3. /\ line \in Seq(Words)
        /\ Len(argv') = argc /\ i' <= argc + 2 /\ j' <= i' /\ j' <= argc + 1
    BY <1>1, <1>3, <1>4 DEF RedirectInv, ScanInv
  <2>4. QED
    BY <1>1, <1>2, <1>3, <1>7, <1>8, <2>1, <2>2, <2>3 DEF ScanInv
<1>11. FdInv'
  <2>1. ~IsRedirect(i)
    BY <1>1, <1>3 DEF IsRedirect
  <2>2. After[i] = After[i - 1]
    BY <1>3, <2>1, AfterIs
  <2>3. i' - 1 = i /\ i' <= argc + 1
    BY <1>1, <1>3
  <2>4. QED
    BY <1>1, <1>2, <2>2, <2>3 DEF RedirectInv, FdInv
<1>12. PlainRedirects'
  BY <1>1 DEF PlainRedirects
<1>13. QED
  BY <1>9, <1>10, <1>11, <1>12 DEF RedirectInv

LEMMA DuplicateKeeps ==
  ASSUME RedirectInv, Duplicate
  PROVE  RedirectInv'
<1>1. /\ pc = "scan" /\ i <= argc /\ argv[i].op = "n>&m"
      /\ fd' = [e \in {R_END, W_END} |-> argv[i].n]
      /\ i' = i + 1
      /\ UNCHANGED <<line, pc, argv, j, desc>>
  BY DEF Duplicate
<1>2. /\ UNCHANGED <<argc, IsName, WordsBefore, After>>
      /\ PlainForms' <=> PlainForms
      /\ WellFormed' <=> WellFormed
  BY <1>1, ReferenceKept, FormsKept
<1>3. /\ i \in 1..MaxArgs /\ argc \in 1..MaxArgs /\ MaxArgs \in Nat
      /\ i \in DOMAIN argv /\ argv[i] = line[i] /\ argv[i] \in Words
      /\ argv \in Seq(Words) /\ Len(argv) = argc
      /\ ~IsName[i] /\ j \in 1..i
      /\ SubSeq(argv, 1, j - 1) = WordsBefore[i - 1]
  BY <1>1, AtWord
<1>4. WordsBefore[i] = WordsBefore[i - 1]
  BY <1>1, <1>3, WordsAre DEF Kept
<1>5. i' <= argc => ~IsName[i']
  <2>1. ~IsOpening(i)
    BY <1>1, <1>3 DEF IsOpening
  <2>2. QED
    BY <1>1, <1>3, <2>1, PastOther
<1>6. WordsKept'
  <2>1. argv[i].n \in Nat
    BY <1>3, RedirectAssumption
  <2>2. RedirectTypeOK'
    BY <1>1, <1>3, <2>1 DEF RedirectInv, WordsKept, RedirectTypeOK
  <2>3. QED
    BY <1>1, <1>2, <1>3, <2>2 DEF RedirectInv, WordsKept, ScanInv
<1>7. ScanInv'
  <2>1. (IF i' <= argc THEN i' - 1 ELSE argc) = i
    BY <1>1, <1>3
  <2>2. QED
    BY <1>1, <1>2, <1>3, <1>4, <1>5, <2>1 DEF RedirectInv, ScanInv
<1>8. FdInv'
  <2>1. ~PlainForms
    BY <1>1, <1>3 DEF PlainForms
  <2>2. QED
    BY <1>2, <2>1 DEF FdInv
<1>9. PlainRedirects'
  BY <1>1 DEF PlainRedirects
<1>10. QED
  BY <1>6, <1>7, <1>8, <1>9 DEF RedirectInv

\* A file is opened as a descriptor that was closed, and takes its end of fd.
LEMMA OpenFds ==
  ASSUME RedirectInv, OpenFile, PlainForms, WellFormed
  PROVE  /\ i < argc
         /\ \A d \in 0..2 : desc'[d] = Std(d)
         /\ After[i][0] = desc'[fd'[R_END]] /\ After[i][1] = desc'[fd'[W_END]]
         /\ After[i][2] = Std(2)
         /\ \A e \in {R_END, W_END} :
              /\ fd'[e] \in Descriptor /\ desc'[fd'[e]] # Closed
              /\ fd'[e] = e \/ fd'[e] > 2
<1> DEFINE op == argv[i].op
           name == argv[i + 1].name
           opened == Opened(name, How(op))
<1>1. /\ pc = "scan" /\ i <= argc
      /\ op \in {">", ">>", "<", "n>", "n<"}
  BY DEF OpenFile
<1>2. /\ i \in 1..MaxArgs /\ argc \in 1..MaxArgs /\ MaxArgs \in Nat
      /\ argv[i] = line[i] /\ ~IsName[i]
  BY <1>1, AtWord
<1>3. op \in {">", ">>", "<"}
  BY <1>1, <1>2 DEF PlainForms
<1>4. IsRedirect(i) /\ IsOpening(i)
  BY <1>2, <1>3 DEF IsRedirect, IsOpening
<1>5. i < argc /\ (How(op) = "read" => line[i + 1].name \in Existing)
  BY <1>1, <1>2, <1>4 DEF WellFormed
<1>6. argv[i + 1] = line[i + 1]
  BY <1>1, <1>2, <1>5 DEF RedirectInv, ScanInv
<1>7. CanOpen(op)
  BY <1>5, <1>6 DEF CanOpen
<1>8. PICK tfd \in Descriptor :
        /\ desc[tfd] = Closed
        /\ desc' = [desc EXCEPT ![tfd] = opened]
        /\ fd' = NewFd(op, argv[i].n, tfd)
  BY <1>7 DEF OpenFile
<1>9. /\ \A d \in 0..2 : desc[d] = Std(d)
      /\ After[i - 1][0] = desc[fd[R_END]] /\ After[i - 1][1] = desc[fd[W_END]]
      /\ After[i - 1][2] = Std(2)
      /\ \A e \in {R_END, W_END} : /\ fd[e] \in Descriptor /\ desc[fd[e]] # Closed
                                   /\ fd[e] = e \/ fd[e] > 2
  BY <1>1 DEF RedirectInv, FdInv
<1>10. DOMAIN desc = Descriptor /\ fd \in [{R_END, W_END} -> Nat]
  BY DEF RedirectInv, WordsKept, RedirectTypeOK
<1>11. /\ \A d \in Descriptor : d # tfd => desc'[d] = desc[d]
       /\ desc'[tfd] = opened
  BY <1>8, <1>10
<1>12. opened # Closed
  BY <1>3 DEF Opened, Closed, How
<1>13. tfd \notin 0..2 /\ tfd > 2 /\ \A d \in 0..2 : d \in Descriptor
  <2>1. \A d \in 0..2 : Std(d) # Closed
    BY DEF Std, Closed
  <2>2. \A d \in 0..2 : d \in Descriptor
    BY <1>2 DEF Descriptor
  <2>3. tfd \in Nat
    BY <1>2, <1>8 DEF Descriptor
  <2>4. QED
    BY <1>8, <1>9, <2>1, <2>2, <2>3
<1>14. \A e \in {R_END, W_END} : fd[e] # tfd /\ desc'[fd[e]] = desc[fd[e]]
  BY <1>8, <1>9, <1>11
<1>15. After[i] = [After[i - 1] EXCEPT ![Target(i)] = opened]
  <2>1. After[i] = [After[i - 1] EXCEPT ![Target(i)] = Opened(line[i + 1].name, How(line[i].op))]
    BY <1>2, <1>4, AfterIs
  <2>2. QED
    BY <1>2, <1>6, <2>1
<1>16. After[i - 1] = [d \in 0..2 |-> After[i - 1][d]]
  <2>1. i - 1 \in 0..MaxArgs
    BY <1>2
  <2>2. QED
    BY <2>1, AfterType
<1> HIDE DEF opened
<1>17. CASE op = "<"
  <2>1. fd' = [fd EXCEPT ![R_END] = tfd] /\ Target(i) = 0
    BY <1>2, <1>8, <1>17 DEF NewFd, Target
  <2>2. fd'[R_END] = tfd /\ fd'[W_END] = fd[W_END]
    BY <1>10, <2>1 DEF R_END, W_END
  <2>3. After[i][0] = opened /\ After[i][1] = After[i - 1][1] /\ After[i][2] = After[i - 1][2]
    BY <1>15, <1>16, <2>1
  <2>4. QED
    BY <1>5, <1>8, <1>9, <1>11, <1>12, <1>13, <1>14, <2>2, <2>3
<1>18. CASE op \in {">", ">>"}
  <2>1. fd' = [fd EXCEPT ![W_END] = tfd] /\ Target(i) = 1
    BY <1>2, <1>8, <1>18 DEF NewFd, Target
  <2>2. fd'[W_END] = tfd /\ fd'[R_END] = fd[R_END]
    BY <1>10, <2>1 DEF R_END, W_END
  <2>3. After[i][1] = opened /\ After[i][0] = After[i - 1][0] /\ After[i][2] = After[i - 1][2]
    BY <1>15, <1>16, <2>1
  <2>4. QED
    BY <1>5, <1>8, <1>9, <1>11, <1>12, <1>13, <1>14, <2>2, <2>3
<1>19. QED
  BY <1>3, <1>17, <1>18

LEMMA OpenKeeps ==
  ASSUME RedirectInv, OpenFile
  PROVE  RedirectInv'
<1>1. /\ pc = "scan" /\ i <= argc
      /\ argv[i].op \in {">", ">>", "<", "n>", "n<"}
      /\ i' = i + 2
      /\ UNCHANGED <<line, pc, argv, j>>
  BY DEF OpenFile, TakesTwo
<1>2. /\ UNCHANGED <<argc, IsName, WordsBefore, After>>
      /\ PlainForms' <=> PlainForms
      /\ WellFormed' <=> WellFormed
  BY <1>1, ReferenceKept, FormsKept
<1>3. /\ i \in 1..MaxArgs /\ argc \in 1..MaxArgs /\ MaxArgs \in Nat
      /\ i \in DOMAIN argv /\ argv[i] = line[i] /\ argv[i] \in Words
      /\ argv \in Seq(Words) /\ Len(argv) = argc
      /\ ~IsName[i] /\ j \in 1..i
      /\ SubSeq(argv, 1, j - 1) = WordsBefore[i - 1]
  BY <1>1, AtWord
<1>4. IsOpening(i)
  BY <1>1, <1>3 DEF IsOpening
<1>5. WordsKept'
  <2>1. fd' \in [{R_END, W_END} -> Nat] /\ DOMAIN desc' = Descriptor
    <3>1. fd \in [{R_END, W_END} -> Nat] /\ DOMAIN desc = Descriptor /\ Descriptor \subseteq Nat
      BY <1>3 DEF RedirectInv, WordsKept, RedirectTypeOK, Descriptor
    <3>2. CASE CanOpen(argv[i].op)
      <4>1. PICK tfd \in Descriptor :
              /\ desc' = [desc EXCEPT ![tfd] = Opened(argv[i + 1].name, How(argv[i].op))]
              /\ fd' = NewFd(argv[i].op, argv[i].n, tfd)
        BY <3>2 DEF OpenFile
      <4>2. argv[i].n \in Nat /\ tfd \in Nat
        BY <1>3, <3>1, RedirectAssumption
      <4>3. NewFd(argv[i].op, argv[i].n, tfd) \in [{R_END, W_END} -> Nat]
        BY <1>1, <3>1, <4>2 DEF NewFd
      <4>4. QED
        BY <3>1, <4>1, <4>3
    <3>3. CASE ~CanOpen(argv[i].op)
      BY <3>1, <3>3 DEF OpenFile
    <3>4. QED
      BY <3>2, <3>3
  <2>2. RedirectTypeOK'
    BY <1>1, <1>3, <2>1 DEF RedirectInv, WordsKept, RedirectTypeOK
  <2>3. QED
    BY <1>1, <1>2, <1>3, <2>2 DEF RedirectInv, WordsKept, ScanInv
<1>6. ScanInv'
  <2>1. CASE i < argc
    <3>1. i + 1 <= MaxArgs /\ (i' <= argc => i + 2 <= MaxArgs)
      BY <1>1, <1>3, <2>1
    <3>2. /\ WordsBefore[i + 1] = WordsBefore[i - 1]
          /\ i' <= argc => ~IsName[i']
      BY <1>1, <1>3, <1>4, <3>1, PastOpening
    <3>3. (IF i' <= argc THEN i' - 1 ELSE argc) = i + 1
      BY <1>1, <1>3, <2>1
    <3>4. WordsBefore[IF i' <= argc THEN i' - 1 ELSE argc] = SubSeq(argv, 1, j - 1)
      BY <1>3, <3>2, <3>3
    <3>5. i' <= argc + 2 /\ j <= i' /\ \A k \in i'..argc : k \in i..argc
      BY <1>1, <1>3, <2>1
    <3>6. QED
      BY <1>1, <1>2, <1>3, <3>2, <3>4, <3>5 DEF RedirectInv, ScanInv
  <2>2. CASE i = argc
    <3>1. WordsBefore[i] = WordsBefore[i - 1]
      BY <1>3, <1>4, PastOpening
    <3>2. (IF i' <= argc THEN i' - 1 ELSE argc) = i /\ ~(i' <= argc)
      BY <1>1, <1>3, <2>2
    <3>3. QED
      BY <1>1, <1>2, <1>3, <2>2, <3>1, <3>2 DEF RedirectInv, ScanInv
  <2>3. QED
    BY <1>1, <1>3, <2>1, <2>2
<1>7. FdInv'
  <2> SUFFICES ASSUME PlainForms, WellFormed
               PROVE  FdInv'
    BY <1>2 DEF FdInv
  <2>1. /\ i < argc
        /\ \A d \in 0..2 : desc'[d] = Std(d)
        /\ After[i][0] = desc'[fd'[R_END]] /\ After[i][1] = desc'[fd'[W_END]]
        /\ After[i][2] = Std(2)
        /\ \A e \in {R_END, W_END} :
             /\ fd'[e] \in Descriptor /\ desc'[fd'[e]] # Closed
             /\ fd'[e] = e \/ fd'[e] > 2
    BY OpenFds
  <2>2. i + 1 <= MaxArgs /\ i' - 1 = i + 1 /\ i' <= argc + 1 /\ pc' # "dup"
    BY <1>1, <1>3, <2>1
  <2>3. After[i + 1] = After[i]
    BY <1>3, <1>4, <2>2, PastOpening
  <2>4. QED
    BY <1>2, <2>1, <2>2, <2>3 DEF FdInv
<1>8. PlainRedirects'
  BY <1>1 DEF PlainRedirects
<1>9. QED
  BY <1>5, <1>6, <1>7, <1>8 DEF RedirectInv

LEMMA DoneKeeps ==
  ASSUME RedirectInv, ScanDone
  PROVE  RedirectInv'
<1>1. /\ pc = "scan" /\ i > argc
      /\ argv' = SubSeq(argv, 1, j - 1)
      /\ pc' \in {"builtin", "dup"}
      /\ UNCHANGED <<line, i, j, fd, desc>>
  BY DEF ScanDone
<1>2. /\ UNCHANGED <<argc, IsName, WordsBefore, After>>
      /\ PlainForms' <=> PlainForms
      /\ WellFormed' <=> WellFormed
  BY <1>1, ReferenceKept, FormsKept
<1>3. /\ argv \in Seq(Words) /\ Len(argv) = argc /\ argc \in 1..MaxArgs /\ MaxArgs \in Nat
      /\ i \in 1..MaxArgs + 2 /\ j \in 1..MaxArgs + 1 /\ j <= i /\ i <= argc + 2
  BY <1>1, RedirectAssumption DEF RedirectInv, WordsKept, RedirectTypeOK, ScanInv
<1>4. argv' = WordsBefore[argc]
  BY <1>1, <1>3 DEF RedirectInv, ScanInv
<1>5. WordsKept'
  <2>1. j - 1 <= argc
    BY <1>1, <1>3 DEF RedirectInv, ScanInv
  <2>2. argv' \in Seq(Words)
    BY <1>1, <1>3, <2>1
  <2>3. RedirectTypeOK'
    BY <1>1, <2>2 DEF RedirectInv, WordsKept, RedirectTypeOK
  <2>4. QED
    BY <1>1, <1>2, <1>4, <2>3 DEF WordsKept
<1>6. ScanInv'
  BY <1>1, <1>2 DEF RedirectInv, ScanInv
<1>7. FdInv'
  <2>1. PlainForms /\ WellFormed => i - 1 = argc
    BY <1>1, <1>3 DEF RedirectInv, FdInv
  <2>2. QED
    BY <1>1, <1>2, <2>1 DEF RedirectInv, FdInv
<1>8. PlainRedirects'
  BY <1>1 DEF PlainRedirects
<1>9. QED
  BY <1>5, <1>6, <1>7, <1>8 DEF RedirectInv

LEMMA ExecuteKeeps ==
  ASSUME RedirectInv, Execute
  PROVE  RedirectInv'
<1>1. /\ pc = "dup" /\ pc' = "exec"
      /\ desc' = Dup2(Dup2(desc, fd[R_END], 0), fd[W_END], 1)
      /\ UNCHANGED <<line, argv, i, j, fd>>
  BY DEF Execute
<1>2. /\ UNCHANGED <<argc, IsName, WordsBefore, After>>
      /\ PlainForms' <=> PlainForms
      /\ WellFormed' <=> WellFormed
  BY <1>1, ReferenceKept, FormsKept
<1>3. DOMAIN desc = Descriptor
  BY DEF RedirectInv, WordsKept, RedirectTypeOK
<1>4. WordsKept'
  <2>1. DOMAIN desc' = Descriptor
    BY <1>1, <1>3 DEF Dup2
  <2>2. RedirectTypeOK'
    BY <1>1, <2>1 DEF RedirectInv, WordsKept, RedirectTypeOK
  <2>3. QED
    BY <1>1, <1>2, <2>2 DEF RedirectInv, WordsKept
<1>5. ScanInv'
  BY <1>1, <1>2 DEF RedirectInv, ScanInv
<1>6. FdInv'
  BY <1>1 DEF FdInv
<1>7. PlainRedirects'
  <2> SUFFICES ASSUME PlainForms, WellFormed
               PROVE  \A d \in 0..2 : desc'[d] = After[argc][d]
    BY <1>2 DEF PlainRedirects
  <2>1. /\ \A d \in 0..2 : desc[d] = Std(d)
        /\ After[argc][0] = desc[fd[R_END]] /\ After[argc][1] = desc[fd[W_END]]
        /\ After[argc][2] = Std(2)
        /\ \A e \in {R_END, W_END} : /\ fd[e] \in Descriptor /\ desc[fd[e]] # Closed
                                     /\ fd[e] = e \/ fd[e] > 2
    BY <1>1 DEF RedirectInv, FdInv
  <2> DEFINE table == [desc EXCEPT ![0] = desc[fd[R_END]]]
  <2>2. Dup2(desc, fd[R_END], 0) = table
    BY <2>1 DEF Dup2
  <2>3. 0 \in Descriptor /\ 1 \in Descriptor /\ 2 \in Descriptor
    BY RedirectAssumption DEF Descriptor
  <2>4. fd[W_END] # 0
    BY <2>1 DEF W_END
  <2>5. table[fd[W_END]] = desc[fd[W_END]]
    BY <1>3, <2>1, <2>4
  <2>6. desc' = [table EXCEPT ![1] = desc[fd[W_END]]]
    BY <1>1, <2>1, <2>2, <2>5 DEF Dup2
  <2>7. desc'[0] = After[argc][0] /\ desc'[1] = After[argc][1] /\ desc'[2] = After[argc][2]
    BY <1>3, <2>1, <2>3, <2>6
  <2>8. \A d \in 0..2 : d = 0 \/ d = 1 \/ d = 2
    OBVIOUS
  <2>9. QED
    BY <2>7, <2>8
<1>8. QED
  BY <1>4, <1>5, <1>6, <1>7 DEF RedirectInv

LEMMA RedirectStep ==
  ASSUME RedirectInv, [RedirectNext]_redirectVars
  PROVE  RedirectInv'
<1>1. CASE UNCHANGED redirectVars
  <2>1. UNCHANGED <<line, piped, pc, argv, i, j, fd, desc>>
    BY <1>1 DEF redirectVars
  <2>2. /\ UNCHANGED <<argc, IsName, WordsBefore, After>>
        /\ PlainForms' <=> PlainForms
        /\ WellFormed' <=> WellFormed
    BY <2>1, ReferenceKept, FormsKept
  <2>3. WordsKept' /\ ScanInv' /\ FdInv' /\ PlainRedirects'
    BY <2>1, <2>2 DEF RedirectInv, WordsKept, RedirectTypeOK, ScanInv, FdInv, PlainRedirects
  <2>4. QED
    BY <2>3 DEF RedirectInv
<1>2. QED
  BY <1>1, StartKeeps, OpenKeeps, DuplicateKeeps, KeepKeeps, DoneKeeps, ExecuteKeeps
  DEF RedirectNext

\* The inductive invariant of the loop over a command's words.
THEOREM RedirectInvCorrect == RedirectSpec => []RedirectInv
<1>1. RedirectInit => RedirectInv
  BY RedirectFirst
<1>2. RedirectInv /\ [RedirectNext]_redirectVars => RedirectInv'
  BY RedirectStep
<1>3. QED
  BY <1>1, <1>2, PTL DEF RedirectSpec

\* For a command of any number of words, of any kind: the words that
\* process_redirect moves inside argv (shell.cpp:341) are read before they are
\* overwritten, and those that remain are the ones that belong to no
\* redirection, in their order.
THEOREM WordsKeptCorrect == RedirectSpec => []WordsKept
BY RedirectInvCorrect, PTL DEF RedirectInv

\* For any number of redirections by ">", ">>" and "<": a command that is
\* executed has 0, 1 and 2 where the line says, the last one counting, and no
\* file it opened on the way in their place (shell.cpp:429).
THEOREM PlainRedirectsCorrect == RedirectSpec => []PlainRedirects
BY RedirectInvCorrect, PTL DEF RedirectInv
=============================================================================
