---------------------------- MODULE StraceProofs ----------------------------
(* What holds of Strace for every number of calls and signals and whatever  *)
(* calls the tracee makes; and of PairChat, in the second half, for every   *)
(* text, size of the buffers and way the streams are cut.                   *)
EXTENDS Strace, PairChat, WellFoundedInduction, TLAPS

\* A line is added behind the others.
LEMMA AppendLine ==
  ASSUME NEW S, NEW s \in Seq(S), NEW e \in S
  PROVE  /\ Append(s, e) \in Seq(S) /\ Append(s, e) # <<>>
         /\ Len(Append(s, e)) = Len(s) + 1
         /\ DOMAIN Append(s, e) = DOMAIN s \cup {Len(s) + 1}
         /\ Append(s, e)[Len(s) + 1] = e
         /\ \A i \in DOMAIN s : i \in Nat /\ i < Len(s) + 1 /\ Append(s, e)[i] = s[i]
<1>1. /\ Append(s, e) \in Seq(S) /\ Append(s, e) # <<>>
      /\ Len(Append(s, e)) = Len(s) + 1
      /\ Append(s, e)[Len(s) + 1] = e
      /\ \A i \in DOMAIN s : i \in Nat /\ i < Len(s) + 1 /\ Append(s, e)[i] = s[i]
  OBVIOUS
<1>2. DOMAIN Append(s, e) = 1..(Len(s) + 1) /\ DOMAIN s = 1..Len(s) /\ Len(s) \in Nat
  OBVIOUS
<1>3. DOMAIN Append(s, e) = DOMAIN s \cup {Len(s) + 1}
  BY <1>2
<1>4. QED
  BY <1>1, <1>3

LEMMA Parity ==
  ASSUME NEW n \in Nat
  PROVE  (n + 1) % 2 = 1 <=> ~(n % 2 = 1)
OBVIOUS

-----------------------------------------------------------------------------
(* Types. *)

LEMMA InitInv == Init => TracerInv
<1> SUFFICES ASSUME Init
             PROVE  TracerInv
  OBVIOUS
<1> USE CallsAssumption DEF Init
<1>1. TypeOK
  <2>1. /\ 0 \in 0..MaxSignals /\ 0 \in 0..MaxCalls
        /\ syscall_history \in
             Seq([name : syscall_table \cup {NoName}, regs : Regs, is_exit : BOOLEAN])
    OBVIOUS
  <2>2. QED
    BY <2>1 DEF TypeOK
<1>2. PlaceInv /\ RegsInv /\ ToggleInv
  BY DEF PlaceInv, RegsInv, ToggleInv, Post, Stopped, Running, Over
<1>3. LinesInv /\ EndInv
  BY DEF LinesInv, EndInv
<1>4. QED
  BY <1>1, <1>2, <1>3 DEF TracerInv

\* The step that prints: what it appends is a line.
LEMMA LineType ==
  ASSUME TypeOK, NEW r \in Regs, NEW is_exit \in BOOLEAN
  PROVE  [name |-> get_name_by_number(r.orig_rax), regs |-> r, is_exit |-> is_exit]
           \in [name : syscall_table \cup {NoName}, regs : Regs, is_exit : BOOLEAN]
BY DEF get_name_by_number

LEMMA TypeTracer ==
  ASSUME TracerInv, Tracer
  PROVE  TypeOK'
<1> DEFINE Lines == [name : syscall_table \cup {NoName}, regs : Regs, is_exit : BOOLEAN]
<1>0. TypeOK /\ NoCall \in Calls \cup {NoCall}
  BY DEF TracerInv
<1>1. CASE PrintExit
  <2>1. /\ regs \in Regs
        /\ syscall_history' = Append(syscall_history,
             [name |-> get_name_by_number(regs.orig_rax), regs |-> regs,
              is_exit |-> TRUE])
    <3>1. tracee = "exited"
      BY <1>1 DEF PrintExit, TracerInv, PlaceInv
    <3>2. regs # <<>>
      BY <1>1, <3>1 DEF PrintExit, TracerInv, RegsInv
    <3>3. QED
      BY <1>0, <1>1, <3>2 DEF PrintExit, PRINT, TypeOK
  <2>2. syscall_history' \in Seq(Lines)
    BY <1>0, <2>1, LineType, AppendLine DEF TypeOK
  <2>3. QED
    BY <1>0, <1>1, <2>2 DEF PrintExit, TypeOK, traceeVars
<1>2. CASE Toggle
  <2>1. regs \in Regs
    BY <1>2 DEF Toggle, TracerInv, RegsInv
  <2>2. \/ UNCHANGED syscall_history
        \/ syscall_history' = Append(syscall_history,
             [name |-> get_name_by_number(regs.orig_rax), regs |-> regs,
              is_exit |-> FALSE])
    BY <1>2 DEF Toggle, PRINT
  <2>3. syscall_history' \in Seq(Lines)
    <3>1. [name |-> get_name_by_number(regs.orig_rax), regs |-> regs,
           is_exit |-> FALSE] \in Lines
      BY <1>0, <2>1, LineType
    <3>2. syscall_history \in Seq(Lines)
      BY <1>0 DEF TypeOK
    <3> HIDE DEF Lines
    <3>3. QED
      BY <2>2, <3>1, <3>2, AppendLine
  <2>4. QED
    BY <1>0, <1>2, <2>3 DEF Toggle, TypeOK, traceeVars
<1>3. CASE GetRegs
  <2>1. regs' \in Regs
    BY <1>0, <1>3, CallsAssumption
    DEF GetRegs, TraceeRegs, Serves, Regs, TypeOK
  <2>2. QED
    BY <1>0, <1>3, <2>1 DEF GetRegs, TypeOK, traceeVars
<1>4. CASE Usage \/ AttachFails \/ ForkFails \/ FirstWait \/ SetOptions \/ Wait
           \/ GetRegsFails
  BY <1>0, <1>4 DEF Usage, AttachFails, ForkFails, FirstWait, SetOptions, Wait,
                    GetRegsFails, FATAL, TypeOK, traceeVars
<1>5. CASE Attach \/ Fork \/ Resume
  BY <1>0, <1>5 DEF Attach, Fork, Resume, Resumed, FATAL, TypeOK, Running, Stopped
<1>6. QED
  BY <1>1, <1>2, <1>3, <1>4, <1>5 DEF Tracer

LEMMA TypeTracee ==
  ASSUME TypeOK, Tracee
  PROVE  TypeOK'
<1> USE CallsAssumption DEF TypeOK, Becomes, Running, Stopped, Over
<1>1. UNCHANGED tracerVars
  BY DEF Tracee
<1>2. CASE ExecStops \/ ExitsEarly \/ LeaveCall \/ ExitProcess
  BY <1>1, <1>2 DEF ExecStops, ExitsEarly, LeaveCall, ExitProcess, tracerVars
<1>b. /\ \A n \in 0..MaxCalls : n < MaxCalls => n + 1 \in 0..MaxCalls
      /\ \A n \in 0..MaxSignals : n < MaxSignals => n + 1 \in 0..MaxSignals
      /\ \A n \in Nat : n + 1 \in Nat /\ n + 0 \in Nat
  OBVIOUS
<1>3. CASE EnterCall
  <2>1. made' \in 0..MaxCalls
    BY <1>b, <1>3 DEF EnterCall
  <2>2. QED
    BY <1>1, <1>3, <2>1 DEF EnterCall, tracerVars
<1>4. CASE StopForSignal
  <2>1. signals' \in 0..MaxSignals
    BY <1>b, <1>4 DEF StopForSignal
  <2>2. extra' \in Nat
    BY <1>b, <1>4 DEF StopForSignal
  <2>3. due' \in BOOLEAN
    BY <1>4, Zenon DEF StopForSignal
  <2>4. QED
    BY <1>1, <1>4, <2>1, <2>2, <2>3 DEF StopForSignal, tracerVars
<1>5. CASE Kill
  <2>1. signals' \in 0..MaxSignals
    BY <1>b, <1>5 DEF Kill
  <2>2. QED
    BY <1>1, <1>5, <2>1 DEF Kill, tracerVars
<1>6. QED
  BY <1>2, <1>3, <1>4, <1>5 DEF Tracee

-----------------------------------------------------------------------------
(* The inductive invariant, part by part. *)

LEMMA PlaceStep ==
  ASSUME TracerInv, Next
  PROVE  PlaceInv'
<1> USE DEF PlaceInv, Running, Stopped, Over
<1>0. TypeOK /\ PlaceInv
  BY DEF TracerInv
<1>1. CASE Usage \/ AttachFails \/ ForkFails \/ SetOptions \/ GetRegsFails
  BY <1>0, <1>1 DEF Usage, AttachFails, ForkFails, SetOptions, GetRegsFails,
                    FATAL, Serves, traceeVars, TypeOK
<1>2. CASE Attach \/ Fork
  BY <1>0, <1>2 DEF Attach, Fork, TypeOK, Post
<1>r. CASE Resume
  BY <1>0, <1>r DEF Resume, Resumed, FATAL, Serves, TypeOK, Post
<1>3. CASE FirstWait \/ Wait \/ GetRegs
  BY <1>0, <1>3 DEF FirstWait, Wait, GetRegs, Serves, traceeVars, TypeOK, Post
<1>4. CASE PrintExit \/ Toggle
  BY <1>0, <1>4 DEF PrintExit, Toggle, traceeVars, TypeOK
<1>5. CASE Tracee
  <2>1. UNCHANGED <<pc, syscall_state, syscall_history>>
    BY <1>5 DEF Tracee, tracerVars
  <2>2. CASE ExecStops \/ ExitsEarly \/ ExitProcess \/ LeaveCall \/ Kill
    BY <1>0, <2>1, <2>2 DEF ExecStops, ExitsEarly, ExitProcess, LeaveCall, Kill,
                            Becomes, TypeOK, Post
  <2>3. CASE EnterCall \/ StopForSignal
    BY <1>0, <2>1, <2>3 DEF EnterCall, StopForSignal, Becomes, TypeOK, Post
  <2>4. QED
    BY <1>5, <2>2, <2>3 DEF Tracee
<1>6. QED
  BY <1>1, <1>2, <1>r, <1>3, <1>4, <1>5 DEF Next, Tracer

LEMMA RegsStep ==
  ASSUME TracerInv, Next
  PROVE  RegsInv'
<1> USE DEF RegsInv, TraceeRegs
<1>0. TypeOK /\ PlaceInv /\ RegsInv
  BY DEF TracerInv
<1>1. CASE Usage \/ AttachFails \/ ForkFails \/ GetRegsFails \/ FirstWait
           \/ PrintExit
  BY <1>0, <1>1 DEF Usage, AttachFails, ForkFails, GetRegsFails, FATAL,
                    FirstWait, PrintExit
<1>2. CASE SetOptions
  BY <1>0, <1>2 DEF SetOptions, FATAL, PlaceInv, Serves, Stopped, Over, traceeVars
<1>3. CASE Attach \/ Fork
  BY <1>0, <1>3 DEF Attach, Fork
<1>4. CASE Resume
  BY <1>0, <1>4 DEF Resume, Resumed, FATAL, Serves, Stopped
<1>5. CASE Wait
  BY <1>0, <1>5 DEF Wait
<1>6. CASE GetRegs
  BY <1>0, <1>6, CallsAssumption DEF GetRegs, Serves, TypeOK, Regs, traceeVars
<1>7. CASE Toggle
  BY <1>0, <1>7 DEF Toggle, traceeVars, Stopped
<1>8. CASE Tracee
  <2>1. UNCHANGED <<pc, regs>>
    BY <1>8 DEF Tracee, tracerVars
  <2>2. CASE ExecStops \/ ExitsEarly \/ Kill
    BY <1>0, <2>1, <2>2 DEF ExecStops, ExitsEarly, Kill, Becomes, PlaceInv,
                            Stopped, Running
  <2>3. CASE EnterCall \/ StopForSignal
    BY <1>0, <2>1, <2>3 DEF EnterCall, StopForSignal, Becomes, PlaceInv, Stopped, Over
  <2>4. CASE ExitProcess \/ LeaveCall
    BY <1>0, <2>1, <2>4 DEF ExitProcess, LeaveCall, Becomes, PlaceInv, Stopped, Over
  <2>5. QED
    BY <1>8, <2>2, <2>3, <2>4 DEF Tracee
<1>9. QED
  BY <1>1, <1>2, <1>3, <1>4, <1>5, <1>6, <1>7, <1>8 DEF Next, Tracer

\* What a line adds to the history.
LEMMA LineAdded ==
  ASSUME TypeOK, NEW r \in Regs, NEW is_exit \in BOOLEAN, PRINT(r, is_exit)
  PROVE  \E n \in Nat :
           /\ n = Len(syscall_history')
           /\ syscall_history' # <<>>
           /\ DOMAIN syscall_history' = DOMAIN syscall_history \cup {n}
           /\ syscall_history'[n].regs = r /\ syscall_history'[n].is_exit = is_exit
           /\ \A i \in DOMAIN syscall_history :
                i \in Nat /\ i < n /\ syscall_history'[i] = syscall_history[i]
<1> DEFINE Lines == [name : syscall_table \cup {NoName}, regs : Regs, is_exit : BOOLEAN]
           line == [name |-> get_name_by_number(r.orig_rax), regs |-> r,
                    is_exit |-> is_exit]
<1>1. line \in Lines /\ line.regs = r /\ line.is_exit = is_exit
  BY LineType
<1>2. syscall_history \in Seq(Lines) /\ Len(syscall_history) + 1 \in Nat
  BY DEF TypeOK
<1>3. syscall_history' = Append(syscall_history, line)
  BY DEF PRINT
<1> HIDE DEF Lines, line
<1>4. QED
  BY <1>1, <1>2, <1>3, AppendLine

\* What that means for the calls that have their line.
LEMMA PrintedStep ==
  ASSUME TypeOK, NEW r \in Regs, NEW is_exit \in BOOLEAN, PRINT(r, is_exit)
  PROVE  \A k : Printed(k)' <=> Printed(k) \/ (~is_exit /\ r.at # "signal" /\ r.no = k)
<1>1. PICK n \in Nat :
        /\ DOMAIN syscall_history' = DOMAIN syscall_history \cup {n}
        /\ syscall_history'[n].regs = r /\ syscall_history'[n].is_exit = is_exit
        /\ \A i \in DOMAIN syscall_history : syscall_history'[i] = syscall_history[i]
  BY LineAdded
<1>2. QED
  BY <1>1 DEF Printed, IsLineOf, IsCallLine

\* The tracer has dealt with the stop whose registers it holds.
LEMMA ToggleDeals ==
  ASSUME TracerInv, Toggle
  PROVE  /\ regs.at = "entry" => Within'
         /\ regs.at \in {"exit", "signal"} => Between'
<1>0. /\ TypeOK /\ regs \in Regs /\ regs.no = made
      /\ regs.at = "entry" => Entered
      /\ regs.at = "exit" => Within
      /\ regs.at = "signal" => Signalled
  BY DEF Toggle, TracerInv, RegsInv, ToggleInv
<1>1. UNCHANGED <<made, extra>>
  BY DEF Toggle, traceeVars
<1>2. Post' <=> ~Post
  BY <1>0 DEF Toggle, Post, TypeOK
<1>3. Printed(made)' <=> Printed(made) \/ (Post /\ regs.at # "signal")
  <2>1. CASE Post
    <3>1. PRINT(regs, FALSE)
      BY <2>1 DEF Toggle, Post
    <3>2. \A k : Printed(k)' <=> Printed(k) \/ (regs.at # "signal" /\ regs.no = k)
      BY <1>0, <3>1, PrintedStep
    <3>3. QED
      BY <1>0, <1>1, <2>1, <3>2 DEF Printed, IsLineOf, IsCallLine
  <2>2. CASE ~Post
    <3>1. UNCHANGED syscall_history
      BY <2>2 DEF Toggle, Post
    <3>2. QED
      BY <1>1, <2>2, <3>1 DEF Printed, IsLineOf, IsCallLine
  <2>3. QED
    BY <2>1, <2>2
<1>4. OutOfStep' <=> OutOfStep
  BY <1>1 DEF OutOfStep
<1> HIDE DEF Post, OutOfStep, Printed
<1>5. QED
  BY <1>0, <1>1, <1>2, <1>3, <1>4
  DEF Entered, Within, Between, Signalled, NewestPrinted

\* What the toggle is compared with stays as it is.
LEMMA SameToggle ==
  ASSUME UNCHANGED <<syscall_state, syscall_history, made, extra>>
  PROVE  /\ Entered' <=> Entered
         /\ Within' <=> Within
         /\ Between' <=> Between
         /\ Signalled' <=> Signalled
BY DEF Entered, Within, Between, Signalled, NewestPrinted, Printed, IsLineOf,
       IsCallLine, Post, OutOfStep

LEMMA ToggleStep ==
  ASSUME TracerInv, Next
  PROVE  ToggleInv'
<1>0. TypeOK /\ PlaceInv /\ RegsInv /\ ToggleInv /\ LinesInv
  BY DEF TracerInv
<1>1. CASE Toggle
  <2>1. UNCHANGED <<regs, tracee>> /\ pc = "toggle" /\ pc' = "resume"
    BY <1>1 DEF Toggle, traceeVars
  <2>2. tracee \in Stopped => regs.at = tracee
    BY <1>0, <2>1 DEF RegsInv, TraceeRegs
  <2>3. QED
    BY <1>1, <2>1, <2>2, ToggleDeals DEF ToggleInv, Stopped
<1>2. CASE GetRegs
  <2>1. /\ UNCHANGED <<syscall_state, syscall_history, made, extra>>
        /\ pc = "regs" /\ pc' = "toggle" /\ regs'.at = tracee
    BY <1>2 DEF GetRegs, traceeVars, TraceeRegs
  <2>2. QED
    BY <1>0, <2>1, SameToggle DEF ToggleInv
<1>3. CASE Resume
  <2>1. /\ UNCHANGED <<syscall_state, syscall_history, made, extra>>
        /\ pc = "resume"
        /\ pc' = "wait" => tracee \in Stopped /\ tracee' = Resumed
        /\ pc' \in {"wait", "fatal"}
    BY <1>3 DEF Resume, FATAL, Serves
  <2>2. QED
    BY <1>0, <2>1, SameToggle DEF ToggleInv, Stopped, Resumed
<1>4. CASE SetOptions
  <2>1. pc' = "resume" => tracee' = "signal" /\ Between'
    <3>1. /\ pc = "options" /\ UNCHANGED <<syscall_state, syscall_history, traceeVars>>
          /\ pc' = "resume" => tracee \in Stopped
      BY <1>4 DEF SetOptions, Serves, FATAL
    <3>2. /\ pc' = "resume" => tracee = "signal"
          /\ ~Post /\ extra = 0 /\ made = 0
      BY <1>0, <3>1 DEF PlaceInv, Stopped, Over
    <3>3. Between
      BY <3>2 DEF Between, NewestPrinted, OutOfStep
    <3>4. QED
      BY <3>1, <3>2, <3>3, SameToggle DEF traceeVars
  <2>2. pc' \in {"resume", "fatal"}
    BY <1>4 DEF SetOptions, FATAL
  <2>3. QED
    BY <2>1, <2>2 DEF ToggleInv
<1>5. CASE Usage \/ Attach \/ AttachFails \/ Fork \/ ForkFails \/ FirstWait
           \/ GetRegsFails \/ PrintExit
  BY <1>5 DEF Usage, Attach, AttachFails, Fork, ForkFails, FirstWait,
              GetRegsFails, PrintExit, FATAL, ToggleInv
<1>6. CASE Wait
  <2>1. /\ UNCHANGED <<syscall_state, syscall_history, made, extra, tracee>>
        /\ pc = "wait" /\ pc' \in {"exit", "regs"}
    BY <1>6 DEF Wait
  <2>2. QED
    BY <1>0, <2>1, SameToggle DEF ToggleInv
<1>7. CASE Tracee
  <2>0. UNCHANGED <<pc, syscall_state, syscall_history, regs>>
    BY <1>7 DEF Tracee, tracerVars
  <2>1. CASE EnterCall
    <3>1. /\ made' = made + 1 /\ made \in Nat /\ UNCHANGED extra
          /\ tracee = "user" /\ tracee' = "entry" /\ pc = "wait"
      BY <1>0, <2>1, CallsAssumption
      DEF EnterCall, Becomes, PlaceInv, TypeOK, Stopped, Over
    <3>2. Between
      BY <1>0, <3>1 DEF ToggleInv
    <3>3. ~Printed(made)'
      <4>1. \A i \in DOMAIN syscall_history :
              IsCallLine(i) => syscall_history[i].regs.no \in 1..made
        BY <1>0 DEF LinesInv
      <4>2. made + 1 \notin 1..made
        BY <3>1
      <4>3. QED
        BY <2>0, <3>1, <4>1, <4>2 DEF Printed, IsLineOf, IsCallLine
    <3>4. Entered'
      BY <2>0, <3>1, <3>2, <3>3 DEF Entered, Between, Post, OutOfStep
    <3>5. QED
      BY <2>0, <3>1, <3>4 DEF ToggleInv
  <2>2. CASE StopForSignal
    <3>1. CASE pc = "first"
      BY <2>0, <3>1 DEF ToggleInv
    <3>2. CASE pc # "first"
      <4>1. /\ extra' = extra + 1 /\ extra \in Nat /\ UNCHANGED made
            /\ tracee = "user" /\ tracee' = "signal" /\ pc = "wait"
        BY <1>0, <2>2, <3>2
        DEF StopForSignal, Becomes, PlaceInv, TypeOK, Stopped, Over
      <4>2. Between
        BY <1>0, <4>1 DEF ToggleInv
      <4>3. OutOfStep' <=> ~OutOfStep
        BY <4>1, Parity DEF OutOfStep
      <4>4. (Post' <=> Post) /\ (NewestPrinted' <=> NewestPrinted)
        BY <2>0, <4>1 DEF Post, NewestPrinted, Printed, IsLineOf, IsCallLine
      <4>5. extra' > 0
        BY <4>1
      <4> HIDE DEF OutOfStep, Post, NewestPrinted
      <4>6. Signalled'
        BY <4>2, <4>3, <4>4, <4>5 DEF Signalled, Between
      <4>7. QED
        BY <2>0, <4>1, <4>6 DEF ToggleInv
    <3>3. QED
      BY <3>1, <3>2
  <2>3. CASE ExecStops \/ ExitsEarly \/ LeaveCall \/ ExitProcess \/ Kill
    <3>1. /\ UNCHANGED <<made, extra>>
          /\ \/ tracee' = "killed"
             \/ tracee = "inside" /\ tracee' \in {"exit", "exited"}
             \/ tracee = "new"
             \/ pc = "first"
      BY <2>3 DEF ExecStops, ExitsEarly, LeaveCall, ExitProcess, Kill, Becomes, Over
    <3>2. tracee = "new" => pc = "first"
      BY <1>0 DEF PlaceInv, Stopped, Over, TypeOK
    <3>3. tracee = "inside" => pc = "wait"
      BY <1>0 DEF PlaceInv, Stopped, Over, TypeOK
    <3>4. QED
      BY <1>0, <2>0, <3>1, <3>2, <3>3, SameToggle DEF ToggleInv, Over
  <2>4. QED
    BY <1>7, <2>1, <2>2, <2>3 DEF Tracee
<1>8. QED
  BY <1>1, <1>2, <1>3, <1>4, <1>5, <1>6, <1>7 DEF Next, Tracer

\* A line is printed at the exit of the newest call, unless there were stops
\* of no call, and only if that call has none.
LEMMA LineIsNew ==
  ASSUME TracerInv, Toggle, Post
  PROVE  /\ regs \in Regs /\ regs.no = made
         /\ regs.at # "signal" => ~Printed(made) /\ made \in 1..made
         /\ extra = 0 => regs.at = "exit"
<1>0. /\ TypeOK /\ regs \in Regs /\ regs.no = made
      /\ regs.at = "entry" => Entered
      /\ regs.at = "exit" => Within
      /\ regs.at = "signal" => Signalled
      /\ regs.at \in Stopped
  BY DEF Toggle, TracerInv, RegsInv, ToggleInv, Regs
<1>1. made \in Nat /\ (made > 0 => made \in 1..made)
  BY <1>0, CallsAssumption DEF TypeOK
<1>2. extra = 0 => ~OutOfStep
  BY DEF OutOfStep
<1> HIDE DEF Post, OutOfStep
<1>3. QED
  BY <1>0, <1>1, <1>2 DEF Entered, Within, Signalled, Stopped

LEMMA LinesStep ==
  ASSUME TracerInv, Next
  PROVE  LinesInv'
<1>0. TypeOK /\ PlaceInv /\ ToggleInv /\ LinesInv
  BY DEF TracerInv
<1>1. CASE Toggle /\ Post
  <2>1. /\ regs \in Regs /\ regs.no = made
        /\ regs.at # "signal" => ~Printed(made) /\ made \in 1..made
        /\ extra = 0 => regs.at = "exit"
    BY <1>1, LineIsNew
  <2>2. PRINT(regs, FALSE) /\ UNCHANGED <<made, extra>>
    BY <1>1 DEF Toggle, Post, traceeVars
  <2>3. PICK n \in Nat :
          /\ DOMAIN syscall_history' = DOMAIN syscall_history \cup {n}
          /\ syscall_history'[n].regs = regs /\ ~syscall_history'[n].is_exit
          /\ \A i \in DOMAIN syscall_history :
               i \in Nat /\ i < n /\ syscall_history'[i] = syscall_history[i]
    BY <1>0, <2>1, <2>2, LineAdded
  <2>4. \A k \in 1..made - 1 : Printed(k)'
    BY <1>0, <2>3 DEF LinesInv, Printed, IsLineOf, IsCallLine
  <2>5. \A i \in DOMAIN syscall_history' :
          /\ IsCallLine(i)' => syscall_history'[i].regs.no \in 1..made
          /\ extra = 0 => syscall_history'[i].is_exit
                            \/ syscall_history'[i].regs.at = "exit"
    BY <1>0, <2>1, <2>3 DEF LinesInv, IsCallLine
  <2>6. ASSUME NEW i \in DOMAIN syscall_history', NEW j \in DOMAIN syscall_history',
               i < j, IsCallLine(i)', IsCallLine(j)'
        PROVE  syscall_history'[i].regs.no < syscall_history'[j].regs.no
    <3>1. i # n
      BY <2>3, <2>6
    <3>2. i \in DOMAIN syscall_history /\ syscall_history'[i] = syscall_history[i]
          /\ IsCallLine(i)
      BY <2>3, <2>6, <3>1 DEF IsCallLine
    <3>3. CASE j = n
      <4>1. regs.at # "signal" /\ syscall_history'[j].regs.no = made
        BY <2>1, <2>3, <2>6, <3>3 DEF IsCallLine
      <4>2. syscall_history[i].regs.no \in 1..made /\ syscall_history[i].regs.no # made
        BY <1>0, <2>1, <3>2, <4>1 DEF LinesInv, Printed, IsLineOf
      <4>3. made \in Nat
        BY <1>0, CallsAssumption DEF TypeOK
      <4>4. QED
        BY <3>2, <4>1, <4>2, <4>3
    <3>4. CASE j # n
      BY <1>0, <2>3, <2>6, <3>2, <3>4 DEF LinesInv, IsCallLine
    <3>5. QED
      BY <3>3, <3>4
  <2>7. QED
    BY <2>2, <2>4, <2>5, <2>6 DEF LinesInv
<1>2. CASE PrintExit
  <2>1. UNCHANGED <<made, extra>>
    BY <1>2 DEF PrintExit, traceeVars
  <2>2. regs \in Regs
    BY <1>0, <1>2 DEF PrintExit, PlaceInv, TracerInv, RegsInv, TypeOK
  <2>3. PICK n \in Nat :
          /\ DOMAIN syscall_history' = DOMAIN syscall_history \cup {n}
          /\ syscall_history'[n].is_exit
          /\ \A i \in DOMAIN syscall_history :
               i \in Nat /\ i < n /\ syscall_history'[i] = syscall_history[i]
    BY <1>0, <1>2, <2>2, LineAdded DEF PrintExit
  <2>4. \A k \in 1..made - 1 : Printed(k)'
    BY <1>0, <2>3 DEF LinesInv, Printed, IsLineOf, IsCallLine
  <2>5. QED
    BY <1>0, <2>1, <2>3, <2>4 DEF LinesInv, IsCallLine
<1>3. CASE Tracee /\ EnterCall
  <2>1. /\ made' = made + 1 /\ made \in Nat /\ tracee = "user"
        /\ UNCHANGED <<extra, syscall_history>>
    BY <1>0, <1>3, CallsAssumption DEF EnterCall, TypeOK, Tracee, tracerVars
  <2>2. pc = "wait"
    BY <1>0, <1>3 DEF EnterCall, PlaceInv, TypeOK, Stopped, Over
  <2>3. NewestPrinted
    BY <1>0, <2>1, <2>2 DEF ToggleInv, Between
  <2>4. \A k \in 1..made' - 1 : k \in 1..made - 1 \/ (k = made /\ made > 0)
    BY <2>1
  <2>5. \A k \in 1..made' - 1 : Printed(k)
    BY <1>0, <2>3, <2>4 DEF LinesInv, NewestPrinted
  <2>6. \A k : k \in 1..made => k \in 1..made'
    BY <2>1
  <2>7. QED
    BY <1>0, <2>1, <2>5, <2>6 DEF LinesInv, Printed, IsLineOf, IsCallLine
<1>4. CASE UNCHANGED <<syscall_history, made>> /\ (extra' = 0 => extra = 0)
  BY <1>0, <1>4 DEF LinesInv, Printed, IsLineOf, IsCallLine
<1>5. CASE Tracee /\ StopForSignal
  <2>1. extra' = 0 => extra = 0
    BY <1>0, <1>5 DEF StopForSignal, TypeOK
  <2>2. QED
    BY <1>4, <1>5, <2>1 DEF Tracee, tracerVars, StopForSignal
<1>6. CASE Toggle /\ ~Post
  BY <1>4, <1>6 DEF Toggle, Post, traceeVars
<1>7. QED
  BY <1>1, <1>2, <1>3, <1>4, <1>5, <1>6
  DEF Next, Tracer, Usage, Attach, AttachFails, Fork, ForkFails, FirstWait,
      SetOptions, Resume, Wait, GetRegs, GetRegsFails, FATAL, Tracee, ExecStops,
      ExitsEarly, LeaveCall, ExitProcess, Kill, tracerVars, traceeVars

LEMMA EndStep ==
  ASSUME TracerInv, Next
  PROVE  EndInv'
<1>0. TypeOK /\ PlaceInv /\ RegsInv /\ ToggleInv /\ EndInv
  BY DEF TracerInv
<1>1. CASE PrintExit
  <2>1. regs = [orig_rax |-> ExitCall, at |-> "entry", no |-> made] /\ regs \in Regs
    <3>1. regs = [orig_rax |-> ExitCall, at |-> "entry", no |-> made]
      BY <1>0, <1>1 DEF PrintExit, PlaceInv, RegsInv
    <3>2. ExitCall \in Calls \cup {NoCall} /\ made \in Nat
      BY <1>0, CallsAssumption DEF TypeOK
    <3>3. QED
      BY <3>1, <3>2 DEF Regs, Stopped
  <2>2. UNCHANGED <<made, extra>> /\ pc = "exit" /\ pc' = "done" /\ PRINT(regs, TRUE)
    BY <1>1 DEF PrintExit, traceeVars
  <2>3. PICK n \in Nat :
          /\ n = Len(syscall_history') /\ syscall_history' # <<>>
          /\ DOMAIN syscall_history' = DOMAIN syscall_history \cup {n}
          /\ syscall_history'[n].regs = regs /\ syscall_history'[n].is_exit = TRUE
          /\ \A i \in DOMAIN syscall_history : syscall_history'[i] = syscall_history[i]
    BY <1>0, <2>1, <2>2, LineAdded
  <2>4. \A i \in DOMAIN syscall_history' : syscall_history'[i].is_exit => i = n
    BY <1>0, <2>2, <2>3 DEF EndInv
  <2>5. Within
    BY <1>0, <2>2 DEF PlaceInv, ToggleInv
  <2>6. Printed(made)' <=> Printed(made)
    <3>1. \A k : Printed(k)' <=> Printed(k)
      BY <1>0, <2>1, <2>2, PrintedStep
    <3>2. QED
      BY <2>2, <3>1 DEF Printed, IsLineOf, IsCallLine
  <2>7. made' > 0 /\ (Printed(made)' <=> OutOfStep')
    <3>1. OutOfStep' <=> OutOfStep
      BY <2>2 DEF OutOfStep
    <3>2. QED
      BY <2>2, <2>5, <2>6, <3>1 DEF Within
  <2>8. QED
    BY <2>1, <2>2, <2>3, <2>4, <2>7 DEF EndInv
<1>2. CASE Toggle
  <2>1. pc # "done" /\ pc' # "done" /\ regs \in Regs
    BY <1>0, <1>2 DEF Toggle, RegsInv
  <2>2. \A i \in DOMAIN syscall_history : ~syscall_history[i].is_exit
    BY <1>0, <2>1 DEF EndInv
  <2>3. CASE PRINT(regs, FALSE)
    <3>1. PICK n \in Nat :
            /\ DOMAIN syscall_history' = DOMAIN syscall_history \cup {n}
            /\ syscall_history'[n].is_exit = FALSE
            /\ \A i \in DOMAIN syscall_history : syscall_history'[i] = syscall_history[i]
      BY <1>0, <2>1, <2>3, LineAdded
    <3>2. QED
      BY <2>1, <2>2, <3>1 DEF EndInv
  <2>4. CASE UNCHANGED syscall_history
    BY <2>1, <2>2, <2>4 DEF EndInv
  <2>5. QED
    BY <1>2, <2>3, <2>4 DEF Toggle
<1>3. CASE pc = "done" /\ pc' = "done" /\ UNCHANGED <<syscall_history, made, extra>>
  BY <1>0, <1>3 DEF EndInv, Printed, IsLineOf, IsCallLine, OutOfStep
<1>4. CASE pc # "done" /\ pc' # "done" /\ UNCHANGED syscall_history
  BY <1>0, <1>4 DEF EndInv
<1>5. pc = "done" => ~EnterCall /\ ~StopForSignal
  BY <1>0 DEF PlaceInv, EnterCall, StopForSignal
<1>6. QED
  BY <1>1, <1>2, <1>3, <1>4, <1>5
  DEF Next, Tracer, Usage, Attach, AttachFails, Fork, ForkFails, FirstWait,
      SetOptions, Resume, Wait, GetRegs, GetRegsFails, FATAL, Tracee,
      ExecStops, ExitsEarly, LeaveCall, ExitProcess, StopForSignal, Kill,
      tracerVars, traceeVars

LEMMA TracerInvCorrect == Spec => []TracerInv
<1>1. TracerInv /\ [Next]_vars => TracerInv'
  <2>1. ASSUME TracerInv, Next
        PROVE  TracerInv'
    <3>1. TypeOK'
      BY <2>1, TypeTracer, TypeTracee DEF Next, TracerInv
    <3>2. PlaceInv' /\ RegsInv' /\ ToggleInv' /\ LinesInv' /\ EndInv'
      BY <2>1, PlaceStep, RegsStep, ToggleStep, LinesStep, EndStep
    <3>3. QED
      BY <3>1, <3>2 DEF TracerInv
  <2>2. ASSUME TracerInv, UNCHANGED vars
        PROVE  TracerInv'
    <3>1. TypeOK' /\ PlaceInv' /\ RegsInv'
      BY <2>2 DEF TracerInv, TypeOK, PlaceInv, RegsInv, Post, TraceeRegs,
                  vars, tracerVars, traceeVars
    <3>2. ToggleInv' /\ LinesInv' /\ EndInv'
      BY <2>2, SameToggle
      DEF TracerInv, ToggleInv, LinesInv, EndInv, Printed, IsLineOf, IsCallLine,
          OutOfStep, vars, tracerVars, traceeVars
    <3>3. QED
      BY <3>1, <3>2 DEF TracerInv
  <2>3. QED
    BY <2>1, <2>2
<1>2. QED
  BY <1>1, InitInv, PTL DEF Spec

-----------------------------------------------------------------------------
(* The theorems. *)

\* However many signals stop the tracee between its calls, what the tracer
\* takes for an entry and for an exit is decided by their parity alone.
THEOREM InStepCorrect == Spec => []InStep
<1>1. TracerInv => InStep
  BY DEF TracerInv, ToggleInv, InStep, Within, Between, Stopped
<1>2. QED
  BY <1>1, TracerInvCorrect, PTL

\* And for every number of calls, each that is over has one line printed at a
\* stop of it, in order, and without such signals at its exit; the line of the
\* tracee's exit is the last, and repeats one of exit_group exactly when the
\* tracer is out of step.
THEOREM CallLinesCorrect == Spec => []CallLines
<1>1. TracerInv => CallLines
  <2> SUFFICES ASSUME TracerInv
               PROVE  CallLines
    OBVIOUS
  <2>0. made \in Nat
    BY CallsAssumption DEF TracerInv, TypeOK
  <2>1. ASSUME pc = "resume", tracee \in Stopped, NEW k \in 1..made,
               ~(k = made /\ tracee = "entry")
        PROVE  Printed(k)
    <3>1. CASE k = made
      BY <2>1, <3>1
      DEF TracerInv, ToggleInv, Between, NewestPrinted, Stopped
    <3>2. CASE k # made
      <4>1. k \in 1..made - 1
        BY <2>0, <3>2
      <4>2. QED
        BY <4>1 DEF TracerInv, LinesInv
    <3>3. QED
      BY <3>1, <3>2
  <2>2. ASSUME pc = "done", NEW k \in 1..made
        PROVE  Printed(k) <=> (k < made \/ OutOfStep)
    <3>1. CASE k = made
      <4>1. ~(k < made)
        BY <2>0, <3>1
      <4>2. QED
        BY <2>2, <3>1, <4>1 DEF TracerInv, EndInv
    <3>2. CASE k # made
      <4>1. k \in 1..made - 1 /\ k < made
        BY <2>0, <3>2
      <4>2. QED
        BY <4>1 DEF TracerInv, LinesInv
    <3>3. QED
      BY <3>1, <3>2
  <2>3. QED
    BY <2>1, <2>2 DEF TracerInv, LinesInv, EndInv, CallLines
<1>2. QED
  BY <1>1, TracerInvCorrect, PTL

\* The tracer ends with the call that ended the tracee, or with an error
\* that leaves no live tracee behind.
THEOREM HonestEndCorrect == Spec => []HonestEnd
<1>1. TracerInv => HonestEnd
  BY DEF TracerInv, PlaceInv, EndInv, HonestEnd
<1>2. QED
  BY <1>1, TracerInvCorrect, PTL

-----------------------------------------------------------------------------
(* The two-person chat: split.  It is a recursive function on texts; what it *)
(* yields is shown by the shortest text for which it would not.              *)

LEMMA Least ==
  ASSUME NEW T \in SUBSET Nat, T # {}
  PROVE  \E n \in T : \A m \in T : n <= m
<1> DEFINE R == {ss \in Nat \X Nat : ss[1] < ss[2]}
<1>1. IsWellFoundedOn(R, Nat)
  BY NatLessThanWellFounded DEF OpToRel
<1>2. PICK n \in T : \A m \in T : ~(<<m, n>> \in R)
  <2> HIDE DEF R
  <2>1. QED
    BY <1>1, WFMin
<1>3. \A m \in T : n <= m
  <2> TAKE m \in T
  <2>1. n \in Nat /\ m \in Nat
    OBVIOUS
  <2>2. ~(m < n)
    BY <2>1, <1>2
  <2>3. QED
    BY <2>1, <2>2
<1>4. QED
  BY <1>3


\* find returns the place of the first newline.
LEMMA FindFirst ==
  ASSUME NEW s \in Seq(Int)
  PROVE  /\ Find(s) \in 0..Len(s)
         /\ Find(s) = 0 => \A k \in 1..Len(s) : s[k] # NL
         /\ Find(s) # 0 => s[Find(s)] = NL /\ \A k \in 1..Find(s) - 1 : s[k] # NL
<1> DEFINE I == {k \in 1..Len(s) : s[k] = NL}
<1>1. Find(s) = IF I # {} THEN CHOOSE x \in I : \A y \in I : x <= y ELSE 0
  BY DEF Find, SelectInSeq, Min
<1>2. CASE I = {}
  BY <1>1, <1>2
<1>3. CASE I # {}
  <2>1. I \in SUBSET Nat
    OBVIOUS
  <2>2. \E x \in I : \A y \in I : x <= y
    <3> HIDE DEF I
    <3>1. QED
      BY <1>3, <2>1, Least
  <2>3. Find(s) \in I /\ \A y \in I : Find(s) <= y
    <3> HIDE DEF I
    <3>1. QED
      BY <1>1, <1>3, <2>2
  <2>4. Find(s) \in 1..Len(s) /\ s[Find(s)] = NL
    BY <2>3
  <2>5. ASSUME NEW k \in 1..Find(s) - 1
        PROVE  s[k] # NL
    <3>1. k \in 1..Len(s) /\ ~(Find(s) <= k)
      BY <2>4
    <3>2. k \notin I
      BY <2>3, <3>1
    <3>3. QED
      BY <3>1, <3>2
  <2>6. QED
    BY <2>4, <2>5
<1>4. QED
  BY <1>2, <1>3

\* What is left behind the first newline.
Behind(s) == SubSeq(s, Find(s) + 1, Len(s))

LEMMA BehindShorter ==
  ASSUME NEW s \in Seq(Int), Find(s) # 0
  PROVE  /\ Behind(s) \in Seq(Int)
         /\ Len(Behind(s)) = Len(s) - Find(s)
         /\ Len(Behind(s)) < Len(s)
         /\ \A k \in 1..Len(Behind(s)) : Behind(s)[k] = s[Find(s) + k]
  BY FindFirst DEF Behind

\* The texts of at most n symbols, and one step of split on them.
Texts(n) == {s \in Seq(Int) : Len(s) <= n}
Cut(f, s) ==
  IF Find(s) # 0
    THEN <<SubSeq(s, 1, Find(s) - 1)>> \o f[Behind(s)]
    ELSE IF s # <<>> THEN <<s>> ELSE <<>>
Cuts(f, n) == f = [s \in Texts(n) |-> Cut(f, s)]

LEMMA CutsUnique ==
  ASSUME NEW m \in Nat, NEW n \in Nat, NEW f, NEW g, Cuts(f, m), Cuts(g, n)
  PROVE  \A s \in Seq(Int) : Len(s) <= m /\ Len(s) <= n => f[s] = g[s]
<1> DEFINE T == {k \in Nat : \E s \in Seq(Int) :
                   Len(s) = k /\ Len(s) <= m /\ Len(s) <= n /\ f[s] # g[s]}
<1>1. ASSUME T # {}
      PROVE  FALSE
  <2>1. PICK k \in T : \A j \in T : k <= j
    <3>1. T \in SUBSET Nat
      OBVIOUS
    <3> HIDE DEF T
    <3>2. QED
      BY <1>1, <3>1, Least
  <2>2. PICK s \in Seq(Int) : Len(s) = k /\ Len(s) <= m /\ Len(s) <= n /\ f[s] # g[s]
    OBVIOUS
  <2>3. f[s] = Cut(f, s) /\ g[s] = Cut(g, s)
    <3>1. s \in Texts(m) /\ s \in Texts(n)
      BY <2>2 DEF Texts
    <3>2. f = [u \in Texts(m) |-> Cut(f, u)] /\ g = [u \in Texts(n) |-> Cut(g, u)]
      BY DEF Cuts
    <3>3. QED
      BY <3>1, <3>2
  <2>4. Find(s) # 0
    BY <2>2, <2>3 DEF Cut
  <2>5. f[Behind(s)] # g[Behind(s)]
    BY <2>2, <2>3, <2>4 DEF Cut
  <2>6. Behind(s) \in Seq(Int) /\ Len(Behind(s)) \in Nat /\ Len(Behind(s)) < Len(s)
    BY <2>4, BehindShorter
  <2>7. Len(Behind(s)) \in T
    BY <2>2, <2>5, <2>6
  <2>8. QED
    BY <2>1, <2>2, <2>6, <2>7
<1>2. ASSUME NEW s \in Seq(Int), Len(s) <= m, Len(s) <= n, f[s] # g[s]
      PROVE  FALSE
  <2>1. Len(s) \in T
    BY <1>2
  <2>2. QED
    BY <1>1, <2>1
<1>3. QED
  BY <1>2

LEMMA CutsExist ==
  ASSUME NEW n \in Nat
  PROVE  \E f : Cuts(f, n)
<1> DEFINE T == {k \in Nat : ~ \E f : Cuts(f, k)}
<1>1. ASSUME T # {}
      PROVE  FALSE
  <2>1. PICK k \in T : \A j \in T : k <= j
    <3>1. T \in SUBSET Nat
      OBVIOUS
    <3> HIDE DEF T
    <3>2. QED
      BY <1>1, <3>1, Least
  <2>2. k \in Nat /\ ~ \E f : Cuts(f, k)
    OBVIOUS
  <2>3. PICK g : k # 0 => Cuts(g, k - 1)
    <3>1. k # 0 => k - 1 \in Nat /\ k - 1 \notin T
      <4>1. k # 0 => k - 1 \in Nat /\ ~(k <= k - 1)
        BY <2>2
      <4> HIDE DEF T
      <4>2. QED
        BY <2>1, <4>1
    <3>2. QED
      BY <3>1
  <2> DEFINE f == [s \in Texts(k) |-> Cut(g, s)]
  <2>4. ASSUME NEW s \in Texts(k)
        PROVE  Cut(g, s) = Cut(f, s)
    <3>1. CASE Find(s) = 0
      BY <3>1 DEF Cut
    <3>2. CASE Find(s) # 0
      <4>1. /\ s \in Seq(Int) /\ Len(s) <= k
            /\ Behind(s) \in Seq(Int) /\ Len(Behind(s)) \in Nat /\ Len(Behind(s)) < Len(s)
        BY <3>2, BehindShorter DEF Texts
      <4>2. k # 0 /\ Behind(s) \in Texts(k) /\ Behind(s) \in Texts(k - 1)
        BY <2>2, <4>1 DEF Texts
      <4>3. g[Behind(s)] = Cut(g, Behind(s))
        <5>1. g = [u \in Texts(k - 1) |-> Cut(g, u)]
          BY <2>3, <4>2 DEF Cuts
        <5>2. QED
          BY <4>2, <5>1
      <4>4. f[Behind(s)] = Cut(g, Behind(s))
        BY <4>2
      <4>5. QED
        BY <3>2, <4>3, <4>4 DEF Cut
    <3>3. QED
      BY <3>1, <3>2
  <2>5. Cuts(f, k)
    <3> DEFINE h == [s \in Texts(k) |-> Cut(f, s)]
    <3>1. \A s \in Texts(k) : f[s] = h[s]
      <4> HIDE DEF f
      <4>1. QED
        BY <2>4 DEF f
    <3>2. f = h
      <4> HIDE DEF Cut
      <4>1. QED
        BY <3>1
    <3>3. QED
      BY <3>2 DEF Cuts
  <2>6. QED
    BY <2>2, <2>5
<1>2. QED
  BY <1>1

\* split is what its definition says it is.
LEMMA SplitIs ==
  ASSUME NEW s \in Seq(Int)
  PROVE  split[s] = Cut(split, s)
<1> DEFINE Eq(g) == g = [u \in Seq(Int) |->
                        IF Find(u) # 0
                          THEN <<SubSeq(u, 1, Find(u) - 1)>> \o g[SubSeq(u, Find(u) + 1, Len(u))]
                          ELSE IF u # <<>> THEN <<u>> ELSE <<>>]
           C(n) == CHOOSE f : Cuts(f, n)
           F == [u \in Seq(Int) |-> C(Len(u))[u]]
<1>1. split = CHOOSE g : Eq(g)
  BY DEF split
<1>2. ASSUME NEW n \in Nat
      PROVE  Cuts(C(n), n)
  BY CutsExist
<1>3. ASSUME NEW u \in Seq(Int)
      PROVE  F[u] = Cut(F, u)
  <2>0. Len(u) \in Nat
    OBVIOUS
  <2>1. F[u] = Cut(C(Len(u)), u)
    <3>1. C(Len(u)) = [v \in Texts(Len(u)) |-> Cut(C(Len(u)), v)]
      BY <1>2, <2>0 DEF Cuts
    <3>2. u \in Texts(Len(u))
      BY <2>0 DEF Texts
    <3> HIDE DEF C
    <3>3. QED
      BY <3>1, <3>2
  <2>2. CASE Find(u) = 0
    BY <2>1, <2>2 DEF Cut
  <2>3. CASE Find(u) # 0
    <3> DEFINE v == Behind(u)
    <3>1. v \in Seq(Int) /\ Len(v) \in Nat /\ Len(v) < Len(u)
      BY <2>3, BehindShorter
    <3>2. F[v] = C(Len(u))[v]
      <4>1. F[v] = C(Len(v))[v]
        BY <3>1
      <4>2. Cuts(C(Len(v)), Len(v)) /\ Cuts(C(Len(u)), Len(u))
        BY <1>2, <2>0, <3>1
      <4>3. Len(v) <= Len(v) /\ Len(v) <= Len(u)
        BY <2>0, <3>1
      <4> HIDE DEF C, v
      <4>4. QED
        BY <2>0, <3>1, <4>1, <4>2, <4>3, CutsUnique
    <3> HIDE DEF F
    <3>3. QED
      BY <2>1, <2>3, <3>2 DEF Cut
  <2>4. QED
    BY <2>2, <2>3
<1>4. Eq(F)
  <2> DEFINE G == [u \in Seq(Int) |->
                     IF Find(u) # 0
                       THEN <<SubSeq(u, 1, Find(u) - 1)>> \o F[SubSeq(u, Find(u) + 1, Len(u))]
                       ELSE IF u # <<>> THEN <<u>> ELSE <<>>]
  <2>1. ASSUME NEW u \in Seq(Int)
        PROVE  F[u] = G[u]
    <3> HIDE DEF F
    <3>1. QED
      BY <1>3 DEF Cut, Behind
  <2>2. F = [u \in Seq(Int) |-> F[u]] /\ G = [u \in Seq(Int) |-> G[u]]
    <3>1. F = [u \in Seq(Int) |-> F[u]]
      <4> HIDE DEF C
      <4>1. QED
        OBVIOUS
    <3>2. G = [u \in Seq(Int) |-> G[u]]
      <4> HIDE DEF F
      <4>1. QED
        OBVIOUS
    <3>3. QED
      BY <3>1, <3>2
  <2>3. F = G
    <3> HIDE DEF F, G
    <3>1. QED
      BY <2>1, <2>2
  <2>4. QED
    BY <2>3
<1>5. Eq(split)
  <2> HIDE DEF Eq
  <2>1. QED
    BY <1>1, <1>4
<1>6. QED
  BY <1>5 DEF Cut, Behind


\* Where the pieces of a text are in it: off[r] symbols come before piece r.
\* They are in order and hold everything but the newlines.
CutAt(t, p, off) ==
  /\ p \in Seq(Seq(Int)) /\ off \in [DOMAIN p -> Nat]
  /\ \A r \in DOMAIN p : \A a \in DOMAIN p[r] :
       off[r] + a \in DOMAIN t /\ p[r][a] = t[off[r] + a] /\ p[r][a] # NL
  /\ \A r \in DOMAIN p : \A q \in 1..r - 1 : off[q] + Len(p[q]) <= off[r]
  /\ \A k \in DOMAIN t : t[k] # NL => \E r \in DOMAIN p : \E a \in DOMAIN p[r] : k = off[r] + a

LEMMA CutNone ==
  ASSUME NEW t \in Seq(Int), Find(t) = 0
  PROVE  \E off : CutAt(t, Cut(split, t), off)
<1>1. CASE t = <<>>
  <2>1. Cut(split, t) = <<>>
    BY <1>1 DEF Cut
  <2> DEFINE p == <<>>
             off == [r \in DOMAIN p |-> 0]
  <2>2. p \in Seq(Seq(Int)) /\ DOMAIN p = {}
    OBVIOUS
  <2>3. off \in [DOMAIN p -> Nat]
    OBVIOUS
  <2>4. DOMAIN t = {}
    BY <1>1
  <2>5. CutAt(t, p, off)
    <3> HIDE DEF off, p
    <3>1. QED
      BY <2>2, <2>3, <2>4 DEF CutAt
  <2>6. QED
    BY <2>1, <2>5
<1>2. CASE t # <<>>
  <2> DEFINE p == <<t>>
             off == [r \in {1} |-> 0]
  <2>1. Cut(split, t) = p
    BY <1>2, FindFirst DEF Cut
  <2>2. p \in Seq(Seq(Int)) /\ DOMAIN p = {1} /\ p[1] = t
    OBVIOUS
  <2>3. off \in [DOMAIN p -> Nat] /\ off[1] = 0
    BY <2>2
  <2>4. \A k \in DOMAIN t : k \in 1..Len(t) /\ t[k] # NL
    BY FindFirst
  <2>5. CutAt(t, p, off)
    <3> HIDE DEF off, p
    <3>1. QED
      BY <2>2, <2>3, <2>4 DEF CutAt
  <2>6. QED
    BY <2>1, <2>5
<1>3. QED
  BY <1>1, <1>2

LEMMA CutOne ==
  ASSUME NEW t \in Seq(Int), Find(t) # 0,
         NEW e, CutAt(Behind(t), split[Behind(t)], e)
  PROVE  \E off : CutAt(t, Cut(split, t), off)
<1> DEFINE f == Find(t)
           u == Behind(t)
           h == SubSeq(t, 1, f - 1)
           z == split[u]
           p == <<h>> \o z
           off == [r \in DOMAIN p |-> IF r = 1 THEN 0 ELSE f + e[r - 1]]
<1>1. Cut(split, t) = p
  BY DEF Cut
<1>2. /\ f \in 1..Len(t) /\ t[f] = NL
      /\ \A k \in 1..f - 1 : t[k] # NL
  BY FindFirst
<1>3. /\ h \in Seq(Int) /\ Len(h) = f - 1
      /\ \A k \in 1..f - 1 : h[k] = t[k]
  BY <1>2
<1>4. /\ u \in Seq(Int) /\ Len(u) = Len(t) - f
      /\ \A k \in 1..Len(u) : u[k] = t[f + k]
  BY BehindShorter
<1>5. /\ z \in Seq(Seq(Int)) /\ e \in [1..Len(z) -> Nat]
      /\ \A r \in 1..Len(z) : \A a \in 1..Len(z[r]) :
           e[r] + a \in 1..Len(u) /\ z[r][a] = u[e[r] + a] /\ z[r][a] # NL
      /\ \A r \in 1..Len(z) : \A q \in 1..r - 1 : e[q] + Len(z[q]) <= e[r]
      /\ \A k \in 1..Len(u) : u[k] # NL =>
           \E r \in 1..Len(z) : \E a \in 1..Len(z[r]) : k = e[r] + a
  <2> HIDE DEF z, u
  <2>1. CutAt(u, z, e)
    BY DEF z, u
  <2>2. /\ z \in Seq(Seq(Int)) /\ DOMAIN z = 1..Len(z) /\ DOMAIN u = 1..Len(u)
        /\ \A r \in 1..Len(z) : z[r] \in Seq(Int) /\ DOMAIN z[r] = 1..Len(z[r])
    BY <1>4, <2>1 DEF CutAt
  <2>3. e \in [1..Len(z) -> Nat]
    BY <2>1, <2>2 DEF CutAt
  <2>4. ASSUME NEW r \in 1..Len(z), NEW a \in 1..Len(z[r])
        PROVE  e[r] + a \in 1..Len(u) /\ z[r][a] = u[e[r] + a] /\ z[r][a] # NL
    BY <2>1, <2>2 DEF CutAt
  <2>5. \A r \in 1..Len(z) : \A q \in 1..r - 1 : e[q] + Len(z[q]) <= e[r]
    BY <2>1, <2>2 DEF CutAt
  <2>6. ASSUME NEW k \in 1..Len(u), u[k] # NL
        PROVE  \E r \in 1..Len(z) : \E a \in 1..Len(z[r]) : k = e[r] + a
    <3>1. PICK r \in DOMAIN z : \E a \in DOMAIN z[r] : k = e[r] + a
      BY <2>1, <2>2, <2>6 DEF CutAt
    <3>2. QED
      BY <2>2, <3>1
  <2>7. QED
    BY <2>2, <2>3, <2>4, <2>5, <2>6
<1>6. /\ p \in Seq(Seq(Int)) /\ Len(p) = 1 + Len(z) /\ p[1] = h
      /\ \A r \in 2..Len(p) : r - 1 \in 1..Len(z) /\ p[r] = z[r - 1]
      /\ \A r \in 1..Len(z) : r + 1 \in 2..Len(p) /\ p[r + 1] = z[r]
  <2> HIDE DEF h, z
  <2>1. QED
    BY <1>3, <1>5
<1> HIDE DEF f, u, h, z, p
<1>7. off \in [1..Len(p) -> Nat] /\ off[1] = 0 /\ \A r \in 2..Len(p) : off[r] = f + e[r - 1]
  <2>1. \A r \in 1..Len(p) : r # 1 => r \in 2..Len(p)
    BY <1>6
  <2>2. DOMAIN p = 1..Len(p) /\ 1 \in DOMAIN p
    BY <1>6
  <2>3. off[1] = 0
    BY <2>2
  <2>4. ASSUME NEW r \in 2..Len(p)
        PROVE  off[r] = f + e[r - 1] /\ off[r] \in Nat
    <3>1. r \in DOMAIN p /\ r # 1 /\ r - 1 \in 1..Len(z)
      BY <1>6, <2>2
    <3>2. e[r - 1] \in Nat /\ f \in Nat
      BY <1>2, <1>5, <3>1
    <3>3. off[r] = f + e[r - 1]
      BY <3>1
    <3> HIDE DEF off
    <3>4. QED
      BY <3>2, <3>3
  <2>5. DOMAIN off = 1..Len(p) /\ off = [r \in 1..Len(p) |-> off[r]]
    BY <2>2
  <2> HIDE DEF off
  <2>6. \A r \in 1..Len(p) : off[r] \in Nat
    BY <2>1, <2>3, <2>4
  <2>7. QED
    BY <2>3, <2>4, <2>5, <2>6
<1> HIDE DEF off
<1>8. ASSUME NEW r \in 1..Len(p), NEW a \in 1..Len(p[r])
      PROVE  off[r] + a \in 1..Len(t) /\ p[r][a] = t[off[r] + a] /\ p[r][a] # NL
  <2>1. CASE r = 1
    <3>1. a \in 1..f - 1 /\ p[r] = h /\ off[r] = 0
      BY <1>2, <1>3, <1>6, <1>7, <2>1
    <3>2. off[r] + a = a /\ a \in 1..Len(t)
      BY <1>2, <3>1
    <3>3. h[a] = t[a] /\ t[a] # NL
      BY <1>2, <1>3, <3>1
    <3>4. QED
      BY <3>1, <3>2, <3>3
  <2>2. CASE r # 1
    <3>1. r \in 2..Len(p)
      BY <1>6, <2>2
    <3>2. r - 1 \in 1..Len(z) /\ a \in 1..Len(z[r - 1]) /\ p[r] = z[r - 1] /\ off[r] = f + e[r - 1]
      BY <1>6, <1>7, <3>1
    <3>3. e[r - 1] + a \in 1..Len(u) /\ z[r - 1][a] = u[e[r - 1] + a] /\ z[r - 1][a] # NL
      BY <1>5, <3>2
    <3>4. u[e[r - 1] + a] = t[f + (e[r - 1] + a)]
      BY <1>4, <3>3
    <3>5. e[r - 1] \in Nat /\ f \in Nat /\ a \in Nat
      BY <1>2, <1>5, <3>2
    <3>6. f + (e[r - 1] + a) = off[r] + a
      BY <3>2, <3>5
    <3>7. f + (e[r - 1] + a) \in 1..Len(t)
      <4>1. Len(t) \in Nat /\ f \in 1..Len(t)
        BY <1>2
      <4>2. e[r - 1] + a \in 1..(Len(t) - f)
        BY <1>4, <3>3
      <4> DEFINE x == e[r - 1] + a
      <4> HIDE DEF x
      <4>3. f + x \in 1..Len(t)
        BY <4>1, <4>2 DEF x
      <4>4. QED
        BY <4>3 DEF x
    <3>8. QED
      BY <3>2, <3>3, <3>4, <3>6, <3>7
  <2>3. QED
    BY <2>1, <2>2
<1>9. ASSUME NEW r \in 1..Len(p), NEW q \in 1..r - 1
      PROVE  off[q] + Len(p[q]) <= off[r]
  <2>1. r \in 2..Len(p) /\ q \in 1..Len(p)
    BY <1>6
  <2>2. r - 1 \in 1..Len(z) /\ off[r] = f + e[r - 1] /\ e[r - 1] \in Nat
    BY <1>5, <1>6, <1>7, <2>1
  <2>3. CASE q = 1
    BY <1>2, <1>3, <1>6, <1>7, <2>2, <2>3
  <2>4. CASE q # 1
    <3>1. q \in 2..Len(p) /\ q - 1 \in 1..(r - 1) - 1
      BY <1>6, <2>1, <2>4
    <3>2. q - 1 \in 1..Len(z) /\ p[q] = z[q - 1] /\ off[q] = f + e[q - 1] /\ e[q - 1] \in Nat
      BY <1>5, <1>6, <1>7, <3>1
    <3>3. e[q - 1] + Len(z[q - 1]) <= e[r - 1]
      BY <1>5, <2>2, <3>1
    <3>4. Len(z[q - 1]) \in Nat
      BY <1>5, <3>2
    <3>5. QED
      BY <1>2, <2>2, <3>2, <3>3, <3>4
  <2>5. QED
    BY <2>3, <2>4
<1>10. ASSUME NEW k \in 1..Len(t), t[k] # NL
       PROVE  \E r \in 1..Len(p) : \E a \in 1..Len(p[r]) : k = off[r] + a
  <2>1. CASE k < f
    <3>1. 1 \in 1..Len(p) /\ k \in 1..Len(p[1]) /\ k = off[1] + k
      BY <1>2, <1>3, <1>6, <1>7, <2>1
    <3>2. QED
      BY <3>1
  <2>2. CASE ~(k < f)
    <3>1. k - f \in 1..Len(u) /\ u[k - f] # NL
      <4>1. k - f \in 1..Len(u)
        BY <1>2, <1>4, <1>10, <2>2
      <4>2. k = f + (k - f)
        BY <1>2
      <4>3. QED
        BY <1>4, <1>10, <4>1, <4>2
    <3>10. PICK r \in 1..Len(z) : \E a \in 1..Len(z[r]) : k - f = e[r] + a
      BY <1>5, <3>1
    <3>2. PICK a \in 1..Len(z[r]) : k - f = e[r] + a
      BY <3>10
    <3>3. r + 1 \in 2..Len(p) /\ p[r + 1] = z[r] /\ (r + 1) - 1 = r
      <4>1. r \in Nat /\ (r + 1) - 1 = r
        OBVIOUS
      <4>2. r + 1 \in 2..Len(p)
        BY <1>6
      <4>3. p[r + 1] = z[(r + 1) - 1]
        BY <1>6, <4>2
      <4>4. QED
        BY <4>1, <4>2, <4>3
    <3>6. off[r + 1] = f + e[r]
      BY <1>7, <3>3
    <3>7. r + 1 \in 1..Len(p) /\ a \in 1..Len(p[r + 1])
      BY <3>3
    <3>4. k = off[r + 1] + a
      <4>1. e[r] \in Nat /\ a \in Nat
        <5>1. Len(z[r]) \in Nat
          BY <1>5
        <5>2. a \in Nat
          BY <5>1
        <5>3. e[r] \in Nat
          BY <1>5
        <5>4. QED
          BY <5>2, <5>3
      <4>2. QED
        <5>1. f \in Nat /\ k \in Nat
          BY <1>2
        <5>2. \A x, y \in Nat : k - f = x + y => k = (f + x) + y
          BY <5>1
        <5>3. k = (f + e[r]) + a
          BY <3>2, <4>1, <5>2
        <5>4. QED
          BY <3>6, <5>3
    <3>5. QED
      BY <3>4, <3>7
  <2>3. QED
    BY <2>1, <2>2
<1>11. CutAt(t, p, off)
  <2>1. DOMAIN p = 1..Len(p) /\ DOMAIN t = 1..Len(t)
    BY <1>6
  <2>2. \A r \in DOMAIN p : DOMAIN p[r] = 1..Len(p[r])
    BY <1>6
  <2>3. p \in Seq(Seq(Int)) /\ off \in [DOMAIN p -> Nat]
    BY <1>6, <1>7, <2>1
  <2>4. \A r \in DOMAIN p : \A a \in DOMAIN p[r] :
          off[r] + a \in DOMAIN t /\ p[r][a] = t[off[r] + a] /\ p[r][a] # NL
    BY <1>8, <2>1, <2>2
  <2>5. \A r \in DOMAIN p : \A q \in 1..r - 1 : off[q] + Len(p[q]) <= off[r]
    BY <1>9, <2>1
  <2>6. \A k \in DOMAIN t : t[k] # NL =>
          \E r \in DOMAIN p : \E a \in DOMAIN p[r] : k = off[r] + a
    BY <1>10, <2>1, <2>2
  <2>7. QED
    BY <2>3, <2>4, <2>5, <2>6 DEF CutAt
<1>12. QED
  BY <1>1, <1>11

LEMMA SplitCuts ==
  ASSUME NEW t \in Seq(Int)
  PROVE  \E off : CutAt(t, split[t], off)
<1> DEFINE T == {k \in Nat : \E s \in Seq(Int) : Len(s) = k /\ ~ \E off : CutAt(s, split[s], off)}
<1>1. ASSUME T # {}
      PROVE  FALSE
  <2>1. PICK k \in T : \A j \in T : k <= j
    <3>1. T \in SUBSET Nat
      OBVIOUS
    <3> HIDE DEF T
    <3>2. QED
      BY <1>1, <3>1, Least
  <2>2. PICK s \in Seq(Int) : Len(s) = k /\ ~ \E off : CutAt(s, split[s], off)
    OBVIOUS
  <2>3. Find(s) # 0
    BY <2>2, CutNone, SplitIs
  <2>4. Behind(s) \in Seq(Int) /\ Len(Behind(s)) \in Nat /\ Len(Behind(s)) < Len(s)
    BY <2>3, BehindShorter
  <2>5. Len(Behind(s)) \notin T
    <3>1. ~(k <= Len(Behind(s)))
      BY <2>2, <2>4
    <3> HIDE DEF T
    <3>2. QED
      BY <2>1, <3>1
  <2>6. PICK e : CutAt(Behind(s), split[Behind(s)], e)
    BY <2>4, <2>5
  <2>7. QED
    BY <2>2, <2>3, <2>6, CutOne, SplitIs
<1>2. ASSUME ~ \E off : CutAt(t, split[t], off)
      PROVE  FALSE
  <2>1. Len(t) \in T
    BY <1>2
  <2>2. QED
    BY <1>1, <2>1
<1>3. QED
  BY <1>2

-----------------------------------------------------------------------------
(* The stream to a client. *)

\* What holds of a stream holds of its beginning.
LEMMA StreamBegins ==
  ASSUME NEW s \in Seq(Int), NEW t \in Seq(Int), NEW all \in Seq(Nat),
         InOrder(s \o t, all), LinesApart(s \o t, all), IsFramed(s \o t)
  PROVE  InOrder(s, all) /\ LinesApart(s, all) /\ IsFramed(s)
<1> DEFINE u == s \o t
<1>1. u \in Seq(Int) /\ \A k \in 1..Len(s) : k \in 1..Len(u) /\ u[k] = s[k]
  OBVIOUS
<1>2. InOrder(u, all) /\ LinesApart(u, all) /\ IsFramed(u)
  OBVIOUS
<1> HIDE DEF u
<1>3. InOrder(s, all)
  <2>1. ASSUME NEW i \in 1..Len(s), s[i] > 0
        PROVE  /\ s[i] <= Len(all) /\ all[s[i]] = s[i]
               /\ \A k \in 1..i - 1 : s[k] < s[i]
    BY <1>1, <1>2, <2>1 DEF InOrder
  <2>2. ASSUME NEW i \in 1..Len(s), s[i] > 0, NEW n \in 1..s[i] - 1, all[n] # NL
        PROVE  \E k \in 1..i - 1 : s[k] = n
    <3>1. PICK k \in 1..i - 1 : u[k] = n
      BY <1>1, <1>2, <2>2 DEF InOrder
    <3>2. k \in 1..Len(s) /\ u[k] = s[k]
      BY <1>1
    <3>3. QED
      BY <3>1, <3>2
  <2>3. QED
    BY <2>1, <2>2 DEF InOrder
<1>4. LinesApart(s, all)
  <2>1. ASSUME NEW i \in 1..Len(s), NEW j \in 1..Len(s), i < j, s[i] > 0,
               \E n \in s[i]..s[j] : all[n] = NL
        PROVE  \E m \in i..j : s[m] = NL
    <3>1. PICK m \in i..j : u[m] = NL
      BY <1>1, <1>2, <2>1 DEF LinesApart
    <3>2. m \in 1..Len(s) /\ u[m] = s[m]
      BY <1>1
    <3>3. QED
      BY <3>1, <3>2
  <2>2. QED
    BY <2>1 DEF LinesApart
<1>5. IsFramed(s)
  <2>1. ASSUME NEW i \in 1..Len(s)
        PROVE  /\ s[i] = Header <=> i = 1 \/ s[i - 1] = NL
               /\ s[i] = NL => s[i - 1] # Header
    <3>1. CASE i = 1
      BY <1>1, <1>2, <3>1 DEF IsFramed, Header, NL
    <3>2. CASE i # 1
      <4>1. i - 1 \in 1..Len(s)
        BY <3>2
      <4>2. QED
        BY <1>1, <1>2, <3>2, <4>1 DEF IsFramed
    <3>3. QED
      BY <3>1, <3>2
  <2>2. QED
    BY <2>1 DEF IsFramed
<1>6. QED
  BY <1>3, <1>4, <1>5

\* A client that writes on changes nothing of what was sent.
LEMMA WritesOn ==
  ASSUME NEW s \in Seq(Int), NEW all \in Seq(Nat), NEW x \in Nat,
         InOrder(s, all), LinesApart(s, all)
  PROVE  InOrder(s, Append(all, x)) /\ LinesApart(s, Append(all, x))
<1> DEFINE more == Append(all, x)
<1>1. /\ more \in Seq(Nat) /\ Len(more) = Len(all) + 1
      /\ \A n \in 1..Len(all) : more[n] = all[n]
  OBVIOUS
<1> HIDE DEF more
<1>2. ASSUME NEW i \in 1..Len(s), s[i] > 0
      PROVE  /\ s[i] <= Len(all) /\ all[s[i]] = s[i] /\ s[i] \in 1..Len(all)
             /\ \A k \in 1..i - 1 : s[k] < s[i]
             /\ \A n \in 1..s[i] - 1 : all[n] # NL => \E k \in 1..i - 1 : s[k] = n
  BY <1>2 DEF InOrder
<1>3. InOrder(s, more)
  <2>1. ASSUME NEW i \in 1..Len(s), s[i] > 0
        PROVE  /\ s[i] <= Len(more) /\ more[s[i]] = s[i]
               /\ \A k \in 1..i - 1 : s[k] < s[i]
               /\ \A n \in 1..s[i] - 1 : more[n] # NL => \E k \in 1..i - 1 : s[k] = n
    <3>1. s[i] \in 1..Len(all) /\ all[s[i]] = s[i]
      BY <1>2, <2>1
    <3>2. \A n \in 1..s[i] - 1 : n \in 1..Len(all)
      BY <3>1
    <3>3. \A n \in 1..s[i] - 1 : more[n] # NL => \E k \in 1..i - 1 : s[k] = n
      BY <1>1, <1>2, <2>1, <3>2
    <3>4. s[i] <= Len(more) /\ more[s[i]] = s[i]
      BY <1>1, <3>1
    <3>5. QED
      BY <1>2, <2>1, <3>3, <3>4
  <2>2. QED
    BY <2>1 DEF InOrder
<1>4. LinesApart(s, more)
  <2>1. ASSUME NEW i \in 1..Len(s), NEW j \in 1..Len(s), i < j, s[i] > 0,
               NEW n \in s[i]..s[j], more[n] = NL
        PROVE  \E m \in i..j : s[m] = NL
    <3>1. s[j] > 0
      BY <2>1
    <3>2. s[j] \in 1..Len(all)
      BY <1>2, <3>1
    <3>3. n \in 1..Len(all) /\ all[n] = NL
      BY <1>1, <2>1, <3>2
    <3>4. QED
      BY <2>1, <3>3 DEF LinesApart
  <2>2. QED
    BY <2>1 DEF LinesApart
<1>5. QED
  BY <1>3, <1>4 DEF more

LEMMA LineKept ==
  ASSUME NEW p \in Seq(Int), NEW all \in Seq(Nat), NEW x \in Nat,
         NEW n \in Nat, NEW m \in Nat, n <= Len(all), n <= m,
         IsLine(p, all, n)
  PROVE  IsLine(p, Append(all, x), m) /\ IsLine(p, all, m)
<1> DEFINE more == Append(all, x)
<1>1. /\ more \in Seq(Nat) /\ Len(more) = Len(all) + 1
      /\ \A k \in 1..Len(all) : more[k] = all[k]
  OBVIOUS
<1> HIDE DEF more
<1>2. ASSUME NEW a \in 1..Len(p)
      PROVE  p[a] = Junk \/ (p[a] \in 1..n /\ p[a] \in 1..m /\ all[p[a]] = p[a] /\ more[p[a]] = p[a])
  <2>1. p[a] = Junk \/ (p[a] \in 1..n /\ all[p[a]] = p[a])
    BY DEF IsLine
  <2>2. \A k \in 1..n : k \in 1..m /\ k \in 1..Len(all)
    OBVIOUS
  <2>3. QED
    BY <1>1, <2>1, <2>2
<1>3. ASSUME NEW a \in 1..Len(p), NEW b \in 1..Len(p), a < b, p[b] > 0
      PROVE  /\ p[a] < p[b]
             /\ \A k \in p[a]..p[b] : k > 0 => all[k] # NL /\ more[k] # NL
  <2>1. p[a] < p[b] /\ \A k \in p[a]..p[b] : k > 0 => all[k] # NL
    BY <1>3 DEF IsLine
  <2>2. p[b] \in 1..n
    BY <1>2, <1>3 DEF Junk
  <2>3. ASSUME NEW k \in p[a]..p[b], k > 0
        PROVE  more[k] = all[k]
    <3>1. p[a] \in Int /\ p[b] \in Int
      OBVIOUS
    <3>2. k \in 1..Len(all)
      BY <2>2, <2>3, <3>1
    <3>3. QED
      BY <1>1, <3>2
  <2>4. QED
    BY <2>1, <2>3
<1>4. IsLine(p, more, m)
  BY <1>2, <1>3 DEF IsLine
<1>5. IsLine(p, all, m)
  BY <1>2, <1>3 DEF IsLine
<1>6. QED
  BY <1>4, <1>5 DEF more

\* A line that is sent behind all that came before it keeps the stream in
\* order and its messages whole.
LEMMA LineSent ==
  ASSUME NEW s \in Seq(Int), NEW p \in Seq(Int), p # <<>>, NEW all \in Seq(Nat), NEW n \in Nat,
         n <= Len(all), InOrder(s, all), LinesApart(s, all), IsFramed(s),
         s # <<>> => s[Len(s)] = NL,
         IsLine(p, all, n), Ahead(s, p),
         \A a \in 1..Len(p) : \A k \in 1..p[a] - 1 : all[k] # NL =>
           (\E i \in 1..Len(s) : s[i] = k) \/ \E b \in 1..Len(p) : p[b] = k
  PROVE  LET u == s \o Message(p)
         IN  /\ u \in Seq(Int) /\ u # <<>> /\ u[Len(u)] = NL
             /\ InOrder(u, all) /\ LinesApart(u, all) /\ IsFramed(u)
<1> DEFINE l == Len(s)
           w == Len(p)
           u == s \o Message(p)
<1>1. /\ l \in Nat /\ w \in Nat /\ w > 0 /\ u \in Seq(Int) /\ Len(u) = l + w + 2
      /\ \A i \in 1..l : u[i] = s[i]
      /\ u[l + 1] = Header
      /\ \A a \in 1..w : u[l + 1 + a] = p[a]
      /\ u[l + w + 2] = NL
  BY DEF Message, Header, NL
<1>2. \A a \in 1..w : p[a] = Junk \/ (p[a] \in 1..n /\ all[p[a]] = p[a])
  BY DEF IsLine
<1>3. \A a, b \in 1..w : a < b /\ p[b] > 0 => p[a] < p[b] /\ \A k \in p[a]..p[b] : k > 0 => all[k] # NL
  BY DEF IsLine
<1>4. \A i \in 1..l, a \in 1..w : p[a] > 0 => s[i] < p[a]
  BY DEF Ahead
<1>5. l # 0 => s[l] = NL
  OBVIOUS
<1>6. /\ \A i \in 1..l : s[i] \in Int
      /\ \A a \in 1..w : p[a] \in Int
  OBVIOUS
<1>7. \A a \in 1..w : \A k \in 1..p[a] - 1 : all[k] # NL =>
        (\E i \in 1..l : s[i] = k) \/ \E b \in 1..w : p[b] = k
  OBVIOUS
<1>8. \A i \in 1..Len(u) : \/ i \in 1..l
                           \/ i = l + 1
                           \/ i = l + w + 2
                           \/ i - (l + 1) \in 1..w /\ u[i] = p[i - (l + 1)]
  <2>1. ASSUME NEW i \in 1..Len(u), i \notin 1..l, i # l + 1, i # l + w + 2
        PROVE  i - (l + 1) \in 1..w /\ u[i] = p[i - (l + 1)]
    <3> DEFINE a == i - (l + 1)
    <3> HIDE DEF l, w, u
    <3>1. a \in 1..w /\ i = l + 1 + a
      BY <1>1, <2>1
    <3> HIDE DEF a
    <3>2. u[i] = p[a]
      BY <1>1, <3>1
    <3>3. QED
      BY <3>1, <3>2 DEF a
  <2>2. QED
    BY <2>1
<1>15. \A a \in 1..w : p[a] # Header /\ p[a] # NL
  <2>1. ASSUME NEW a \in 1..w
        PROVE  p[a] # Header /\ p[a] # NL
    <3>1. p[a] = -2 \/ p[a] > 0
      BY <1>2 DEF Junk
    <3>2. QED
      BY <3>1 DEF Header, NL
  <2>2. QED
    BY <2>1
<1>16. ~(u[l + 1] > 0) /\ ~(u[l + w + 2] > 0)
  <2>1. u[l + 1] = -1 /\ u[l + w + 2] = 0
    BY <1>1 DEF Header, NL
  <2> HIDE DEF u
  <2>2. QED
    BY <2>1
<1>9. InOrder(s, all) /\ LinesApart(s, all) /\ IsFramed(s)
  OBVIOUS
<1> HIDE DEF l, w, u
<1>10. InOrder(u, all)
  <2>1. ASSUME NEW i \in 1..Len(u), u[i] > 0
        PROVE  /\ u[i] <= Len(all) /\ all[u[i]] = u[i]
               /\ \A k \in 1..i - 1 : u[k] < u[i]
               /\ \A m \in 1..u[i] - 1 : all[m] # NL => \E k \in 1..i - 1 : u[k] = m
    <3>1. CASE i \in 1..l
      <4>1. u[i] = s[i] /\ \A k \in 1..i - 1 : k \in 1..l /\ u[k] = s[k]
        <5>1. \A k \in 1..i - 1 : k \in 1..l
          <6>1. l \in Nat
            BY <1>1
          <6>2. QED
            BY <3>1, <6>1
        <5>2. QED
          BY <1>1, <3>1, <5>1
      <4>2. /\ s[i] <= Len(all) /\ all[s[i]] = s[i]
            /\ \A k \in 1..i - 1 : s[k] < s[i]
            /\ \A m \in 1..s[i] - 1 : all[m] # NL => \E k \in 1..i - 1 : s[k] = m
        BY <1>9, <2>1, <3>1, <4>1 DEF InOrder, l
      <4>3. QED
        BY <4>1, <4>2
    <3>2. CASE i - (l + 1) \in 1..w /\ u[i] = p[i - (l + 1)]
      <4> DEFINE a == i - (l + 1)
      <4>1. a \in 1..w /\ u[i] = p[a] /\ i = l + 1 + a /\ p[a] > 0
        BY <1>1, <2>1, <3>2
      <4> HIDE DEF a
      <4>2. p[a] \in 1..n /\ all[p[a]] = p[a]
        BY <1>2, <4>1 DEF Junk
      <4>3. ASSUME NEW k \in 1..i - 1
            PROVE  u[k] < u[i]
        <5>1. CASE k \in 1..l
          BY <1>1, <1>4, <4>1, <5>1
        <5>2. CASE k = l + 1
          BY <1>1, <4>1, <4>2, <5>2 DEF Header
        <5>3. CASE k \notin 1..l /\ k # l + 1
          <6> DEFINE b == k - (l + 1)
          <6>1. b \in 1..w /\ b < a /\ k = l + 1 + b
            BY <1>1, <4>1, <5>3
          <6> HIDE DEF b
          <6>2. u[k] = p[b]
            BY <1>1, <6>1
          <6>3. QED
            BY <1>3, <4>1, <6>1, <6>2
        <5>4. QED
          BY <5>1, <5>2, <5>3
      <4>4. ASSUME NEW m \in 1..u[i] - 1, all[m] # NL
            PROVE  \E k \in 1..i - 1 : u[k] = m
        <5>1. CASE \E k \in 1..l : s[k] = m
          <6>1. PICK k \in 1..l : s[k] = m
            BY <5>1
          <6>2. k \in 1..i - 1 /\ u[k] = m
            BY <1>1, <4>1, <6>1
          <6>3. QED
            BY <6>2
        <5>2. CASE \E b \in 1..w : p[b] = m
          <6>1. PICK b \in 1..w : p[b] = m
            BY <5>2
          <6>2. b < a
            <7>1. m > 0 /\ m < p[a]
              BY <4>1, <4>2
            <7>2. ~(a < b)
              <8>1. p[b] > 0 /\ ~(p[a] < p[b])
                BY <1>6, <4>1, <4>2, <6>1, <7>1
              <8>2. QED
                BY <1>3, <4>1, <6>1, <8>1
            <7>3. a # b
              BY <4>2, <6>1, <7>1
            <7>4. QED
              BY <4>1, <7>2, <7>3
          <6>3. l + 1 + b \in 1..i - 1 /\ u[l + 1 + b] = m
            BY <1>1, <4>1, <6>1, <6>2
          <6>4. QED
            BY <6>3
        <5>3. QED
          BY <1>7, <4>1, <4>4, <5>1, <5>2
      <4>5. QED
        BY <4>1, <4>2, <4>3, <4>4
    <3>3. QED
      <4>1. i # l + 1 /\ i # l + w + 2
        BY <1>16, <2>1
      <4>2. QED
        BY <1>8, <3>1, <3>2, <4>1
  <2>2. QED
    BY <2>1 DEF InOrder
<1>11. LinesApart(u, all)
  <2>1. ASSUME NEW i \in 1..Len(u), NEW j \in 1..Len(u), i < j, u[i] > 0,
               NEW m \in u[i]..u[j], all[m] = NL
        PROVE  \E k \in i..j : u[k] = NL
    <3>1. CASE j \in 1..l
      <4>1. i \in 1..l /\ u[i] = s[i] /\ u[j] = s[j]
        <5>1. i \in 1..l
          BY <1>1, <2>1, <3>1
        <5>2. QED
          BY <1>1, <3>1, <5>1
      <4>2. PICK k \in i..j : s[k] = NL
        BY <1>9, <2>1, <3>1, <4>1 DEF LinesApart, l
      <4>3. k \in 1..l
        <5>1. i \in Nat /\ j \in Nat /\ 1 <= i /\ j <= l
          BY <1>1, <3>1, <4>1
        <5>2. QED
          BY <1>1, <5>1
      <4>4. u[k] = NL
        BY <1>1, <4>2, <4>3
      <4>5. QED
        BY <4>4
    <3>2. CASE j = l + 1
      BY <1>1, <2>1, <3>2 DEF Header
    <3>3. CASE j = l + w + 2
      <4>1. j \in i..j
        BY <2>1
      <4>2. QED
        BY <1>1, <3>3, <4>1
    <3>4. CASE j - (l + 1) \in 1..w /\ u[j] = p[j - (l + 1)]
      <4> DEFINE b == j - (l + 1)
      <4>1. b \in 1..w /\ u[j] = p[b] /\ j = l + 1 + b
        BY <1>1, <3>4
      <4> HIDE DEF b
      <4>2. CASE i \in 1..l
        <5>1. l \in i..j /\ l \in 1..l
          BY <1>1, <4>1, <4>2
        <5>2. u[l] = NL
          BY <1>1, <1>5, <5>1
        <5>3. QED
          BY <5>1, <5>2
      <4>3. CASE i - (l + 1) \in 1..w /\ u[i] = p[i - (l + 1)]
        <5> DEFINE a == i - (l + 1)
        <5>1. a \in 1..w /\ u[i] = p[a] /\ a < b
          BY <1>1, <2>1, <4>1, <4>3
        <5> HIDE DEF a
        <5>2. m \in p[a]..p[b] /\ m > 0 /\ p[b] > 0
          BY <1>6, <2>1, <4>1, <5>1
        <5>3. all[m] # NL
          BY <1>3, <4>1, <5>1, <5>2
        <5>4. QED
          BY <2>1, <5>3
      <4>4. QED
        <5>1. i # l + 1 /\ i # l + w + 2
          BY <1>16, <2>1
        <5>2. QED
          BY <1>8, <4>2, <4>3, <5>1
    <3>5. QED
      BY <1>8, <3>1, <3>2, <3>3, <3>4
  <2>2. QED
    BY <2>1 DEF LinesApart
<1>12. IsFramed(u)
  <2>1. ASSUME NEW i \in 1..Len(u)
        PROVE  /\ u[i] = Header <=> i = 1 \/ u[i - 1] = NL
               /\ u[i] = NL => u[i - 1] # Header
    <3>1. CASE i \in 1..l
      <4>1. CASE i = 1
        <5>1. s[i] = Header
          BY <1>9, <3>1, <4>1 DEF IsFramed, l
        <5>2. u[i] = Header
          BY <1>1, <3>1, <5>1
        <5>3. QED
          BY <4>1, <5>2 DEF Header, NL
      <4>2. CASE i # 1
        <5>1. i - 1 \in 1..l /\ u[i] = s[i] /\ u[i - 1] = s[i - 1]
          <6>1. i - 1 \in 1..l
            <7>1. l \in Nat
              BY <1>1
            <7>2. QED
              BY <3>1, <4>2, <7>1
          <6>2. \A j \in 1..l : u[j] = s[j]
            BY <1>1
          <6>3. QED
            BY <3>1, <6>1, <6>2
        <5>2. QED
          BY <1>9, <3>1, <4>2, <5>1 DEF IsFramed, l
      <4>3. QED
        BY <4>1, <4>2
    <3>2. CASE i = l + 1
      <4>1. CASE l = 0
        BY <1>1, <3>2, <4>1 DEF Header, NL
      <4>2. CASE l # 0
        <5>1. i - 1 = l /\ l \in 1..l
          BY <1>1, <3>2, <4>2
        <5>2. u[i - 1] = NL
          BY <1>1, <1>5, <4>2, <5>1
        <5>3. QED
          BY <1>1, <3>2, <5>2 DEF Header, NL
      <4>3. QED
        BY <4>1, <4>2
    <3>3. CASE i = l + w + 2
      <4>1. i - 1 = l + 1 + w /\ w \in 1..w /\ i # 1
        BY <1>1, <3>3
      <4>2. u[i - 1] = p[w]
        BY <1>1, <4>1
      <4>3. p[w] # Header /\ p[w] # NL
        BY <1>15, <4>1
      <4>4. QED
        BY <1>1, <3>3, <4>1, <4>2, <4>3 DEF Header, NL
    <3>4. CASE i - (l + 1) \in 1..w /\ u[i] = p[i - (l + 1)]
      <4> DEFINE a == i - (l + 1)
      <4>1. a \in 1..w /\ u[i] = p[a] /\ i = l + 1 + a /\ i # 1
        BY <1>1, <3>4
      <4> HIDE DEF a
      <4>2. p[a] # Header /\ p[a] # NL
        BY <1>15, <4>1
      <4>3. u[i - 1] # NL
        <5>1. CASE a = 1
          <6>1. i - 1 = l + 1
            BY <1>1, <4>1, <5>1
          <6>2. QED
            BY <1>1, <6>1 DEF Header, NL
        <5>2. CASE a # 1
          <6>1. a - 1 \in 1..w /\ i - 1 = l + 1 + (a - 1)
            BY <1>1, <4>1, <5>2
          <6>2. u[i - 1] = p[a - 1]
            BY <1>1, <6>1
          <6>3. QED
            BY <1>15, <6>1, <6>2
        <5>3. QED
          BY <5>1, <5>2
      <4>4. QED
        BY <4>1, <4>2, <4>3
    <3>5. QED
      BY <1>8, <3>1, <3>2, <3>3, <3>4
  <2>2. QED
    BY <2>1 DEF IsFramed
<1>13. u # <<>> /\ u[Len(u)] = NL
  BY <1>1
<1>14. QED
  BY <1>1, <1>10, <1>11, <1>12, <1>13 DEF u

\* The lines recv makes of what it takes: in order, and nothing is left out.
LEMMA LinesReceived ==
  ASSUME NEW all \in Seq(Nat), \A n \in 1..Len(all) : all[n] \in {NL, n},
         NEW t \in Nat, NEW n \in Nat, t + n <= Len(all),
         NEW text \in Seq(Int), Len(text) \in n..n + 1,
         \A k \in 1..n : text[k] = all[t + k],
         Len(text) = n + 1 => text[n + 1] = Junk
  PROVE  LET p == split[text]
         IN  /\ p \in Seq(Seq(Int))
             /\ \A r \in 1..Len(p) :
                  /\ IsLine(p[r], all, t + n)
                  /\ \A a \in 1..Len(p[r]) : p[r][a] > 0 => p[r][a] > t
                  /\ \A q \in 1..r - 1 : Ahead(p[q], p[r])
             /\ \A m \in t + 1..t + n : all[m] # NL => InSome(p, m)
<1> DEFINE p == split[text]
<1>1. PICK off : CutAt(text, p, off)
  BY SplitCuts
<1> HIDE DEF p
<1>2. /\ p \in Seq(Seq(Int)) /\ DOMAIN p = 1..Len(p) /\ DOMAIN text = 1..Len(text)
      /\ \A r \in 1..Len(p) : p[r] \in Seq(Int) /\ DOMAIN p[r] = 1..Len(p[r]) /\ Len(p[r]) \in Nat
  BY <1>1 DEF CutAt
<1>3. \A r \in 1..Len(p) : off[r] \in Nat
  BY <1>1, <1>2 DEF CutAt
<1>4. ASSUME NEW r \in 1..Len(p), NEW a \in 1..Len(p[r])
      PROVE  off[r] + a \in 1..Len(text) /\ p[r][a] = text[off[r] + a] /\ p[r][a] # NL
  BY <1>1, <1>2 DEF CutAt
<1>5. ASSUME NEW r \in 1..Len(p), NEW q \in 1..r - 1
      PROVE  off[q] + Len(p[q]) <= off[r]
  BY <1>1, <1>2 DEF CutAt
\* A symbol of a piece is what the memory held, or the character at its place.
<1>6. ASSUME NEW r \in 1..Len(p), NEW a \in 1..Len(p[r])
      PROVE  \/ p[r][a] = Junk
             \/ /\ off[r] + a \in 1..n
                /\ p[r][a] = t + (off[r] + a)
                /\ all[p[r][a]] = p[r][a]
  <2> DEFINE x == off[r] + a
  <2>1. x \in 1..Len(text) /\ p[r][a] = text[x] /\ p[r][a] # NL
    BY <1>4
  <2> HIDE DEF x
  <2>2. CASE x = n + 1
    BY <2>1, <2>2
  <2>3. CASE x # n + 1
    <3>1. x \in 1..n
      BY <2>1, <2>3
    <3>2. text[x] = all[t + x] /\ t + x \in 1..Len(all)
      BY <3>1
    <3>3. all[t + x] \in {NL, t + x}
      BY <3>2
    <3>4. QED
      BY <2>1, <3>1, <3>2, <3>3 DEF x
  <2>4. QED
    BY <2>2, <2>3
<1>7. ASSUME NEW r \in 1..Len(p), NEW a \in 1..Len(p[r]), p[r][a] > 0
      PROVE  /\ off[r] + a \in 1..n /\ p[r][a] = t + (off[r] + a)
             /\ p[r][a] > t /\ p[r][a] \in 1..t + n
  <2>1. p[r][a] # Junk
    BY <1>7 DEF Junk
  <2>2. off[r] + a \in 1..n /\ p[r][a] = t + (off[r] + a)
    BY <1>6, <2>1
  <2>3. \A x \in 1..n : t + x > t /\ t + x \in 1..t + n
    OBVIOUS
  <2>4. QED
    BY <2>2, <2>3
<1>12. \A x \in 1..n : t + x \in 1..Len(all) /\ t + x \in 1..t + n
  OBVIOUS
<1>13. ASSUME NEW r \in 1..Len(p), NEW a \in 1..Len(p[r])
       PROVE  a \in Nat /\ a > 0 /\ a <= Len(p[r])
  <2>1. Len(p[r]) \in Nat
    BY <1>2
  <2>2. QED
    BY <2>1
<1>8. ASSUME NEW r \in 1..Len(p)
      PROVE  IsLine(p[r], all, t + n)
  <2>1. ASSUME NEW a \in 1..Len(p[r])
        PROVE  p[r][a] = Junk \/ (p[r][a] \in 1..t + n /\ all[p[r][a]] = p[r][a])
    <3>1. CASE p[r][a] = Junk
      BY <3>1
    <3>2. CASE p[r][a] # Junk
      <4>1. off[r] + a \in 1..n /\ p[r][a] = t + (off[r] + a) /\ all[p[r][a]] = p[r][a]
        BY <1>6, <3>2
      <4>2. QED
        BY <1>12, <4>1
    <3>3. QED
      BY <3>1, <3>2
  <2>2. ASSUME NEW a \in 1..Len(p[r]), NEW b \in 1..Len(p[r]), a < b, p[r][b] > 0
        PROVE  p[r][a] < p[r][b] /\ \A k \in p[r][a]..p[r][b] : k > 0 => all[k] # NL
    <3>1. off[r] \in Nat /\ a \in Nat /\ b \in Nat /\ a > 0 /\ b <= Len(p[r]) /\ Len(p[r]) \in Nat
      BY <1>2, <1>3, <1>13
    <3>2. off[r] + b \in 1..n /\ p[r][b] = t + (off[r] + b)
      BY <1>7, <2>2
    <3>3. off[r] + a \in 1..n
      <4>1. \A o \in Nat : o + b \in 1..n => o + a \in 1..n
        <5>1. a < b /\ a \in Nat /\ b \in Nat /\ a > 0
          BY <2>2, <3>1
        <5>2. QED
          BY <5>1
      <4>2. QED
        BY <3>1, <3>2, <4>1
    <3>4. p[r][a] = text[off[r] + a] /\ text[off[r] + a] = all[t + (off[r] + a)]
      BY <1>4, <3>3
    <3>5. p[r][a] # Junk
      <4>1. t + (off[r] + a) \in 1..Len(all)
        BY <1>12, <3>3
      <4>2. all[t + (off[r] + a)] \in Nat
        BY <4>1
      <4>3. QED
        BY <3>4, <4>2 DEF Junk
    <3>6. p[r][a] = t + (off[r] + a)
      BY <1>6, <3>5
    <3>7. ASSUME NEW k \in p[r][a]..p[r][b]
          PROVE  all[k] # NL
      <4> DEFINE o == off[r]
                 w == Len(p[r])
                 g == k - t - o
      <4>7. o \in Nat /\ w \in Nat /\ b <= w /\ o + a \in 1..n /\ o + b \in 1..n
        BY <3>1, <3>2, <3>3
      <4>8. k \in t + (o + a)..t + (o + b)
        BY <3>2, <3>6
      <4> HIDE DEF o, w
      <4>1. g \in a..b /\ k = t + (o + g)
        BY <3>1, <4>7, <4>8
      <4> HIDE DEF g
      <4>2. g \in 1..w
        BY <3>1, <4>1, <4>7
      <4>3. o + g \in 1..n
        BY <3>1, <4>1, <4>7
      <4> USE DEF o, w
      <4>4. p[r][g] = text[off[r] + g] /\ p[r][g] # NL
        BY <1>4, <4>2
      <4>5. text[off[r] + g] = all[t + (off[r] + g)]
        BY <4>3
      <4>6. QED
        BY <4>1, <4>4, <4>5
    <3>8. p[r][a] < p[r][b]
      <4>1. \A o \in Nat : t + (o + a) < t + (o + b)
        BY <2>2, <3>1
      <4>2. QED
        BY <3>1, <3>2, <3>6, <4>1
    <3>9. QED
      BY <3>7, <3>8
  <2>3. QED
    BY <2>1, <2>2 DEF IsLine
<1>9. ASSUME NEW r \in 1..Len(p), NEW q \in 1..r - 1
      PROVE  Ahead(p[q], p[r])
  <2>1. ASSUME NEW i \in 1..Len(p[q]), NEW a \in 1..Len(p[r]), p[r][a] > 0
        PROVE  p[q][i] < p[r][a]
    <3>6. q \in 1..Len(p)
      <4>1. Len(p) \in Nat
        <5>1. p \in Seq(Seq(Int))
          BY <1>2
        <5>2. \A z \in Seq(Seq(Int)) : Len(z) \in Nat
          OBVIOUS
        <5>3. QED
          BY <5>1, <5>2
      <4>2. QED
        BY <4>1
    <3>1. q \in 1..Len(p) /\ off[q] \in Nat /\ off[r] \in Nat
      BY <1>3, <3>6
    <3>2. p[r][a] = t + (off[r] + a) /\ off[r] + a \in 1..n
      BY <1>7, <2>1
    <3>3. CASE p[q][i] = Junk
      BY <3>2, <3>3 DEF Junk
    <3>4. CASE p[q][i] # Junk
      <4>1. p[q][i] = t + (off[q] + i)
        BY <1>6, <3>1, <3>4
      <4>2. i \in Nat /\ i <= Len(p[q]) /\ Len(p[q]) \in Nat
        BY <1>2, <1>13, <3>1
      <4>3. off[q] + Len(p[q]) <= off[r]
        BY <1>5
      <4>4. a \in Nat /\ a > 0
        BY <1>13
      <4>5. \A x, y, l \in Nat : x + l <= y /\ i <= l => t + (x + i) < t + (y + a)
        BY <4>2, <4>4
      <4>6. t + (off[q] + i) < t + (off[r] + a)
        BY <3>1, <4>2, <4>3, <4>5
      <4>7. QED
        BY <3>2, <4>1, <4>6
    <3>5. QED
      BY <3>3, <3>4
  <2>2. QED
    BY <2>1 DEF Ahead
<1>10. ASSUME NEW m \in t + 1..t + n, all[m] # NL
       PROVE  InSome(p, m)
  <2> DEFINE k == m - t
  <2>1. k \in 1..n /\ m = t + k /\ k \in 1..Len(text)
    OBVIOUS
  <2> HIDE DEF k
  <2>2. text[k] = all[m]
    BY <2>1
  <2>3. PICK r \in 1..Len(p) : \E a \in 1..Len(p[r]) : k = off[r] + a
    <3>1. text[k] # NL
      BY <1>10, <2>2
    <3>2. QED
      <4>1. k \in DOMAIN text
        BY <1>2, <2>1
      <4>2. PICK r \in DOMAIN p : \E a \in DOMAIN p[r] : k = off[r] + a
        BY <1>1, <3>1, <4>1 DEF CutAt
      <4>3. QED
        BY <1>2, <4>2
  <2>4. PICK a \in 1..Len(p[r]) : k = off[r] + a
    BY <2>3
  <2>5. p[r][a] = all[m]
    BY <1>4, <2>2, <2>4
  <2>6. all[m] = m
    <3>1. m \in 1..Len(all)
      BY <2>1
    <3>2. QED
      BY <1>10, <3>1
  <2>7. QED
    BY <2>5, <2>6 DEF InSome
<1>11. QED
  BY <1>2, <1>7, <1>8, <1>9, <1>10 DEF p

-----------------------------------------------------------------------------
(* The invariant. *)

LEMMA Others ==
  \A c \in Client : /\ Other(c) \in Client /\ Other(c) # c /\ Other(Other(c)) = c
                    /\ \A b \in Client : b = c \/ b = Other(c)
BY DEF Client, Other

LEMMA StreamType ==
  ASSUME PairTypeOK, NEW c \in Client
  PROVE  /\ Stream(c) \in Seq(Int) /\ inbox[Other(c)] \in Seq(Int) /\ mess[c] \in Seq(Int)
         /\ messes[c] \in Seq(Seq(Int)) /\ written[c] \in Seq(Nat)
         /\ taken[c] \in Nat /\ taken[c] <= Len(written[c])
BY Others DEF PairTypeOK, Stream

LEMMA PairFirst ==
  ASSUME PairInit
  PROVE  PairInv
<1>1. PairTypeOK
  BY PairAssumption DEF PairInit, PairTypeOK, State
<1>2. WrittenInv /\ ThreadInv
  BY DEF PairInit, WrittenInv, ThreadInv
<1>3. ASSUME NEW c \in Client
      PROVE  StreamInv(c) /\ PendingInv(c)
  <2>1. /\ Stream(c) = <<>> /\ Len(Stream(c)) = 0
        /\ messes[c] = <<>> /\ Len(messes[c]) = 0 /\ taken[c] = 0
    BY Others DEF PairInit, Stream
  <2>2. 1..0 = {}
    OBVIOUS
  <2>3. StreamInv(c)
    BY <2>1, <2>2 DEF StreamInv, InOrder, LinesApart, IsFramed
  <2>4. PendingInv(c)
    BY <2>1, <2>2 DEF PendingInv
  <2>5. QED
    BY <2>3, <2>4
<1>4. QED
  BY <1>1, <1>2, <1>3 DEF PairInv

\* A step that leaves c's lines and stream as they are.
LEMMA ChatKept ==
  ASSUME NEW c \in Client, StreamInv(c), PendingInv(c),
         Stays(c)' <=> Stays(c), inbox'[Other(c)] = inbox[Other(c)], mess'[c] = mess[c],
         written'[c] = written[c], taken'[c] = taken[c], messes'[c] = messes[c]
  PROVE  StreamInv(c)' /\ PendingInv(c)'
<1>1. Stream(c)' = Stream(c)
  BY DEF Stream
<1>2. StreamInv(c)'
  BY <1>1 DEF StreamInv
<1>3. PendingInv(c)'
  BY <1>1 DEF PendingInv
<1>4. QED
  BY <1>2, <1>3

\* Steps of main, of the network and of a client that connects.
LEMMA QuietKept ==
  ASSUME StreamInv(1), PendingInv(1), StreamInv(2), PendingInv(2),
         \A c \in Client : peer'[c] \in Gone <=> peer[c] \in Gone,
         UNCHANGED <<inbox, mess, written, taken, messes>>
  PROVE  \A c \in Client : StreamInv(c)' /\ PendingInv(c)'
<1>1. ASSUME NEW c \in Client
      PROVE  StreamInv(c)' /\ PendingInv(c)'
  <2>1. StreamInv(c) /\ PendingInv(c)
    BY DEF Client
  <2>2. Stays(c)' <=> Stays(c)
    BY Others DEF Stays
  <2>3. QED
    BY <2>1, <2>2, ChatKept
<1>2. QED
  BY <1>1

LEMMA OthersKept ==
  ASSUME NEW c \in Client, StreamInv(c), PendingInv(c),
         UNCHANGED <<peer[Other(c)], inbox[Other(c)], mess[c], written[c], taken[c], messes[c]>>
  PROVE  StreamInv(c)' /\ PendingInv(c)'
BY ChatKept DEF Stays

LEMMA LeaveKept ==
  ASSUME PairInv, NEW c \in Client, Leave(c), UNCHANGED <<proc, mainVars, threadVars>>
  PROVE  \A b \in Client : StreamInv(b)' /\ PendingInv(b)'
<1> DEFINE d == Other(c)
<1>1. /\ peer' = [peer EXCEPT ![c] = IF unread[c] > 0 THEN "reset" ELSE "left"]
      /\ UNCHANGED <<written, taken, inbox, mess, messes>> /\ peer[c] = "open"
  BY DEF Leave, threadVars
<1>2. d \in Client /\ d # c /\ Other(d) = c /\ PairTypeOK
  BY Others DEF PairInv
<1>3. StreamInv(c)' /\ PendingInv(c)'
  <2>1. peer'[d] = peer[d]
    BY <1>1, <1>2 DEF PairTypeOK
  <2>2. StreamInv(c) /\ PendingInv(c)
    BY DEF PairInv
  <2>3. QED
    BY <1>1, <2>1, <2>2, OthersKept
<1>4. StreamInv(d)' /\ PendingInv(d)'
  <2>1. StreamInv(d) /\ Stays(d)
    BY <1>1, <1>2 DEF PairInv, Stays, Gone
  <2>2. ~Stays(d)'
    BY <1>1, <1>2 DEF Stays, Gone, PairTypeOK
  <2> DEFINE s == inbox[c]
             t == mess[d]
  <2>3. Stream(d) = s \o t /\ Stream(d)' = s
    BY <1>1, <1>2, <2>1, <2>2 DEF Stream
  <2>4. s \in Seq(Int) /\ t \in Seq(Int) /\ written[d] \in Seq(Nat)
    BY <1>2, StreamType
  <2>5. InOrder(s \o t, written[d]) /\ LinesApart(s \o t, written[d]) /\ IsFramed(s \o t)
    BY <2>1, <2>3 DEF StreamInv
  <2>6. InOrder(s, written[d]) /\ LinesApart(s, written[d]) /\ IsFramed(s)
    BY <2>4, <2>5, StreamBegins
  <2>7. \A i \in 1..Len(s) : s[i] <= taken[d]
    <3>1. \A i \in 1..Len(s \o t) : (s \o t)[i] <= taken[d]
      BY <2>1, <2>3 DEF StreamInv
    <3>2. \A i \in 1..Len(s) : i \in 1..Len(s \o t) /\ (s \o t)[i] = s[i]
      <4> HIDE DEF s, t
      <4>1. QED
        BY <2>4
    <3> HIDE DEF s, t
    <3>3. QED
      BY <3>1, <3>2
  <2>8. StreamInv(d)'
    BY <1>1, <2>2, <2>3, <2>6, <2>7 DEF StreamInv
  <2>9. PendingInv(d)'
    BY <2>2 DEF PendingInv
  <2>10. QED
    BY <2>8, <2>9
<1>5. QED
  BY <1>3, <1>4, Others

LEMMA WriteKept ==
  ASSUME PairInv, NEW c \in Client, WriteSymbol(c), UNCHANGED <<proc, mainVars, threadVars>>
  PROVE  WrittenInv' /\ \A b \in Client : StreamInv(b)' /\ PendingInv(b)'
<1> DEFINE d == Other(c)
           all == written[c]
<1>1. PICK x \in {NL, Len(all) + 1} :
        /\ written' = [written EXCEPT ![c] = Append(@, x)]
        /\ UNCHANGED <<peer, taken, inbox, mess, messes>>
  BY DEF WriteSymbol, threadVars
<1>2. d \in Client /\ d # c /\ Other(d) = c /\ PairTypeOK
  BY Others DEF PairInv
<1>3. StreamInv(d)' /\ PendingInv(d)'
  <2>1. written'[d] = written[d]
    BY <1>1, <1>2 DEF PairTypeOK
  <2>2. StreamInv(d) /\ PendingInv(d)
    BY <1>2 DEF PairInv
  <2>3. QED
    BY <1>1, <1>2, <2>1, <2>2, OthersKept
<1> DEFINE more == Append(all, x)
<1>4. written'[c] = more
  BY <1>1, <1>2 DEF PairTypeOK
<1>5. all \in Seq(Nat) /\ x \in Nat /\ Stream(c) \in Seq(Int) /\ messes[c] \in Seq(Seq(Int))
  BY <1>2, StreamType DEF NL
<1>6. /\ more \in Seq(Nat) /\ Len(more) = Len(all) + 1
      /\ \A n \in 1..Len(all) : more[n] = all[n]
      /\ more[Len(all) + 1] = x
  BY <1>5
<1>7. taken[c] \in Nat /\ taken[c] <= Len(all)
  BY <1>2, StreamType
<1>8. Stream(c)' = Stream(c) /\ Stays(c)' = Stays(c)
  BY <1>1 DEF Stream, Stays
<1>9. StreamInv(c) /\ PendingInv(c)
  BY DEF PairInv
<1> HIDE DEF all, more
<1>10. StreamInv(c)'
  <2>1. InOrder(Stream(c), all) /\ LinesApart(Stream(c), all)
    BY <1>9 DEF StreamInv, all
  <2>2. InOrder(Stream(c), more) /\ LinesApart(Stream(c), more)
    BY <1>5, <2>1, WritesOn DEF more
  <2>3. QED
    BY <1>1, <1>4, <1>8, <1>9, <2>2 DEF StreamInv
<1>11. PendingInv(c)'
  <2>1. ASSUME Stays(c), NEW r \in 1..Len(messes[c])
        PROVE  /\ IsLine(messes[c][r], more, taken[c])
               /\ Ahead(Stream(c), messes[c][r])
               /\ \A q \in 1..r - 1 : Ahead(messes[c][q], messes[c][r])
    <3>1. /\ IsLine(messes[c][r], all, taken[c])
          /\ Ahead(Stream(c), messes[c][r])
          /\ \A q \in 1..r - 1 : Ahead(messes[c][q], messes[c][r])
      BY <1>9, <2>1 DEF PendingInv, all
    <3>2. messes[c][r] \in Seq(Int)
      BY <1>5
    <3>3. IsLine(messes[c][r], more, taken[c])
      BY <1>5, <1>7, <3>1, <3>2, LineKept DEF more
    <3>4. QED
      BY <3>1, <3>3
  <2>2. ASSUME Stays(c), NEW n \in 1..taken[c], more[n] # NL
        PROVE  (\E i \in 1..Len(Stream(c)) : Stream(c)[i] = n) \/ InSome(messes[c], n)
    <3>1. all[n] # NL
      BY <1>6, <1>7, <2>2
    <3>2. QED
      BY <1>9, <2>2, <3>1 DEF PendingInv, all
  <2>3. messes'[c] = messes[c] /\ taken'[c] = taken[c]
    BY <1>1
  <2>4. QED
    BY <1>4, <1>8, <2>1, <2>2, <2>3 DEF PendingInv
<1>12. WrittenInv'
  <2>1. ASSUME NEW b \in Client, NEW n \in 1..Len(written'[b])
        PROVE  written'[b][n] \in {NL, n}
    <3>1. CASE b = c
      <4>1. n \in 1..Len(all) \/ n = Len(all) + 1
        BY <1>4, <1>5, <1>6, <2>1, <3>1
      <4>2. CASE n \in 1..Len(all)
        BY <1>4, <1>6, <3>1, <4>2 DEF PairInv, WrittenInv, all
      <4>3. CASE n = Len(all) + 1
        BY <1>1, <1>4, <1>6, <3>1, <4>3 DEF all
      <4>4. QED
        BY <4>1, <4>2, <4>3
    <3>2. CASE b # c
      <4>1. written'[b] = written[b]
        BY <1>1, <1>2, <3>2 DEF PairTypeOK
      <4>2. QED
        BY <2>1, <4>1 DEF PairInv, WrittenInv
    <3>3. QED
      BY <3>1, <3>2
  <2>2. QED
    BY <2>1 DEF WrittenInv
<1>13. QED
  BY <1>3, <1>10, <1>11, <1>12, Others

LEMMA RecvKept ==
  ASSUME PairInv, NEW c \in Client, Recv(c)
  PROVE  /\ \A b \in Client : StreamInv(b)' /\ PendingInv(b)'
         /\ taken'[c] \in Nat /\ taken'[c] <= Len(written[c])
         /\ messes'[c] \in Seq(Seq(Int))
<1> DEFINE d == Other(c)
           all == written[c]
           t == taken[c]
<1>1. /\ hpc[c] = "recv"
      /\ UNCHANGED <<peer, written, inbox, mess>>
  BY DEF Recv
<1>2. d \in Client /\ d # c /\ Other(d) = c /\ PairTypeOK
  BY Others DEF PairInv
<1>3. /\ all \in Seq(Nat) /\ t \in Nat /\ t <= Len(all) /\ Stream(c) \in Seq(Int)
  BY <1>2, StreamType
<1>4. PICK n \in 1..Len(Waiting(c)) :
        /\ n <= BufLen
        /\ taken' = [taken EXCEPT ![c] = @ + n]
        /\ \E text \in TextOf(SubSeq(Waiting(c), 1, n)) :
             messes' = [messes EXCEPT ![c] = split[text]]
  BY DEF Recv
<1>5. PICK text \in TextOf(SubSeq(Waiting(c), 1, n)) :
        messes' = [messes EXCEPT ![c] = split[text]]
  BY <1>4
<1>6. taken'[c] = t + n /\ messes'[c] = split[text]
  BY <1>2, <1>4, <1>5 DEF PairTypeOK
<1>7. \A k \in 1..Len(all) : all[k] \in {NL, k}
  BY DEF PairInv, WrittenInv
<1>8. taken'[d] = taken[d] /\ messes'[d] = messes[d]
  BY <1>2, <1>4, <1>5 DEF PairTypeOK
<1>9. StreamInv(d)' /\ PendingInv(d)'
  <2>1. StreamInv(d) /\ PendingInv(d)
    BY <1>2 DEF PairInv
  <2>2. QED
    BY <1>1, <1>2, <1>8, <2>1, OthersKept
<1>10. Stream(c)' = Stream(c) /\ (Stays(c)' <=> Stays(c))
  BY <1>1 DEF Stream, Stays
<1>11. StreamInv(c) /\ PendingInv(c) /\ messes[c] = <<>>
  BY <1>1 DEF PairInv, ThreadInv
<1>12. Waiting(c) = SubSeq(all, t + 1, Len(all))
  BY DEF Waiting
<1> HIDE DEF all, t, d
<1>13. /\ Len(Waiting(c)) = Len(all) - t /\ Waiting(c) \in Seq(Nat)
       /\ \A k \in 1..Len(Waiting(c)) : Waiting(c)[k] = all[t + k]
  BY <1>3, <1>12
<1> DEFINE u == SubSeq(Waiting(c), 1, n)
<1>14. /\ n \in Nat /\ t + n <= Len(all)
       /\ u \in Seq(Int) /\ Len(u) = n /\ \A k \in 1..n : u[k] = all[t + k]
  <2>1. n \in Nat /\ t + n <= Len(all)
    BY <1>3, <1>13
  <2>2. u \in Seq(Nat) /\ Len(u) = n /\ \A k \in 1..n : u[k] = Waiting(c)[k]
    BY <1>13, <2>1
  <2>3. u \in Seq(Int)
    <3> HIDE DEF u
    <3>1. QED
      BY <2>2
  <2>4. QED
    BY <1>13, <2>1, <2>2, <2>3
<1>15. /\ text \in Seq(Int) /\ Len(text) \in n..n + 1
       /\ \A k \in 1..n : text[k] = all[t + k]
       /\ Len(text) = n + 1 => text[n + 1] = Junk
  <2>1. text = u \/ text = Append(u, Junk)
    BY <1>5 DEF TextOf
  <2> HIDE DEF u
  <2>2. CASE text = u
    BY <1>14, <2>2
  <2>3. CASE text = Append(u, Junk)
    BY <1>14, <2>3 DEF Junk
  <2>4. QED
    BY <2>1, <2>2, <2>3
<1> DEFINE p == split[text]
<1>16. /\ p \in Seq(Seq(Int))
       /\ \A r \in 1..Len(p) :
            /\ IsLine(p[r], all, t + n)
            /\ \A a \in 1..Len(p[r]) : p[r][a] > 0 => p[r][a] > t
            /\ \A q \in 1..r - 1 : Ahead(p[q], p[r])
       /\ \A m \in t + 1..t + n : all[m] # NL => InSome(p, m)
  BY <1>3, <1>7, <1>14, <1>15, LinesReceived
<1> HIDE DEF p, u
<1>17. \A k \in 1..Len(Stream(c)) : Stream(c)[k] \in Int /\ Stream(c)[k] <= t
  BY <1>3, <1>11 DEF StreamInv, t
<1>18. StreamInv(c)'
  <2>1. \A k \in 1..Len(Stream(c)) : Stream(c)[k] <= t + n
    BY <1>3, <1>14, <1>17
  <2>2. QED
    BY <1>1, <1>6, <1>10, <1>11, <2>1 DEF StreamInv
<1>19. PendingInv(c)'
  <2>1. ASSUME NEW r \in 1..Len(p)
        PROVE  Ahead(Stream(c), p[r])
    <3>1. p[r] \in Seq(Int)
      BY <1>16
    <3>2. ASSUME NEW k \in 1..Len(Stream(c)), NEW a \in 1..Len(p[r]), p[r][a] > 0
          PROVE  Stream(c)[k] < p[r][a]
      <4>1. p[r][a] \in Int /\ p[r][a] > t
        <5>1. p[r][a] \in Int
          BY <3>1
        <5>2. p[r][a] > t
          BY <1>16, <3>2
        <5>3. QED
          BY <5>1, <5>2
      <4>2. QED
        BY <1>3, <1>17, <4>1
    <3>3. QED
      BY <3>2 DEF Ahead
  <2>2. ASSUME Stays(c), NEW m \in 1..t + n, all[m] # NL
        PROVE  (\E k \in 1..Len(Stream(c)) : Stream(c)[k] = m) \/ InSome(p, m)
    <3>1. CASE m \in 1..t
      <4>1. ~InSome(messes[c], m)
        BY <1>11 DEF InSome
      <4>2. QED
        BY <1>11, <2>2, <3>1, <4>1 DEF PendingInv, all, t
    <3>2. CASE m \notin 1..t
      <4>1. m \in t + 1..t + n
        BY <1>3, <1>14, <3>2
      <4>2. QED
        BY <1>16, <2>2, <4>1
    <3>3. QED
      BY <3>1, <3>2
  <2>3. written'[c] = all /\ messes'[c] = p
    BY <1>1, <1>6 DEF all, p
  <2>4. QED
    BY <1>6, <1>10, <1>16, <2>1, <2>2, <2>3 DEF PendingInv
<1>20. taken'[c] \in Nat /\ taken'[c] <= Len(written[c]) /\ messes'[c] \in Seq(Seq(Int))
  BY <1>3, <1>6, <1>14, <1>16 DEF all, p
<1>21. QED
  BY <1>9, <1>18, <1>19, <1>20, Others DEF d

LEMMA NextKept ==
  ASSUME PairInv, NEW c \in Client, NextMess(c)
  PROVE  \A b \in Client : StreamInv(b)' /\ PendingInv(b)'
<1> DEFINE d == Other(c)
           all == written[c]
           t == taken[c]
           p == messes[c]
           s == inbox[d]
<1>1. hpc[c] = "next" /\ UNCHANGED <<peer, written, taken, inbox>>
  BY DEF NextMess, clientVars
<1>2. d \in Client /\ d # c /\ Other(d) = c /\ PairTypeOK
  BY Others DEF PairInv
<1>3. /\ all \in Seq(Nat) /\ t \in Nat /\ t <= Len(all)
      /\ s \in Seq(Int) /\ p \in Seq(Seq(Int)) /\ mess[c] = <<>>
  BY <1>1, <1>2, StreamType DEF PairTypeOK
<1>4. mess'[d] = mess[d] /\ messes'[d] = messes[d]
  BY <1>2 DEF NextMess, PairTypeOK
<1>5. StreamInv(d)' /\ PendingInv(d)'
  <2>1. StreamInv(d) /\ PendingInv(d)
    BY <1>2 DEF PairInv
  <2>2. QED
    BY <1>1, <1>2, <1>4, <2>1, OthersKept
<1>6. StreamInv(c) /\ PendingInv(c)
  BY DEF PairInv
<1>7. Stream(c) = s /\ (Stays(c)' <=> Stays(c))
  BY <1>1, <1>3 DEF Stream, Stays
<1>8. CASE p = <<>>
  <2>1. mess' = mess /\ messes' = messes
    BY <1>8 DEF NextMess
  <2>2. QED
    BY <1>1, <1>5, <1>6, <2>1, OthersKept, Others
<1>9. CASE p # <<>> /\ ~Stays(c)
  <2>1. Stream(c)' = s
    BY <1>1, <1>7, <1>9 DEF Stream
  <2>2. StreamInv(c)'
    BY <1>1, <1>6, <1>7, <1>9, <2>1 DEF StreamInv
  <2>3. PendingInv(c)'
    BY <1>7, <1>9 DEF PendingInv
  <2>4. QED
    BY <1>5, <2>2, <2>3, Others
<1>10. CASE p # <<>> /\ Stays(c)
  <2> DEFINE h == p[1]
             z == Tail(p)
             u == IF h = <<>> THEN s ELSE s \o Message(h)
  <2>1. /\ messes'[c] = z
        /\ mess'[c] = IF h = <<>> THEN <<>> ELSE Message(h)
    BY <1>2, <1>3, <1>10 DEF NextMess, PairTypeOK
  <2>2. Stream(c)' = u
    BY <1>1, <1>3, <1>7, <1>10, <2>1 DEF Stream
  <2>3. /\ Len(p) \in Nat /\ 1 \in 1..Len(p) /\ h \in Seq(Int)
        /\ z \in Seq(Seq(Int)) /\ Len(z) = Len(p) - 1
        /\ \A r \in 1..Len(z) : r + 1 \in 1..Len(p) /\ z[r] = p[r + 1] /\ z[r] \in Seq(Int)
    BY <1>3, <1>10
  <2>4. /\ \A r \in 1..Len(p) :
             /\ IsLine(p[r], all, t)
             /\ Ahead(s, p[r])
             /\ \A q \in 1..r - 1 : Ahead(p[q], p[r])
        /\ \A n \in 1..t : all[n] # NL => (\E i \in 1..Len(s) : s[i] = n) \/ InSome(p, n)
    BY <1>6, <1>7, <1>10 DEF PendingInv
  <2>5. /\ InOrder(s, all) /\ LinesApart(s, all) /\ IsFramed(s)
        /\ \A i \in 1..Len(s) : s[i] <= t
        /\ s # <<>> => s[Len(s)] = NL
    BY <1>6, <1>7, <1>10 DEF StreamInv
  <2>6. written'[c] = all /\ taken'[c] = t
    BY <1>1
  <2> HIDE DEF all, t, s, z, p, h
  <2>7. /\ InOrder(u, all) /\ LinesApart(u, all) /\ IsFramed(u)
        /\ u # <<>> => u[Len(u)] = NL
    <3>1. CASE h = <<>>
      BY <2>5, <3>1
    <3>2. CASE h # <<>>
      <4>1. IsLine(h, all, t) /\ Ahead(s, h)
        BY <2>3, <2>4 DEF h
      <4>2. ASSUME NEW a \in 1..Len(h), NEW k \in 1..h[a] - 1, all[k] # NL
            PROVE  (\E i \in 1..Len(s) : s[i] = k) \/ \E b \in 1..Len(h) : h[b] = k
        <5>1. h[a] \in 1..t /\ k \in 1..t /\ k < h[a] /\ h[a] > 0
          <6>1. h[a] \in Int /\ h[a] > 0
            BY <2>3, <4>2
          <6>2. h[a] \in 1..t
            BY <4>1, <6>1 DEF IsLine, Junk
          <6>3. QED
            BY <1>3, <6>1, <6>2
        <5>2. CASE InSome(p, k)
          <6>1. PICK r \in 1..Len(p) : \E b \in 1..Len(p[r]) : p[r][b] = k
            BY <5>2 DEF InSome
          <6>2. PICK b \in 1..Len(p[r]) : p[r][b] = k
            BY <6>1
          <6>3. r = 1
            <7>1. ASSUME r # 1
                  PROVE  FALSE
              <8>1. 1 \in 1..r - 1
                BY <2>3, <7>1
              <8>2. Ahead(h, p[r])
                BY <2>4, <8>1 DEF h
              <8>3. h[a] < k
                BY <5>1, <6>2, <8>2 DEF Ahead
              <8>4. QED
                BY <5>1, <8>3
            <7>2. QED
              BY <7>1
          <6>4. QED
            BY <6>2, <6>3 DEF h
        <5>3. QED
          BY <2>4, <4>2, <5>1, <5>2
      <4>3. QED
        BY <1>3, <2>3, <2>5, <3>2, <4>1, <4>2, LineSent
    <3>3. QED
      BY <3>1, <3>2
  <2>8. \A i \in 1..Len(u) : \/ i \in 1..Len(s) /\ u[i] = s[i]
                             \/ u[i] < 1
                             \/ \E a \in 1..Len(h) : u[i] = h[a]
    <3>1. CASE h = <<>>
      BY <3>1
    <3>2. CASE h # <<>>
      <4> DEFINE l == Len(s)
                 w == Len(h)
                 v == s \o Message(h)
      <4>1. /\ l \in Nat /\ w \in Nat /\ Len(v) = l + w + 2
            /\ \A i \in 1..l : v[i] = s[i]
            /\ v[l + 1] = -1 /\ v[l + w + 2] = 0
            /\ \A a \in 1..w : v[l + 1 + a] = h[a]
        BY <1>3, <2>3 DEF Message, Header, NL
      <4>2. u = v
        BY <3>2
      <4> HIDE DEF l, w, v, u
      <4>3. ASSUME NEW i \in 1..Len(v)
            PROVE  (i \in 1..l /\ v[i] = s[i]) \/ v[i] < 1 \/ \E a \in 1..w : v[i] = h[a]
        <5>1. CASE i \in 1..l
          BY <4>1, <5>1
        <5>2. CASE i = l + 1 \/ i = l + w + 2
          <6>1. v[i] = -1 \/ v[i] = 0
            BY <4>1, <5>2
          <6>2. QED
            BY <6>1
        <5>3. CASE i \notin 1..l /\ i # l + 1 /\ i # l + w + 2
          <6> DEFINE a == i - (l + 1)
          <6>1. a \in 1..w /\ i = l + 1 + a
            BY <4>1, <5>3
          <6> HIDE DEF a
          <6>2. QED
            BY <4>1, <6>1
        <5>4. QED
          BY <5>1, <5>2, <5>3
      <4>4. QED
        BY <4>2, <4>3 DEF l, w
    <3>3. QED
      BY <3>1, <3>2
  <2>9. \A a \in 1..Len(h) : h[a] <= t
    <3>1. IsLine(h, all, t)
      BY <2>3, <2>4 DEF h
    <3>2. QED
      BY <1>3, <3>1 DEF IsLine, Junk
  <2>10. u \in Seq(Int)
    BY <1>3, <2>3 DEF Message, Header, NL
  <2>11. /\ \A i \in 1..Len(s) : i \in 1..Len(u) /\ u[i] = s[i]
         /\ \A a \in 1..Len(h) : \E i \in 1..Len(u) : u[i] = h[a]
    <3>1. CASE h = <<>>
      BY <3>1
    <3>2. CASE h # <<>>
      <4>1. \A i \in 1..Len(s) : i \in 1..Len(u) /\ u[i] = s[i]
        BY <1>3, <2>3, <3>2 DEF Message
      <4>2. ASSUME NEW a \in 1..Len(h)
            PROVE  Len(s) + 1 + a \in 1..Len(u) /\ u[Len(s) + 1 + a] = h[a]
        BY <1>3, <2>3, <3>2 DEF Message
      <4>3. QED
        BY <4>1, <4>2
    <3>3. QED
      BY <3>1, <3>2
  <2> HIDE DEF u
  <2>12. \A i \in 1..Len(u) : u[i] <= t
    <3>1. ASSUME NEW i \in 1..Len(u)
          PROVE  u[i] <= t
      <4>1. u[i] \in Int /\ t \in Nat
        BY <1>3, <2>10 DEF t
      <4>2. CASE u[i] < 1
        BY <4>1, <4>2
      <4>3. QED
        BY <2>5, <2>8, <2>9, <4>2
    <3>2. QED
      BY <3>1
  <2>13. StreamInv(c)'
    BY <2>2, <2>6, <2>7, <2>12 DEF StreamInv
  <2>14. ASSUME NEW r \in 1..Len(z)
         PROVE  /\ IsLine(z[r], all, t)
                /\ Ahead(u, z[r])
                /\ \A q \in 1..r - 1 : Ahead(z[q], z[r])
    <3>1. r + 1 \in 1..Len(p) /\ z[r] = p[r + 1] /\ z[r] \in Seq(Int) /\ r \in Nat
      BY <2>3
    <3>2. IsLine(z[r], all, t) /\ Ahead(s, z[r])
      BY <2>4, <3>1
    <3>3. Ahead(h, z[r])
      <4>1. 1 \in 1..(r + 1) - 1
        BY <3>1
      <4>2. QED
        BY <2>4, <3>1, <4>1 DEF h
    <3>4. ASSUME NEW i \in 1..Len(u), NEW k \in 1..Len(z[r]), z[r][k] > 0
          PROVE  u[i] < z[r][k]
      <4>1. z[r][k] \in Int /\ u[i] \in Int
        BY <2>10, <3>1
      <4>2. CASE i \in 1..Len(s) /\ u[i] = s[i]
        BY <3>2, <3>4, <4>2 DEF Ahead
      <4>3. CASE u[i] < 1
        BY <3>4, <4>1, <4>3
      <4>4. CASE \E a \in 1..Len(h) : u[i] = h[a]
        BY <3>3, <3>4, <4>4 DEF Ahead
      <4>5. QED
        BY <2>8, <4>2, <4>3, <4>4
    <3>5. ASSUME NEW q \in 1..r - 1
          PROVE  Ahead(z[q], z[r])
      <4>1. q + 1 \in 1..(r + 1) - 1 /\ q \in 1..Len(z)
        BY <2>3, <3>1
      <4>2. z[q] = p[q + 1]
        BY <2>3, <4>1
      <4>3. QED
        BY <2>4, <3>1, <4>1, <4>2
    <3>6. Ahead(u, z[r])
      BY <3>4 DEF Ahead
    <3>7. QED
      BY <3>2, <3>5, <3>6
  <2>15. ASSUME NEW n \in 1..t, all[n] # NL
         PROVE  (\E i \in 1..Len(u) : u[i] = n) \/ InSome(z, n)
    <3>1. CASE \E i \in 1..Len(s) : s[i] = n
      BY <2>11, <3>1
    <3>2. CASE InSome(p, n)
      <4>1. PICK r \in 1..Len(p) : \E a \in 1..Len(p[r]) : p[r][a] = n
        BY <3>2 DEF InSome
      <4>2. PICK a \in 1..Len(p[r]) : p[r][a] = n
        BY <4>1
      <4>3. CASE r = 1
        BY <2>11, <4>2, <4>3 DEF h
      <4>4. CASE r # 1
        <5>1. r - 1 \in 1..Len(z) /\ (r - 1) + 1 = r
          BY <2>3, <4>4
        <5>2. z[r - 1] = p[r]
          BY <2>3, <5>1
        <5>3. QED
          BY <4>2, <5>1, <5>2 DEF InSome
      <4>5. QED
        BY <4>3, <4>4
    <3>3. QED
      BY <2>4, <2>15, <3>1, <3>2
  <2>16. PendingInv(c)'
    BY <2>1, <2>2, <2>6, <2>14, <2>15 DEF PendingInv
  <2>17. QED
    BY <1>5, <2>13, <2>16, Others
<1>11. QED
  BY <1>8, <1>9, <1>10

LEMMA Joined ==
  ASSUME NEW s \in Seq(Int), NEW m \in Seq(Int)
  PROVE  /\ s \o m \in Seq(Int) /\ Len(s \o m) = Len(s) + Len(m)
         /\ \A i \in 1..Len(s) : (s \o m)[i] = s[i]
         /\ \A a \in 1..Len(m) : (s \o m)[Len(s) + a] = m[a]
OBVIOUS

\* What goes in two parts is the same.
LEMMA SentInTwo ==
  ASSUME NEW s \in Seq(Int), NEW m \in Seq(Int), NEW k \in 1..Len(m)
  PROVE  (s \o SubSeq(m, 1, k)) \o SubSeq(m, k + 1, Len(m)) = s \o m
<1> DEFINE l == Len(s)
           w == Len(m)
           f == SubSeq(m, 1, k)
           g == SubSeq(m, k + 1, Len(m))
           u == (s \o f) \o g
           v == s \o m
<1>1. /\ l \in Nat /\ w \in Nat /\ k \in 1..w
      /\ f \in Seq(Int) /\ Len(f) = k /\ \A a \in 1..k : f[a] = m[a]
      /\ g \in Seq(Int) /\ Len(g) = w - k /\ \A a \in 1..w - k : g[a] = m[k + a]
  OBVIOUS
<1> HIDE DEF f, g
<1>2. /\ u \in Seq(Int) /\ Len(u) = l + w
      /\ \A i \in 1..l : u[i] = s[i]
      /\ \A a \in 1..k : u[l + a] = f[a]
      /\ \A a \in 1..w - k : u[l + k + a] = g[a]
  <2> DEFINE h == s \o f
  <2>1. /\ h \in Seq(Int) /\ Len(h) = l + k
        /\ \A i \in 1..l : h[i] = s[i]
        /\ \A a \in 1..k : h[l + a] = f[a]
    <3>1. k \in Nat /\ f \in Seq(Int) /\ Len(f) = k
      BY <1>1
    <3>2. QED
      BY <3>1
  <2>8. w - k \in Nat /\ g \in Seq(Int) /\ Len(g) = w - k /\ l + k \in Nat
    BY <1>1
  <2> HIDE DEF h, l, w
  <2>2. /\ h \o g \in Seq(Int) /\ Len(h \o g) = l + k + (w - k)
        /\ \A i \in 1..l + k : (h \o g)[i] = h[i]
        /\ \A a \in 1..w - k : (h \o g)[l + k + a] = g[a]
    <3>1. h \in Seq(Int) /\ Len(h) = l + k /\ g \in Seq(Int) /\ Len(g) = w - k
      BY <2>1, <2>8
    <3>2. /\ h \o g \in Seq(Int) /\ Len(h \o g) = Len(h) + Len(g)
          /\ \A i \in 1..Len(h) : (h \o g)[i] = h[i]
          /\ \A a \in 1..Len(g) : (h \o g)[Len(h) + a] = g[a]
      BY <3>1, Joined
    <3>3. QED
      BY <3>1, <3>2
  <2>3. \A i \in 1..l : i \in 1..l + k
    BY <1>1
  <2>4. \A a \in 1..k : l + a \in 1..l + k
    BY <1>1
  <2>5. u = h \o g
    BY DEF h
  <2> HIDE DEF u
  <2>6. Len(u) = l + w
    <3>1. l + k + (w - k) = l + w
      BY <1>1
    <3>2. QED
      BY <2>2, <2>5, <3>1
  <2>7. QED
    BY <2>1, <2>2, <2>3, <2>4, <2>5, <2>6
<1>3. /\ v \in Seq(Int) /\ Len(v) = l + w
      /\ \A i \in 1..l : v[i] = s[i]
      /\ \A a \in 1..w : v[l + a] = m[a]
  BY <1>1
<1> HIDE DEF u, v, l, w
<1>4. ASSUME NEW i \in 1..l + w
      PROVE  u[i] = v[i]
  <2>1. CASE i \in 1..l
    BY <1>2, <1>3, <2>1
  <2>2. CASE i \notin 1..l
    <3> DEFINE a == i - l
    <3>1. a \in 1..w /\ i = l + a
      BY <1>1, <2>2
    <3> HIDE DEF a
    <3>2. v[i] = m[a]
      BY <1>3, <3>1
    <3>3. CASE a \in 1..k
      BY <1>1, <1>2, <3>1, <3>2, <3>3
    <3>4. CASE a \notin 1..k
      <4> DEFINE b == a - k
      <4>1. b \in 1..w - k /\ a = k + b /\ i = l + k + b
        BY <1>1, <3>1, <3>4
      <4> HIDE DEF b
      <4>2. QED
        BY <1>1, <1>2, <3>2, <4>1
    <3>5. QED
      BY <3>3, <3>4
  <2>3. QED
    BY <2>1, <2>2
<1>5. u = v
  BY <1>1, <1>2, <1>3, <1>4
<1>6. QED
  BY <1>5 DEF u, v, f, g

LEMMA SendKept ==
  ASSUME PairInv, NEW c \in Client, Send(c)
  PROVE  \A b \in Client : StreamInv(b)' /\ PendingInv(b)'
<1> DEFINE d == Other(c)
<1>1. UNCHANGED <<written, taken, messes>>
  BY DEF Send
<1>2. d \in Client /\ d # c /\ Other(d) = c /\ PairTypeOK
  BY Others DEF PairInv
<1>3. PICK k \in 1..Len(mess[c]) :
        /\ \/ /\ peer[d] = "open"
              /\ inbox' = [inbox EXCEPT ![d] = @ \o SubSeq(mess[c], 1, k)]
              /\ UNCHANGED peer
           \/ /\ peer[d] \in {"left", "doomed"}
              /\ peer' = [peer EXCEPT ![d] = "doomed"]
              /\ UNCHANGED inbox
        /\ mess' = [mess EXCEPT ![c] = Rest(@, k)]
  BY DEF Send
<1>4. peer'[c] = peer[c] /\ inbox'[c] = inbox[c] /\ mess'[d] = mess[d]
  BY <1>2, <1>3 DEF PairTypeOK
<1>5. StreamInv(d)' /\ PendingInv(d)'
  <2>1. StreamInv(d) /\ PendingInv(d)
    BY <1>2 DEF PairInv
  <2>2. QED
    BY <1>1, <1>2, <1>4, <2>1, OthersKept
<1>6. (Stays(c)' <=> Stays(c)) /\ Stream(c)' = Stream(c)
  <2>1. CASE peer[d] = "open"
    <3>1. Stays(c) /\ Stays(c)'
      BY <1>3, <2>1 DEF Stays, Gone
    <3> DEFINE s == inbox[d]
               m == mess[c]
    <3>2. inbox'[d] = s \o SubSeq(m, 1, k) /\ mess'[c] = SubSeq(m, k + 1, Len(m))
      BY <1>2, <1>3, <2>1 DEF PairTypeOK, Rest
    <3>3. s \in Seq(Int) /\ m \in Seq(Int) /\ k \in 1..Len(m)
      BY <1>2, StreamType
    <3> HIDE DEF s, m
    <3>4. (s \o SubSeq(m, 1, k)) \o SubSeq(m, k + 1, Len(m)) = s \o m
      BY <3>3, SentInTwo
    <3>5. QED
      BY <3>1, <3>2, <3>4 DEF Stream, s, m
  <2>2. CASE peer[d] \in {"left", "doomed"} /\ peer' = [peer EXCEPT ![d] = "doomed"] /\ UNCHANGED inbox
    <3>1. ~Stays(c) /\ ~Stays(c)'
      BY <1>2, <2>2 DEF Stays, Gone, PairTypeOK
    <3>2. QED
      BY <2>2, <3>1 DEF Stream
  <2>3. QED
    BY <1>3, <2>1, <2>2
<1>7. StreamInv(c) /\ PendingInv(c)
  BY DEF PairInv
<1>8. StreamInv(c)'
  BY <1>1, <1>6, <1>7 DEF StreamInv
<1>9. PendingInv(c)'
  BY <1>1, <1>6, <1>7 DEF PendingInv
<1>10. QED
  BY <1>5, <1>8, <1>9, Others

LEMMA PairTypeKept ==
  ASSUME PairInv, PairNext
  PROVE  PairTypeOK'
<1>0. PairTypeOK /\ ThreadInv /\ Room \in Nat
  BY PairAssumption DEF PairInv
<1>1. CASE Main
  <2>1. CASE CreateThreads
    BY <1>0, <2>1 DEF PairTypeOK, ThreadInv, CreateThreads, clientVars
  <2>2. CASE ~CreateThreads
    BY <1>0, <1>1, <2>2 DEF PairTypeOK, Main, Listen, Accept, AcceptFailed, JoinThreads,
         clientVars, threadVars, mainVars
  <2>3. QED
    BY <2>1, <2>2
<1>2. ASSUME NEW c \in Client, handle_chat(c)
      PROVE  PairTypeOK'
  <2>1. CASE Recv(c)
    <3>1. taken'[c] \in Nat /\ taken'[c] <= Len(written[c]) /\ messes'[c] \in Seq(Seq(Int))
      BY <2>1, RecvKept
    <3>2. /\ UNCHANGED <<peer, written, inbox, unread, proc, mpc, fd, mess>>
          /\ hpc[c] = "recv" /\ hpc' = [hpc EXCEPT ![c] = "next"]
          /\ \E n, p : taken' = [taken EXCEPT ![c] = @ + n] /\ messes' = [messes EXCEPT ![c] = p]
      BY <2>1 DEF Recv, mainVars
    <3>3. taken' \in [Client -> Nat] /\ messes' \in [Client -> Seq(Seq(Int))]
      BY <1>0, <3>1, <3>2 DEF PairTypeOK
    <3>4. \A b \in Client : taken'[b] <= Len(written[b])
      BY <1>0, <3>1, <3>2 DEF PairTypeOK
    <3>5. QED
      BY <1>0, <3>2, <3>3, <3>4 DEF PairTypeOK
  <2>2. CASE RecvEnds(c)
    BY <1>0, <2>2 DEF PairTypeOK, RecvEnds, clientVars, mainVars
  <2>3. CASE NextMess(c)
    <3>1. messes[c] \in Seq(Seq(Int)) /\ mess[c] = <<>>
      BY <1>0, <2>3 DEF PairTypeOK, NextMess
    <3>2. CASE messes[c] = <<>>
      BY <1>0, <2>3, <3>2 DEF PairTypeOK, NextMess, clientVars, mainVars
    <3>3. CASE messes[c] # <<>>
      <4>1. Tail(messes[c]) \in Seq(Seq(Int)) /\ Head(messes[c]) \in Seq(Int)
        BY <3>1, <3>3
      <4>2. Message(Head(messes[c])) \in Seq(Int) /\ Message(Head(messes[c])) # <<>>
        BY <4>1 DEF Message, Header, NL
      <4>3. CASE Head(messes[c]) = <<>>
        BY <1>0, <2>3, <3>3, <4>1, <4>3 DEF PairTypeOK, NextMess, clientVars, mainVars
      <4>4. CASE Head(messes[c]) # <<>>
        BY <1>0, <2>3, <3>3, <4>1, <4>2, <4>4 DEF PairTypeOK, NextMess, clientVars, mainVars
      <4>5. QED
        BY <4>3, <4>4
    <3>4. QED
      BY <3>2, <3>3
  <2>4. CASE Send(c)
    <3> DEFINE d == Other(c)
    <3>1. PICK k \in 1..Len(mess[c]) :
            /\ \/ /\ peer[d] = "open"
                  /\ k <= Room - unread[d]
                  /\ inbox' = [inbox EXCEPT ![d] = @ \o SubSeq(mess[c], 1, k)]
                  /\ unread' = [unread EXCEPT ![d] = @ + k]
                  /\ UNCHANGED peer
               \/ /\ peer[d] \in {"left", "doomed"}
                  /\ peer' = [peer EXCEPT ![d] = "doomed"]
                  /\ UNCHANGED <<inbox, unread>>
            /\ mess' = [mess EXCEPT ![c] = Rest(@, k)]
            /\ hpc' = [hpc EXCEPT ![c] = IF mess'[c] = <<>> THEN "next" ELSE "send"]
            /\ UNCHANGED <<written, taken, proc, mpc, fd, messes>>
      BY <2>4 DEF Send, mainVars
    <3>2. d \in Client /\ mess[c] \in Seq(Int) /\ inbox[d] \in Seq(Int)
      BY <1>0, Others, StreamType
    <3>3. SubSeq(mess[c], 1, k) \in Seq(Int) /\ Rest(mess[c], k) \in Seq(Int)
      BY <3>2 DEF Rest
    <3>4. inbox[d] \o SubSeq(mess[c], 1, k) \in Seq(Int)
      BY <3>2, <3>3
    <3>5. inbox' \in [Client -> Seq(Int)] /\ peer' \in [Client -> State]
      BY <1>0, <3>1, <3>2, <3>4 DEF PairTypeOK, State, Gone
    <3>6. unread' \in [Client -> 0..Room]
      <4>1. k \in Nat /\ unread[d] \in 0..Room
        BY <1>0, <3>2 DEF PairTypeOK
      <4>2. k <= Room - unread[d] => unread[d] + k \in 0..Room
        BY <1>0, <4>1
      <4>3. QED
        BY <1>0, <3>1, <3>2, <4>2 DEF PairTypeOK
    <3>7. /\ mess' \in [Client -> Seq(Int)]
          /\ hpc' \in [Client -> {"none", "recv", "next", "send", "done"}]
          /\ \A b \in Client : hpc'[b] = "send" <=> mess'[b] # <<>>
      BY <1>0, <3>1, <3>3 DEF PairTypeOK
    <3>8. QED
      BY <1>0, <3>1, <3>5, <3>6, <3>7 DEF PairTypeOK
  <2>5. CASE SendAborts(c)
    BY <1>0, <2>5 DEF PairTypeOK, SendAborts, clientVars, mainVars, threadVars
  <2>6. QED
    BY <1>2, <2>1, <2>2, <2>3, <2>4, <2>5 DEF handle_chat
<1>3. ASSUME NEW c \in Client, ClientActs(c)
      PROVE  PairTypeOK'
  <2>1. UNCHANGED <<proc, mpc, fd, hpc, messes, mess>>
    BY <1>3 DEF ClientActs, mainVars, threadVars
  <2>2. CASE WriteSymbol(c)
    <3>1. PICK x \in {NL, Len(written[c]) + 1} : written' = [written EXCEPT ![c] = Append(@, x)]
      BY <2>2 DEF WriteSymbol
    <3>2. written[c] \in Seq(Nat) /\ x \in Nat
      BY <1>0, <3>1 DEF PairTypeOK, NL
    <3>3. Append(written[c], x) \in Seq(Nat) /\ Len(Append(written[c], x)) = Len(written[c]) + 1
      BY <3>2
    <3>4. written' \in [Client -> Seq(Nat)] /\ \A b \in Client : taken[b] <= Len(written'[b])
      BY <1>0, <3>1, <3>2, <3>3 DEF PairTypeOK
    <3>5. QED
      BY <1>0, <2>1, <2>2, <3>4 DEF PairTypeOK, WriteSymbol
  <2>3. CASE Connect(c)
    BY <1>0, <2>1, <2>3 DEF PairTypeOK, Connect, State
  <2>4. CASE Leave(c)
    BY <1>0, <2>1, <2>4 DEF PairTypeOK, Leave, State, Gone
  <2>5. QED
    BY <1>3, <2>2, <2>3, <2>4 DEF ClientActs
<1>4. ASSUME NEW c \in Client, Network(c)
      PROVE  PairTypeOK'
  <2>1. CASE Read(c)
    BY <1>0, <1>4, <2>1 DEF PairTypeOK, Network, Read, mainVars, threadVars
  <2>2. CASE Reset(c)
    BY <1>0, <1>4, <2>2 DEF PairTypeOK, Network, Reset, State, Gone, mainVars, threadVars
  <2>3. QED
    BY <1>4, <2>1, <2>2 DEF Network
<1>5. QED
  BY <1>1, <1>2, <1>3, <1>4 DEF PairNext

LEMMA ThreadKept ==
  ASSUME PairInv, PairNext
  PROVE  ThreadInv'
<1>0. PairTypeOK /\ ThreadInv
  BY DEF PairInv
<1>1. CASE Main
  <2>1. CASE CreateThreads
    <3>1. messes' = messes /\ mpc' = "join" /\ mpc = "create"
      BY <2>1 DEF CreateThreads
    <3>2. \A c \in Client : messes[c] = <<>>
      BY <1>0, <3>1 DEF ThreadInv
    <3>3. QED
      BY <3>1, <3>2 DEF ThreadInv
  <2>2. CASE Listen
    BY <1>0, <2>2 DEF ThreadInv, Listen, threadVars
  <2>3. CASE \E c \in Client : Accept(c)
    BY <1>0, <2>3 DEF ThreadInv, Accept, AcceptPoint, threadVars
  <2>4. CASE AcceptFailed \/ JoinThreads
    BY <1>0, <2>4 DEF ThreadInv, AcceptFailed, JoinThreads, threadVars, mainVars
  <2>5. QED
    BY <1>1, <2>1, <2>2, <2>3, <2>4 DEF Main
<1>2. ASSUME NEW c \in Client, handle_chat(c)
      PROVE  ThreadInv'
  <2>1. mpc' = mpc /\ (hpc' = hpc \/ mpc = "join")
    BY <1>0, <1>2 DEF ThreadInv, handle_chat, Recv, RecvEnds, NextMess, Send, SendAborts,
         mainVars, threadVars
  <2>2. ASSUME NEW b \in Client, hpc'[b] \notin {"next", "send"}
        PROVE  messes'[b] = <<>>
    BY <1>0, <1>2, <2>2 DEF PairTypeOK, ThreadInv, handle_chat, Recv, RecvEnds, NextMess, Send,
         SendAborts, threadVars
  <2>3. QED
    BY <1>0, <2>1, <2>2 DEF ThreadInv
<1>3. ASSUME NEW c \in Client, ClientActs(c) \/ Network(c)
      PROVE  ThreadInv'
  BY <1>0, <1>3 DEF ThreadInv, ClientActs, Network, mainVars, threadVars
<1>4. QED
  BY <1>1, <1>2, <1>3 DEF PairNext

LEMMA WrittenKept ==
  ASSUME PairInv, PairNext
  PROVE  WrittenInv'
<1>1. CASE written' = written
  BY <1>1 DEF PairInv, WrittenInv
<1>2. CASE written' # written
  <2>1. PICK c \in Client : WriteSymbol(c) /\ UNCHANGED <<proc, mainVars, threadVars>>
    BY <1>2 DEF PairNext, Main, Listen, Accept, AcceptFailed, CreateThreads, JoinThreads,
         handle_chat, Recv, RecvEnds, NextMess, Send, SendAborts,
         ClientActs, Connect, Leave, Network, Read, Reset, clientVars
  <2>2. QED
    BY <2>1, WriteKept
<1>3. QED
  BY <1>1, <1>2

LEMMA PairStep ==
  ASSUME PairInv, [PairNext]_pairVars
  PROVE  PairInv'
<1>1. CASE PairNext
  <2>1. \A c \in Client : StreamInv(c)' /\ PendingInv(c)'
    <3> DEFINE Fixed == /\ \A b \in Client : peer'[b] \in Gone <=> peer[b] \in Gone
                        /\ UNCHANGED <<inbox, mess, written, taken, messes>>
    <3>1. ASSUME Fixed
          PROVE  \A b \in Client : StreamInv(b)' /\ PendingInv(b)'
      <4>1. StreamInv(1) /\ PendingInv(1) /\ StreamInv(2) /\ PendingInv(2)
        BY DEF PairInv, Client
      <4>2. QED
        BY <3>1, <4>1, QuietKept
    <3>2. CASE Main
      BY <3>1, <3>2 DEF Main, Listen, Accept, AcceptFailed, CreateThreads, JoinThreads,
           clientVars, threadVars
    <3>3. ASSUME NEW c \in Client, handle_chat(c)
          PROVE  \A b \in Client : StreamInv(b)' /\ PendingInv(b)'
      <4>1. CASE RecvEnds(c) \/ SendAborts(c)
        BY <3>1, <4>1 DEF RecvEnds, SendAborts, clientVars, threadVars
      <4>2. QED
        BY <3>3, <4>1, RecvKept, NextKept, SendKept DEF handle_chat
    <3>4. ASSUME NEW c \in Client, ClientActs(c)
          PROVE  \A b \in Client : StreamInv(b)' /\ PendingInv(b)'
      <4>1. CASE Connect(c)
        BY <3>1, <3>4, <4>1 DEF PairInv, PairTypeOK, ClientActs, Connect, Gone, threadVars
      <4>2. QED
        BY <3>4, <4>1, WriteKept, LeaveKept DEF ClientActs
    <3>5. ASSUME NEW c \in Client, Network(c)
          PROVE  \A b \in Client : StreamInv(b)' /\ PendingInv(b)'
      BY <3>1, <3>5 DEF PairInv, PairTypeOK, Network, Read, Reset, Gone, threadVars
    <3>6. QED
      BY <1>1, <3>2, <3>3, <3>4, <3>5 DEF PairNext
  <2>2. PairTypeOK' /\ ThreadInv' /\ WrittenInv'
    BY <1>1, PairTypeKept, ThreadKept, WrittenKept
  <2>3. QED
    BY <2>1, <2>2 DEF PairInv
<1>2. CASE UNCHANGED pairVars
  <2>1. PairTypeOK' /\ ThreadInv' /\ WrittenInv'
    BY <1>2 DEF PairInv, PairTypeOK, ThreadInv, WrittenInv, pairVars, clientVars, mainVars, threadVars
  <2>2. \A c \in Client : StreamInv(c)' /\ PendingInv(c)'
    <3>1. StreamInv(1) /\ PendingInv(1) /\ StreamInv(2) /\ PendingInv(2)
      BY DEF PairInv, Client
    <3>2. QED
      BY <1>2, <3>1, QuietKept DEF pairVars, clientVars, threadVars
  <2>3. QED
    BY <2>1, <2>2 DEF PairInv
<1>3. QED
  BY <1>1, <1>2

\* lab3/1.cpp: the inductive invariant of the two-person chat.  What a thread
\* has sent and is sending is a stream of whole messages in order, and what
\* it took and has not sent yet are lines in order behind it.
THEOREM PairInvCorrect == PairSpec => []PairInv
<1>1. PairInit => PairInv
  BY PairFirst
<1>2. PairInv /\ [PairNext]_pairVars => PairInv'
  BY PairStep
<1>3. QED
  BY <1>1, <1>2, PTL DEF PairSpec

\* What a client has got is the stream to it, or the part that went before
\* what is being sent.
LEMMA InboxInOrder ==
  ASSUME PairInv, NEW c \in Client
  PROVE  /\ InOrder(inbox[Other(c)], written[c])
         /\ LinesApart(inbox[Other(c)], written[c])
         /\ IsFramed(inbox[Other(c)])
<1> DEFINE s == inbox[Other(c)]
           t == mess[c]
<1>1. PairTypeOK /\ StreamInv(c)
  BY DEF PairInv
<1>2. s \in Seq(Int) /\ t \in Seq(Int) /\ written[c] \in Seq(Nat)
  BY <1>1, StreamType
<1>3. /\ InOrder(Stream(c), written[c])
      /\ LinesApart(Stream(c), written[c])
      /\ IsFramed(Stream(c))
  BY <1>1 DEF StreamInv
<1>4. Stream(c) = s \/ Stream(c) = s \o t
  BY DEF Stream
<1> HIDE DEF s, t
<1>5. InOrder(s, written[c]) /\ LinesApart(s, written[c]) /\ IsFramed(s)
  BY <1>2, <1>3, <1>4, StreamBegins
<1>6. QED
  BY <1>5 DEF s

\* lab3/1.cpp:17-50: every message that reaches a client is a header, a line
\* that is not empty and a newline, however send cuts it.
THEOREM WellFormedCorrect == PairSpec => []WellFormed
<1>1. PairInv => WellFormed
  <2>1. ASSUME PairInv
        PROVE  PairTypeOK /\ \A c \in Client : IsFramed(inbox[c])
    <3>1. PairTypeOK
      BY <2>1 DEF PairInv
    <3>2. ASSUME NEW c \in Client
          PROVE  IsFramed(inbox[c])
      <4>1. IsFramed(inbox[Other(Other(c))])
        BY <2>1, InboxInOrder, Others
      <4>2. QED
        BY <4>1, Others
    <3>3. QED
      BY <3>1, <3>2
  <2>2. QED
    BY <2>1 DEF WellFormed, Framed
<1>2. QED
  BY <1>1, PairInvCorrect, PTL

\* lab3/1.cpp:17-50: what one client writes reaches the other in its order,
\* once and without a gap, and no message joins characters of two lines.
THEOREM RelayCorrect == PairSpec => []Relay
<1>1. PairInv => Relay
  <2>1. ASSUME PairInv
        PROVE  Relay
    BY <2>1, InboxInOrder DEF Relay
  <2>2. QED
    BY <2>1
<1>2. QED
  BY <1>1, PairInvCorrect, PTL
=============================================================================
