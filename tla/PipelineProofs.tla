--------------------------- MODULE PipelineProofs ---------------------------
(* What holds of Pipeline for any number of commands, any amount of data and *)
(* pipes of any size.                                                        *)
EXTENDS Pipeline, TLAPS

LEMMA Ranges ==
  /\ CmdCount \in Nat /\ CmdCount > 1 /\ Last \in Stage /\ Last > 0
  /\ Stage \subseteq Nat /\ Pipe \subseteq Stage
  /\ \A k \in Stage : k <= Last /\ (k # Last => k \in Pipe)
  /\ \A k \in Stage : k > 0 => k - 1 \in Pipe
  /\ \A p \in Pipe : p < Last
  /\ Terminal \notin Pipe /\ None \notin Pipe /\ Shell \notin Stage
  /\ Amount \in Nat /\ Capacity \in Nat \ {0} /\ MaxSigints \in Nat /\ 0 \in Stage
BY PipelineAssumption DEF Last, Stage, Pipe, Terminal, None, Shell

LEMMA TailFacts ==
  ASSUME NEW S, NEW s \in Seq(S), s # <<>>
  PROVE  /\ Head(s) \in S /\ Head(s) = s[1] /\ 1 \in DOMAIN s
         /\ Tail(s) \in Seq(S) /\ Len(Tail(s)) = Len(s) - 1 /\ Len(s) \in Nat /\ Len(s) > 0
         /\ \A j \in DOMAIN Tail(s) : /\ Tail(s)[j] = s[j + 1] /\ j + 1 \in DOMAIN s
                                      /\ j \in Nat /\ j > 0
OBVIOUS

LEMMA AppendFacts ==
  ASSUME NEW S, NEW s \in Seq(S), NEW e \in S
  PROVE  /\ Append(s, e) \in Seq(S) /\ Len(Append(s, e)) = Len(s) + 1 /\ Len(s) \in Nat
         /\ DOMAIN s = 1..Len(s) /\ DOMAIN Append(s, e) = 1..Len(s) + 1
         /\ \A j \in DOMAIN s : Append(s, e)[j] = s[j]
         /\ Append(s, e)[Len(s) + 1] = e
OBVIOUS

-----------------------------------------------------------------------------
(* Type correctness.                                                        *)

LEMMA ParentTypes ==
  ASSUME TypeOK, Parent
  PROVE  TypeOK'
<1>1. CASE MakePipe
  <2>1. i < Last => i \in Pipe
    BY Ranges DEF TypeOK
  <2>2. readers' \in [Pipe -> SUBSET (Stage \cup {Shell})]
    BY <1>1, <2>1 DEF TypeOK, MakePipe
  <2>3. writers' \in [Pipe -> SUBSET (Stage \cup {Shell})]
    BY <1>1, <2>1 DEF TypeOK, MakePipe
  <2>4. QED
    BY <1>1, <2>1, <2>2, <2>3 DEF TypeOK, MakePipe, stageVars
<1>2. CASE Fork
  <2>1. input' \in [Stage -> Pipe \cup {Terminal}]
    BY <1>2 DEF TypeOK, Fork, InputOf, OpenPipes
  <2>2. stage' \in [Stage -> StageState]
    BY <1>2 DEF TypeOK, Fork, StageState, Failed
  <2>3. readers' \in [Pipe -> SUBSET (Stage \cup {Shell})]
    BY <1>2 DEF TypeOK, Fork
  <2>4. writers' \in [Pipe -> SUBSET (Stage \cup {Shell})]
    BY <1>2 DEF TypeOK, Fork
  <2>5. QED
    BY <1>2, <2>1, <2>2, <2>3, <2>4 DEF TypeOK, Fork
<1>3. CASE WaitReturns
  <2>1. stage' \in [Stage -> StageState]
    BY <1>3 DEF TypeOK, WaitReturns, StageState, Failed
  <2>2. /\ readers' \in [Pipe -> SUBSET (Stage \cup {Shell})]
        /\ writers' \in [Pipe -> SUBSET (Stage \cup {Shell})]
    BY <1>3 DEF TypeOK, WaitReturns
  <2>3. QED
    BY <1>3, <2>1, <2>2 DEF TypeOK, WaitReturns
<1>4. CASE NoChildren
  <2>1. i < Last => i + 1 \in Stage
    BY Ranges DEF TypeOK, Stage, Last
  <2>2. i' \in Stage /\ pc' \in {"pipe", "fork", "wait", "done"}
    BY <1>4, <2>1 DEF TypeOK, NoChildren, NextRound, MoreCommands
  <2>3. QED
    BY <1>4, <2>2 DEF TypeOK, NoChildren, fdVars, stageVars
<1>5. CASE SigintExit
  <2>1. stage' \in [Stage -> StageState]
    BY <1>5 DEF TypeOK, SigintExit, StageState, Failed
  <2>2. QED
    BY <1>5, <2>1 DEF TypeOK, SigintExit, fdVars
<1>6. CASE PipeFails \/ ForkFails
  <2>1. PICK how \in Failed : Fails(how)
    BY <1>6 DEF PipeFails, ForkFails, Failed
  <2>2. stage' \in [Stage -> StageState]
    BY <2>1 DEF TypeOK, Fails, StageState
  <2>3. i < Last => i + 1 \in Stage
    BY Ranges DEF TypeOK, Stage, Last
  <2>4. i' \in Stage /\ pc' \in {"pipe", "fork", "wait", "done"}
    BY <1>6, <2>3 DEF TypeOK, PipeFails, ForkFails, NextRound, MoreCommands
  <2>5. QED
    BY <2>1, <2>2, <2>4 DEF TypeOK, Fails, fdVars
<1>7. QED
  BY <1>1, <1>2, <1>3, <1>4, <1>5, <1>6 DEF Parent

LEMMA EndsTypes ==
  ASSUME TypeOK, NEW k \in Stage, Ends(k), sigint' \in BOOLEAN
  PROVE  TypeOK'
<1>1. stage' \in [Stage -> StageState]
  BY DEF TypeOK, Ends, StageState, Failed
<1>2. /\ readers' \in [Pipe -> SUBSET (Stage \cup {Shell})]
      /\ writers' \in [Pipe -> SUBSET (Stage \cup {Shell})]
  BY DEF TypeOK, Ends
<1>3. QED
  BY <1>1, <1>2 DEF TypeOK, Ends

LEMMA ChildTypes ==
  ASSUME TypeOK, NEW k \in Stage, Child(k) \/ CtrlD(k)
  PROVE  TypeOK'
<1>1. CASE Exec(k)
  <2>1. stage' \in [Stage -> StageState]
    BY <1>1 DEF TypeOK, Exec, StageState, Failed
  <2>2. QED
    BY <1>1, <2>1 DEF TypeOK, Exec, fdVars
<1>2. CASE ReadUnit(k)
  <2> DEFINE p == input[k]
  <2>1. p \in Pipe /\ data[p] \in Seq(1..Amount) /\ data[p] # <<>> /\ Len(data[p]) <= Capacity
    BY <1>2 DEF TypeOK, ReadUnit
  <2> HIDE DEF p
  <2>2. /\ Head(data[p]) \in 1..Amount /\ Tail(data[p]) \in Seq(1..Amount)
        /\ Len(Tail(data[p])) <= Capacity
    <3> DEFINE s == data[p]
    <3>1. s \in Seq(1..Amount) /\ s # <<>> /\ Len(s) <= Capacity /\ Capacity \in Nat
      BY <2>1, Ranges
    <3> HIDE DEF s
    <3>2. Head(s) \in 1..Amount /\ Tail(s) \in Seq(1..Amount) /\ Len(Tail(s)) = Len(s) - 1
          /\ Len(s) \in Nat
      BY <3>1, TailFacts
    <3>3. QED
      BY <3>1, <3>2 DEF s
  <2>3. held' \in [Stage -> 0..Amount]
    BY <1>2, <2>2 DEF TypeOK, ReadUnit, p
  <2>4. data' = [data EXCEPT ![p] = Tail(data[p])]
    BY <1>2, <2>1 DEF TypeOK, ReadUnit, p
  <2>5. data' \in [Pipe -> Seq(1..Amount)] /\ \A q \in Pipe : Len(data'[q]) <= Capacity
    BY <2>1, <2>2, <2>4 DEF TypeOK
  <2>6. QED
    BY <1>2, <2>3, <2>5 DEF TypeOK, ReadUnit, fdVars
<1>3. CASE WriteUnit(k)
  <2>1. ASSUME NEW unit \in 1..Amount, Output(k, unit)
        PROVE  /\ data' \in [Pipe -> Seq(1..Amount)] /\ shown' \in Seq(1..Amount)
               /\ \A q \in Pipe : Len(data'[q]) <= Capacity
    <3>1. CASE k = Last
      <4>1. shown \in Seq(1..Amount)
        BY DEF TypeOK
      <4>2. Append(shown, unit) \in Seq(1..Amount)
        BY <4>1
      <4>3. QED
        BY <2>1, <3>1, <4>2 DEF TypeOK, Output
    <3>2. CASE k # Last
      <4>1. k \in Pipe /\ data[k] \in Seq(1..Amount) /\ Len(data[k]) < Capacity
        BY <2>1, <3>2, Ranges DEF TypeOK, Output
      <4>2. data' = [data EXCEPT ![k] = Append(data[k], unit)] /\ shown' = shown
        BY <2>1, <3>2, <4>1 DEF TypeOK, Output
      <4>3. Append(data[k], unit) \in Seq(1..Amount) /\ Len(Append(data[k], unit)) <= Capacity
        BY <4>1, Ranges
      <4>4. QED
        BY <4>1, <4>2, <4>3 DEF TypeOK
    <3>3. QED
      BY <3>1, <3>2
  <2>2. /\ data' \in [Pipe -> Seq(1..Amount)] /\ shown' \in Seq(1..Amount)
        /\ \A q \in Pipe : Len(data'[q]) <= Capacity
        /\ wrote' \in 0..Amount /\ held' \in [Stage -> 0..Amount]
    <3>1. CASE k = 0
      <4>1. wrote + 1 \in 1..Amount /\ wrote' = wrote + 1 /\ Output(k, wrote + 1) /\ held' = held
        BY <1>3, <3>1, Ranges DEF TypeOK, WriteUnit
      <4>2. /\ data' \in [Pipe -> Seq(1..Amount)] /\ shown' \in Seq(1..Amount)
            /\ \A q \in Pipe : Len(data'[q]) <= Capacity
        BY <4>1, <2>1
      <4>3. wrote' \in 0..Amount
        BY <4>1, Ranges
      <4>4. QED
        BY <4>1, <4>2, <4>3 DEF TypeOK
    <3>2. CASE k # 0
      <4>1. held[k] \in 1..Amount /\ wrote' = wrote /\ Output(k, held[k])
            /\ held' = [held EXCEPT ![k] = 0]
        <5>1. /\ held[k] # 0 /\ wrote' = wrote /\ Output(k, held[k])
              /\ held' = [held EXCEPT ![k] = 0]
          BY <1>3, <3>2 DEF WriteUnit
        <5>2. held[k] \in 0..Amount /\ Amount \in Nat
          BY Ranges DEF TypeOK
        <5>3. held[k] \in 1..Amount
          BY <5>1, <5>2
        <5>4. QED
          BY <5>1, <5>3
      <4>2. /\ data' \in [Pipe -> Seq(1..Amount)] /\ shown' \in Seq(1..Amount)
            /\ \A q \in Pipe : Len(data'[q]) <= Capacity
        BY <4>1, <2>1
      <4>3. held' \in [Stage -> 0..Amount]
        BY <4>1, Ranges DEF TypeOK
      <4>4. QED
        BY <4>1, <4>2, <4>3 DEF TypeOK
    <3>3. QED
      BY <3>1, <3>2
  <2>3. QED
    BY <1>3, <2>2 DEF TypeOK, WriteUnit, fdVars
<1>4. CASE Finish(k) \/ CtrlD(k) \/ Die(k)
  BY <1>4, EndsTypes DEF Finish, CtrlD, Die, TypeOK
<1>5. QED
  BY <1>1, <1>2, <1>3, <1>4 DEF Child

LEMMA TypeStep ==
  ASSUME TypeOK, [Next]_vars
  PROVE  TypeOK'
<1>1. CASE Sigint
  <2>1. stage' \in [Stage -> StageState]
    BY <1>1 DEF TypeOK, Sigint, StageState, Failed
  <2>2. sigints' \in 0..MaxSigints
    BY <1>1, Ranges DEF TypeOK, Sigint
  <2>3. QED
    BY <1>1, <2>1, <2>2 DEF TypeOK, Sigint, fdVars
<1>2. CASE UNCHANGED vars
  BY <1>2 DEF TypeOK, vars, fdVars, stageVars
<1>3. QED
  BY <1>1, <1>2, ParentTypes, ChildTypes DEF Next

-----------------------------------------------------------------------------
(* The rest of the invariant, as long as nobody presses Ctrl-C.             *)

Quiet == RoundInv /\ FdInv /\ NothingOut /\ (Ran(0) => ReadFdInv /\ DataInv)

\* A command that is there and not yet waited for is the one the parent is at.
LEMMA AtWork ==
  ASSUME TypeOK, RoundInv, NEW k \in Stage, stage[k] \in {"forked", "running", "zombie"}
  PROVE  k = i /\ pc = "wait" /\ stage[i] # "none" /\ ~Waited /\ Ran(i)
<1>1. k \in Nat /\ i \in Nat /\ i \in Stage
  BY Ranges DEF TypeOK
<1>2. ~(k < i) /\ ~(k > i)
  BY <1>1 DEF RoundInv, Failed
<1>3. k = i
  BY <1>1, <1>2
<1>4. QED
  BY <1>3 DEF RoundInv, Waited, TypeOK, Ran, Failed

LEMMA OutType ==
  ASSUME TypeOK, NEW k \in Stage
  PROVE  /\ Out(k) \in Seq(1..Amount) /\ Len(Out(k)) \in Nat
         /\ i \in Nat /\ i \in Stage
         /\ held[k] \in 0..Amount
<1>1. i \in Nat /\ i \in Stage
  BY Ranges DEF TypeOK
<1>2. Out(k) \in Seq(1..Amount)
  <2>1. k # Last => k \in Pipe
    BY Ranges
  <2>2. QED
    BY <2>1 DEF Out, TypeOK
<1>3. QED
  BY <1>1, <1>2 DEF TypeOK

\* Behind the first command, the pipe that command i reads, or would read, is
\* an earlier one.
LEMMA SourceFacts ==
  ASSUME TypeOK, Quiet, Ran(0), i > 0, ~Waited \/ Ran(i)
  PROVE  /\ Source \in Pipe /\ Source \in Nat /\ Source < i /\ data[Source] \in Seq(1..Amount)
         /\ Ran(i) => Source = input[i]
         /\ ~Ran(i) => Source = read_fd
<1>1. i \in Stage /\ ReadFdInv
  BY DEF TypeOK, Quiet
<1>2. Predecessor(Source, i)
  BY <1>1 DEF ReadFdInv, KeepsReadEnd, Source
<1>3. QED
  BY <1>2, Ranges DEF Predecessor, Source, TypeOK

\* What depends on which commands ran.
LEMMA SameRan ==
  ASSUME \A k \in Stage : Ran(k)' <=> Ran(k), UNCHANGED input, KeepsReadEnd
  PROVE  KeepsReadEnd'
BY Ranges DEF KeepsReadEnd, Predecessor

LEMMA MakePipeStep ==
  ASSUME TypeOK, Quiet, MakePipe
  PROVE  Quiet'
<1>1. /\ pc = "pipe" /\ pc' = "fork" /\ stage[i] = "none" /\ i \in Stage /\ i \in Nat
      /\ UNCHANGED <<i, read_fd, stage, input, data, wrote, shown, held, sigint>>
      /\ ~Waited /\ ~Waited'
  BY Ranges DEF TypeOK, Quiet, RoundInv, MakePipe, stageVars, Waited
<1>2. RoundInv' /\ NothingOut' /\ (KeepsReadEnd => KeepsReadEnd') /\ (DataInv => DataInv')
  BY <1>1
  DEF Quiet, RoundInv, NothingOut, KeepsReadEnd, Predecessor, DataInv, Out, Taken, Source, Ran
<1>3. CASE i < Last
  <2>1. /\ i \in Pipe /\ i # Last /\ pipefd' = i
        /\ readers' = [readers EXCEPT ![i] = {Shell}]
        /\ writers' = [writers EXCEPT ![i] = {Shell}]
    BY <1>1, <1>3, Ranges DEF MakePipe
  <2>2. \A p \in Pipe : /\ readers'[p] = IF p = i THEN {Shell} ELSE readers[p]
                        /\ writers'[p] = IF p = i THEN {Shell} ELSE writers[p]
    BY <2>1 DEF TypeOK
  <2>3. FdInv'
    BY <1>1, <2>1, <2>2 DEF Quiet, FdInv
  <2>4. ASSUME Ran(0)
        PROVE  ReadFdInv'
    <3>1. ReadFdInv
      BY <2>4 DEF Quiet
    <3>2. i > 0 => read_fd \in Pipe /\ read_fd # i
      BY <1>1, <3>1, Ranges DEF ReadFdInv, Predecessor
    <3>3. QED
      BY <1>1, <1>2, <2>1, <2>2, <3>1, <3>2 DEF ReadFdInv, Predecessor, Ran
  <2>5. Ran(0)' <=> Ran(0)
    BY <1>1 DEF Ran
  <2>6. QED
    BY <1>2, <2>3, <2>4, <2>5 DEF Quiet
<1>4. CASE ~(i < Last)
  <2>1. i = Last /\ i > 0 /\ UNCHANGED <<pipefd, readers, writers>>
    BY <1>1, <1>4, Ranges DEF MakePipe
  <2>2. \A p \in Pipe : p # i
    BY <2>1, Ranges DEF Pipe
  <2>3. FdInv'
    BY <1>1, <1>4, <2>1, <2>2 DEF Quiet, FdInv
  <2>4. ReadFdInv => ReadFdInv'
    BY <1>1, <1>2, <1>4, <2>1 DEF ReadFdInv, Predecessor, Ran
  <2>5. Ran(0)' <=> Ran(0)
    BY <1>1 DEF Ran
  <2>6. QED
    BY <1>2, <2>3, <2>4, <2>5 DEF Quiet
<1>5. QED
  BY <1>3, <1>4

\* pipe or fork fails: the parent is where it was, one command further on.
LEMMA FailsStep ==
  ASSUME TypeOK, Quiet, PipeFails \/ ForkFails
  PROVE  Quiet'
<1>1. PICK how \in Failed : Fails(how) /\ (PipeFails \/ how = "unforked")
  BY DEF PipeFails, ForkFails, Failed
<1>2. /\ stage[i] = "none" /\ i \in Stage /\ i \in Nat /\ i <= Last /\ ~Ran(i) /\ ~Waited
      /\ stage' = [stage EXCEPT ![i] = how] /\ pc \in {"pipe", "fork"}
      /\ PipeFails => pc = "pipe"
      /\ UNCHANGED <<pipefd, read_fd, readers, writers, input, data, wrote, shown, held, sigint>>
  BY <1>1, Ranges DEF TypeOK, Quiet, RoundInv, PipeFails, ForkFails, Fails, fdVars, Ran, Waited
<1>3. stage'[i] = how /\ \A k \in Stage : k # i => stage'[k] = stage[k]
  BY <1>2 DEF TypeOK
<1>4. \/ i < Last /\ i' = i + 1 /\ i' \in Stage /\ pc' = "pipe"
      \/ i = Last /\ i' = i /\ pc' = "done"
  <2>1. i < Last => i + 1 \in Stage
    BY <1>2, Ranges DEF Stage, Last
  <2>2. QED
    BY <1>2, <2>1, Ranges DEF PipeFails, ForkFails, NextRound, MoreCommands
<1>5. \A k \in Stage : Ran(k)' <=> Ran(k)
  BY <1>2, <1>3 DEF Ran
<1>6. /\ i' \in Stage /\ i' \in Nat /\ ~Ran(i') /\ stage'[i'] \in {"none"} \cup Failed
      /\ \A k \in Stage : /\ k < i' => k < i \/ k = i
                          /\ k > i' => k > i
  <2>1. /\ i' \in Stage /\ i' \in Nat
        /\ \A k \in Stage : /\ k < i' => k < i \/ k = i
                            /\ k > i' => k > i
    BY <1>2, <1>4, Ranges
  <2>2. ~Ran(i') /\ stage'[i'] \in {"none"} \cup Failed
    BY <1>1, <1>2, <1>3, <1>4 DEF Quiet, RoundInv, Ran
  <2>3. QED
    BY <2>1, <2>2
<1>7. RoundInv'
  <2>1. i' = i + 1 => stage'[i'] = "none"
    BY <1>2, <1>3, <1>4, <1>6 DEF Quiet, RoundInv
  <2>2. \A k \in Stage : /\ k < i' => stage'[k] \in {"gone"} \cup Failed
                         /\ k > i' => stage'[k] = "none"
                         /\ stage'[k] # "killed"
    BY <1>1, <1>2, <1>3, <1>6 DEF Quiet, RoundInv, Failed
  <2>3. ~sigint'
    BY <1>2 DEF Quiet, RoundInv
  <2>4. QED
    BY <1>1, <1>2, <1>3, <1>4, <2>1, <2>2, <2>3 DEF RoundInv, Failed
<1>8. NothingOut'
  BY <1>2, <1>5, Ranges DEF Quiet, NothingOut, Out
<1>9. FdInv'
  <2>1. ~Waited' /\ i' > 0
    BY <1>2, <1>4, <1>6, Ranges DEF Waited, Failed
  <2>2. i' < Last => pc' = "pipe"
    BY <1>2, <1>4
  <2>3. ASSUME NEW p \in Pipe
        PROVE  /\ Shell \in writers'[p] => stage'[p] = "unforked"
               /\ Shell \in readers'[p] =>
                    \/ stage'[p] = "unforked"
                    \/ p = read_fd' /\ \A k \in Stage : k > p => stage'[k] # "gone"
    <3>1. p = i /\ pc # "pipe" => stage'[p] = "unforked"
      BY <1>1, <1>2, <1>3
    <3>2. p \in Stage /\ (stage[p] = "unforked" => stage'[p] = "unforked")
      BY <1>2, <1>3, Ranges
    <3>3. \A k \in Stage : stage[k] # "gone" => stage'[k] # "gone"
      BY <1>1, <1>3 DEF Failed
    <3>4. QED
      BY <1>2, <3>1, <3>2, <3>3 DEF Quiet, FdInv
  <2>4. QED
    BY <2>1, <2>2, <2>3 DEF FdInv
<1>10. ASSUME Ran(0)'
       PROVE  ReadFdInv' /\ DataInv'
  <2>1. Ran(0) /\ i > 0 /\ ReadFdInv /\ DataInv /\ i' > 0
    BY <1>2, <1>4, <1>5, <1>10, Ranges DEF Quiet, Ran
  <2>2. /\ Predecessor(read_fd, i) /\ Shell \in readers[read_fd] /\ Shell \notin writers[read_fd]
        /\ KeepsReadEnd
    BY <1>2, <2>1 DEF ReadFdInv
  <2>3. read_fd \in Pipe /\ read_fd < i' /\ Ran(read_fd)'
        /\ \A m \in Stage : read_fd < m /\ m < i' => ~Ran(m)'
    BY <1>2, <1>4, <1>5, <1>6, <2>2, Ranges DEF Predecessor
  <2>4. ReadFdInv'
    <3>1. i' < Last => pc' = "pipe"
      BY <1>2, <1>4
    <3>2. KeepsReadEnd'
      BY <1>2, <1>5, <2>2, SameRan
    <3>3. QED
      BY <1>2, <2>2, <2>3, <3>1, <3>2 DEF ReadFdInv, Predecessor
  <2>5. Source = read_fd /\ Source' = read_fd
    BY <1>2, <1>5, <1>6 DEF Source
  <2>6. Out(i) = <<>> /\ held[i] = 0 /\ Out(i)' = <<>> /\ held'[i'] = 0 /\ ~Ran(i)'
    BY <1>2, <1>5, <1>6, <1>8 DEF Quiet, NothingOut
  <2>7. Taken = 0 /\ Taken' = 0
    BY <2>6 DEF Taken
  <2>8. stage'[i'] \notin {"zombie", "gone"}
    BY <1>6 DEF Failed
  <2>9. /\ \A j \in DOMAIN data[read_fd] : data[read_fd][j] = 0 + j
        /\ 0 + Len(data[read_fd]) = Amount
    BY <2>1, <2>5, <2>7 DEF DataInv
  <2>10. DataInv'
    BY <1>2, <2>1, <2>5, <2>6, <2>7, <2>8, <2>9 DEF DataInv
  <2>11. QED
    BY <2>4, <2>10
<1>11. QED
  BY <1>7, <1>8, <1>9, <1>10 DEF Quiet

LEMMA ForkStep ==
  ASSUME TypeOK, Quiet, Fork
  PROVE  Quiet'
<1>1. /\ pc = "fork" /\ pc' = "wait" /\ stage[i] = "none" /\ i \in Stage /\ i \in Nat
      /\ UNCHANGED <<i, pipefd, read_fd, data, wrote, shown, held, sigint>>
      /\ stage' = [stage EXCEPT ![i] = "forked"]
  BY Ranges DEF TypeOK, Quiet, RoundInv, Fork
<1>2. /\ stage'[i] = "forked" /\ \A k \in Stage : k # i => stage'[k] = stage[k]
  BY <1>1 DEF TypeOK
<1>3. ~Waited /\ ~Waited' /\ ~Ran(i) /\ Ran(i)' /\ \A k \in Stage : k # i => (Ran(k)' <=> Ran(k))
  BY <1>1, <1>2 DEF Waited, Ran, Failed
<1>4. RoundInv'
  BY <1>1, <1>2, Ranges DEF Quiet, RoundInv, Failed
<1>5. \A p \in Pipe : /\ Shell \in readers'[p] <=> Shell \in readers[p]
                      /\ Shell \in writers'[p] <=> Shell \in writers[p]
  BY <1>1, Ranges DEF Fork
<1>6. FdInv'
  <2>1. \A p \in Pipe : stage[p] = "unforked" => stage'[p] = "unforked"
    BY <1>1, <1>2, Ranges
  <2>2. \A k \in Stage : stage[k] # "gone" => stage'[k] # "gone"
    BY <1>2
  <2>3. i < Last => i \in Pipe
    BY <1>1, Ranges
  <2>4. QED
    BY <1>1, <1>3, <1>5, <2>1, <2>2, <2>3 DEF Quiet, FdInv
<1>7. NothingOut'
  BY <1>1, <1>3, Ranges DEF Quiet, NothingOut, Out
<1>8. Out(i)' = Out(i) /\ Taken' = Taken /\ Out(i) = <<>> /\ held[i] = 0 /\ Taken = 0
  BY <1>1, <1>3 DEF Out, Taken, Quiet, NothingOut
<1>9. CASE i = 0
  <2>1. i < Last /\ i \in Pipe
    BY <1>1, <1>9, Ranges
  <2>2. \A k \in Stage : k > 0 => ~Ran(k)'
    BY <1>1, <1>3, <1>9, Ranges DEF Quiet, RoundInv, Ran
  <2>3. ReadFdInv'
    BY <1>1, <1>5, <1>9, <2>1, <2>2 DEF Quiet, FdInv, ReadFdInv, KeepsReadEnd
  <2>4. wrote = 0 /\ Len(Out(0)) = 0 /\ Out(0)' = <<>>
    BY <1>1, <1>3, <1>8, <1>9 DEF Quiet, NothingOut
  <2>5. DataInv'
    BY <1>1, <1>2, <1>8, <1>9, <2>4 DEF DataInv
  <2>6. QED
    BY <1>4, <1>6, <1>7, <2>3, <2>5 DEF Quiet
<1>10. CASE i # 0
  <2> SUFFICES ASSUME Ran(0)'
               PROVE  ReadFdInv' /\ DataInv'
    BY <1>4, <1>6, <1>7 DEF Quiet
  <2>1. Ran(0) /\ i > 0 /\ ReadFdInv /\ DataInv
    BY <1>1, <1>3, <1>10, Ranges DEF Quiet
  <2>2. /\ Predecessor(read_fd, i) /\ Shell \in readers[read_fd] /\ Shell \notin writers[read_fd]
        /\ KeepsReadEnd /\ read_fd \in Pipe
    BY <1>3, <2>1 DEF ReadFdInv, Predecessor
  <2>3. input' = [input EXCEPT ![i] = read_fd]
    <3>1. InputOf(read_fd) = {read_fd}
      BY <2>2, Ranges DEF InputOf, OpenPipes
    <3>2. QED
      BY <2>1, <3>1 DEF Fork
  <2>4. input'[i] = read_fd /\ \A k \in Stage : k # i => input'[k] = input[k]
    BY <1>1, <2>3 DEF TypeOK
  <2>5. /\ read_fd < i /\ read_fd # i /\ Ran(read_fd)'
        /\ \A m \in Stage : read_fd < m /\ m < i => ~Ran(m)'
    BY <1>1, <1>3, <2>2, Ranges DEF Predecessor
  <2>6. KeepsReadEnd'
    <3> SUFFICES ASSUME NEW k \in Stage, k > 0, Ran(k)'
                 PROVE  Predecessor(input[k], k)'
      BY DEF KeepsReadEnd
    <3>1. CASE k = i
      <4>1. input'[k] = read_fd
        BY <2>4, <3>1
      <4>2. stage'[read_fd] \notin {"none"} \cup Failed
        BY <1>1, <2>5 DEF Ran
      <4>3. QED
        BY <2>2, <2>5, <3>1, <4>1, <4>2 DEF Predecessor, Ran
    <3>2. CASE k # i
      <4>1. Ran(k) /\ Predecessor(input[k], k)
        BY <1>3, <2>2, <3>2 DEF KeepsReadEnd
      <4>2. ~(k > i)
        BY <4>1 DEF Quiet, RoundInv, Ran
      <4>3. k \in Nat /\ k < i
        BY <1>1, <3>2, <4>2, Ranges
      <4>4. \A m \in Stage : m < k => m # i
        BY <1>1, <4>3, Ranges
      <4>5. QED
        BY <1>3, <2>4, <3>2, <4>1, <4>4, Ranges DEF Predecessor
    <3>3. QED
      BY <3>1, <3>2
  <2>7. ReadFdInv'
    <3>1. i < Last => i \in Pipe /\ Shell \in readers[i]
      BY <1>1, <2>1, Ranges DEF ReadFdInv
    <3>2. QED
      BY <1>1, <1>5, <2>2, <2>5, <2>6, <3>1 DEF ReadFdInv, Predecessor
  <2>8. Source' = read_fd /\ Source = read_fd
    BY <1>1, <1>3, <2>4 DEF Source
  <2>9. DataInv'
    BY <1>1, <1>2, <1>8, <2>1, <2>8 DEF DataInv
  <2>10. QED
    BY <2>7, <2>9
<1>11. QED
  BY <1>9, <1>10

LEMMA WaitReturnsStep ==
  ASSUME TypeOK, Quiet, WaitReturns
  PROVE  Quiet'
<1>1. PICK k \in Stage : stage[k] = "zombie" /\ stage' = [stage EXCEPT ![k] = "gone"]
  BY DEF WaitReturns
<1>2. /\ k = i /\ pc = "wait" /\ ~Waited /\ i \in Stage /\ i \in Nat /\ Ran(i)
      /\ UNCHANGED <<i, pc, pipefd, input, data, wrote, shown, held, sigint>>
  BY <1>1, AtWork, Ranges DEF Quiet, WaitReturns, TypeOK
<1>3. /\ stage'[i] = "gone" /\ \A j \in Stage : j # i => stage'[j] = stage[j]
  BY <1>1, <1>2 DEF TypeOK
<1>4. Waited' /\ \A j \in Stage : Ran(j)' <=> Ran(j)
  BY <1>1, <1>2, <1>3 DEF Waited, Ran, Failed
<1>5. RoundInv'
  BY <1>1, <1>2, <1>3, Ranges DEF Quiet, RoundInv, Failed
<1>6. NothingOut'
  BY <1>2, <1>4, Ranges DEF Quiet, NothingOut, Out
<1>7. Ran(0)' => DataInv /\ ReadFdInv /\ Ran(0) /\ KeepsReadEnd
  BY <1>4, Ranges DEF Quiet, ReadFdInv
<1>8. Ran(0)' => DataInv'
  <2>1. Source' = Source /\ Out(i)' = Out(i) /\ Taken' = Taken /\ Out(0)' = Out(0)
    BY <1>2, <1>4 DEF Source, Out, Taken
  <2>2. QED
    BY <1>1, <1>2, <1>7, <2>1 DEF DataInv
<1>9. PICK r \in CloseReadEnd, w \in CloseWriteEnd :
        /\ readers' = [p \in Pipe |-> IF <<p, "R">> \in {r, w}
                                        THEN readers[p] \ {Shell} ELSE readers[p]]
        /\ writers' = [p \in Pipe |-> IF <<p, "W">> \in {r, w}
                                        THEN writers[p] \ {Shell} ELSE writers[p]]
  BY DEF WaitReturns
<1>10. /\ \A p \in Pipe : /\ Shell \in readers'[p] => Shell \in readers[p]
                          /\ Shell \in writers'[p] => Shell \in writers[p]
       /\ i > 0 /\ read_fd \in Pipe => Shell \notin readers'[read_fd]
       /\ pipefd \in Pipe => Shell \notin writers'[pipefd]
  <2>1. \A p \in Pipe : /\ Shell \in readers'[p] => Shell \in readers[p]
                        /\ Shell \in writers'[p] => Shell \in writers[p]
    BY <1>9
  <2>2. ASSUME i > 0, read_fd \in Pipe
        PROVE  Shell \notin readers'[read_fd]
    <3>1. r = <<read_fd, "R">>
      BY <1>9, <2>2, Ranges DEF CloseReadEnd, Closes
    <3>2. QED
      BY <1>9, <2>2, <3>1
  <2>3. ASSUME pipefd \in Pipe
        PROVE  Shell \notin writers'[pipefd]
    <3>1. w = <<pipefd, "W">>
      BY <1>9, <2>3, Ranges DEF CloseWriteEnd, Closes
    <3>2. QED
      BY <1>9, <2>3, <3>1
  <2>4. QED
    BY <2>1, <2>2, <2>3
<1>11. i < Last => i \in Pipe /\ pipefd = i
  BY <1>2, Ranges DEF Quiet, FdInv
<1>12. \A p \in Pipe : p \in Stage /\ p \in Nat /\ p < Last
  BY Ranges DEF Stage
<1>13. read_fd' = IF pipefd \in Pipe /\ Shell \in readers'[pipefd] THEN pipefd ELSE None
  BY <1>2 DEF WaitReturns, OpenPipes
<1>14. FdInv'
  <2>1. \A p \in Pipe : stage[p] = "unforked" => stage'[p] = "unforked"
    BY <1>1, <1>2, <1>3, <1>12
  <2>2. i = 0 => read_fd = None
    BY <1>2 DEF Quiet, FdInv
  <2>3. ASSUME NEW p \in Pipe
        PROVE  /\ Shell \in writers'[p] => stage'[p] = "unforked"
               /\ Shell \in readers'[p] => stage'[p] = "unforked" \/ p = i
    <3>1. Shell \in writers'[p] => stage'[p] = "unforked"
      BY <1>10, <1>11, <1>12, <2>1 DEF Quiet, FdInv
    <3>2. Shell \in readers'[p] => p # read_fd
      BY <1>2, <1>10, <2>2, Ranges
    <3>3. QED
      BY <1>10, <2>1, <3>1, <3>2 DEF Quiet, FdInv
  <2>4. QED
    BY <1>2, <1>4, <1>11, <1>13, <2>3 DEF FdInv
<1>15. ASSUME Ran(0)'
       PROVE  ReadFdInv'
  <2>1. ReadFdInv /\ KeepsReadEnd
    BY <1>7, <1>15
  <2>2. KeepsReadEnd'
    BY <1>2, <1>4, <2>1, SameRan
  <2>3. ASSUME i < Last
        PROVE  Shell \in readers'[i]
    <3>1. Shell \in readers[i] /\ i \in Pipe /\ pipefd = i
      BY <1>2, <1>11, <2>1, <2>3 DEF ReadFdInv
    <3>2. w = <<i, "W">>
      BY <1>9, <3>1, Ranges DEF CloseWriteEnd, Closes
    <3>3. r # <<i, "R">>
      <4>1. CASE i > 0
        <5>1. read_fd \in Pipe /\ read_fd # i
          BY <1>2, <2>1, <4>1, Ranges DEF ReadFdInv, Predecessor
        <5>2. QED
          BY <1>9, <4>1, <5>1, Ranges DEF CloseReadEnd, Closes
      <4>2. CASE ~(i > 0)
        BY <1>9, <3>1, <4>2, Ranges DEF CloseReadEnd, Nothing
      <4>3. QED
        BY <4>1, <4>2
    <3>4. QED
      BY <1>9, <3>1, <3>2, <3>3
  <2>4. QED
    BY <1>2, <1>4, <2>2, <2>3 DEF ReadFdInv
<1>16. QED
  BY <1>5, <1>6, <1>8, <1>14, <1>15 DEF Quiet

LEMMA NoChildrenStep ==
  ASSUME TypeOK, Quiet, NoChildren
  PROVE  Quiet'
<1>1. /\ pc = "wait" /\ stage[i] = "gone" /\ Waited /\ i \in Stage /\ i \in Nat /\ Ran(i)
      /\ UNCHANGED <<pipefd, read_fd, readers, writers, stage, input, data, wrote, shown,
                     held, sigint>>
  BY Ranges DEF TypeOK, Quiet, RoundInv, NoChildren, fdVars, stageVars, Waited, Ran, Failed
<1>2. NothingOut' /\ (KeepsReadEnd => KeepsReadEnd') /\ \A k \in Stage : Ran(k)' <=> Ran(k)
  BY <1>1 DEF Quiet, NothingOut, Out, Ran, KeepsReadEnd, Predecessor
<1>3. CASE i < Last
  <2>1. i' = i + 1 /\ pc' = "pipe" /\ i + 1 \in Stage /\ i # Last /\ i \in Pipe /\ i + 1 > 0
    BY <1>1, <1>3, Ranges DEF NoChildren, NextRound, MoreCommands, Stage, Last
  <2>2. stage[i + 1] = "none" /\ ~Waited'
    BY <1>1, <2>1 DEF Quiet, RoundInv, Waited
  <2>3. RoundInv'
    <3>1. \A k \in Stage : k < i + 1 => k < i \/ k = i
      BY <1>1, Ranges
    <3>2. \A k \in Stage : k > i + 1 => k > i
      BY <1>1, Ranges
    <3>3. QED
      BY <1>1, <2>1, <2>2, <3>1, <3>2 DEF Quiet, RoundInv, Failed
  <2>4. FdInv'
    <3>1. Shell \in readers[i] => read_fd = i
      BY <1>1, <1>3 DEF Quiet, FdInv
    <3>2. \A k \in Stage : k > i => stage[k] # "gone"
      BY DEF Quiet, RoundInv
    <3>3. QED
      BY <1>1, <2>1, <2>2, <3>1, <3>2 DEF Quiet, FdInv
  <2>5. ASSUME Ran(0)'
        PROVE  ReadFdInv' /\ DataInv'
    <3>1. ReadFdInv /\ DataInv /\ KeepsReadEnd
      BY <1>2, <2>5, Ranges DEF Quiet, ReadFdInv
    <3>2. Shell \in readers[i] /\ read_fd = i
      BY <1>1, <1>3, <3>1 DEF Quiet, FdInv, ReadFdInv
    <3>3. Shell \notin writers[i]
      BY <1>1, <2>1 DEF Quiet, FdInv
    <3>4. i < i + 1 /\ \A m \in Stage : ~(i < m /\ m < i + 1)
      BY <1>1, Ranges
    <3>5. ReadFdInv'
      BY <1>1, <1>2, <2>1, <3>1, <3>2, <3>3, <3>4 DEF ReadFdInv, Predecessor
    <3>6. Out(i)' = <<>> /\ held'[i'] = 0 /\ ~Ran(i)'
      <4>1. i' \in Stage /\ stage'[i'] = "none"
        BY <1>1, <2>1, <2>2
      <4>2. QED
        BY <1>2, <4>1 DEF NothingOut, Ran
    <3>7. Taken' = 0 /\ Source' = i
      BY <1>1, <3>2, <3>6 DEF Taken, Source
    <3>8. /\ \A j \in DOMAIN data[i] : data[i][j] = j
          /\ Len(data[i]) = Amount /\ data[i] \in Seq(1..Amount)
      BY <1>1, <2>1, <3>1 DEF DataInv, Out, TypeOK
    <3>9. /\ \A j \in DOMAIN data[i] : data[i][j] = 0 + j
          /\ 0 + Len(data[i]) = Amount
      BY <3>8
    <3>10. DataInv'
      BY <1>1, <2>1, <2>2, <3>6, <3>7, <3>9 DEF DataInv
    <3>11. QED
      BY <3>5, <3>10
  <2>6. QED
    BY <1>2, <2>3, <2>4, <2>5 DEF Quiet
<1>4. CASE ~(i < Last)
  <2>1. i' = i /\ pc' = "done" /\ i = Last
    BY <1>1, <1>4, Ranges DEF NoChildren, NextRound, MoreCommands
  <2>2. RoundInv'
    BY <1>1, <2>1 DEF Quiet, RoundInv
  <2>3. FdInv'
    BY <1>1, <1>4, <2>1 DEF Quiet, FdInv, Waited
  <2>4. ReadFdInv => ReadFdInv'
    BY <1>1, <1>2, <1>4, <2>1 DEF ReadFdInv, Waited
  <2>5. DataInv => DataInv'
    BY <1>1, <2>1 DEF DataInv, Out, Taken, Source, Ran
  <2>6. QED
    BY <1>2, <2>2, <2>3, <2>4, <2>5, Ranges DEF Quiet
<1>5. QED
  BY <1>3, <1>4

LEMMA ReadUnitStep ==
  ASSUME TypeOK, Quiet, NEW k \in Stage, ReadUnit(k)
  PROVE  Quiet'
<1>1. /\ k = i /\ stage[i] = "running" /\ pc = "wait" /\ i \in Nat /\ i \in Stage /\ i > 0
      /\ held[i] = 0 /\ Ran(i) /\ ~Waited
      /\ UNCHANGED <<i, pc, pipefd, read_fd, readers, writers, stage, input, wrote, shown,
                     sigint>>
  BY AtWork, Ranges DEF ReadUnit, Running, Quiet, fdVars, TypeOK
<1> DEFINE q == input[i]
           s == data[q]
<1>2. /\ q \in Pipe /\ s \in Seq(1..Amount) /\ s # <<>>
      /\ held' = [held EXCEPT ![i] = Head(s)] /\ data' = [data EXCEPT ![q] = Tail(s)]
  BY <1>1 DEF ReadUnit, TypeOK
<1>3. /\ RoundInv' /\ FdInv' /\ (ReadFdInv => ReadFdInv')
      /\ \A m \in Stage : Ran(m)' <=> Ran(m)
  BY <1>1
  DEF Quiet, RoundInv, FdInv, ReadFdInv, KeepsReadEnd, Predecessor, Ran, Waited
<1>4. /\ held'[i] = Head(s) /\ \A m \in Stage : m # i => held'[m] = held[m]
      /\ data'[q] = Tail(s) /\ \A p \in Pipe : p # q => data'[p] = data[p]
  BY <1>1, <1>2 DEF TypeOK
<1>5. \A m \in Stage : m # q => Out(m)' = Out(m)
  <2>1. \A m \in Stage : m # Last => m \in Pipe
    BY Ranges
  <2>2. QED
    BY <1>1, <1>4, <2>1 DEF Out
<1>6. NothingOut'
  <2>1. \A m \in Stage : ~Ran(m) => m # q /\ m # i
    <3>1. q \in Stage /\ q # Last /\ s # <<>>
      BY <1>2, Ranges DEF Pipe
    <3>2. Out(q) = s
      BY <3>1 DEF Out
    <3>3. QED
      BY <1>1, <3>1, <3>2 DEF Quiet, NothingOut
  <2>2. QED
    BY <1>1, <1>3, <1>4, <1>5, <2>1, Ranges DEF Quiet, NothingOut
<1>7. ASSUME Ran(0)'
      PROVE  DataInv'
  <2>1. Ran(0) /\ DataInv
    BY <1>3, <1>7, Ranges DEF Quiet
  <2>2. Source = q /\ Source' = q /\ q \in Nat /\ q < i
    BY <1>1, <1>3, <2>1, SourceFacts DEF Source
  <2>3. Out(i)' = Out(i) /\ Len(Out(i)) \in Nat
    BY <1>1, <1>5, <2>2, OutType
  <2> HIDE DEF q, s
  <2>4. /\ Head(s) \in 1..Amount /\ Head(s) = s[1] /\ 1 \in DOMAIN s
        /\ Tail(s) \in Seq(1..Amount) /\ Len(Tail(s)) = Len(s) - 1 /\ Len(s) \in Nat
        /\ \A j \in DOMAIN Tail(s) : /\ Tail(s)[j] = s[j + 1] /\ j + 1 \in DOMAIN s
                                     /\ j \in Nat
    BY <1>2, TailFacts
  <2>5. Taken = Len(Out(i)) /\ Taken' = Len(Out(i)) + 1
    BY <1>1, <1>4, <2>3, <2>4 DEF Taken
  <2>6. s[1] = Taken + 1 /\ Taken + Len(s) = Amount /\ \A j \in DOMAIN s : s[j] = Taken + j
    BY <1>1, <2>1, <2>2, <2>4 DEF DataInv, s
  <2>7. \A j \in DOMAIN Tail(s) : Tail(s)[j] = Taken + (j + 1)
    BY <2>4, <2>6
  <2>8. /\ held'[i] = Taken'
        /\ \A j \in DOMAIN data'[q] : data'[q][j] = Taken' + j
        /\ Taken' + Len(data'[q]) = Amount
    BY <1>4, <2>3, <2>4, <2>5, <2>6, <2>7
  <2>9. \A j \in DOMAIN Out(i)' : Out(i)'[j] = j
    BY <2>1, <2>3 DEF DataInv
  <2>10. QED
    BY <1>1, <2>2, <2>8, <2>9 DEF DataInv
<1>8. QED
  BY <1>3, <1>6, <1>7, Ranges DEF Quiet

\* Command i writes one more unit of what it is to write.
LEMMA Written ==
  ASSUME TypeOK, Quiet, Ran(0), Ran(i), NEW unit \in 1..Amount,
         unit = Len(Out(i)) + 1, Output(i, unit), UNCHANGED <<i, stage, input>>
  PROVE  /\ Len(Out(i))' = Len(Out(i)) + 1
         /\ \A j \in DOMAIN Out(i)' : Out(i)'[j] = j
         /\ i > 0 => Source' = Source /\ data'[Source] = data[Source]
<1> DEFINE o == Out(i)
<1>1. o \in Seq(1..Amount) /\ i \in Stage /\ i \in Nat /\ i' = i
  BY OutType DEF TypeOK
<1>2. Out(i)' = Append(o, unit)
  <2>1. CASE i = Last
    BY <2>1, <1>1 DEF Output, Out
  <2>2. CASE i # Last
    <3>1. i \in Pipe
      BY <1>1, <2>2, Ranges
    <3>2. QED
      BY <2>2, <3>1, <1>1 DEF Output, Out, TypeOK
  <2>3. QED
    BY <2>1, <2>2
<1>3. \A j \in DOMAIN o : o[j] = j
  BY DEF Quiet, DataInv
<1>4. unit = Len(o) + 1
  OBVIOUS
<1>5. i > 0 => Source' = Source /\ data'[Source] = data[Source]
  <2>1. i > 0 => Source \in Pipe /\ Source # i
    BY <1>1, SourceFacts
  <2>2. Source' = Source
    BY DEF Source, Ran
  <2>3. QED
    BY <1>1, <2>1, <2>2 DEF Output, TypeOK
<1> HIDE DEF o
<1>6. /\ Len(Append(o, unit)) = Len(o) + 1 /\ Len(o) \in Nat
      /\ DOMAIN o = 1..Len(o) /\ DOMAIN Append(o, unit) = 1..Len(o) + 1
      /\ \A j \in DOMAIN o : Append(o, unit)[j] = o[j]
      /\ Append(o, unit)[Len(o) + 1] = unit
  BY <1>1, AppendFacts
<1>7. \A j \in 1..Len(o) + 1 : j \in DOMAIN o \/ j = Len(o) + 1
  BY <1>6
<1>8. \A j \in DOMAIN Append(o, unit) : Append(o, unit)[j] = j
  BY <1>3, <1>4, <1>6, <1>7
<1>9. QED
  BY <1>2, <1>5, <1>6, <1>8 DEF o

LEMMA WriteUnitStep ==
  ASSUME TypeOK, Quiet, NEW k \in Stage, WriteUnit(k)
  PROVE  Quiet'
<1>1. /\ k = i /\ stage[i] = "running" /\ pc = "wait" /\ i \in Nat /\ i \in Stage /\ Ran(i)
      /\ ~Waited
      /\ UNCHANGED <<i, pc, pipefd, read_fd, readers, writers, stage, input, sigint>>
  BY AtWork, Ranges DEF WriteUnit, Running, Quiet, fdVars, TypeOK
<1>2. /\ RoundInv' /\ FdInv' /\ (ReadFdInv => ReadFdInv')
      /\ \A m \in Stage : Ran(m)' <=> Ran(m)
  BY <1>1
  DEF Quiet, RoundInv, FdInv, ReadFdInv, KeepsReadEnd, Predecessor, Ran, Waited
<1>3. Len(Out(i)) \in Nat /\ held[i] \in 0..Amount /\ Amount \in Nat
  BY <1>1, OutType, Ranges
<1>4. NothingOut'
  <2>1. \A m \in Stage : m # i => Out(m)' = Out(m) /\ held'[m] = held[m]
    <3>1. \A m \in Stage : m # Last => m \in Pipe
      BY Ranges
    <3>2. QED
      BY <1>1, <3>1 DEF WriteUnit, Output, Out, TypeOK
  <2>2. ~Ran(0) => wrote' = wrote
    BY <1>1 DEF WriteUnit
  <2>3. QED
    BY <1>1, <1>2, <2>1, <2>2, Ranges DEF Quiet, NothingOut
<1> SUFFICES ASSUME Ran(0)
             PROVE  DataInv'
  BY <1>2, <1>4, Ranges DEF Quiet
<1>5. DataInv
  BY DEF Quiet
<1>6. CASE i = 0
  <2>1. /\ wrote < Amount /\ wrote' = wrote + 1 /\ Output(i, wrote + 1) /\ UNCHANGED held
        /\ wrote = Len(Out(i)) /\ wrote + 1 \in 1..Amount
    BY <1>1, <1>3, <1>5, <1>6 DEF WriteUnit, DataInv
  <2>2. /\ Len(Out(i))' = Len(Out(i)) + 1
        /\ \A j \in DOMAIN Out(i)' : Out(i)'[j] = j
    BY <1>1, <2>1, Written
  <2>3. Len(Out(0))' = wrote'
    BY <1>1, <1>6, <2>1, <2>2
  <2>4. QED
    BY <1>1, <1>6, <2>2, <2>3 DEF DataInv
<1>7. CASE i # 0
  <2>1. /\ i > 0 /\ held[i] # 0 /\ Output(i, held[i]) /\ held' = [held EXCEPT ![i] = 0]
        /\ held[i] = Taken /\ Taken = Len(Out(i)) + 1 /\ held[i] \in 1..Amount
    <3>1. i > 0 /\ held[i] # 0 /\ Output(i, held[i]) /\ held' = [held EXCEPT ![i] = 0]
      BY <1>1, <1>7 DEF WriteUnit
    <3>2. held[i] = Taken /\ Taken = Len(Out(i)) + 1
      BY <1>5, <3>1 DEF DataInv, Taken
    <3>3. QED
      BY <1>3, <3>1, <3>2
  <2>2. /\ Len(Out(i))' = Len(Out(i)) + 1
        /\ \A j \in DOMAIN Out(i)' : Out(i)'[j] = j
        /\ Source' = Source /\ data'[Source] = data[Source]
    BY <1>1, <2>1, Written
  <2>3. held'[i] = 0
    BY <1>1, <2>1 DEF TypeOK
  <2>4. Taken' = Taken
    BY <1>1, <2>1, <2>2, <2>3 DEF Taken
  <2>5. /\ held'[i] = 0 /\ Taken' = Taken
        /\ \A j \in DOMAIN data[Source] : data[Source][j] = Taken + j
        /\ Taken + Len(data[Source]) = Amount
    BY <1>5, <2>1, <2>3, <2>4 DEF DataInv
  <2>6. QED
    BY <1>1, <1>7, <2>2, <2>5 DEF DataInv
<1>8. QED
  BY <1>6, <1>7

\* A command ends, at the end of what it reads.
LEMMA FinishStep ==
  ASSUME TypeOK, Quiet, NEW k \in Stage, Finish(k) \/ CtrlD(k)
  PROVE  Quiet'
<1>1. /\ k = i /\ stage[i] = "running" /\ pc = "wait" /\ i \in Nat /\ i \in Stage /\ ~Waited
      /\ Ran(i)
      /\ UNCHANGED <<i, pc, pipefd, read_fd, input, data, wrote, shown, held, sigint>>
      /\ stage' = [stage EXCEPT ![i] = "zombie"]
  BY AtWork, Ranges DEF Finish, CtrlD, Ends, Running, Quiet, TypeOK
<1>2. stage'[i] = "zombie" /\ \A m \in Stage : m # i => stage'[m] = stage[m]
  BY <1>1 DEF TypeOK
<1>3. ~Waited' /\ \A m \in Stage : Ran(m)' <=> Ran(m)
  BY <1>1, <1>2 DEF Waited, Ran, Failed
<1>4. RoundInv' /\ NothingOut'
  BY <1>1, <1>2, <1>3, Ranges DEF Quiet, RoundInv, NothingOut, Out, Failed
<1>5. \A p \in Pipe : /\ Shell \in readers'[p] <=> Shell \in readers[p]
                      /\ Shell \in writers'[p] <=> Shell \in writers[p]
  BY Ranges DEF Finish, CtrlD, Ends
<1>6. FdInv'
  <2>1. \A p \in Pipe : stage[p] = "unforked" => stage'[p] = "unforked"
    BY <1>1, <1>2, Ranges
  <2>2. \A m \in Stage : stage[m] # "gone" => stage'[m] # "gone"
    BY <1>2
  <2>3. i < Last => i \in Pipe
    BY <1>1, Ranges
  <2>4. QED
    BY <1>1, <1>3, <1>5, <2>1, <2>2, <2>3 DEF Quiet, FdInv
<1>7. ASSUME Ran(0)'
      PROVE  ReadFdInv' /\ DataInv'
  <2>1. Ran(0) /\ ReadFdInv /\ DataInv /\ KeepsReadEnd
    BY <1>3, <1>7, Ranges DEF Quiet, ReadFdInv
  <2>2. KeepsReadEnd'
    BY <1>1, <1>3, <2>1, SameRan
  <2>3. ReadFdInv'
    <3>1. i < Last => i \in Pipe /\ Shell \in readers[i]
      BY <1>1, <2>1, Ranges DEF ReadFdInv
    <3>2. i > 0 => /\ Predecessor(read_fd, i) /\ read_fd \in Pipe
                   /\ Shell \in readers[read_fd] /\ Shell \notin writers[read_fd]
      BY <1>1, <2>1 DEF ReadFdInv, Predecessor
    <3>3. i > 0 => Predecessor(read_fd, i)'
      BY <1>1, <1>3, <3>2, Ranges DEF Predecessor
    <3>4. QED
      BY <1>1, <1>5, <2>2, <3>1, <3>2, <3>3 DEF ReadFdInv
  <2>4. Len(Out(i)) = Amount
    <3>1. CASE i = 0
      BY <1>1, <2>1, <3>1 DEF Finish, CtrlD, AtEnd, DataInv
    <3>2. CASE i # 0
      <4>1. Source = input[i] /\ input[i] \in Pipe /\ i > 0
        BY <1>1, <2>1, <3>2, SourceFacts
      <4>2. held[i] = 0 /\ data[Source] = <<>>
        BY <1>1, <3>2, <4>1, Ranges DEF Finish, CtrlD, AtEnd
      <4>3. Taken + Len(data[Source]) = Amount /\ Taken = Len(Out(i)) /\ Len(Out(i)) \in Nat
        BY <1>1, <2>1, <4>1, <4>2, OutType DEF DataInv, Taken
      <4>4. QED
        BY <4>2, <4>3
    <3>3. QED
      BY <3>1, <3>2
  <2>5. Source' = Source /\ Out(i)' = Out(i) /\ Taken' = Taken /\ Out(0)' = Out(0)
    BY <1>1, <1>3 DEF Source, Out, Taken
  <2>6. DataInv'
    BY <1>1, <2>1, <2>4, <2>5 DEF DataInv
  <2>7. QED
    BY <2>3, <2>6
<1>8. QED
  BY <1>4, <1>6, <1>7 DEF Quiet

LEMMA ExecStep ==
  ASSUME TypeOK, Quiet, NEW k \in Stage, Exec(k)
  PROVE  Quiet'
<1>1. /\ k = i /\ stage[i] = "forked" /\ pc = "wait" /\ i \in Nat /\ i \in Stage /\ ~Waited
      /\ UNCHANGED <<i, pc, pipefd, read_fd, readers, writers, input, data, wrote, shown,
                     held, sigint>>
      /\ stage' = [stage EXCEPT ![i] = "running"]
  BY AtWork, Ranges DEF Exec, Quiet, fdVars, TypeOK
<1>2. stage'[i] = "running" /\ \A m \in Stage : m # i => stage'[m] = stage[m]
  BY <1>1 DEF TypeOK
<1>3. ~Waited' /\ \A m \in Stage : Ran(m)' <=> Ran(m)
  BY <1>1, <1>2 DEF Waited, Ran, Failed
<1>4. RoundInv' /\ NothingOut'
  BY <1>1, <1>2, <1>3, Ranges DEF Quiet, RoundInv, NothingOut, Out, Failed
<1>5. FdInv'
  <2>1. \A p \in Pipe : stage[p] = "unforked" => stage'[p] = "unforked"
    BY <1>1, <1>2, Ranges
  <2>2. \A m \in Stage : stage[m] # "gone" => stage'[m] # "gone"
    BY <1>2
  <2>3. QED
    BY <1>1, <1>3, <2>1, <2>2 DEF Quiet, FdInv
<1>6. ReadFdInv => ReadFdInv'
  <2> SUFFICES ASSUME ReadFdInv
               PROVE  ReadFdInv'
    OBVIOUS
  <2>1. KeepsReadEnd'
    BY <1>1, <1>3, SameRan DEF ReadFdInv
  <2>2. i > 0 => Predecessor(read_fd, i)'
    BY <1>1, <1>3, Ranges DEF ReadFdInv, Predecessor
  <2>3. QED
    BY <1>1, <2>1, <2>2 DEF ReadFdInv
<1>7. DataInv => DataInv'
  <2>1. Source' = Source /\ Out(i)' = Out(i) /\ Taken' = Taken /\ Out(0)' = Out(0)
    BY <1>1, <1>3 DEF Source, Out, Taken
  <2>2. QED
    BY <1>1, <1>2, <2>1 DEF DataInv
<1>8. QED
  BY <1>3, <1>4, <1>5, <1>6, <1>7, Ranges DEF Quiet

\* Nobody presses Ctrl-C in the step either.
LEMMA QuietStep ==
  ASSUME PipelineInv, [Next]_vars, sigints' = 0
  PROVE  Quiet'
<1>1. TypeOK /\ sigints \in Nat
  <2>1. TypeOK
    BY DEF PipelineInv
  <2>2. QED
    BY <2>1, Ranges DEF TypeOK
<1>2. ~Sigint
  BY <1>1 DEF Sigint
<1>3. sigints = 0
  BY <1>2
  DEF Next, vars, Parent, MakePipe, PipeFails, Fork, ForkFails, Fails, WaitReturns,
      NoChildren, SigintExit, Child, Exec, ReadUnit, WriteUnit, Finish, Die, CtrlD, Ends
<1>4. Quiet
  BY <1>3 DEF PipelineInv, Quiet
<1>5. CASE Parent
  BY <1>1, <1>4, <1>5, MakePipeStep, FailsStep, ForkStep, WaitReturnsStep, NoChildrenStep
  DEF Parent, SigintExit, Quiet, RoundInv
<1>6. ASSUME NEW k \in Stage, Child(k) \/ CtrlD(k)
      PROVE  Quiet'
  <2>1. ~Die(k)
    BY <1>4 DEF Die, Quiet, RoundInv
  <2>2. QED
    BY <1>1, <1>4, <1>6, <2>1, ExecStep, ReadUnitStep, WriteUnitStep, FinishStep DEF Child
<1>7. CASE UNCHANGED vars
  <2>1. UNCHANGED <<i, pc, pipefd, read_fd, readers, writers, stage, input, data, wrote, shown,
                    held, sigint>>
    BY <1>7 DEF vars, fdVars, stageVars
  <2>2. RoundInv' /\ FdInv' /\ NothingOut' /\ (Ran(0)' <=> Ran(0))
    BY <1>4, <2>1 DEF Quiet, RoundInv, FdInv, NothingOut, Out, Ran, Waited
  <2>3. ReadFdInv => ReadFdInv'
    BY <2>1 DEF ReadFdInv, KeepsReadEnd, Predecessor, Ran, Waited
  <2>4. DataInv => DataInv'
    BY <2>1 DEF DataInv, Out, Taken, Source, Ran
  <2>5. QED
    BY <1>4, <2>2, <2>3, <2>4 DEF Quiet
<1>8. QED
  BY <1>2, <1>5, <1>6, <1>7 DEF Next

-----------------------------------------------------------------------------
(* The theorems.                                                            *)

LEMMA PipelineInit ==
  ASSUME Init
  PROVE  PipelineInv
<1>1. /\ i = 0 /\ pc = "pipe" /\ pipefd = None /\ read_fd = None /\ ~sigint /\ sigints = 0
      /\ stage = [k \in Stage |-> "none"] /\ held = [k \in Stage |-> 0]
      /\ data = [p \in Pipe |-> <<>>] /\ shown = <<>> /\ wrote = 0 /\ 0 \in Stage
      /\ readers = [p \in Pipe |-> {}] /\ writers = [p \in Pipe |-> {}]
      /\ input = [k \in Stage |-> Terminal] /\ sigint = FALSE
  BY Ranges DEF Init, Stage
<1>2. TypeOK
  <2>1. <<>> \in Seq(1..Amount) /\ Len(<<>>) = 0
    OBVIOUS
  <2>2. data \in [Pipe -> Seq(1..Amount)] /\ \A p \in Pipe : Len(data[p]) <= Capacity
    BY <1>1, <2>1, Ranges
  <2>3. stage \in [Stage -> StageState]
    BY <1>1 DEF StageState, Failed
  <2>4. QED
    <3>1. /\ readers \in [Pipe -> SUBSET (Stage \cup {Shell})]
          /\ writers \in [Pipe -> SUBSET (Stage \cup {Shell})]
      BY <1>1
    <3>2. input \in [Stage -> Pipe \cup {Terminal}] /\ held \in [Stage -> 0..Amount]
      BY <1>1, Ranges
    <3>3. /\ i \in Stage /\ pc \in {"pipe", "fork", "wait", "done"}
          /\ pipefd \in Pipe \cup {None} /\ read_fd \in Pipe \cup {None}
          /\ wrote \in 0..Amount /\ sigint \in BOOLEAN /\ sigints \in 0..MaxSigints
      <4>1. 0 \in 0..Amount /\ 0 \in 0..MaxSigints
        BY Ranges
      <4>2. QED
        BY <1>1, <4>1
    <3>4. shown \in Seq(1..Amount)
      BY <1>1, <2>1
    <3>5. QED
      BY <2>2, <2>3, <3>1, <3>2, <3>3, <3>4 DEF TypeOK
<1>3. \A k \in Stage : Out(k) = <<>> /\ held[k] = 0 /\ stage[k] = "none" /\ ~Ran(k)
  BY <1>1, Ranges DEF Out, Ran
<1>4. RoundInv /\ FdInv /\ NothingOut
  <2>1. \A k \in Stage : ~(k < 0)
    BY Ranges
  <2>2. ~Waited /\ stage[0] = "none"
    BY <1>1, <1>3 DEF Waited
  <2>3. QED
    BY <1>1, <1>3, <2>1, <2>2 DEF RoundInv, FdInv, NothingOut, Failed
<1>5. QED
  BY <1>1, <1>2, <1>3, <1>4 DEF PipelineInv

\* The invariant of the pipeline: which ends the shell has open in which round,
\* and where the data is, as long as nobody presses Ctrl-C, whichever calls of
\* pipe and fork fail; the data only if the first command runs.
THEOREM PipelineInvCorrect == Spec => []PipelineInv
<1>1. Init => PipelineInv
  BY PipelineInit
<1>2. PipelineInv /\ [Next]_vars => PipelineInv'
  BY TypeStep, QuietStep DEF PipelineInv, Quiet
<1>3. QED
  BY <1>1, <1>2, PTL DEF Spec

\* What the parent, the pipes and the commands keep has its type, whenever
\* Ctrl-C is pressed: no pipe is made beyond the last but one command, and no
\* pipe ever holds more than its capacity.
THEOREM TypeCorrect == Spec => []TypeOK
<1>1. PipelineInv => TypeOK
  BY DEF PipelineInv
<1>2. QED
  BY <1>1, PipelineInvCorrect, PTL

\* However long a pipeline that nobody interrupts, and whichever calls of pipe
\* and fork fail, the only ends of pipes it leaves the shell with are those
\* that a failed fork leaves: every other one is closed, in the right round.
THEOREM NoFdLeakCorrect == Spec => []NoFdLeak
<1>1. PipelineInv => NoFdLeak
  <2> SUFFICES ASSUME PipelineInv, pc = "done", sigints = 0, NEW p \in Pipe
               PROVE  /\ Shell \in writers[p] => stage[p] = "unforked"
                      /\ Shell \in readers[p] =>
                           \/ stage[p] = "unforked"
                           \/ \A k \in Stage : k > p => stage[k] \in Failed
    BY DEF NoFdLeak
  <2>1. RoundInv /\ FdInv /\ TypeOK
    BY DEF PipelineInv
  <2>2. i = Last /\ p # Last
    BY <2>1, Ranges DEF RoundInv, Pipe
  <2>3. \A k \in Stage : stage[k] # "gone" => stage[k] \in Failed
    <3>1. \A k \in Stage : k < Last \/ k = Last
      BY Ranges
    <3>2. QED
      BY <2>1, <2>2, <3>1 DEF RoundInv
  <2>4. QED
    BY <2>1, <2>2, <2>3 DEF FdInv
<1>2. QED
  BY <1>1, PipelineInvCorrect, PTL

\* Whatever the number of commands, the amount of data and the size of a pipe,
\* a pipeline that nobody interrupts and whose first command runs brings what
\* that wrote to the terminal, in order, and all of it before the shell goes
\* on unless the last command cannot be forked; commands in between that pipe
\* or fork fails for are passed over.
THEOREM WholeOutputCorrect == Spec => []WholeOutput
<1>1. PipelineInv => WholeOutput
  <2> SUFFICES ASSUME PipelineInv, sigints = 0, Ran(0)
               PROVE  /\ KeepsReadEnd
                      /\ \A j \in DOMAIN shown : shown[j] = j
                      /\ pc = "done" /\ Ran(Last) => Len(shown) = Amount
    BY DEF WholeOutput
  <2>1. RoundInv /\ ReadFdInv /\ NothingOut /\ DataInv /\ TypeOK
    BY DEF PipelineInv
  <2>2. shown = Out(Last) /\ Last \in Stage
    BY Ranges DEF Out
  <2>3. CASE i = Last
    BY <2>1, <2>2, <2>3 DEF RoundInv, ReadFdInv, DataInv, Ran
  <2>4. CASE i # Last
    <3>1. Last > i
      BY <2>1, <2>4, Ranges DEF TypeOK
    <3>2. shown = <<>> /\ pc # "done"
      BY <2>1, <2>2, <2>4, <3>1 DEF RoundInv, NothingOut, Ran
    <3>3. QED
      BY <2>1, <3>2 DEF ReadFdInv
  <2>5. QED
    BY <2>3, <2>4
<1>2. QED
  BY <1>1, PipelineInvCorrect, PTL
=============================================================================
