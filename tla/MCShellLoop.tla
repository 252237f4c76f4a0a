---------------------------- MODULE MCShellLoop ----------------------------
(* Instances of ShellLoop small enough for TLC. *)
EXTENDS ShellLoop

Text(cmds) == [ask |-> "text", text |-> cmds, n |-> 0]
Last == [ask |-> "last", text |-> <<>>, n |-> 0]
Nth(n) == [ask |-> "nth", text |-> <<>>, n |-> n]

\* Programs, a missing one with commands after it, the builtins, a pipeline.
AllKinds == {Text(<<"ext", "ext">>), Text(<<"bad", "bad", "ext">>),
             Text(<<"builtin", "clear">>), Text(<<"exit">>),
             Text(<<"pipe">>), Last, Nth(2)}
=============================================================================
