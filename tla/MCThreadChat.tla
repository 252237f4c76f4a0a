---------------------------- MODULE MCThreadChat ----------------------------
(* Instances of ThreadChat small enough for TLC. *)
EXTENDS ThreadChat, FiniteSetsExt, TLC

OneLine == {<<TRUE>>}                  \* every chunk is one line
TwoLines == {<<TRUE, FALSE, TRUE>>}    \* two lines around an empty one
Fds(n) == 4..(3 + n)                   \* 0-2 are stdio, 3 is the listener
ThreeFds == Fds(3)
TwoFds == Fds(2)

\* A state constraint: one chunk when all connections are made, and two as
\* long as only an author and a receiver are there.
AllWrites == MapThenSumSet(LAMBDA c : wrote[c], Conn)
Made == {c \in Conn : peer[c] # "new"}
FewWrites == AllWrites <= 1 \/ (AllWrites = 2 /\ Cardinality(Made) <= 2)

\* Connections differ in nothing but their name.
ConnSymmetry == Permutations(Conn)
=============================================================================
