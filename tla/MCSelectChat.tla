---------------------------- MODULE MCSelectChat ---------------------------
(* Instances of SelectChat small enough for TLC, and the chat room that it  *)
(* implements.                                                              *)
EXTENDS SelectChat, ServeRoom

OneLine == {<<TRUE>>}                  \* every chunk is one line
TwoLines == {<<TRUE, FALSE, TRUE>>}    \* two lines around an empty one
Fds(n) == 4..(3 + n)                   \* 0-2 are stdio, 3 is the listener
TwoFds == Fds(2)
ThreeFds == Fds(3)

\* Connections differ in nothing but their name.
ConnSymmetry == Permutations(Conn)
=============================================================================
