---------------------------- MODULE MCEpollChat ----------------------------
(* Instances of EpollChat small enough for TLC, and the chat room that it   *)
(* implements.                                                              *)
EXTENDS EpollChat, ServeRoom

OneLine == {<<TRUE>>}                  \* every chunk is one line
TwoLines == {<<TRUE, FALSE, TRUE>>}    \* two lines around an empty one
Fds(n) == 5..(4 + n)                   \* 3 is the listener, 4 is epoll's
TwoFds == Fds(2)
ThreeFds == Fds(3)

\* Bound: the chunks that all clients write together.
FewWrites == Cardinality({w \in Conn \X (1..MaxWrites) : w[2] <= wrote[w[1]]}) <= 2

\* Connections differ in nothing but their name.
ConnSymmetry == Permutations(Conn)
=============================================================================
