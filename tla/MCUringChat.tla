---------------------------- MODULE MCUringChat ----------------------------
(* Instances of UringChat small enough for TLC. *)
EXTENDS UringChat

OneLine == {<<TRUE>>}                  \* every chunk is one line
Fds(n) == 5..(4 + n)                   \* 3 is the listener, 4 is the ring
OneFd == Fds(1)
TwoFds == Fds(2)
ThreeFds == Fds(3)

\* Connections differ in nothing but their name.
ConnSymmetry == Permutations(Conn)
=============================================================================
