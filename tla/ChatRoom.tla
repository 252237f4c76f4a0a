------------------------------ MODULE ChatRoom ------------------------------
(***************************************************************************)
(* What a chat room of lab3 promises its clients, whatever the server does *)
(* inside: members come and go; what a member wrote is, chunk after chunk  *)
(* in the order it was written and each chunk once, heard by every other   *)
(* member and by nobody else, a chunk's lines together and whole; and only *)
(* a member that has left loses its membership.                            *)
(***************************************************************************)
EXTENDS Integers, Sequences

CONSTANTS Conn,      \* the clients
          Chunk,     \* what a client may write at once
          Text(_)    \* the units in which the others hear a chunk

VARIABLES members,   \* the clients in the room
          gone,      \* the clients that left, by their own account
          said,      \* said[c]: how many of c's chunks the room has heard
          heard      \* heard[c]: the units c has heard, or is about to

vars == <<members, gone, said, heard>>

Init ==
  /\ members = {}
  /\ gone = {}
  /\ said = [c \in Conn |-> 0]
  /\ heard = [c \in Conn |-> <<>>]

Join(c) ==
  /\ c \notin members
  /\ members' = members \cup {c}
  /\ UNCHANGED <<gone, said, heard>>

Speak(c, chunk) ==
  /\ c \in members
  /\ chunk.from = c
  /\ chunk.num = said[c] + 1
  /\ said' = [said EXCEPT ![c] = @ + 1]
  /\ heard' = [d \in Conn |-> IF d \in members \ (gone \cup {c})
                                THEN heard[d] \o Text(chunk)
                                ELSE heard[d]]
  /\ UNCHANGED <<members, gone>>

\* A client that left hears nothing any more: what it heard is forgotten.
Leave(c) ==
  /\ c \notin gone
  /\ gone' = gone \cup {c}
  /\ heard' = [heard EXCEPT ![c] = <<>>]
  /\ UNCHANGED <<members, said>>

Expel(c) ==
  /\ c \in members \cap gone
  /\ members' = members \ {c}
  /\ UNCHANGED <<gone, said, heard>>

Next ==
  \E c \in Conn :
    Join(c) \/ Leave(c) \/ Expel(c) \/ \E chunk \in Chunk : Speak(c, chunk)

Spec == Init /\ [][Next]_vars
=============================================================================
