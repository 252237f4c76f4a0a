----------------------------- MODULE ServeRoom -----------------------------
(* The room that the clients of 3.cpp and 4.cpp see: how the state of       *)
(* ServeOne maps to that of ChatRoom.                                       *)
EXTENDS ServeOne, SequencesExt

\* The messages send_all makes of a chunk.
Text(ch) ==
  FlattenSeq([j \in DOMAIN ch.shape |->
                IF ch.shape[j] THEN Units(ch, j, 1, MsgLen) ELSE <<>>])

\* What is still to be sent of the current chunk to slot i.
Due(i) ==
  FlattenSeq([j \in DOMAIN chunk.shape |->
                IF <<j, i>> \notin sends THEN <<>>
                ELSE IF IsNextSend(<<j, i>>)
                  THEN Units(chunk, j, MsgLen - sleft + 1, sleft)
                  ELSE Units(chunk, j, 1, MsgLen)])

\* A client has heard what reached it and what the running broadcast owes
\* it: the room hears a chunk at once, when recv returns it.
Heard(c) ==
  IF peer[c] # "open" THEN <<>>
  ELSE IF \E p \in sends : ConnOfSlot(p[2]) = c
    THEN inbox[c] \o Due(CHOOSE i \in Registered : ConnOfSlot(i) = c)
    ELSE inbox[c]

\* The members are the connections of the registered slots, whoever left is
\* gone, and the room has heard of a client what recv has returned.
Members == {ConnOfSlot(i) : i \in Registered}
Leavers == {c \in Conn : peer[c] \in Gone}
Said == [c \in Conn |-> wrote[c] - Len(outbox[c])]
HeardByAll == [c \in Conn |-> Heard(c)]

Promise == INSTANCE ChatRoom WITH
  Chunk <- [from : Conn, num : 1..MaxWrites, shape : Shapes],
  members <- Members,
  gone <- Leavers,
  said <- Said,
  heard <- HeardByAll

\* The servers of 3.cpp and 4.cpp are chat rooms as ChatRoom promises: no
\* chunk is lost, repeated, reordered, cut or mixed with another on its way
\* to any member that stays, and only clients that left are destroyed.
RoomPromise == Promise!Spec
=============================================================================
