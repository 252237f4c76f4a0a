----------------------------- MODULE MCRedirect -----------------------------
(* Instances of Redirect small enough for TLC. *)
EXTENDS Redirect

Word(op, n, m, name) == [op |-> op, n |-> n, m |-> m, name |-> name]
Names == {Word("word", 0, 0, "cat"), Word("word", 0, 0, "echo"),
          Word("word", 0, 0, "old"), Word("word", 0, 0, "new"),
          Word("word", 0, 0, "env")}
Plain == Names \cup {Word(">", 0, 0, ">"), Word(">>", 0, 0, ">>"),
                     Word("<", 0, 0, "<")}
Numbered == Plain \cup {Word("n>", 2, 0, "2>"), Word("n<", 0, 0, "0<"),
                        Word("n>&m", 2, 1, "2>&1")}
=============================================================================
