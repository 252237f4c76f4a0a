------------------------------- MODULE Split -------------------------------
(***************************************************************************)
(* split of lab3/0.h, the function all chat servers cut a received buffer  *)
(* with.  A text is a sequence of symbols: the newline, and anything else. *)
(***************************************************************************)
EXTENDS Integers, SequencesExt

NL == 0    \* "\n"

\* string::find of the newline, 0 for npos.
Find(s) == SelectInSeq(s, LAMBDA x : x = NL)

\* The pieces between newlines, empty ones too, save one at the end.
split[s \in Seq(Int)] ==
  IF Find(s) # 0
    THEN <<SubSeq(s, 1, Find(s) - 1)>> \o split[SubSeq(s, Find(s) + 1, Len(s))]
    ELSE IF s # <<>> THEN <<s>> ELSE <<>>
=============================================================================
