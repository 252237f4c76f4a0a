---------------------------- MODULE UringProofs ----------------------------
(* What holds of UringChat for any number of connections, descriptors,      *)
(* slots, buffers and entries of the submission queue.                      *)
EXTENDS UringChat, SocketsProofs, FiniteSetTheorems, SequenceTheorems

-----------------------------------------------------------------------------
(* Counting in sequences.                                                   *)

NumberOf(s, R) == Cardinality({j \in DOMAIN s : s[j] \in R})

LEMMA NumberType ==
  ASSUME NEW S, NEW s \in Seq(S), NEW R
  PROVE  IsFiniteSet({j \in DOMAIN s : s[j] \in R}) /\ NumberOf(s, R) \in Nat
<1>1. DOMAIN s = 1..Len(s) /\ Len(s) \in Int /\ 1 \in Int
  OBVIOUS
<1>2. IsFiniteSet(1..Len(s))
  BY <1>1, FS_Interval
<1>3. {j \in DOMAIN s : s[j] \in R} \subseteq 1..Len(s)
  BY <1>1
<1>4. QED
  BY <1>2, <1>3, FS_Subset, FS_CardinalityType DEF NumberOf

LEMMA ApartCount ==
  ASSUME NEW A, NEW B, IsFiniteSet(A), IsFiniteSet(B), A \cap B = {}
  PROVE  Cardinality(A \cup B) = Cardinality(A) + Cardinality(B)
<1>1. Cardinality(A) \in Nat /\ Cardinality(B) \in Nat
  BY FS_CardinalityType
<1>2. Cardinality(A \cup B) = Cardinality(A) + Cardinality(B) - Cardinality(A \cap B)
  BY FS_Union
<1>3. Cardinality(A \cap B) = 0
  BY FS_EmptySet
<1>4. QED
  BY <1>1, <1>2, <1>3

LEMMA NumberConcat ==
  ASSUME NEW S, NEW s \in Seq(S), NEW t \in Seq(S), NEW R
  PROVE  NumberOf(s \o t, R) = NumberOf(s, R) + NumberOf(t, R)
<1> DEFINE m == Len(s)
           u == s \o t
           a == {j \in DOMAIN s : s[j] \in R}
           b == {j \in DOMAIN t : t[j] \in R}
           c == {j \in DOMAIN u : u[j] \in R}
           d == {j \in c : j > m}
           f == [j \in b |-> j + m]
<1>1. /\ u \in Seq(S) /\ Len(u) = m + Len(t) /\ m \in Nat /\ Len(t) \in Nat
      /\ DOMAIN s = 1..m /\ DOMAIN t = 1..Len(t) /\ DOMAIN u = 1..m + Len(t)
      /\ \A j \in 1..m : u[j] = s[j]
      /\ \A j \in 1..Len(t) : u[j + m] = t[j]
  OBVIOUS
<1> HIDE DEF m, u
<1>2. IsFiniteSet(a) /\ IsFiniteSet(b) /\ IsFiniteSet(c)
  BY <1>1, NumberType
<1>3. \A j \in c : j \in a \/ j \in d
  BY <1>1
<1>4. c = a \cup d /\ a \cap d = {}
  BY <1>1, <1>3
<1>5. IsFiniteSet(d)
  BY <1>2, FS_Subset
<1>6. ExistsBijection(b, d)
  <2>1. \A j \in b : j \in Nat /\ j + m \in d
    BY <1>1
  <2>2. \A j \in d : j - m \in b /\ f[j - m] = j
    <3> SUFFICES ASSUME NEW j \in d
                 PROVE  j - m \in b /\ f[j - m] = j
      OBVIOUS
    <3>1. j \in Nat /\ j > m /\ j <= m + Len(t) /\ u[j] \in R
      BY <1>1
    <3>2. j - m \in 1..Len(t) /\ (j - m) + m = j
      BY <1>1, <3>1
    <3>3. u[(j - m) + m] = t[j - m]
      BY <1>1, <3>2
    <3>4. j - m \in b
      BY <1>1, <3>1, <3>2, <3>3
    <3>5. QED
      BY <3>2, <3>4
  <2>3. f \in Bijection(b, d)
    <3>1. f \in [b -> d] /\ IsInjective(f)
      BY <1>1, <2>1 DEF IsInjective
    <3>2. \A j \in d : \E k \in b : f[k] = j
      BY <2>2
    <3>3. QED
      BY <3>1, <3>2 DEF Bijection, Injection, Surjection
  <2>4. QED
    BY <2>3 DEF ExistsBijection
<1>7. Cardinality(d) = Cardinality(b)
  BY <1>2, <1>6, FS_Bijection
<1>8. Cardinality(c) = Cardinality(a) + Cardinality(d)
  BY <1>2, <1>4, <1>5, ApartCount
<1>9. NumberOf(s \o t, R) = Cardinality(c)
  BY DEF NumberOf, u
<1>10. QED
  BY <1>7, <1>8, <1>9 DEF NumberOf

LEMMA NumberOne ==
  ASSUME NEW e, NEW R
  PROVE  NumberOf(<<e>>, R) = IF e \in R THEN 1 ELSE 0
<1>1. DOMAIN <<e>> = {1} /\ <<e>>[1] = e
  OBVIOUS
<1>2. CASE e \in R
  <2>1. {j \in DOMAIN <<e>> : <<e>>[j] \in R} = {1}
    BY <1>1, <1>2
  <2>2. QED
    BY <1>2, <2>1, FS_Singleton DEF NumberOf
<1>3. CASE e \notin R
  <2>1. {j \in DOMAIN <<e>> : <<e>>[j] \in R} = {}
    BY <1>1, <1>3
  <2>2. QED
    BY <1>3, <2>1, FS_EmptySet DEF NumberOf
<1>4. QED
  BY <1>2, <1>3

LEMMA NumberAppend ==
  ASSUME NEW S, NEW s \in Seq(S), NEW e \in S, NEW R
  PROVE  NumberOf(Append(s, e), R) = NumberOf(s, R) + (IF e \in R THEN 1 ELSE 0)
<1>1. Append(s, e) = s \o <<e>> /\ <<e>> \in Seq(S)
  OBVIOUS
<1>2. NumberOf(s \o <<e>>, R) = NumberOf(s, R) + NumberOf(<<e>>, R)
  BY <1>1, NumberConcat
<1>3. QED
  BY <1>1, <1>2, NumberOne

LEMMA NumberTail ==
  ASSUME NEW S, NEW s \in Seq(S), s # <<>>, NEW R
  PROVE  /\ Tail(s) \in Seq(S) /\ Head(s) \in S
         /\ NumberOf(s, R) = (IF Head(s) \in R THEN 1 ELSE 0) + NumberOf(Tail(s), R)
<1>1. s = <<Head(s)>> \o Tail(s) /\ Tail(s) \in Seq(S) /\ Head(s) \in S
  OBVIOUS
<1>2. <<Head(s)>> \in Seq(S)
  BY <1>1
<1>3. NumberOf(<<Head(s)>> \o Tail(s), R) = NumberOf(<<Head(s)>>, R) + NumberOf(Tail(s), R)
  BY <1>1, <1>2, NumberConcat
<1>4. QED
  BY <1>1, <1>3, NumberOne

LEMMA NumberMiddle ==
  ASSUME NEW S, NEW a \in Seq(S), NEW b \in Seq(S), NEW e \in S, NEW R
  PROVE  NumberOf(a \o (<<e>> \o b), R)
           = NumberOf(a, R) + NumberOf(b, R) + (IF e \in R THEN 1 ELSE 0)
<1>1. <<e>> \in Seq(S)
  OBVIOUS
<1>2. <<e>> \o b \in Seq(S)
  BY <1>1
<1>3. NumberOf(<<e>> \o b, R) = NumberOf(<<e>>, R) + NumberOf(b, R)
  BY <1>1, NumberConcat
<1>4. NumberOf(a \o (<<e>> \o b), R) = NumberOf(a, R) + NumberOf(<<e>> \o b, R)
  BY <1>2, NumberConcat
<1>5. NumberOf(a, R) \in Nat /\ NumberOf(b, R) \in Nat
  BY NumberType
<1>6. QED
  BY <1>3, <1>4, <1>5, NumberOne

LEMMA NumberRemove ==
  ASSUME NEW S, NEW s \in Seq(S), NEW i \in DOMAIN s, NEW R
  PROVE  /\ RemoveAt(s, i) \in Seq(S) /\ s[i] \in S
         /\ \A j \in DOMAIN RemoveAt(s, i) : \E k \in DOMAIN s : RemoveAt(s, i)[j] = s[k]
         /\ NumberOf(s, R) = NumberOf(RemoveAt(s, i), R) + (IF s[i] \in R THEN 1 ELSE 0)
<1> DEFINE a == SubSeq(s, 1, i - 1)
           b == SubSeq(s, i + 1, Len(s))
<1>1. i \in 1..Len(s) /\ Len(s) \in Nat /\ s[i] \in S
  OBVIOUS
<1>2. /\ a \in Seq(S) /\ Len(a) = i - 1 /\ \A j \in 1..i - 1 : a[j] = s[j]
      /\ b \in Seq(S) /\ Len(b) = Len(s) - i /\ \A j \in 1..Len(s) - i : b[j] = s[i + j]
  BY <1>1
<1>3. RemoveAt(s, i) = a \o b
  BY DEF RemoveAt
<1>4. s = a \o (<<s[i]>> \o b)
  <2>1. SubSeq(s, i, Len(s)) = <<s[i]>> \o b
    <3>1. Len(s) \in i..Len(s) /\ i \in 1..Len(s)
      BY <1>1
    <3>2. QED
      BY <1>1, <3>1, SubSeqRecursiveFirst
  <2>2. SubSeq(s, 1, Len(s)) = a \o SubSeq(s, i, Len(s))
    <3>1. /\ 1 \in 1..Len(s) + 1 /\ i - 1 \in 1 - 1..Len(s)
          /\ Len(s) \in i - 1..Len(s) /\ (i - 1) + 1 = i
      BY <1>1
    <3>2. QED
      BY <3>1, ConcatAdjacentSubSeq
  <2>3. QED
    BY <2>1, <2>2, SubSeqFull
<1> HIDE DEF a, b
<1>5. /\ a \o b \in Seq(S) /\ Len(a \o b) = (i - 1) + (Len(s) - i)
      /\ \A j \in 1..(i - 1) + (Len(s) - i) :
           (a \o b)[j] = IF j <= i - 1 THEN a[j] ELSE b[j - (i - 1)]
  <2>1. a \in Seq(S) /\ b \in Seq(S)
    BY <1>2
  <2>2. /\ a \o b \in Seq(S) /\ Len(a \o b) = Len(a) + Len(b)
        /\ \A j \in 1..Len(a) + Len(b) :
             (a \o b)[j] = IF j <= Len(a) THEN a[j] ELSE b[j - Len(a)]
    BY <2>1, ConcatProperties
  <2>3. Len(a) = i - 1 /\ Len(b) = Len(s) - i
    BY <1>2
  <2>4. QED
    BY <2>2, <2>3
<1>6. \A j \in DOMAIN (a \o b) : \E k \in DOMAIN s : (a \o b)[j] = s[k]
  <2> SUFFICES ASSUME NEW j \in DOMAIN (a \o b)
               PROVE  \E k \in DOMAIN s : (a \o b)[j] = s[k]
    OBVIOUS
  <2>1. j \in 1..(i - 1) + (Len(s) - i) /\ DOMAIN s = 1..Len(s)
    BY <1>1, <1>5
  <2>2. CASE j <= i - 1
    BY <1>1, <1>2, <1>5, <2>1, <2>2
  <2>3. CASE ~(j <= i - 1)
    <3>1. j - (i - 1) \in 1..Len(s) - i /\ i + (j - (i - 1)) \in 1..Len(s)
      BY <1>1, <2>1, <2>3
    <3>2. QED
      BY <1>1, <1>2, <1>5, <2>1, <2>3, <3>1
  <2>4. QED
    BY <2>2, <2>3
<1>7. NumberOf(s, R) = NumberOf(a, R) + NumberOf(b, R) + (IF s[i] \in R THEN 1 ELSE 0)
  <2> DEFINE e == s[i]
  <2>1. e \in S /\ a \in Seq(S) /\ b \in Seq(S) /\ s = a \o (<<e>> \o b)
    BY <1>1, <1>2, <1>4
  <2> HIDE DEF e
  <2>2. NumberOf(a \o (<<e>> \o b), R)
          = NumberOf(a, R) + NumberOf(b, R) + (IF e \in R THEN 1 ELSE 0)
    BY <2>1, NumberMiddle
  <2>3. QED
    BY <2>1, <2>2 DEF e
<1>8. NumberOf(a \o b, R) = NumberOf(a, R) + NumberOf(b, R)
  BY <1>2, NumberConcat
<1>9. QED
  BY <1>1, <1>3, <1>5, <1>6, <1>7, <1>8

-----------------------------------------------------------------------------
(* The counts of the model are such numbers.                                *)

EntryType == [req : RequestType, data : RequestType]
FlightType == [req : RequestType, data : RequestType, conn : Conn \cup {NoConn}]
CompletionType == [data : RequestType, res : Int, bid : Buf]

One(b) == IF b THEN 1 ELSE 0

LEMMA AmongIs ==
  ASSUME NEW S, NEW s \in Seq(S), NEW r
  PROVE  Among(s, r) = NumberOf(s, {e \in S : e.data = r})
<1>1. \A j \in DOMAIN s : s[j] \in S
  OBVIOUS
<1>2. {j \in DOMAIN s : s[j] \in {e \in S : e.data = r}} = {j \in DOMAIN s : s[j].data = r}
  BY <1>1
<1>3. QED
  BY <1>2 DEF Among, NumberOf

LEMMA AcceptsIs ==
  ASSUME NEW S, NEW s \in Seq(S), NEW f
  PROVE  Accepts(s, f) = NumberOf(s, {e \in S : e.data.type = "ACCEPT" /\ e.res = f})
<1>1. \A j \in DOMAIN s : s[j] \in S
  OBVIOUS
<1>2. {j \in DOMAIN s : s[j] \in {e \in S : e.data.type = "ACCEPT" /\ e.res = f}}
        = {j \in DOMAIN s : s[j].data.type = "ACCEPT" /\ s[j].res = f}
  BY <1>1
<1>3. QED
  BY <1>2 DEF Accepts, NumberOf

LEMMA AmongType ==
  ASSUME NEW S, NEW s \in Seq(S), NEW r
  PROVE  Among(s, r) \in Nat /\ Accepts(s, r) \in Nat
<1> DEFINE D == {e \in S : e.data = r}
           A == {e \in S : e.data.type = "ACCEPT" /\ e.res = r}
<1>1. Among(s, r) = NumberOf(s, D) /\ Accepts(s, r) = NumberOf(s, A)
  BY AmongIs, AcceptsIs
<1> HIDE DEF D, A
<1>2. NumberOf(s, D) \in Nat /\ NumberOf(s, A) \in Nat
  BY NumberType
<1>3. QED
  BY <1>1, <1>2

LEMMA AmongAppend ==
  ASSUME NEW S, NEW s \in Seq(S), NEW e \in S, NEW r
  PROVE  /\ Append(s, e) \in Seq(S)
         /\ Among(Append(s, e), r) = Among(s, r) + One(e.data = r)
         /\ Accepts(Append(s, e), r)
              = Accepts(s, r) + One(e.data.type = "ACCEPT" /\ e.res = r)
         /\ \A j \in DOMAIN Append(s, e) :
              Append(s, e)[j] = e \/ \E k \in DOMAIN s : Append(s, e)[j] = s[k]
<1> DEFINE D == {d \in S : d.data = r}
           A == {d \in S : d.data.type = "ACCEPT" /\ d.res = r}
<1>1. Append(s, e) \in Seq(S)
  OBVIOUS
<1>2. \A j \in DOMAIN Append(s, e) :
        Append(s, e)[j] = e \/ \E k \in DOMAIN s : Append(s, e)[j] = s[k]
  OBVIOUS
<1>3. e \in D <=> e.data = r
  OBVIOUS
<1>4. e \in A <=> e.data.type = "ACCEPT" /\ e.res = r
  OBVIOUS
<1>5. Among(Append(s, e), r) = NumberOf(Append(s, e), D) /\ Among(s, r) = NumberOf(s, D)
  BY <1>1, AmongIs
<1>6. Accepts(Append(s, e), r) = NumberOf(Append(s, e), A) /\ Accepts(s, r) = NumberOf(s, A)
  BY <1>1, AcceptsIs
<1> HIDE DEF D, A
<1>7. NumberOf(Append(s, e), D) = NumberOf(s, D) + (IF e \in D THEN 1 ELSE 0)
  BY NumberAppend
<1>8. NumberOf(Append(s, e), A) = NumberOf(s, A) + (IF e \in A THEN 1 ELSE 0)
  BY NumberAppend
<1>9. Among(Append(s, e), r) = Among(s, r) + One(e.data = r)
  BY <1>3, <1>5, <1>7 DEF One
<1>10. Accepts(Append(s, e), r) = Accepts(s, r) + One(e.data.type = "ACCEPT" /\ e.res = r)
  BY <1>4, <1>6, <1>8 DEF One
<1>11. QED
  BY <1>1, <1>2, <1>9, <1>10

LEMMA AmongTail ==
  ASSUME NEW S, NEW s \in Seq(S), s # <<>>, NEW r
  PROVE  /\ Tail(s) \in Seq(S) /\ Head(s) \in S
         /\ Among(s, r) = Among(Tail(s), r) + One(Head(s).data = r)
         /\ Accepts(s, r)
              = Accepts(Tail(s), r) + One(Head(s).data.type = "ACCEPT" /\ Head(s).res = r)
         /\ \A j \in DOMAIN Tail(s) : \E k \in DOMAIN s : Tail(s)[j] = s[k]
<1> DEFINE D == {d \in S : d.data = r}
           A == {d \in S : d.data.type = "ACCEPT" /\ d.res = r}
           h == Head(s)
<1>1. Tail(s) \in Seq(S) /\ h \in S
  OBVIOUS
<1>2. \A j \in DOMAIN Tail(s) : \E k \in DOMAIN s : Tail(s)[j] = s[k]
  <2> SUFFICES ASSUME NEW j \in DOMAIN Tail(s)
               PROVE  \E k \in DOMAIN s : Tail(s)[j] = s[k]
    OBVIOUS
  <2>1. j + 1 \in DOMAIN s /\ Tail(s)[j] = s[j + 1]
    OBVIOUS
  <2>2. QED
    BY <2>1
<1>3. h \in D <=> h.data = r
  BY <1>1
<1>4. h \in A <=> h.data.type = "ACCEPT" /\ h.res = r
  BY <1>1
<1>5. Among(Tail(s), r) = NumberOf(Tail(s), D) /\ Among(s, r) = NumberOf(s, D)
  BY <1>1, AmongIs
<1>6. Accepts(Tail(s), r) = NumberOf(Tail(s), A) /\ Accepts(s, r) = NumberOf(s, A)
  BY <1>1, AcceptsIs
<1> HIDE DEF D, A
<1>7. NumberOf(s, D) = (IF h \in D THEN 1 ELSE 0) + NumberOf(Tail(s), D)
  BY NumberTail
<1>8. NumberOf(s, A) = (IF h \in A THEN 1 ELSE 0) + NumberOf(Tail(s), A)
  BY NumberTail
<1>12. NumberOf(Tail(s), D) \in Nat /\ NumberOf(Tail(s), A) \in Nat
  BY <1>1, NumberType
<1> HIDE DEF h
<1>9. Among(s, r) = Among(Tail(s), r) + One(h.data = r)
  BY <1>3, <1>5, <1>7, <1>12 DEF One
<1>10. Accepts(s, r) = Accepts(Tail(s), r) + One(h.data.type = "ACCEPT" /\ h.res = r)
  BY <1>4, <1>6, <1>8, <1>12 DEF One
<1>11. QED
  BY <1>1, <1>2, <1>9, <1>10 DEF h

LEMMA AmongRemove ==
  ASSUME NEW S, NEW s \in Seq(S), NEW i \in DOMAIN s, NEW r
  PROVE  /\ RemoveAt(s, i) \in Seq(S) /\ s[i] \in S
         /\ Among(s, r) = Among(RemoveAt(s, i), r) + One(s[i].data = r)
         /\ \A j \in DOMAIN RemoveAt(s, i) : \E k \in DOMAIN s : RemoveAt(s, i)[j] = s[k]
<1> DEFINE D == {d \in S : d.data = r}
           h == s[i]
<1>1. RemoveAt(s, i) \in Seq(S) /\ h \in S
  BY NumberRemove
<1>2. \A j \in DOMAIN RemoveAt(s, i) : \E k \in DOMAIN s : RemoveAt(s, i)[j] = s[k]
  BY NumberRemove
<1>3. h \in D <=> h.data = r
  BY <1>1
<1>4. Among(RemoveAt(s, i), r) = NumberOf(RemoveAt(s, i), D) /\ Among(s, r) = NumberOf(s, D)
  BY <1>1, AmongIs
<1> HIDE DEF D
<1>5. NumberOf(s, D) = NumberOf(RemoveAt(s, i), D) + (IF h \in D THEN 1 ELSE 0)
  BY NumberRemove
<1> HIDE DEF h
<1>6. Among(s, r) = Among(RemoveAt(s, i), r) + One(h.data = r)
  BY <1>3, <1>4, <1>5 DEF One
<1>7. QED
  BY <1>1, <1>2, <1>6 DEF h

LEMMA AmongConcat ==
  ASSUME NEW S, NEW s \in Seq(S), NEW t \in Seq(S), NEW r
  PROVE  /\ s \o t \in Seq(S)
         /\ Among(s \o t, r) = Among(s, r) + Among(t, r)
         /\ \A j \in DOMAIN (s \o t) : \/ \E k \in DOMAIN s : (s \o t)[j] = s[k]
                                       \/ \E k \in DOMAIN t : (s \o t)[j] = t[k]
<1> DEFINE D == {d \in S : d.data = r}
<1>1. s \o t \in Seq(S)
  OBVIOUS
<1>2. \A j \in DOMAIN (s \o t) : \/ \E k \in DOMAIN s : (s \o t)[j] = s[k]
                                 \/ \E k \in DOMAIN t : (s \o t)[j] = t[k]
  OBVIOUS
<1>3. /\ Among(s \o t, r) = NumberOf(s \o t, D) /\ Among(s, r) = NumberOf(s, D)
      /\ Among(t, r) = NumberOf(t, D)
  BY <1>1, AmongIs
<1> HIDE DEF D
<1>4. NumberOf(s \o t, D) = NumberOf(s, D) + NumberOf(t, D)
  BY NumberConcat
<1>5. QED
  BY <1>1, <1>2, <1>3, <1>4

-----------------------------------------------------------------------------
(* The receivers of a message: every one of them stands in a slot.          *)

Below(S, i) == {k \in S : k < i}

LEMMA BelowBounds ==
  ASSUME NEW S, S \subseteq Nat, IsFiniteSet(S), NEW i \in S
  PROVE  IsFiniteSet(Below(S, i)) /\ Cardinality(Below(S, i)) \in 0..Cardinality(S) - 1
<1> DEFINE b == Below(S, i)
<1>1. b \subseteq S /\ i \in S /\ i \notin b
  BY DEF Below
<1>2. IsFiniteSet(b)
  BY <1>1, FS_Subset
<1>3. Cardinality(b) \in Nat /\ Cardinality(S) \in Nat
  BY <1>2, FS_CardinalityType
<1>4. Cardinality(b) < Cardinality(S)
  <2>1. b # S
    BY <1>1
  <2>2. QED
    BY <1>1, <1>3, <2>1, FS_Subset
<1>5. QED
  BY <1>2, <1>3, <1>4

LEMMA BelowGrows ==
  ASSUME NEW S, S \subseteq Nat, IsFiniteSet(S), NEW i \in S, NEW j \in S, i < j
  PROVE  Cardinality(Below(S, i)) # Cardinality(Below(S, j))
<1> DEFINE T == Below(S, j)
<1>1. T \subseteq Nat /\ i \in T /\ Below(T, i) = Below(S, i)
  <2>1. T \subseteq Nat /\ i \in T
    BY DEF Below
  <2>2. \A k \in Nat : k < i => k < j
    OBVIOUS
  <2>3. Below(T, i) = Below(S, i)
    BY <2>2 DEF Below
  <2>4. QED
    BY <2>1, <2>3
<1>2. IsFiniteSet(T)
  BY BelowBounds
<1>3. Cardinality(T) \in Nat
  BY <1>2, FS_CardinalityType
<1>4. Cardinality(Below(T, i)) \in 0..Cardinality(T) - 1
  BY <1>1, <1>2, BelowBounds
<1>5. QED
  BY <1>1, <1>3, <1>4

LEMMA RankTaken ==
  ASSUME NEW S, S \subseteq Nat, IsFiniteSet(S), NEW j \in 1..Cardinality(S)
  PROVE  \E i \in S : Cardinality(Below(S, i)) = j - 1
<1> DEFINE n == Cardinality(S)
           T == 0..n - 1
           f == [i \in S |-> Cardinality(Below(S, i))]
<1>1. n \in Nat
  BY FS_CardinalityType
<1>2. f \in [S -> T]
  BY BelowBounds
<1>3. \A a, b \in S : f[a] = f[b] => a = b
  <2> SUFFICES ASSUME NEW a \in S, NEW b \in S, a # b
               PROVE  f[a] # f[b]
    OBVIOUS
  <2>1. a \in Nat /\ b \in Nat
    OBVIOUS
  <2>2. CASE a < b
    BY <2>2, BelowGrows
  <2>3. CASE b < a
    BY <2>3, BelowGrows
  <2>4. QED
    BY <2>1, <2>2, <2>3
<1>4. IsFiniteSet(T) /\ Cardinality(T) = n
  <2>1. 0 \in Int /\ n - 1 \in Int
    BY <1>1
  <2>2. IsFiniteSet(0..n - 1) /\ Cardinality(0..n - 1)
          = IF 0 > n - 1 THEN 0 ELSE (n - 1) - 0 + 1
    BY <2>1, FS_Interval
  <2>3. QED
    BY <1>1, <2>2
<1> HIDE DEF f, T, n
<1>5. f \in Injection(S, T)
  BY <1>2, <1>3 DEF Injection, IsInjective
<1>6. \A t \in T : \E i \in S : f[i] = t
  <2>1. f \in Surjection(S, T)
    BY <1>4, <1>5, FS_Injection DEF n
  <2>2. QED
    BY <2>1 DEF Surjection
<1>7. j - 1 \in T
  BY <1>1 DEF T, n
<1>8. QED
  BY <1>6, <1>7 DEF f

-----------------------------------------------------------------------------
(* The parts of the invariant, and the steps that keep them.                *)

TableOK ==
  /\ connected_clients_num = Cardinality(Registered)
  /\ \A i \in Registered : clients_list[i].fd # -1 =>
       /\ ConnOf(clients_list[i].fd) # NoConn
       /\ \A j \in Registered : clients_list[j].fd = clients_list[i].fd => j = i

\* What RequestsInv says of one request and of one completion.
Good(r, bs) == r \in Asked /\ (r.type = "WRITE" => bs[r.bid] # <<>>)
Done(e, bs) ==
  /\ e.data \in Asked
  /\ e.data.type = "ACCEPT" => e.res \in Fd \cup {-1}
  /\ e.data.type = "READ" /\ e.res > 0 => bs[e.bid] # <<>>

LEMMA Numbers ==
  /\ MaxClient \in Nat /\ MaxClient > 0 /\ BuffersCount \in Nat /\ 0 \in Buf
  /\ SqSize \in Nat /\ SqSize > 1 /\ Slot \subseteq Nat /\ Buf \subseteq Nat
  /\ IsFiniteSet(Slot) /\ Cardinality(Slot) = MaxClient
<1>1. /\ MaxClient \in Nat /\ MaxClient > 0 /\ BuffersCount \in Nat /\ BuffersCount > 0
      /\ SqSize \in Nat /\ SqSize > 1
  BY UringAssumption
<1>2. 0 \in Buf /\ Slot \subseteq Nat /\ Buf \subseteq Nat
  BY <1>1 DEF Buf, Slot
<1>3. /\ IsFiniteSet(0..MaxClient - 1)
      /\ Cardinality(0..MaxClient - 1)
           = IF 0 > MaxClient - 1 THEN 0 ELSE (MaxClient - 1) - 0 + 1
  BY <1>1, FS_Interval
<1>4. QED
  BY <1>1, <1>2, <1>3 DEF Slot

LEMMA AskedType ==
  ASSUME NEW r \in Asked
  PROVE  /\ r \in RequestType
         /\ r.type \in {"ACCEPT", "READ"} => r.bid = 0
         /\ r.type = "ACCEPT" => r = Request("ACCEPT", Listener, 0)
         /\ r.type = "READ" => r.fd \in Fd /\ r = Request("READ", r.fd, 0)
         /\ r.bid \in Buf
BY Numbers DEF Asked, Request, RequestType, AnyFd, Listener

\* What the parts of the type say of the ring.
LEMMA RingType ==
  ASSUME TypeOK
  PROVE  sq \in Seq(EntryType) /\ flight \in Seq(FlightType) /\ cq \in Seq(CompletionType)
BY DEF TypeOK, EntryType, FlightType, CompletionType

LEMMA CountType ==
  ASSUME TypeOK, NEW r
  PROVE  /\ Among(sq, r) \in Nat /\ Among(flight, r) \in Nat /\ Among(cq, r) \in Nat
         /\ Accepts(cq, r) \in Nat /\ HowMany(r) \in Nat
<1>1. Among(sq, r) \in Nat /\ Among(flight, r) \in Nat
  BY RingType, AmongType
<1>2. Among(cq, r) \in Nat /\ Accepts(cq, r) \in Nat
  BY RingType, AmongType
<1>3. QED
  BY <1>1, <1>2 DEF HowMany

\* Steps after which as much of everything is on its way, and as much is open.
LEMMA CountKept ==
  ASSUME AcceptArmed, OneReader, Running,
         \A r : HowMany(r)' = HowMany(r),
         \A f \in Fd : Accepts(cq', f) = Accepts(cq, f) /\ (fds'[f] = NoConn <=> fds[f] = NoConn)
  PROVE  AcceptArmed' /\ OneReader'
<1>1. HowMany(Request("ACCEPT", Listener, 0))' = HowMany(Request("ACCEPT", Listener, 0))
  OBVIOUS
<1>2. ASSUME NEW f \in Fd
      PROVE  /\ HowMany(Request("READ", f, 0))' = HowMany(Request("READ", f, 0))
             /\ HowMany(Request("READ", f, 0)) + Accepts(cq, f)
                  = IF fds[f] = NoConn THEN 0 ELSE 1
  BY DEF OneReader
<1>3. QED
  BY <1>1, <1>2 DEF AcceptArmed, OneReader

LEMMA RequestsStep ==
  ASSUME TypeOK, RequestsInv,
         \A b \in Buf : bufs[b] # <<>> => bufs'[b] # <<>>,
         \A j \in DOMAIN sq' : \/ \E k \in DOMAIN sq : sq'[j] = sq[k]
                               \/ Good(sq'[j].req, bufs'),
         \A j \in DOMAIN flight' : \/ \E k \in DOMAIN flight : flight'[j] = flight[k]
                                   \/ /\ flight'[j].data = flight'[j].req
                                      /\ Good(flight'[j].req, bufs'),
         \A j \in DOMAIN cq' : \/ \E k \in DOMAIN cq : cq'[j] = cq[k]
                               \/ Done(cq'[j], bufs')
  PROVE  RequestsInv'
<1>1. ASSUME NEW r, Good(r, bufs)
      PROVE  Good(r, bufs')
  BY <1>1, AskedType DEF Good
<1>2. ASSUME NEW k \in DOMAIN cq
      PROVE  Done(cq[k], bufs')
  <2>3. cq[k] \in CompletionType
    BY RingType
  <2>1. cq[k].bid \in Buf
    BY <2>3 DEF CompletionType
  <2>2. QED
    BY <2>1 DEF RequestsInv, Done
<1>3. \A j \in DOMAIN sq' : Good(sq'[j].req, bufs')
  <2>1. \A k \in DOMAIN sq : Good(sq[k].req, bufs)
    BY DEF RequestsInv, Filled, Good
  <2>2. QED
    BY <1>1, <2>1
<1>4. \A j \in DOMAIN flight' : /\ flight'[j].data = flight'[j].req
                                /\ Good(flight'[j].req, bufs')
  <2>1. \A k \in DOMAIN flight : flight[k].data = flight[k].req /\ Good(flight[k].req, bufs)
    BY DEF RequestsInv, Filled, Good
  <2>2. QED
    BY <1>1, <2>1
<1>5. \A j \in DOMAIN cq' : Done(cq'[j], bufs')
  BY <1>2
<1>6. QED
  BY <1>3, <1>4, <1>5 DEF RequestsInv, Filled, Good, Done

\* Steps that leave the table alone, and close no descriptor.
LEMMA TableKept ==
  ASSUME TypeOK, TableOK, TableInv, Running, UNCHANGED tableVars,
         \A f \in Fd : fds[f] # NoConn =>
           fds'[f] # NoConn /\ Accepts(cq', f) <= Accepts(cq, f),
         cq' \in Seq(CompletionType)
  PROVE  TableOK' /\ TableInv'
<1>1. Registered' = Registered /\ UNCHANGED <<clients_list, connected_clients_num>>
  BY DEF Registered, tableVars
<1>2. ASSUME NEW i \in Registered, clients_list[i].fd # -1
      PROVE  /\ clients_list[i].fd \in Fd /\ fds[clients_list[i].fd] # NoConn
             /\ Accepts(cq, clients_list[i].fd) = 0
  BY <1>2 DEF TableOK, TableInv, ConnOf
<1>3. ASSUME NEW i \in Registered, clients_list[i].fd # -1
      PROVE  /\ fds'[clients_list[i].fd] # NoConn
             /\ Accepts(cq', clients_list[i].fd) = 0
  <2>1. Accepts(cq', clients_list[i].fd) \in Nat
    BY AmongType
  <2>2. QED
    BY <1>2, <1>3, <2>1
<1>4. TableOK'
  BY <1>1, <1>2, <1>3 DEF TableOK, ConnOf
<1>5. TableInv'
  BY <1>1, <1>3 DEF TableInv
<1>6. QED
  BY <1>4, <1>5

-----------------------------------------------------------------------------
(* A request ends: it leaves flight for the completions.                    *)

LEMMA EndsCount ==
  ASSUME TypeOK, NEW i \in DOMAIN flight, NEW res \in Int, NEW bid \in Buf,
         Ends(i, res, bid)
  PROVE  /\ flight[i] \in FlightType /\ flight' \in Seq(FlightType)
         /\ cq' \in Seq(CompletionType)
         /\ \A r : HowMany(r)' = HowMany(r)
         /\ \A f : Accepts(cq', f)
                     = Accepts(cq, f) + One(flight[i].data.type = "ACCEPT" /\ res = f)
         /\ \A j \in DOMAIN flight' : \E k \in DOMAIN flight : flight'[j] = flight[k]
         /\ \A j \in DOMAIN cq' : \/ cq'[j] = Completion(flight[i], res, bid)
                                  \/ \E k \in DOMAIN cq : cq'[j] = cq[k]
<1> DEFINE e == Completion(flight[i], res, bid)
<1>1. /\ flight' = RemoveAt(flight, i) /\ cq' = Append(cq, e) /\ sq' = sq
  BY DEF Ends
<1>2. /\ sq \in Seq(EntryType) /\ flight \in Seq(FlightType) /\ cq \in Seq(CompletionType)
  BY RingType
<1>3. /\ RemoveAt(flight, i) \in Seq(FlightType) /\ flight[i] \in FlightType
      /\ \A j \in DOMAIN RemoveAt(flight, i) :
           \E k \in DOMAIN flight : RemoveAt(flight, i)[j] = flight[k]
  BY <1>2, AmongRemove
<1>4. /\ e \in CompletionType /\ e.data = flight[i].data /\ e.res = res
  BY <1>3 DEF Completion, CompletionType, FlightType
<1> HIDE DEF e
<1>5. /\ Append(cq, e) \in Seq(CompletionType)
      /\ \A j \in DOMAIN Append(cq, e) :
           Append(cq, e)[j] = e \/ \E k \in DOMAIN cq : Append(cq, e)[j] = cq[k]
      /\ \A f : Accepts(Append(cq, e), f)
                  = Accepts(cq, f) + One(e.data.type = "ACCEPT" /\ e.res = f)
  BY <1>2, <1>4, AmongAppend
<1>6. ASSUME NEW r
      PROVE  HowMany(r)' = HowMany(r)
  <2>1. Among(flight, r) = Among(RemoveAt(flight, i), r) + One(flight[i].data = r)
    BY <1>2, AmongRemove
  <2>2. Among(Append(cq, e), r) = Among(cq, r) + One(flight[i].data = r)
    BY <1>2, <1>4, AmongAppend
  <2>3. /\ Among(RemoveAt(flight, i), r) \in Nat /\ Among(cq, r) \in Nat
        /\ Among(sq, r) \in Nat
    BY <1>2, <1>3, AmongType
  <2>4. One(flight[i].data = r) \in Nat
    BY DEF One
  <2>5. HowMany(r) = Among(sq, r) + Among(flight, r) + Among(cq, r)
    BY DEF HowMany
  <2>6. HowMany(r)' = Among(sq, r) + Among(RemoveAt(flight, i), r) + Among(Append(cq, e), r)
    BY <1>1 DEF HowMany
  <2>7. QED
    BY <2>1, <2>2, <2>3, <2>4, <2>5, <2>6
<1>7. QED
  BY <1>1, <1>3, <1>4, <1>5, <1>6 DEF e

\* The requests in flight are those asked for.
LEMMA InFlightAsked ==
  ASSUME TypeOK, RequestsInv, NEW type, NEW i \in InFlight(type)
  PROVE  /\ i \in DOMAIN flight /\ flight[i].data = flight[i].req
         /\ flight[i].data.type = type /\ Good(flight[i].data, bufs)
         /\ flight[i].conn \in Conn \cup {NoConn}
<1>1. i \in DOMAIN flight /\ flight[i].req.type = type
  BY DEF InFlight
<1>2. flight[i] \in FlightType
  BY <1>1, RingType
<1>3. QED
  BY <1>1, <1>2 DEF RequestsInv, Filled, Good, FlightType

\* A request ends, the descriptors are as they were, and the buffers filled stay so.
LEMMA EndsKeeps ==
  ASSUME UringInv, NEW type \in {"ACCEPT", "READ", "WRITE"}, NEW i \in InFlight(type),
         NEW res \in Int, NEW bid \in Buf, Ends(i, res, bid), Running,
         SockTypeOK', UNCHANGED fds, type = "ACCEPT" => res = -1,
         type = "READ" /\ res > 0 => bufs'[bid] # <<>>,
         bufs' \in [Buf -> Chunk \cup {<<>>}], pool' \in [Buf -> Nat],
         failures' \in 0..MaxFailures,
         \A b \in Buf : bufs[b] # <<>> => bufs'[b] # <<>>
  PROVE  UringInv'
<1>1. /\ TypeOK /\ TableOK /\ RequestsInv /\ TableInv /\ AcceptArmed /\ OneReader /\ Intact
  BY DEF UringInv, TableHonest, TableOK
<1>2. /\ i \in DOMAIN flight /\ flight[i].data.type = type /\ flight[i].data \in Asked
  BY <1>1, InFlightAsked DEF Good
<1>3. /\ flight' \in Seq(FlightType) /\ cq' \in Seq(CompletionType)
      /\ \A r : HowMany(r)' = HowMany(r)
      /\ \A j \in DOMAIN flight' : \E k \in DOMAIN flight : flight'[j] = flight[k]
      /\ \A j \in DOMAIN cq' : \/ cq'[j] = Completion(flight[i], res, bid)
                               \/ \E k \in DOMAIN cq : cq'[j] = cq[k]
  BY <1>1, <1>2, EndsCount
<1>4. \A f \in Fd : Accepts(cq', f) = Accepts(cq, f)
  <2> SUFFICES ASSUME NEW f \in Fd
               PROVE  Accepts(cq', f) = Accepts(cq, f)
    OBVIOUS
  <2>1. Accepts(cq', f) = Accepts(cq, f) + One(flight[i].data.type = "ACCEPT" /\ res = f)
    BY <1>1, <1>2, EndsCount
  <2>2. ~(flight[i].data.type = "ACCEPT" /\ res = f)
    BY <1>2, FdAssumption
  <2>3. Accepts(cq, f) \in Nat
    BY <1>1, CountType
  <2>4. QED
    BY <2>1, <2>2, <2>3 DEF One
<1>5. UNCHANGED <<proc, pc, tableVars, sq, sqhead>>
  BY DEF Ends
<1>6. TypeOK'
  BY <1>1, <1>3, <1>5 DEF TypeOK, FlightType, CompletionType, tableVars
<1>7. AcceptArmed' /\ OneReader'
  BY <1>1, <1>3, <1>4, CountKept
<1>8. TableOK' /\ TableInv'
  <2>1. \A f \in Fd : Accepts(cq, f) \in Nat
    BY <1>1, CountType
  <2>2. \A f \in Fd : fds[f] # NoConn =>
          fds'[f] # NoConn /\ Accepts(cq', f) <= Accepts(cq, f)
    BY <1>4, <2>1
  <2>3. UNCHANGED tableVars
    BY <1>5
  <2>4. QED
    BY <1>1, <1>3, <2>2, <2>3, TableKept
<1>9. RequestsInv'
  <2>1. Done(Completion(flight[i], res, bid), bufs')
    BY <1>2, FdAssumption DEF Done, Completion
  <2>2. \A j \in DOMAIN cq' : \/ \E k \in DOMAIN cq : cq'[j] = cq[k]
                              \/ Done(cq'[j], bufs')
    BY <1>3, <2>1
  <2>3. sq' = sq
    BY <1>5
  <2>4. QED
    BY <1>1, <1>3, <2>2, <2>3, RequestsStep
<1>10. Intact'
  BY <1>1, <1>5 DEF Intact
<1>11. QED
  BY <1>6, <1>7, <1>8, <1>9, <1>10 DEF UringInv, TableHonest, TableOK

LEMMA AcceptErrsKeeps ==
  ASSUME UringInv, Running, AcceptErrs
  PROVE  UringInv'
<1>1. PICK i \in InFlight("ACCEPT") :
        /\ failures < MaxFailures /\ failures' = failures + 1
        /\ Ends(i, -1, 0) /\ UNCHANGED <<sockVars, bufs, pool>>
  BY DEF AcceptErrs
<1>2. TypeOK /\ MaxFailures \in Nat /\ failures \in 0..MaxFailures
  BY UringAssumption DEF UringInv, TableHonest, TypeOK
<1>3. failures' \in 0..MaxFailures
  BY <1>1, <1>2
<1>4. /\ bufs' = bufs /\ pool' = pool /\ UNCHANGED fds /\ SockTypeOK'
      /\ bufs' \in [Buf -> Chunk \cup {<<>>}] /\ pool' \in [Buf -> Nat]
  BY <1>1, <1>2 DEF TypeOK, SockTypeOK, sockVars
<1>5. 0 \in Buf /\ -1 \in Int
  BY Numbers
<1>6. QED
  BY <1>1, <1>3, <1>4, <1>5, EndsKeeps

LEMMA RecvErrsKeeps ==
  ASSUME UringInv, Running, RecvErrs
  PROVE  UringInv'
<1>1. PICK i \in InFlight("READ") :
        Ends(i, -1, 0) /\ UNCHANGED <<sockVars, bufs, pool, failures>>
  BY DEF RecvErrs
<1>2. TypeOK
  BY DEF UringInv, TableHonest
<1>3. failures' \in 0..MaxFailures
  BY <1>1, <1>2 DEF TypeOK
<1>4. /\ bufs' = bufs /\ pool' = pool /\ UNCHANGED fds /\ SockTypeOK'
      /\ bufs' \in [Buf -> Chunk \cup {<<>>}] /\ pool' \in [Buf -> Nat]
  BY <1>1, <1>2 DEF TypeOK, SockTypeOK, sockVars
<1>5. 0 \in Buf /\ -1 \in Int /\ ~(-1 > 0)
  BY Numbers
<1>6. QED
  BY <1>1, <1>3, <1>4, <1>5, EndsKeeps

LEMMA SendErrsKeeps ==
  ASSUME UringInv, Running, SendErrs
  PROVE  UringInv'
<1>1. PICK i \in InFlight("WRITE") :
        Ends(i, -1, 0) /\ UNCHANGED <<sockVars, bufs, pool, failures>>
  BY DEF SendErrs
<1>2. TypeOK
  BY DEF UringInv, TableHonest
<1>3. failures' \in 0..MaxFailures
  BY <1>1, <1>2 DEF TypeOK
<1>4. /\ bufs' = bufs /\ pool' = pool /\ UNCHANGED fds /\ SockTypeOK'
      /\ bufs' \in [Buf -> Chunk \cup {<<>>}] /\ pool' \in [Buf -> Nat]
  BY <1>1, <1>2 DEF TypeOK, SockTypeOK, sockVars
<1>5. 0 \in Buf /\ -1 \in Int
  BY Numbers
<1>6. QED
  BY <1>1, <1>3, <1>4, <1>5, EndsKeeps

LEMMA SendEndsKeeps ==
  ASSUME UringInv, Running, SendEnds
  PROVE  UringInv'
<1>1. PICK i \in InFlight("WRITE"), k \in 1..MsgLen :
        /\ flight[i].conn # NoConn
        /\ SendTakes(flight[i].conn, bufs[flight[i].req.bid], 1, MsgLen, k)
        /\ Ends(i, k, 0) /\ UNCHANGED <<bufs, pool, failures>>
  BY DEF SendEnds
<1>2. TypeOK /\ RequestsInv
  BY DEF UringInv, TableHonest
<1>3. /\ flight[i].conn \in Conn /\ Good(flight[i].data, bufs)
      /\ flight[i].data = flight[i].req /\ flight[i].data.type = "WRITE"
  BY <1>1, <1>2, InFlightAsked
<1>4. bufs[flight[i].req.bid] \in Chunk
  <2>1. flight[i].req.bid \in Buf /\ bufs[flight[i].req.bid] # <<>>
    BY <1>3, AskedType DEF Good
  <2>2. bufs \in [Buf -> Chunk \cup {<<>>}]
    BY <1>2 DEF TypeOK
  <2>3. QED
    BY <2>1, <2>2
<1>5. SockTypeOK'
  <2>1. SockTypeOK /\ MsgLen \in 0..MsgLen /\ 1 \in Nat
    BY <1>2, SizeAssumption DEF TypeOK
  <2>2. QED
    BY <1>1, <1>3, <1>4, <2>1, SendType
<1>6. UNCHANGED fds
  BY <1>1 DEF SendTakes
<1>7. /\ failures' \in 0..MaxFailures /\ bufs' = bufs /\ pool' = pool
      /\ bufs' \in [Buf -> Chunk \cup {<<>>}] /\ pool' \in [Buf -> Nat]
  BY <1>1, <1>2 DEF TypeOK
<1>8. 0 \in Buf /\ k \in Int
  BY Numbers, SizeAssumption
<1>9. QED
  BY <1>1, <1>5, <1>6, <1>7, <1>8, EndsKeeps

\* A chunk is not the empty sequence.
LEMMA ChunkFills ==
  ASSUME NEW chunk \in Chunk
  PROVE  chunk # <<>>
<1>1. DOMAIN chunk = {"from", "num", "shape"}
  BY DEF Chunk
<1>2. DOMAIN <<>> = {}
  OBVIOUS
<1>3. QED
  BY <1>1, <1>2

LEMMA RecvEndsKeeps ==
  ASSUME UringInv, Running, RecvEnds
  PROVE  UringInv'
<1>1. PICK i \in InFlight("READ"), b \in Buf :
        /\ pool[b] > 0 /\ flight[i].conn # NoConn
        /\ UNCHANGED failures
        /\ pool' = [pool EXCEPT ![b] = @ - 1]
        /\ \/ /\ TakeChunk(flight[i].conn)
              /\ bufs' = [bufs EXCEPT ![b] = Head(outbox[flight[i].conn])]
              /\ Ends(i, 1, b)
           \/ /\ Ends(i, 0, b)
              /\ UNCHANGED <<sockVars, bufs>>
  BY DEF RecvEnds
<1>2. TypeOK /\ RequestsInv
  BY DEF UringInv, TableHonest
<1>3. /\ failures' \in 0..MaxFailures /\ pool \in [Buf -> Nat]
      /\ bufs \in [Buf -> Chunk \cup {<<>>}] /\ SockTypeOK
  BY <1>1, <1>2 DEF TypeOK
<1>4. pool' \in [Buf -> Nat]
  <2>1. pool[b] - 1 \in Nat
    BY <1>1, <1>3
  <2>2. QED
    BY <1>1, <1>3, <2>1
<1>5. flight[i].conn \in Conn \cup {NoConn}
  BY <1>2, InFlightAsked
<1>6. CASE /\ TakeChunk(flight[i].conn)
           /\ bufs' = [bufs EXCEPT ![b] = Head(outbox[flight[i].conn])]
           /\ Ends(i, 1, b)
  <2>1. SockTypeOK' /\ Head(outbox[flight[i].conn]) \in Chunk
    BY <1>3, <1>5, <1>6, TakeType
  <2>2. Head(outbox[flight[i].conn]) # <<>>
    BY <2>1, ChunkFills
  <2>3. /\ bufs' \in [Buf -> Chunk \cup {<<>>}] /\ bufs'[b] # <<>>
        /\ \A d \in Buf : bufs[d] # <<>> => bufs'[d] # <<>>
    BY <1>3, <1>6, <2>1, <2>2
  <2>4. UNCHANGED fds
    BY <1>6 DEF TakeChunk
  <2>5. 1 \in Int
    OBVIOUS
  <2>6. QED
    BY <1>3, <1>4, <1>6, <2>1, <2>3, <2>4, <2>5, EndsKeeps
<1>7. CASE Ends(i, 0, b) /\ UNCHANGED <<sockVars, bufs>>
  <2>1. /\ bufs' = bufs /\ UNCHANGED fds /\ SockTypeOK'
        /\ bufs' \in [Buf -> Chunk \cup {<<>>}]
    BY <1>3, <1>7 DEF SockTypeOK, sockVars
  <2>2. 0 \in Int /\ ~(0 > 0)
    OBVIOUS
  <2>3. QED
    BY <1>3, <1>4, <1>7, <2>1, <2>2, EndsKeeps
<1>8. QED
  BY <1>1, <1>6, <1>7

\* accept opens a descriptor that nobody reads from yet.
LEMMA AcceptEndsKeeps ==
  ASSUME UringInv, Running, AcceptEnds
  PROVE  UringInv'
<1>1. PICK i \in InFlight("ACCEPT"), f \in FreeFds :
        AcceptAs(f) /\ Ends(i, f, 0) /\ UNCHANGED <<bufs, pool, failures>>
  BY DEF AcceptEnds
<1>2. /\ TypeOK /\ TableOK /\ RequestsInv /\ TableInv /\ AcceptArmed /\ OneReader /\ Intact
  BY DEF UringInv, TableHonest, TableOK
<1>3. /\ i \in DOMAIN flight /\ flight[i].data.type = "ACCEPT" /\ flight[i].data \in Asked
  BY <1>2, InFlightAsked DEF Good
<1>4. /\ SockTypeOK' /\ f \in Fd /\ fds[f] = NoConn
      /\ fds'[f] # NoConn /\ \A g \in Fd : g # f => fds'[g] = fds[g]
  <2>1. /\ SockTypeOK /\ fds \in [Fd -> Conn \cup {NoConn}]
    BY <1>2 DEF TypeOK, SockTypeOK
  <2>2. /\ SockTypeOK' /\ f \in Fd /\ fds[f] = NoConn /\ Head(backlog) \in Conn
        /\ fds' = [fds EXCEPT ![f] = Head(backlog)]
    BY <1>1, <2>1, AcceptType
  <2>3. QED
    BY <2>1, <2>2, ConnAssumption
<1>5. f \in Int /\ 0 \in Buf
  BY <1>4, FdAssumption, Numbers
<1>6. /\ flight' \in Seq(FlightType) /\ cq' \in Seq(CompletionType)
      /\ \A r : HowMany(r)' = HowMany(r)
      /\ \A j \in DOMAIN flight' : \E k \in DOMAIN flight : flight'[j] = flight[k]
      /\ \A j \in DOMAIN cq' : \/ cq'[j] = Completion(flight[i], f, 0)
                               \/ \E k \in DOMAIN cq : cq'[j] = cq[k]
  BY <1>1, <1>2, <1>3, <1>5, EndsCount
<1>7. \A g \in Fd : /\ Accepts(cq', g) = Accepts(cq, g) + (IF g = f THEN 1 ELSE 0)
                    /\ Accepts(cq, g) \in Nat
  <2> SUFFICES ASSUME NEW g \in Fd
               PROVE  /\ Accepts(cq', g) = Accepts(cq, g) + (IF g = f THEN 1 ELSE 0)
                      /\ Accepts(cq, g) \in Nat
    OBVIOUS
  <2>1. Accepts(cq', g) = Accepts(cq, g) + One(flight[i].data.type = "ACCEPT" /\ f = g)
    BY <1>1, <1>2, <1>3, <1>5, EndsCount
  <2>2. Accepts(cq, g) \in Nat
    BY <1>2, CountType
  <2>3. QED
    BY <1>3, <2>1, <2>2 DEF One
<1>8. UNCHANGED <<proc, pc, tableVars, sq, sqhead, bufs, pool, failures>>
  BY <1>1 DEF Ends
<1>9. TypeOK'
  BY <1>2, <1>4, <1>6, <1>8 DEF TypeOK, FlightType, CompletionType, tableVars
<1>10. AcceptArmed'
  <2>1. HowMany(Request("ACCEPT", Listener, 0))' = HowMany(Request("ACCEPT", Listener, 0))
    BY <1>6
  <2>2. QED
    BY <1>2, <2>1 DEF AcceptArmed
<1>11. OneReader'
  <2> SUFFICES ASSUME NEW g \in Fd
               PROVE  HowMany(Request("READ", g, 0))' + Accepts(cq', g)
                        = IF fds'[g] = NoConn THEN 0 ELSE 1
    BY DEF OneReader
  <2>1. /\ HowMany(Request("READ", g, 0))' = HowMany(Request("READ", g, 0))
        /\ HowMany(Request("READ", g, 0)) \in Nat
    BY <1>2, <1>6, CountType
  <2>2. HowMany(Request("READ", g, 0)) + Accepts(cq, g) = IF fds[g] = NoConn THEN 0 ELSE 1
    BY <1>2 DEF OneReader
  <2>3. QED
    BY <1>4, <1>7, <2>1, <2>2
<1>12. TableOK' /\ TableInv'
  <2>1. \A g \in Fd : fds[g] # NoConn =>
          fds'[g] # NoConn /\ Accepts(cq', g) <= Accepts(cq, g)
    BY <1>4, <1>7
  <2>2. UNCHANGED tableVars
    BY <1>8
  <2>3. QED
    BY <1>2, <1>6, <2>1, <2>2, TableKept
<1>13. RequestsInv'
  <2>1. Done(Completion(flight[i], f, 0), bufs')
    BY <1>3, <1>4, FdAssumption DEF Done, Completion
  <2>2. \A j \in DOMAIN cq' : \/ \E k \in DOMAIN cq : cq'[j] = cq[k]
                              \/ Done(cq'[j], bufs')
    BY <1>6, <2>1
  <2>3. sq' = sq /\ bufs' = bufs
    BY <1>8
  <2>4. QED
    BY <1>2, <1>6, <2>2, <2>3, RequestsStep
<1>14. Intact'
  BY <1>2, <1>8 DEF Intact
<1>15. QED
  BY <1>9, <1>10, <1>11, <1>12, <1>13, <1>14 DEF UringInv, TableHonest, TableOK

-----------------------------------------------------------------------------
(* The kernel takes the entries in order.                                   *)

LEMMA HeadTaken ==
  ASSUME TypeOK, Intact, RequestsInv, sq # <<>>
  PROVE  /\ Head(sq) \in EntryType /\ Head(sq).data = Head(sq).req
         /\ Good(Head(sq).req, bufs)
         /\ Tail(sq) \in Seq(EntryType) /\ Len(Tail(sq)) <= SqSize
         /\ \A r : Among(sq, r) = Among(Tail(sq), r) + One(Head(sq).data = r)
         /\ \A j \in DOMAIN Tail(sq) : \E k \in DOMAIN sq : Tail(sq)[j] = sq[k]
<1>1. sq \in Seq(EntryType) /\ Len(sq) <= SqSize
  BY RingType DEF TypeOK
<1>2. /\ Head(sq) = sq[1] /\ 1 \in DOMAIN sq /\ Len(Tail(sq)) = Len(sq) - 1 /\ Len(sq) \in Nat
  BY <1>1
<1>3. /\ Tail(sq) \in Seq(EntryType) /\ Head(sq) \in EntryType
      /\ \A r : Among(sq, r) = Among(Tail(sq), r) + One(Head(sq).data = r)
      /\ \A j \in DOMAIN Tail(sq) : \E k \in DOMAIN sq : Tail(sq)[j] = sq[k]
  BY <1>1, AmongTail
<1>4. Head(sq).data = Head(sq).req /\ Good(Head(sq).req, bufs)
  BY <1>2 DEF Intact, RequestsInv, Filled, Good
<1>5. QED
  BY <1>1, <1>2, <1>3, <1>4, Numbers

LEMMA HeadOn ==
  ASSUME NEW n \in 0..SqSize - 1
  PROVE  (n + 1) % SqSize \in 0..SqSize - 1
BY Numbers

\* What leaves the queue is in flight or done: nothing is lost.
LEMMA HeadCount ==
  ASSUME TypeOK, sq # <<>>, sq' = Tail(sq), NEW r,
         Among(sq, r) = Among(Tail(sq), r) + One(Head(sq).data = r),
         Tail(sq) \in Seq(EntryType), 
         Among(flight', r) + Among(cq', r)
           = Among(flight, r) + Among(cq, r) + One(Head(sq).data = r),
         Among(flight', r) \in Nat, Among(cq', r) \in Nat
  PROVE  HowMany(r)' = HowMany(r)
<1>1. Among(Tail(sq), r) \in Nat
  BY AmongType
<1>2. Among(flight, r) \in Nat /\ Among(cq, r) \in Nat
  BY CountType
<1>3. One(Head(sq).data = r) \in Nat
  BY DEF One
<1>4. HowMany(r) = Among(sq, r) + Among(flight, r) + Among(cq, r)
  BY DEF HowMany
<1>5. HowMany(r)' = Among(Tail(sq), r) + Among(flight', r) + Among(cq', r)
  BY DEF HowMany
<1>6. QED
  BY <1>1, <1>2, <1>3, <1>4, <1>5

LEMMA SubmitKeeps ==
  ASSUME UringInv, Submit
  PROVE  UringInv'
<1> DEFINE r == Head(sq)
           g == [req |-> r.req, data |-> r.data, conn |-> ConnOf(r.req.fd)]
           e == Completion(r, 1, 0)
<1>1. /\ TypeOK /\ TableOK /\ RequestsInv /\ TableInv /\ AcceptArmed /\ OneReader /\ Intact
  BY DEF UringInv, TableHonest, TableOK
<1>2. /\ Running /\ sq # <<>> /\ sq' = Tail(sq) /\ sqhead' = (sqhead + 1) % SqSize
      /\ UNCHANGED <<sockVars, proc, pc, tableVars, bufs, failures>>
      /\ \/ /\ r.req.type = "PROV_BUF"
            /\ pool' = [pool EXCEPT ![r.req.bid] = @ + 1]
            /\ cq' = Append(cq, e) /\ UNCHANGED flight
         \/ /\ r.req.type # "PROV_BUF"
            /\ flight' = Append(flight, g) /\ UNCHANGED <<pool, cq>>
  BY DEF Submit
<1>3. /\ r \in EntryType /\ r.data = r.req /\ Good(r.req, bufs)
      /\ Tail(sq) \in Seq(EntryType) /\ Len(Tail(sq)) <= SqSize
      /\ \A q : Among(sq, q) = Among(Tail(sq), q) + One(r.data = q)
      /\ \A j \in DOMAIN Tail(sq) : \E k \in DOMAIN sq : Tail(sq)[j] = sq[k]
  BY <1>1, <1>2, HeadTaken
<1>4. /\ flight \in Seq(FlightType) /\ cq \in Seq(CompletionType)
      /\ \A q : /\ Among(flight, q) \in Nat /\ Among(cq, q) \in Nat /\ Accepts(cq, q) \in Nat
  BY <1>1, RingType, CountType
<1>5. r.req \in RequestType /\ r.req.bid \in Buf
  BY <1>3, AskedType DEF Good
<1>6. g \in FlightType /\ g.data = r.data /\ g.req = r.req
  <2>1. ConnOf(r.req.fd) \in Conn \cup {NoConn}
    BY <1>1 DEF TypeOK, SockTypeOK, ConnOf
  <2>2. QED
    BY <1>3, <1>5, <2>1 DEF FlightType
<1>7. e \in CompletionType /\ e.data = r.data /\ e.res = 1
  BY <1>3, <1>5, Numbers DEF CompletionType, Completion
<1> HIDE DEF r, g, e
<1>8. /\ flight' \in Seq(FlightType) /\ cq' \in Seq(CompletionType) /\ pool' \in [Buf -> Nat]
      /\ \A q : HowMany(q)' = HowMany(q)
      /\ \A f \in Fd : Accepts(cq', f) = Accepts(cq, f)
      /\ \A j \in DOMAIN flight' : \/ \E k \in DOMAIN flight : flight'[j] = flight[k]
                                   \/ flight'[j] = g
      /\ \A j \in DOMAIN cq' : \/ \E k \in DOMAIN cq : cq'[j] = cq[k]
                               \/ cq'[j] = e /\ r.req.type = "PROV_BUF"
  <2>1. CASE /\ r.req.type = "PROV_BUF"
             /\ pool' = [pool EXCEPT ![r.req.bid] = @ + 1]
             /\ cq' = Append(cq, e) /\ UNCHANGED flight
    <3>1. /\ cq' \in Seq(CompletionType)
          /\ \A j \in DOMAIN cq' : cq'[j] = e \/ \E k \in DOMAIN cq : cq'[j] = cq[k]
          /\ \A q : Among(cq', q) = Among(cq, q) + One(r.data = q)
          /\ \A q : Accepts(cq', q)
                      = Accepts(cq, q) + One(e.data.type = "ACCEPT" /\ e.res = q)
      BY <1>4, <1>7, <2>1, AmongAppend
    <3>2. \A f \in Fd : Accepts(cq', f) = Accepts(cq, f)
      <4> SUFFICES ASSUME NEW f \in Fd
                   PROVE  Accepts(cq', f) = Accepts(cq, f)
        OBVIOUS
      <4>1. ~(e.data.type = "ACCEPT" /\ e.res = f)
        BY <1>3, <1>7, <2>1
      <4>2. QED
        BY <1>4, <3>1, <4>1 DEF One
    <3>3. ASSUME NEW q
          PROVE  HowMany(q)' = HowMany(q)
      <4>1. Among(cq', q) \in Nat
        BY <3>1, AmongType
      <4>2. Among(flight', q) = Among(flight, q)
        BY <2>1
      <4>3. One(r.data = q) \in Nat
        BY DEF One
      <4>4. Among(flight', q) + Among(cq', q)
              = Among(flight, q) + Among(cq, q) + One(r.data = q)
        BY <1>4, <3>1, <4>2, <4>3
      <4>5. QED
        BY <1>1, <1>2, <1>3, <1>4, <4>1, <4>2, <4>4, HeadCount DEF r
    <3>4. pool' \in [Buf -> Nat]
      BY <1>1, <1>5, <2>1 DEF TypeOK
    <3>5. QED
      BY <1>4, <2>1, <3>1, <3>2, <3>3, <3>4
  <2>2. CASE /\ r.req.type # "PROV_BUF"
             /\ flight' = Append(flight, g) /\ UNCHANGED <<pool, cq>>
    <3>1. /\ flight' \in Seq(FlightType)
          /\ \A j \in DOMAIN flight' : flight'[j] = g \/ \E k \in DOMAIN flight : flight'[j] = flight[k]
          /\ \A q : Among(flight', q) = Among(flight, q) + One(r.data = q)
      BY <1>4, <1>6, <2>2, AmongAppend
    <3>2. \A f \in Fd : Accepts(cq', f) = Accepts(cq, f)
      BY <2>2
    <3>3. ASSUME NEW q
          PROVE  HowMany(q)' = HowMany(q)
      <4>1. Among(flight', q) \in Nat
        BY <3>1, AmongType
      <4>2. Among(cq', q) = Among(cq, q)
        BY <2>2
      <4>3. One(r.data = q) \in Nat
        BY DEF One
      <4>4. Among(flight', q) + Among(cq', q)
              = Among(flight, q) + Among(cq, q) + One(r.data = q)
        BY <1>4, <3>1, <4>2, <4>3
      <4>5. QED
        BY <1>1, <1>2, <1>3, <1>4, <4>1, <4>2, <4>4, HeadCount DEF r
    <3>4. pool' \in [Buf -> Nat]
      BY <1>1, <2>2 DEF TypeOK
    <3>5. QED
      BY <1>4, <2>2, <3>1, <3>2, <3>3, <3>4
  <2>3. QED
    BY <1>2, <2>1, <2>2
<1>9. TypeOK'
  <2>1. sqhead' \in 0..SqSize - 1
    BY <1>1, <1>2, HeadOn DEF TypeOK
  <2>2. SockTypeOK'
    BY <1>1, <1>2 DEF TypeOK, SockTypeOK, sockVars
  <2>3. QED
    BY <1>1, <1>2, <1>3, <1>8, <2>1, <2>2
       DEF TypeOK, FlightType, CompletionType, EntryType, tableVars
<1>10. UNCHANGED fds /\ UNCHANGED tableVars /\ bufs' = bufs
  BY <1>2 DEF sockVars
<1>11. AcceptArmed' /\ OneReader'
  BY <1>1, <1>2, <1>8, <1>10, CountKept
<1>12. TableOK' /\ TableInv'
  <2>1. \A f \in Fd : fds[f] # NoConn =>
          fds'[f] # NoConn /\ Accepts(cq', f) <= Accepts(cq, f)
    BY <1>4, <1>8, <1>10
  <2>2. QED
    BY <1>1, <1>2, <1>8, <1>10, <2>1, TableKept
<1>13. RequestsInv'
  <2>1. Good(g.req, bufs') /\ g.data = g.req
    BY <1>3, <1>6, <1>10
  <2>2. r.req.type = "PROV_BUF" => Done(e, bufs')
    BY <1>3, <1>7 DEF Done, Good
  <2>3. \A j \in DOMAIN sq' : \E k \in DOMAIN sq : sq'[j] = sq[k]
    BY <1>2, <1>3
  <2>4. \A j \in DOMAIN flight' : \/ \E k \in DOMAIN flight : flight'[j] = flight[k]
                                  \/ /\ flight'[j].data = flight'[j].req
                                     /\ Good(flight'[j].req, bufs')
    BY <1>8, <2>1
  <2>5. \A j \in DOMAIN cq' : \/ \E k \in DOMAIN cq : cq'[j] = cq[k]
                              \/ Done(cq'[j], bufs')
    BY <1>8, <2>2
  <2>6. QED
    BY <1>1, <1>10, <2>3, <2>4, <2>5, RequestsStep
<1>14. Intact'
  BY <1>1, <1>2, <1>3 DEF Intact
<1>15. QED
  BY <1>9, <1>11, <1>12, <1>13, <1>14 DEF UringInv, TableHonest, TableOK

-----------------------------------------------------------------------------
(* Clients, the network, and the turns of the loop.                         *)

LEMMA OutsideKeeps ==
  ASSUME UringInv, ServerUnchanged, SockTypeOK', UNCHANGED fds
  PROVE  UringInv'
<1>1. /\ UNCHANGED <<proc, pc, clients_list, connected_clients_num, bufs, pool>>
      /\ UNCHANGED <<sq, sqhead, flight, cq, failures>>
  BY DEF ServerUnchanged, tableVars, ringVars
<1>2. TypeOK'
  BY <1>1 DEF UringInv, TableHonest, TypeOK
<1>3. TableHonest'
  BY <1>1, <1>2 DEF UringInv, TableHonest, Registered, ConnOf
<1>4. Intact' /\ RequestsInv'
  BY <1>1 DEF UringInv, Intact, RequestsInv, Filled
<1>5. TableInv' /\ AcceptArmed' /\ OneReader'
  BY <1>1 DEF UringInv, TableInv, Registered, AcceptArmed, OneReader, HowMany, Running
<1>6. QED
  BY <1>3, <1>4, <1>5 DEF UringInv

LEMMA ClientKeeps ==
  ASSUME UringInv, NEW c \in Conn, Client(c) \/ Network(c)
  PROVE  UringInv'
<1>1. SockTypeOK
  BY DEF UringInv, TableHonest, TypeOK
<1>2. /\ Connect(c) \/ Write(c) \/ Read(c) \/ Leave(c) \/ Reset(c)
      /\ ServerUnchanged
  BY DEF Client, Network
<1>3. SockTypeOK'
  BY <1>1, <1>2, ClientType
<1>4. UNCHANGED fds
  BY <1>2 DEF Connect, Write, Read, Leave, Reset
<1>5. QED
  BY <1>2, <1>3, <1>4, OutsideKeeps

LEMMA TurnKeeps ==
  ASSUME UringInv, Turn
  PROVE  UringInv'
<1>1. /\ UNCHANGED <<sockVars, proc, clients_list, connected_clients_num, bufs, pool>>
      /\ UNCHANGED <<sq, sqhead, flight, cq, failures>> /\ pc' \in {"submit", "reap"}
  BY DEF Turn, tableVars, ringVars
<1>2. UNCHANGED <<peer, backlog, fds, outbox, wrote, inbox, unread>>
  BY <1>1 DEF sockVars
<1>3. TypeOK'
  BY <1>1, <1>2 DEF UringInv, TableHonest, TypeOK, SockTypeOK
<1>4. TableHonest'
  BY <1>1, <1>2, <1>3 DEF UringInv, TableHonest, Registered, ConnOf
<1>5. Intact' /\ RequestsInv'
  BY <1>1 DEF UringInv, Intact, RequestsInv, Filled
<1>6. TableInv' /\ AcceptArmed' /\ OneReader'
  BY <1>1, <1>2 DEF UringInv, TableInv, Registered, AcceptArmed, OneReader, HowMany, Running
<1>7. QED
  BY <1>4, <1>5, <1>6 DEF UringInv

-----------------------------------------------------------------------------
(* A completion is answered with new requests.                              *)

LEMMA ReapCount ==
  ASSUME TypeOK, RequestsInv, NEW e, Reap(e)
  PROVE  /\ Running /\ e \in CompletionType /\ Done(e, bufs) /\ cq' \in Seq(CompletionType)
         /\ \A r : Among(cq, r) = Among(cq', r) + One(e.data = r) /\ Among(cq', r) \in Nat
         /\ \A f : /\ Accepts(cq, f) = Accepts(cq', f)
                                         + One(e.data.type = "ACCEPT" /\ e.res = f)
                   /\ Accepts(cq', f) \in Nat /\ Accepts(cq', f) <= Accepts(cq, f)
         /\ \A j \in DOMAIN cq' : \E k \in DOMAIN cq : cq'[j] = cq[k]
         /\ UNCHANGED <<pc, sqhead, flight, bufs, pool, failures>>
<1>1. /\ Running /\ cq # <<>> /\ e = Head(cq) /\ cq' = Tail(cq)
      /\ UNCHANGED <<pc, sqhead, flight, bufs, pool, failures>>
  BY DEF Reap
<1>2. cq \in Seq(CompletionType)
  BY RingType
<1>3. /\ cq' \in Seq(CompletionType) /\ e \in CompletionType
      /\ \A r : Among(cq, r) = Among(cq', r) + One(e.data = r)
      /\ \A f : Accepts(cq, f) = Accepts(cq', f)
                                   + One(e.data.type = "ACCEPT" /\ e.res = f)
      /\ \A j \in DOMAIN cq' : \E k \in DOMAIN cq : cq'[j] = cq[k]
  BY <1>1, <1>2, AmongTail
<1>4. \A r : Among(cq', r) \in Nat /\ Accepts(cq', r) \in Nat
  BY <1>3, AmongType
<1>5. \A f : Accepts(cq', f) <= Accepts(cq, f)
  <2> SUFFICES ASSUME NEW f
               PROVE  Accepts(cq', f) <= Accepts(cq, f)
    OBVIOUS
  <2>1. One(e.data.type = "ACCEPT" /\ e.res = f) \in Nat
    BY DEF One
  <2>2. QED
    BY <1>3, <1>4, <2>1
<1>6. Done(e, bufs)
  <2>1. e = cq[1] /\ 1 \in DOMAIN cq
    BY <1>1, <1>2
  <2>2. QED
    BY <2>1 DEF RequestsInv, Done
<1>7. QED
  BY <1>1, <1>3, <1>4, <1>5, <1>6

\* What is queued is queued as it is, unless main's own sqe points into it.
LEMMA QueueCount ==
  ASSUME TypeOK, Intact, Intact', Running, NEW entries \in Seq(EntryType), NEW over, NEW data,
         \A j \in DOMAIN entries : /\ entries[j].data = entries[j].req
                                   /\ Good(entries[j].req, bufs),
         Queue(entries, over, data)
  PROVE  /\ sq' \in Seq(EntryType) /\ Len(sq') <= SqSize /\ proc' \in {"run", "crashed"}
         /\ Running' => \A r : Among(sq', r) = Among(sq, r) + Among(entries, r)
         /\ \A j \in DOMAIN sq' : \/ \E k \in DOMAIN sq : sq'[j] = sq[k]
                                  \/ Good(sq'[j].req, bufs)
<1>1. sq \in Seq(EntryType) /\ Len(sq) <= SqSize
  BY RingType DEF TypeOK
<1>2. CASE proc' = "crashed" /\ UNCHANGED sq
  BY <1>1, <1>2 DEF Running
<1>3. CASE /\ ~(Len(sq) + Len(entries) > SqSize)
           /\ sq' = [j \in 1..Len(sq) + Len(entries) |->
                       LET e == (sq \o entries)[j] IN
                         IF over /\ (sqhead + j - 1) % SqSize = 0
                           THEN [e EXCEPT !.data = data] ELSE e]
           /\ UNCHANGED proc
  <2> DEFINE both == sq \o entries
             n == Len(sq) + Len(entries)
  <2>1. /\ both \in Seq(EntryType) /\ Len(both) = n /\ DOMAIN both = 1..n /\ n \in Nat
        /\ \A j \in 1..n : both[j] \in EntryType
        /\ \A j \in 1..n : \/ \E k \in DOMAIN sq : both[j] = sq[k]
                           \/ \E k \in DOMAIN entries : both[j] = entries[k]
    <3>1. /\ both \in Seq(EntryType)
          /\ \A j \in DOMAIN both : \/ \E k \in DOMAIN sq : both[j] = sq[k]
                                    \/ \E k \in DOMAIN entries : both[j] = entries[k]
      BY <1>1, AmongConcat
    <3>2. Len(both) = n
      BY <1>1
    <3> HIDE DEF both
    <3>3. Len(both) \in Nat /\ DOMAIN both = 1..Len(both)
      BY <3>1
    <3>4. \A j \in DOMAIN both : both[j] \in EntryType
      BY <3>1
    <3>5. QED
      BY <3>1, <3>2, <3>3, <3>4
  <2>2. ASSUME NEW j \in 1..n
        PROVE  both[j].data = both[j].req
    BY <2>1 DEF Intact
  <2>3. ASSUME NEW j \in 1..n
        PROVE  sq'[j] = both[j]
    <3>1. DOMAIN sq' = 1..n
      BY <1>3
    <3>2. sq'[j].data = sq'[j].req
      BY <3>1 DEF Intact
    <3>3. /\ both[j] \in EntryType
          /\ sq'[j] = both[j] \/ sq'[j] = [both[j] EXCEPT !.data = data]
      BY <1>3, <2>1
    <3> HIDE DEF both
    <3>4. CASE sq'[j] = [both[j] EXCEPT !.data = data]
      <4>1. /\ both[j] = [req |-> both[j].req, data |-> both[j].data]
            /\ both[j].data = both[j].req
        BY <2>2, <3>3 DEF EntryType
      <4>2. sq'[j] = [req |-> both[j].req, data |-> data]
        BY <3>4, <4>1
      <4>3. data = both[j].req
        BY <3>2, <4>2
      <4>4. QED
        BY <4>1, <4>2, <4>3
    <3>5. QED
      BY <3>3, <3>4
  <2>4. sq' = both
    <3>1. sq' = [j \in 1..n |-> sq'[j]]
      BY <1>3
    <3> HIDE DEF both
    <3>2. both = [j \in 1..n |-> both[j]]
      <4>1. both \in [1..Len(both) -> EntryType]
        BY <2>1
      <4>2. QED
        BY <2>1, <4>1
    <3>3. QED
      BY <2>3, <3>1, <3>2
  <2>5. \A r : Among(both, r) = Among(sq, r) + Among(entries, r)
    BY <1>1, AmongConcat
  <2> HIDE DEF both
  <2>6. \A j \in 1..n : \/ \E k \in DOMAIN sq : both[j] = sq[k]
                        \/ Good(both[j].req, bufs)
    BY <2>1
  <2>7. proc' \in {"run", "crashed"}
    BY <1>3 DEF Running
  <2>8. n <= SqSize
    BY <1>3, <2>1, Numbers
  <2>9. QED
    BY <2>1, <2>4, <2>5, <2>6, <2>7, <2>8
<1>4. QED
  BY <1>2, <1>3 DEF Queue

\* What is on its way once the answer is queued.
LEMMA AnswerCount ==
  ASSUME TypeOK, RequestsInv, NEW e, Reap(e), NEW entries \in Seq(EntryType), NEW r,
         Among(sq', r) = Among(sq, r) + Among(entries, r)
  PROVE  /\ HowMany(r)' + One(e.data = r) = HowMany(r) + Among(entries, r)
         /\ HowMany(r)' \in Nat /\ HowMany(r) \in Nat /\ Among(entries, r) \in Nat
<1>1. /\ Among(cq, r) = Among(cq', r) + One(e.data = r) /\ Among(cq', r) \in Nat
      /\ flight' = flight
  BY ReapCount
<1>2. Among(sq, r) \in Nat /\ Among(flight, r) \in Nat /\ HowMany(r) \in Nat
  BY CountType
<1>3. Among(entries, r) \in Nat
  BY AmongType
<1>4. One(e.data = r) \in Nat
  BY DEF One
<1>5. HowMany(r) = Among(sq, r) + Among(flight, r) + Among(cq, r)
  BY DEF HowMany
<1>6. HowMany(r)' = Among(sq', r) + Among(flight, r) + Among(cq', r)
  BY <1>1 DEF HowMany
<1>7. QED
  BY <1>1, <1>2, <1>3, <1>4, <1>5, <1>6

-----------------------------------------------------------------------------
(* The table: who joins gets a free slot, who goes leaves the one there is. *)

LEMMA RegisteredCount ==
  ASSUME NEW R \in SUBSET Slot
  PROVE  IsFiniteSet(R) /\ Cardinality(R) \in 0..MaxClient
<1>1. IsFiniteSet(Slot) /\ Cardinality(Slot) = MaxClient /\ MaxClient \in Nat
  BY Numbers
<1>2. IsFiniteSet(R) /\ Cardinality(R) <= Cardinality(Slot)
  BY <1>1, FS_Subset
<1>3. Cardinality(R) \in Nat
  BY <1>2, FS_CardinalityType
<1>4. QED
  BY <1>1, <1>2, <1>3

LEMMA AddKeeps ==
  ASSUME TypeOK, TableOK, TableInv, Running, NEW f \in Fd \cup {-1},
         client_add(f), UNCHANGED fds,
         f # -1 => fds[f] # NoConn /\ Accepts(cq, f) > 0 /\ Accepts(cq', f) = 0,
         \A g : Accepts(cq', g) \in Nat /\ Accepts(cq', g) <= Accepts(cq, g),
         cq' \in Seq(CompletionType)
  PROVE  /\ TableOK' /\ TableInv'
         /\ clients_list' \in [Slot -> [connected : BOOLEAN, fd : AnyFd]]
         /\ connected_clients_num' \in 0..MaxClient
<1>1. /\ clients_list \in [Slot -> [connected : BOOLEAN, fd : AnyFd]]
      /\ connected_clients_num \in 0..MaxClient
  BY DEF TypeOK
<1>2. CASE Registered = Slot /\ UNCHANGED tableVars
  <2>1. TableOK' /\ TableInv'
    BY <1>2, TableKept
  <2>2. QED
    BY <1>1, <1>2, <2>1 DEF tableVars
<1>3. ASSUME NEW i \in Slot \ Registered,
             clients_list' = [clients_list EXCEPT ![i] = [connected |-> TRUE, fd |-> f]],
             connected_clients_num' = connected_clients_num + 1
      PROVE  /\ TableOK' /\ TableInv'
             /\ clients_list' \in [Slot -> [connected : BOOLEAN, fd : AnyFd]]
             /\ connected_clients_num' \in 0..MaxClient
  <2>1. /\ clients_list'[i] = [connected |-> TRUE, fd |-> f]
        /\ \A j \in Slot : j # i => clients_list'[j] = clients_list[j]
        /\ clients_list' \in [Slot -> [connected : BOOLEAN, fd : AnyFd]]
    BY <1>1, <1>3 DEF AnyFd
  <2>2. Registered' = Registered \cup {i} /\ i \notin Registered
    BY <2>1 DEF Registered
  <2>3. Registered \in SUBSET Slot /\ Registered \cup {i} \in SUBSET Slot
    BY DEF Registered
  <2>4. connected_clients_num' = Cardinality(Registered') /\ connected_clients_num' \in 0..MaxClient
    <3>1. IsFiniteSet(Registered) /\ Cardinality(Registered) \in 0..MaxClient
      BY <2>3, RegisteredCount
    <3>2. Cardinality(Registered \cup {i}) = Cardinality(Registered) + 1
      BY <2>2, <3>1, FS_AddElement
    <3>3. Cardinality(Registered \cup {i}) \in 0..MaxClient
      BY <2>3, RegisteredCount
    <3>4. connected_clients_num = Cardinality(Registered)
      BY DEF TableOK
    <3>5. QED
      BY <1>3, <2>2, <3>2, <3>3, <3>4
  <2>5. \A j \in Registered : /\ clients_list[j].fd \in Fd \cup {-1}
                              /\ clients_list[j].fd # -1 =>
                                   /\ Accepts(cq, clients_list[j].fd) = 0
                                   /\ clients_list[j].fd # f
    BY DEF TableInv
  <2>6. ASSUME NEW j \in Registered', clients_list'[j].fd # -1
        PROVE  /\ ConnOf(clients_list[j].fd)' # NoConn
               /\ \A k \in Registered' : clients_list'[k].fd = clients_list'[j].fd => k = j
    <3>1. j \in Slot /\ (j = i \/ j \in Registered)
      BY <2>2, <2>3
    <3>2. CASE j = i
      <4>1. clients_list'[j].fd = f /\ f \in Fd /\ fds'[f] # NoConn
        BY <2>1, <2>6, <3>2
      <4>2. \A k \in Registered : clients_list'[k].fd # f
        BY <2>1, <2>2, <2>3, <2>5, <4>1, FdAssumption
      <4>3. QED
        BY <2>2, <3>2, <4>1, <4>2 DEF ConnOf
    <3>3. CASE j \in Registered /\ j # i
      <4>1. clients_list'[j].fd = clients_list[j].fd /\ clients_list[j].fd # f
        BY <2>1, <2>5, <2>6, <3>1, <3>3
      <4>2. /\ ConnOf(clients_list[j].fd) # NoConn
            /\ \A k \in Registered : clients_list[k].fd = clients_list[j].fd => k = j
        BY <2>6, <3>3, <4>1 DEF TableOK
      <4>3. \A k \in Registered : clients_list'[k] = clients_list[k]
        BY <2>1, <2>2, <2>3
      <4>4. QED
        BY <2>1, <2>2, <4>1, <4>2, <4>3 DEF ConnOf
    <3>4. QED
      BY <3>1, <3>2, <3>3
  <2>7. TableOK'
    BY <2>4, <2>6 DEF TableOK
  <2>8. TableInv'
    <3> SUFFICES ASSUME NEW j \in Registered'
                 PROVE  /\ clients_list'[j].fd \in Fd \cup {-1}
                        /\ Accepts(cq', clients_list'[j].fd) = 0 \/ clients_list'[j].fd = -1
      BY DEF TableInv
    <3>1. CASE j = i
      BY <2>1, <3>1
    <3>2. CASE j \in Registered /\ j # i
      <4>1. clients_list'[j] = clients_list[j]
        BY <2>1, <2>3, <3>2
      <4>2. Accepts(cq', clients_list[j].fd) \in Nat
        OBVIOUS
      <4>3. QED
        BY <2>5, <3>2, <4>1, <4>2
    <3>3. QED
      BY <2>2, <3>1, <3>2
  <2>9. QED
    BY <2>1, <2>4, <2>7, <2>8
<1>4. QED
  BY <1>2, <1>3 DEF client_add

LEMMA DestroyKeeps ==
  ASSUME TypeOK, TableOK, TableInv, Running, NEW f \in Fd,
         client_destroy(f), CloseFd(f),
         \A g : Accepts(cq', g) \in Nat /\ Accepts(cq', g) <= Accepts(cq, g)
  PROVE  /\ TableOK' /\ TableInv'
         /\ clients_list' \in [Slot -> [connected : BOOLEAN, fd : AnyFd]]
         /\ connected_clients_num' \in 0..MaxClient
<1> DEFINE mine == {i \in Registered : clients_list[i].fd = f}
<1>1. /\ clients_list \in [Slot -> [connected : BOOLEAN, fd : AnyFd]]
      /\ connected_clients_num \in 0..MaxClient
      /\ f # -1 /\ \A g \in Fd : g # f => fds'[g] = fds[g]
  BY FdAssumption DEF TypeOK, CloseFd
\* What holds of the slots that stay is that they were there, and are not f's.
<1>2. ASSUME Registered' \subseteq Registered,
             \A i \in Registered' : clients_list'[i].fd = clients_list[i].fd
                                    /\ clients_list[i].fd # f,
             connected_clients_num' = Cardinality(Registered')
      PROVE  TableOK' /\ TableInv'
  <2>1. ASSUME NEW j \in Registered', clients_list'[j].fd # -1
        PROVE  /\ ConnOf(clients_list[j].fd)' # NoConn
               /\ \A k \in Registered' : clients_list'[k].fd = clients_list'[j].fd => k = j
    <3>1. j \in Registered /\ clients_list'[j].fd = clients_list[j].fd /\ clients_list[j].fd # f
      BY <1>2
    <3>2. /\ ConnOf(clients_list[j].fd) # NoConn
          /\ \A k \in Registered : clients_list[k].fd = clients_list[j].fd => k = j
      BY <2>1, <3>1 DEF TableOK
    <3>3. QED
      BY <1>1, <1>2, <3>1, <3>2 DEF ConnOf
  <2>2. ASSUME NEW j \in Registered'
        PROVE  /\ clients_list'[j].fd \in Fd \cup {-1}
               /\ Accepts(cq', clients_list'[j].fd) = 0 \/ clients_list'[j].fd = -1
    <3>1. j \in Registered /\ clients_list'[j].fd = clients_list[j].fd
      BY <1>2
    <3>2. /\ clients_list[j].fd \in Fd \cup {-1}
          /\ Accepts(cq, clients_list[j].fd) = 0 \/ clients_list[j].fd = -1
      BY <3>1 DEF TableInv
    <3>3. Accepts(cq', clients_list[j].fd) \in Nat
      OBVIOUS
    <3>4. QED
      BY <3>1, <3>2, <3>3
  <2>3. QED
    BY <1>2, <2>1, <2>2 DEF TableOK, TableInv
<1>3. CASE mine = {} /\ UNCHANGED tableVars
  <2>1. clients_list' = clients_list /\ connected_clients_num' = connected_clients_num
    BY <1>3 DEF tableVars
  <2>2. Registered' = Registered /\ \A i \in Registered : clients_list[i].fd # f
    BY <1>3, <2>1 DEF Registered
  <2>3. connected_clients_num' = Cardinality(Registered')
    BY <2>1, <2>2 DEF TableOK
  <2>4. QED
    BY <1>1, <1>2, <2>1, <2>2, <2>3
<1>4. ASSUME NEW i \in mine,
             clients_list' = [clients_list EXCEPT ![i].connected = FALSE],
             connected_clients_num' = connected_clients_num - 1
      PROVE  /\ TableOK' /\ TableInv'
             /\ clients_list' \in [Slot -> [connected : BOOLEAN, fd : AnyFd]]
             /\ connected_clients_num' \in 0..MaxClient
  <2>1. i \in Registered /\ i \in Slot /\ clients_list[i].fd = f
    BY DEF Registered
  <2>2. /\ clients_list' \in [Slot -> [connected : BOOLEAN, fd : AnyFd]]
        /\ clients_list'[i].connected = FALSE
        /\ \A j \in Slot : j # i => clients_list'[j] = clients_list[j]
    BY <1>1, <1>4, <2>1
  <2>3. Registered' = Registered \ {i}
    BY <2>1, <2>2 DEF Registered
  <2>4. \A j \in Registered : j # i => clients_list[j].fd # f
    BY <1>1, <2>1 DEF TableOK
  <2>5. connected_clients_num' = Cardinality(Registered') /\ connected_clients_num' \in 0..MaxClient
    <3>1. Registered \in SUBSET Slot /\ Registered \ {i} \in SUBSET Slot
      BY DEF Registered
    <3>2. IsFiniteSet(Registered) /\ Cardinality(Registered) \in 0..MaxClient
      BY <3>1, RegisteredCount
    <3>3. Cardinality(Registered \ {i}) = Cardinality(Registered) - 1
      BY <2>1, <3>2, FS_RemoveElement
    <3>4. Cardinality(Registered \ {i}) \in 0..MaxClient
      BY <3>1, RegisteredCount
    <3>5. connected_clients_num = Cardinality(Registered)
      BY DEF TableOK
    <3>6. QED
      BY <1>4, <2>3, <3>3, <3>4, <3>5
  <2>6. /\ Registered' \subseteq Registered
        /\ \A j \in Registered' : clients_list'[j].fd = clients_list[j].fd
                                  /\ clients_list[j].fd # f
    <3>1. \A j \in Registered : j \in Slot
      BY DEF Registered
    <3>2. QED
      BY <2>2, <2>3, <2>4, <3>1
  <2>7. TableOK' /\ TableInv'
    BY <1>2, <2>5, <2>6
  <2>8. QED
    BY <2>2, <2>5, <2>7
<1>5. QED
  BY <1>1, <1>3, <1>4 DEF client_destroy

-----------------------------------------------------------------------------
(* Every answer balances what it answers.                                   *)

Armed == Request("ACCEPT", Listener, 0)
ReadOf(f) == Request("READ", f, 0)

LEMMA AnswerKeeps ==
  ASSUME UringInv, Intact', NEW e, Reap(e), NEW entries \in Seq(EntryType),
         sq' \in Seq(EntryType), Len(sq') <= SqSize, proc' \in {"run", "crashed"},
         Running' => \A r : Among(sq', r) = Among(sq, r) + Among(entries, r),
         \A j \in DOMAIN sq' : \/ \E k \in DOMAIN sq : sq'[j] = sq[k]
                               \/ Good(sq'[j].req, bufs),
         SockTypeOK', TableOK', TableInv',
         clients_list' \in [Slot -> [connected : BOOLEAN, fd : AnyFd]],
         connected_clients_num' \in 0..MaxClient,
         Among(entries, Armed) = One(e.data = Armed),
         \A f \in Fd : Among(entries, ReadOf(f)) + One(fds[f] # NoConn)
                         = One(fds'[f] # NoConn) + One(e.data = ReadOf(f))
                             + One(e.data.type = "ACCEPT" /\ e.res = f)
  PROVE  UringInv'
<1>1. /\ TypeOK /\ TableOK /\ RequestsInv /\ TableInv /\ AcceptArmed /\ OneReader /\ Intact
  BY DEF UringInv, TableHonest, TableOK
<1>2. /\ Running /\ e \in CompletionType /\ cq' \in Seq(CompletionType)
      /\ \A f : /\ Accepts(cq, f) = Accepts(cq', f)
                                      + One(e.data.type = "ACCEPT" /\ e.res = f)
                /\ Accepts(cq', f) \in Nat
      /\ \A j \in DOMAIN cq' : \E k \in DOMAIN cq : cq'[j] = cq[k]
      /\ UNCHANGED <<pc, sqhead, flight, bufs, pool, failures>>
  BY <1>1, ReapCount
<1>3. TypeOK'
  BY <1>1, <1>2 DEF TypeOK, EntryType, FlightType, CompletionType
<1>4. RequestsInv'
  BY <1>1, <1>2, RequestsStep
<1>5. AcceptArmed'
  <2> SUFFICES ASSUME Running'
               PROVE  HowMany(Armed)' = 1
    BY DEF AcceptArmed, Armed
  <2>1. /\ HowMany(Armed)' + One(e.data = Armed) = HowMany(Armed) + Among(entries, Armed)
        /\ HowMany(Armed)' \in Nat /\ HowMany(Armed) \in Nat /\ Among(entries, Armed) \in Nat
    BY <1>1, AnswerCount
  <2>2. HowMany(Armed) = 1
    BY <1>1, <1>2 DEF AcceptArmed, Armed
  <2>3. QED
    BY <2>1, <2>2
<1>6. OneReader'
  <2> SUFFICES ASSUME Running', NEW f \in Fd
               PROVE  HowMany(ReadOf(f))' + Accepts(cq', f) = IF fds'[f] = NoConn THEN 0 ELSE 1
    BY DEF OneReader, ReadOf
  <2> DEFINE o == One(e.data = ReadOf(f))
             a == One(e.data.type = "ACCEPT" /\ e.res = f)
             n == HowMany(ReadOf(f))'
             m == HowMany(ReadOf(f))
             k == Among(entries, ReadOf(f))
             x == Accepts(cq', f)
             y == Accepts(cq, f)
  <2>1. n + o = m + k /\ n \in Nat /\ m \in Nat /\ k \in Nat
    BY <1>1, AnswerCount
  <2>2. m + y = One(fds[f] # NoConn)
    BY <1>1, <1>2 DEF OneReader, ReadOf, One
  <2>3. y = x + a /\ x \in Nat
    BY <1>2
  <2>4. k + One(fds[f] # NoConn) = One(fds'[f] # NoConn) + o + a
    OBVIOUS
  <2>5. o \in Nat /\ a \in Nat /\ One(fds[f] # NoConn) \in Nat /\ One(fds'[f] # NoConn) \in Nat
    BY DEF One
  <2> HIDE DEF o, a, n, m, k, x, y
  <2>6. n + x = One(fds'[f] # NoConn)
    BY <2>1, <2>2, <2>3, <2>4, <2>5
  <2>7. QED
    BY <2>6 DEF One, n, x
<1>7. QED
  BY <1>1, <1>3, <1>4, <1>5, <1>6 DEF UringInv, TableHonest, TableOK

\* Counting short answers.
LEMMA AmongShort ==
  ASSUME NEW r
  PROVE  /\ Among(<<>>, r) = 0
         /\ \A x \in EntryType : <<x>> \in Seq(EntryType) /\ Among(<<x>>, r) = One(x.data = r)
         /\ \A x, y \in EntryType : /\ <<x, y>> \in Seq(EntryType)
                                    /\ Among(<<x, y>>, r) = One(x.data = r) + One(y.data = r)
<1> USE DEF One
<1>1. <<>> \in Seq(EntryType) /\ Among(<<>>, r) = 0
  <2>1. {i \in DOMAIN <<>> : <<>>[i].data = r} = {}
    OBVIOUS
  <2>2. QED
    BY <2>1, FS_EmptySet DEF Among
<1>2. ASSUME NEW x \in EntryType
      PROVE  <<x>> \in Seq(EntryType) /\ Among(<<x>>, r) = One(x.data = r)
  <2> DEFINE D == {d \in EntryType : d.data = r}
  <2>1. <<x>> \in Seq(EntryType) /\ (x \in D <=> x.data = r)
    OBVIOUS
  <2>2. Among(<<x>>, r) = NumberOf(<<x>>, D)
    BY <2>1, AmongIs
  <2> HIDE DEF D
  <2>3. NumberOf(<<x>>, D) = IF x \in D THEN 1 ELSE 0
    BY NumberOne
  <2>4. QED
    BY <2>1, <2>2, <2>3
<1>3. ASSUME NEW x \in EntryType, NEW y \in EntryType
      PROVE  /\ <<x, y>> \in Seq(EntryType)
             /\ Among(<<x, y>>, r) = One(x.data = r) + One(y.data = r)
  <2> DEFINE s == <<x, y>>
  <2>1. s \in Seq(EntryType) /\ s # <<>> /\ Head(s) = x /\ Tail(s) = <<y>>
    OBVIOUS
  <2> HIDE DEF s
  <2>2. Among(s, r) = Among(Tail(s), r) + One(Head(s).data = r)
    BY <2>1, AmongTail
  <2>3. Among(<<y>>, r) = One(y.data = r)
    BY <1>2
  <2>4. QED
    BY <2>1, <2>2, <2>3 DEF s
<1>4. QED
  BY <1>1, <1>2, <1>3

LEMMA ReapProvidedKeeps ==
  ASSUME UringInv, Intact', ReapProvided
  PROVE  UringInv'
<1>1. PICK e : /\ Reap(e) /\ e.data.type = "PROV_BUF"
               /\ UNCHANGED <<sockVars, proc, tableVars, sq>>
  BY DEF ReapProvided
<1>2. /\ TypeOK /\ TableOK /\ RequestsInv /\ TableInv
  BY DEF UringInv, TableHonest, TableOK
<1>3. /\ Running /\ cq' \in Seq(CompletionType)
      /\ \A f : Accepts(cq', f) <= Accepts(cq, f)
  BY <1>1, <1>2, ReapCount
<1>4. /\ UNCHANGED fds /\ UNCHANGED tableVars /\ sq' = sq /\ proc' = proc
      /\ UNCHANGED <<clients_list, connected_clients_num>>
      /\ UNCHANGED <<peer, backlog, outbox, wrote, inbox, unread>>
  BY <1>1 DEF sockVars, tableVars
<1>5. SockTypeOK'
  BY <1>2, <1>4 DEF TypeOK, SockTypeOK
<1>6. TableOK' /\ TableInv'
  BY <1>2, <1>3, <1>4, TableKept
<1>7. e.data # Armed /\ \A f \in Fd : e.data # ReadOf(f)
  BY <1>1 DEF Armed, ReadOf, Request
<1>8. /\ sq' \in Seq(EntryType) /\ Len(sq') <= SqSize /\ proc' \in {"run", "crashed"}
      /\ <<>> \in Seq(EntryType)
  BY <1>2, <1>4 DEF TypeOK, EntryType
<1>9. \A r : Among(<<>>, r) = 0 /\ Among(sq', r) = Among(sq, r) + 0
  BY <1>2, <1>4, AmongShort, CountType
<1>10. /\ clients_list' \in [Slot -> [connected : BOOLEAN, fd : AnyFd]]
       /\ connected_clients_num' \in 0..MaxClient
  BY <1>2, <1>4 DEF TypeOK
<1>11. Among(<<>>, Armed) = One(e.data = Armed)
  BY <1>7, <1>9 DEF One
<1>12. \A f \in Fd : Among(<<>>, ReadOf(f)) + One(fds[f] # NoConn)
                       = One(fds'[f] # NoConn) + One(e.data = ReadOf(f))
                           + One(e.data.type = "ACCEPT" /\ e.res = f)
  BY <1>1, <1>4, <1>7, <1>9 DEF One
<1> DEFINE entries == <<>>
<1>13. /\ entries \in Seq(EntryType) /\ Among(entries, Armed) = One(e.data = Armed)
       /\ \A r : Among(sq', r) = Among(sq, r) + Among(entries, r)
       /\ \A f \in Fd : Among(entries, ReadOf(f)) + One(fds[f] # NoConn)
                          = One(fds'[f] # NoConn) + One(e.data = ReadOf(f))
                              + One(e.data.type = "ACCEPT" /\ e.res = f)
  BY <1>8, <1>9, <1>11, <1>12
<1> HIDE DEF entries
<1>14. QED
  BY <1>1, <1>4, <1>5, <1>6, <1>8, <1>10, <1>13, AnswerKeeps

\* Entries are requests as main makes them.
LEMMA EntryIs ==
  ASSUME NEW r \in Asked
  PROVE  Entry(r) \in EntryType /\ Entry(r).data = r /\ Entry(r).req = r
BY AskedType DEF Entry, EntryType

LEMMA AskedFor ==
  /\ Armed \in Asked /\ \A f \in Fd : ReadOf(f) \in Asked /\ ReadOf(f) # Armed
  /\ \A b \in Buf : /\ Request("PROV_BUF", 0, b) \in Asked
                    /\ Request("PROV_BUF", 0, b) # Armed
                    /\ \A f \in Fd : Request("PROV_BUF", 0, b) # ReadOf(f)
  /\ \A g \in AnyFd, b \in Buf : /\ Request("WRITE", g, b) \in Asked
                                 /\ Request("WRITE", g, b) # Armed
                                 /\ \A f \in Fd : Request("WRITE", g, b) # ReadOf(f)
  /\ \A f, g \in Fd : ReadOf(f) = ReadOf(g) => f = g
<1>1. Armed \in Asked /\ \A f \in Fd : ReadOf(f) \in Asked /\ ReadOf(f) # Armed
  <2>1. Armed \in Asked
    BY DEF Asked, Armed
  <2>2. \A f \in Fd : ReadOf(f) \in Asked
    BY DEF Asked, ReadOf
  <2>3. \A f \in Fd : ReadOf(f) # Armed
    BY DEF Armed, ReadOf, Request
  <2>4. QED
    BY <2>1, <2>2, <2>3
<1>2. ASSUME NEW b \in Buf
      PROVE  /\ Request("PROV_BUF", 0, b) \in Asked
             /\ Request("PROV_BUF", 0, b) # Armed
             /\ \A f \in Fd : Request("PROV_BUF", 0, b) # ReadOf(f)
  <2>1. Request("PROV_BUF", 0, b) \in Asked
    BY DEF Asked
  <2>2. /\ Request("PROV_BUF", 0, b) # Armed
        /\ \A f \in Fd : Request("PROV_BUF", 0, b) # ReadOf(f)
    BY DEF Armed, ReadOf, Request
  <2>3. QED
    BY <2>1, <2>2
<1>3. ASSUME NEW g \in AnyFd, NEW b \in Buf
      PROVE  /\ Request("WRITE", g, b) \in Asked
             /\ Request("WRITE", g, b) # Armed
             /\ \A f \in Fd : Request("WRITE", g, b) # ReadOf(f)
  <2>1. Request("WRITE", g, b) \in Asked
    BY DEF Asked
  <2>2. /\ Request("WRITE", g, b) # Armed
        /\ \A f \in Fd : Request("WRITE", g, b) # ReadOf(f)
    BY DEF Armed, ReadOf, Request
  <2>3. QED
    BY <2>1, <2>2
<1>4. \A f, g \in Fd : ReadOf(f) = ReadOf(g) => f = g
  BY DEF ReadOf, Request
<1>5. QED
  BY <1>1, <1>2, <1>3, <1>4

\* A descriptor that is read from, or that was just accepted, is open.
LEMMA ReaderOpen ==
  ASSUME UringInv, NEW e, Reap(e), NEW f \in Fd,
         e.data = ReadOf(f) \/ (e.data.type = "ACCEPT" /\ e.res = f)
  PROVE  /\ fds[f] # NoConn
         /\ e.data.type = "ACCEPT" => Accepts(cq, f) > 0 /\ Accepts(cq', f) = 0
<1>1. TypeOK /\ RequestsInv /\ OneReader
  BY DEF UringInv, TableHonest
<1>2. /\ Running /\ Among(cq, ReadOf(f)) = Among(cq', ReadOf(f)) + One(e.data = ReadOf(f))
      /\ Accepts(cq, f) = Accepts(cq', f) + One(e.data.type = "ACCEPT" /\ e.res = f)
      /\ Among(cq', ReadOf(f)) \in Nat /\ Accepts(cq', f) \in Nat
  BY <1>1, ReapCount
<1>3. /\ Among(sq, ReadOf(f)) \in Nat /\ Among(flight, ReadOf(f)) \in Nat
      /\ HowMany(ReadOf(f)) = Among(sq, ReadOf(f)) + Among(flight, ReadOf(f)) + Among(cq, ReadOf(f))
  BY <1>1, CountType DEF HowMany
<1>4. HowMany(ReadOf(f)) + Accepts(cq, f) = IF fds[f] = NoConn THEN 0 ELSE 1
  BY <1>1, <1>2 DEF OneReader, ReadOf
<1>5. CASE e.data = ReadOf(f)
  <2>1. e.data.type # "ACCEPT"
    BY <1>5 DEF ReadOf, Request
  <2>2. Among(cq, ReadOf(f)) = Among(cq', ReadOf(f)) + 1 /\ Accepts(cq, f) \in Nat
    BY <1>1, <1>2, <1>5, CountType DEF One
  <2>3. QED
    BY <1>2, <1>3, <1>4, <2>1, <2>2
<1>6. CASE e.data.type = "ACCEPT" /\ e.res = f
  <2>1. Accepts(cq, f) = Accepts(cq', f) + 1 /\ Among(cq, ReadOf(f)) \in Nat
    BY <1>1, <1>2, <1>6, CountType DEF One
  <2>2. QED
    BY <1>2, <1>3, <1>4, <2>1
<1>7. QED
  BY <1>5, <1>6

LEMMA ReapAcceptKeeps ==
  ASSUME UringInv, Intact', ReapAccept
  PROVE  UringInv'
<1>1. PICK e : /\ Reap(e) /\ e.data.type = "ACCEPT"
               /\ QueueAll(AfterAccept(e.res)) /\ client_add(e.res) /\ UNCHANGED sockVars
  BY DEF ReapAccept
<1> DEFINE entries == AfterAccept(e.res)
<1>2. /\ TypeOK /\ TableOK /\ RequestsInv /\ TableInv /\ Intact
  BY DEF UringInv, TableHonest, TableOK
<1>3. /\ Running /\ Done(e, bufs) /\ cq' \in Seq(CompletionType)
      /\ \A f : Accepts(cq', f) <= Accepts(cq, f) /\ Accepts(cq', f) \in Nat
  BY <1>1, <1>2, ReapCount
<1>4. /\ e.data = Armed /\ e.res \in Fd \cup {-1}
  BY <1>1, <1>3, AskedType DEF Done, Armed
<1>5. /\ UNCHANGED fds /\ SockTypeOK'
  BY <1>1, <1>2 DEF sockVars, TypeOK, SockTypeOK
<1>6. /\ TableOK' /\ TableInv'
      /\ clients_list' \in [Slot -> [connected : BOOLEAN, fd : AnyFd]]
      /\ connected_clients_num' \in 0..MaxClient
  <2>1. e.res # -1 => /\ fds[e.res] # NoConn /\ Accepts(cq, e.res) > 0
                      /\ Accepts(cq', e.res) = 0
    <3> SUFFICES ASSUME e.res \in Fd
                 PROVE  /\ fds[e.res] # NoConn /\ Accepts(cq, e.res) > 0
                        /\ Accepts(cq', e.res) = 0
      BY <1>4
    <3>1. QED
      BY <1>1, ReaderOpen
  <2>2. QED
    BY <1>1, <1>2, <1>3, <1>4, <1>5, <2>1, AddKeeps
<1>7. add_accept \in EntryType /\ add_accept.data = Armed /\ add_accept.req = Armed
  BY AskedFor, EntryIs DEF add_accept, Armed
<1>8. Good(Armed, bufs)
  BY AskedFor DEF Good, Armed, Request
<1>9. /\ entries \in Seq(EntryType) /\ Among(entries, Armed) = 1
      /\ \A j \in DOMAIN entries : entries[j].data = entries[j].req /\ Good(entries[j].req, bufs)
      /\ \A f \in Fd : Among(entries, ReadOf(f)) = One(e.res = f)
  <2>1. CASE e.res = -1
    <3>1. entries = <<add_accept>>
      BY <2>1 DEF AfterAccept
    <3>2. /\ <<add_accept>> \in Seq(EntryType)
          /\ \A r : Among(<<add_accept>>, r) = One(add_accept.data = r)
      BY <1>7, AmongShort
    <3>3. \A f \in Fd : e.res # f
      BY <2>1, FdAssumption
    <3>4. \A j \in DOMAIN <<add_accept>> : <<add_accept>>[j] = add_accept
      OBVIOUS
    <3> HIDE DEF entries
    <3>5. \A f \in Fd : Among(entries, ReadOf(f)) = One(e.res = f)
      BY <1>7, <3>1, <3>2, <3>3, AskedFor DEF One
    <3>6. Among(entries, Armed) = 1
      BY <1>7, <3>1, <3>2 DEF One
    <3>7. QED
      BY <1>7, <1>8, <3>1, <3>2, <3>4, <3>5, <3>6
  <2>2. CASE e.res \in Fd
    <3> DEFINE read == add_socket_read(e.res)
    <3>1. entries = <<read, add_accept>>
      <4>1. e.res >= 0
        <5>1. \A f \in Fd : f \in Nat
          BY FdAssumption
        <5>2. e.res \in Nat
          BY <2>2, <5>1
        <5>3. QED
          BY <5>2
      <4>2. QED
        BY <4>1 DEF AfterAccept
    <3>2. /\ read \in EntryType /\ read.data = ReadOf(e.res) /\ read.req = ReadOf(e.res)
      BY <2>2, AskedFor, EntryIs DEF add_socket_read, ReadOf
    <3>3. Good(ReadOf(e.res), bufs)
      BY <2>2, AskedFor DEF Good, ReadOf, Request
    <3> HIDE DEF read
    <3>4. /\ <<read, add_accept>> \in Seq(EntryType)
          /\ \A r : Among(<<read, add_accept>>, r) = One(read.data = r) + One(add_accept.data = r)
      BY <1>7, <3>2, AmongShort
    <3>5. \A j \in DOMAIN <<read, add_accept>> :
            <<read, add_accept>>[j] = read \/ <<read, add_accept>>[j] = add_accept
      OBVIOUS
    <3> HIDE DEF entries
    <3>6. \A f \in Fd : Among(entries, ReadOf(f)) = One(e.res = f)
      BY <1>7, <2>2, <3>1, <3>2, <3>4, AskedFor DEF One
    <3>7. Among(entries, Armed) = 1
      BY <1>7, <2>2, <3>1, <3>2, <3>4, AskedFor DEF One
    <3>8. QED
      BY <1>7, <1>8, <3>1, <3>2, <3>3, <3>4, <3>5, <3>6, <3>7
  <2>3. QED
    BY <1>4, <2>1, <2>2
<1>10. Queue(entries, FALSE, <<>>)
  BY <1>1 DEF QueueAll
<1> HIDE DEF entries
<1>11. /\ sq' \in Seq(EntryType) /\ Len(sq') <= SqSize /\ proc' \in {"run", "crashed"}
       /\ Running' => \A r : Among(sq', r) = Among(sq, r) + Among(entries, r)
       /\ \A j \in DOMAIN sq' : \/ \E k \in DOMAIN sq : sq'[j] = sq[k]
                                \/ Good(sq'[j].req, bufs)
  BY <1>2, <1>3, <1>9, <1>10, QueueCount
<1>12. Among(entries, Armed) = One(e.data = Armed)
  BY <1>4, <1>9 DEF One
<1>13. \A f \in Fd : Among(entries, ReadOf(f)) + One(fds[f] # NoConn)
                       = One(fds'[f] # NoConn) + One(e.data = ReadOf(f))
                           + One(e.data.type = "ACCEPT" /\ e.res = f)
  BY <1>1, <1>4, <1>5, <1>9, AskedFor DEF One
<1>14. QED
  BY <1>1, <1>5, <1>6, <1>9, <1>11, <1>12, <1>13, AnswerKeeps

\* Giving a buffer back reads from nobody.
LEMMA GiveBack ==
  ASSUME NEW b \in Buf
  PROVE  LET entries == <<add_provide_buf(b)>> IN
           /\ entries \in Seq(EntryType) /\ Among(entries, Armed) = 0
           /\ \A j \in DOMAIN entries : entries[j].data = entries[j].req /\ Good(entries[j].req, bufs)
           /\ \A f \in Fd : Among(entries, ReadOf(f)) = 0
<1> DEFINE x == add_provide_buf(b)
           r == Request("PROV_BUF", 0, b)
<1>1. x \in EntryType /\ x.data = r /\ x.req = r /\ r # Armed /\ \A f \in Fd : r # ReadOf(f)
  BY AskedFor, EntryIs DEF add_provide_buf
<1>2. Good(r, bufs)
  BY AskedFor DEF Good, Request
<1> HIDE DEF x, r
<1>3. <<x>> \in Seq(EntryType) /\ \A q : Among(<<x>>, q) = One(x.data = q)
  BY <1>1, AmongShort
<1>4. \A j \in DOMAIN <<x>> : <<x>>[j] = x
  OBVIOUS
<1>5. /\ Among(<<x>>, Armed) = 0 /\ \A f \in Fd : Among(<<x>>, ReadOf(f)) = 0
  BY <1>1, <1>3 DEF One
<1>6. QED
  BY <1>1, <1>2, <1>3, <1>4, <1>5 DEF x

\* The client of the descriptor is gone: its slot, its descriptor and its read are too.
LEMMA ReapEndKeeps ==
  ASSUME UringInv, Intact', ReapEnd
  PROVE  UringInv'
<1>1. PICK e : /\ Reap(e) /\ e.data.type = "READ"
               /\ QueueAll(<<add_provide_buf(e.bid)>>)
               /\ CloseFd(e.data.fd) /\ client_destroy(e.data.fd)
  BY DEF ReapEnd
<1> DEFINE f == e.data.fd
           entries == <<add_provide_buf(e.bid)>>
<1>2. /\ TypeOK /\ TableOK /\ RequestsInv /\ TableInv /\ Intact
  BY DEF UringInv, TableHonest, TableOK
<1>3. /\ Running /\ Done(e, bufs) /\ e \in CompletionType
      /\ \A g : Accepts(cq', g) <= Accepts(cq, g) /\ Accepts(cq', g) \in Nat
  BY <1>1, <1>2, ReapCount
<1>4. /\ f \in Fd /\ e.data = ReadOf(f) /\ e.bid \in Buf
  BY <1>1, <1>3, AskedType DEF Done, ReadOf, CompletionType
<1>5. fds[f] # NoConn
  BY <1>1, <1>4, ReaderOpen
<1>6. /\ SockTypeOK' /\ fds'[f] = NoConn /\ \A g \in Fd : g # f => fds'[g] = fds[g]
  <2>1. SockTypeOK'
    BY <1>1, <1>2, CloseType DEF TypeOK
  <2>2. QED
    BY <1>1, <1>4, <2>1 DEF CloseFd
<1>7. /\ TableOK' /\ TableInv'
      /\ clients_list' \in [Slot -> [connected : BOOLEAN, fd : AnyFd]]
      /\ connected_clients_num' \in 0..MaxClient
  BY <1>1, <1>2, <1>3, <1>4, DestroyKeeps
<1>8. /\ entries \in Seq(EntryType) /\ Among(entries, Armed) = 0
      /\ \A j \in DOMAIN entries : entries[j].data = entries[j].req /\ Good(entries[j].req, bufs)
      /\ \A g \in Fd : Among(entries, ReadOf(g)) = 0
  BY <1>4, GiveBack
<1>9. Queue(entries, FALSE, <<>>)
  BY <1>1 DEF QueueAll
<1> HIDE DEF entries
<1>10. /\ sq' \in Seq(EntryType) /\ Len(sq') <= SqSize /\ proc' \in {"run", "crashed"}
       /\ Running' => \A r : Among(sq', r) = Among(sq, r) + Among(entries, r)
       /\ \A j \in DOMAIN sq' : \/ \E k \in DOMAIN sq : sq'[j] = sq[k]
                                \/ Good(sq'[j].req, bufs)
  BY <1>2, <1>3, <1>8, <1>9, QueueCount
<1>11. Among(entries, Armed) = One(e.data = Armed)
  BY <1>4, <1>8, AskedFor DEF One
<1>12. \A g \in Fd : Among(entries, ReadOf(g)) + One(fds[g] # NoConn)
                       = One(fds'[g] # NoConn) + One(e.data = ReadOf(g))
                           + One(e.data.type = "ACCEPT" /\ e.res = g)
  <2> HIDE DEF f
  <2> SUFFICES ASSUME NEW g \in Fd
               PROVE  Among(entries, ReadOf(g)) + One(fds[g] # NoConn)
                        = One(fds'[g] # NoConn) + One(e.data = ReadOf(g))
                            + One(e.data.type = "ACCEPT" /\ e.res = g)
    OBVIOUS
  <2>1. e.data = ReadOf(g) <=> g = f
    BY <1>4, AskedFor
  <2>2. QED
    BY <1>1, <1>5, <1>6, <1>8, <2>1 DEF One
<1>13. QED
  BY <1>1, <1>6, <1>7, <1>8, <1>10, <1>11, <1>12, AnswerKeeps

\* Steps that touch neither the sockets nor the table.
LEMMA QueuedKeeps ==
  ASSUME UringInv, Intact', NEW e, Reap(e), UNCHANGED <<sockVars, tableVars>>,
         e.data.type # "ACCEPT",
         NEW entries \in Seq(EntryType), NEW over, NEW data, Queue(entries, over, data),
         \A j \in DOMAIN entries : entries[j].data = entries[j].req /\ Good(entries[j].req, bufs),
         Among(entries, Armed) = 0,
         \A f \in Fd : Among(entries, ReadOf(f)) = One(e.data = ReadOf(f))
  PROVE  UringInv'
<1>1. /\ TypeOK /\ TableOK /\ RequestsInv /\ TableInv /\ Intact
  BY DEF UringInv, TableHonest, TableOK
<1>2. /\ Running /\ cq' \in Seq(CompletionType)
      /\ \A f : Accepts(cq', f) <= Accepts(cq, f)
  BY <1>1, ReapCount
<1>3. /\ UNCHANGED fds /\ UNCHANGED tableVars /\ UNCHANGED <<clients_list, connected_clients_num>>
      /\ UNCHANGED <<peer, backlog, outbox, wrote, inbox, unread>>
  BY DEF sockVars, tableVars
<1>4. SockTypeOK'
  BY <1>1, <1>3 DEF TypeOK, SockTypeOK
<1>5. TableOK' /\ TableInv'
  BY <1>1, <1>2, <1>3, TableKept
<1>6. /\ clients_list' \in [Slot -> [connected : BOOLEAN, fd : AnyFd]]
      /\ connected_clients_num' \in 0..MaxClient
  BY <1>1, <1>3 DEF TypeOK
<1>7. /\ sq' \in Seq(EntryType) /\ Len(sq') <= SqSize /\ proc' \in {"run", "crashed"}
      /\ Running' => \A r : Among(sq', r) = Among(sq, r) + Among(entries, r)
      /\ \A j \in DOMAIN sq' : \/ \E k \in DOMAIN sq : sq'[j] = sq[k]
                               \/ Good(sq'[j].req, bufs)
  BY <1>1, <1>2, QueueCount
<1>8. Among(entries, Armed) = One(e.data = Armed)
  BY DEF One, Armed, Request
<1>9. \A f \in Fd : Among(entries, ReadOf(f)) + One(fds[f] # NoConn)
                      = One(fds'[f] # NoConn) + One(e.data = ReadOf(f))
                          + One(e.data.type = "ACCEPT" /\ e.res = f)
  BY <1>3 DEF One
<1>10. QED
  BY <1>4, <1>5, <1>6, <1>7, <1>8, <1>9, AnswerKeeps

LEMMA ReapWriteKeeps ==
  ASSUME UringInv, Intact', ReapWrite
  PROVE  UringInv'
<1>1. PICK e : /\ Reap(e) /\ e.data.type = "WRITE"
               /\ QueueAll(<<add_provide_buf(e.data.bid)>>)
               /\ UNCHANGED <<sockVars, tableVars>>
  BY DEF ReapWrite
<1> DEFINE entries == <<add_provide_buf(e.data.bid)>>
<1>2. TypeOK /\ RequestsInv
  BY DEF UringInv, TableHonest
<1>3. Done(e, bufs)
  BY <1>1, <1>2, ReapCount
<1>4. e.data.bid \in Buf
  BY <1>3, AskedType DEF Done
<1>5. /\ entries \in Seq(EntryType) /\ Among(entries, Armed) = 0
      /\ \A j \in DOMAIN entries : entries[j].data = entries[j].req /\ Good(entries[j].req, bufs)
      /\ \A g \in Fd : Among(entries, ReadOf(g)) = 0
  BY <1>4, GiveBack
<1>6. Queue(entries, FALSE, <<>>)
  BY <1>1 DEF QueueAll
<1> HIDE DEF entries
<1>7. \A f \in Fd : e.data # ReadOf(f)
  BY <1>1 DEF ReadOf, Request
<1>8. \A f \in Fd : Among(entries, ReadOf(f)) = One(e.data = ReadOf(f))
  BY <1>5, <1>7 DEF One
<1>9. QED
  BY <1>1, <1>5, <1>6, <1>8, QueuedKeeps

\* The receivers are registered, each in its place.
LEMMA ReceiversType ==
  ASSUME TypeOK, TableInv, NEW fd
  PROVE  Receivers(fd) \in Seq(Fd \cup {-1})
<1> DEFINE others == {i \in Registered : clients_list[i].fd # fd}
           n == Cardinality(others)
           rank(i) == Cardinality({k \in others : k < i})
           at(j) == CHOOSE i \in others : rank(i) = j - 1
<1>1. others \in SUBSET Slot /\ others \subseteq Nat
  BY Numbers DEF Registered
<1>2. IsFiniteSet(others) /\ n \in Nat
  BY <1>1, RegisteredCount, FS_CardinalityType
<1>3. \A j \in 1..n : at(j) \in others
  <2> SUFFICES ASSUME NEW j \in 1..n
               PROVE  \E i \in others : rank(i) = j - 1
    OBVIOUS
  <2> HIDE DEF others
  <2>1. \E i \in others : Cardinality(Below(others, i)) = j - 1
    BY <1>1, <1>2, RankTaken
  <2>2. QED
    BY <2>1 DEF Below
<1>4. \A j \in 1..n : clients_list[at(j)].fd \in Fd \cup {-1}
  BY <1>3 DEF TableInv
<1>5. Receivers(fd) = [j \in 1..n |-> clients_list[at(j)].fd]
  BY DEF Receivers
<1> HIDE DEF n, at
<1>6. QED
  BY <1>2, <1>4, <1>5

LEMMA AmongNone ==
  ASSUME NEW s, NEW r, \A j \in DOMAIN s : s[j].data # r
  PROVE  Among(s, r) = 0
<1>1. {j \in DOMAIN s : s[j].data = r} = {}
  OBVIOUS
<1>2. QED
  BY <1>1, FS_EmptySet DEF Among

LEMMA ReapChunkKeeps ==
  ASSUME UringInv, Intact', ReapChunk
  PROVE  UringInv'
<1>1. PICK e : /\ Reap(e) /\ e.data.type = "READ" /\ e.res > 0
               /\ Queue(AfterChunk(e.data.fd, e.bid), Receivers(e.data.fd) # <<>>,
                        Request("READ", e.data.fd, 0))
               /\ UNCHANGED <<sockVars, tableVars>>
  BY DEF ReapChunk
<1> DEFINE f == e.data.fd
           to == Receivers(f)
           read == add_socket_read(f)
           writes == [j \in DOMAIN to |-> add_socket_write(to[j], e.bid)]
           entries == <<read>> \o writes
<1>2. TypeOK /\ RequestsInv /\ TableInv
  BY DEF UringInv, TableHonest
<1>3. Done(e, bufs) /\ e \in CompletionType
  BY <1>1, <1>2, ReapCount
<1>4. /\ f \in Fd /\ e.data = ReadOf(f) /\ e.bid \in Buf /\ bufs[e.bid] # <<>>
  BY <1>1, <1>3, AskedType DEF Done, ReadOf, CompletionType
<1>5. /\ read \in EntryType /\ read.data = ReadOf(f) /\ read.req = ReadOf(f)
      /\ Good(ReadOf(f), bufs)
  BY <1>4, AskedFor, EntryIs DEF add_socket_read, ReadOf, Good, Request
<1>6. to \in Seq(Fd \cup {-1})
  BY <1>2, ReceiversType
<1> HIDE DEF to, read
<1>7. ASSUME NEW j \in DOMAIN to
      PROVE  /\ writes[j] \in EntryType /\ writes[j].data = writes[j].req
             /\ Good(writes[j].req, bufs)
             /\ writes[j].data # Armed /\ \A g \in Fd : writes[j].data # ReadOf(g)
  <2> DEFINE r == Request("WRITE", to[j], e.bid)
  <2>1. to[j] \in AnyFd
    BY <1>6 DEF AnyFd
  <2>2. r \in Asked /\ r # Armed /\ \A g \in Fd : r # ReadOf(g)
    BY <1>4, <2>1, AskedFor
  <2>3. Good(r, bufs)
    BY <1>4, <2>2 DEF Good, Request
  <2>4. writes[j] = Entry(r)
    BY DEF add_socket_write
  <2> HIDE DEF r, writes
  <2>5. QED
    BY <2>2, <2>3, <2>4, EntryIs
<1>8. /\ writes \in Seq(EntryType) /\ DOMAIN writes = DOMAIN to
  <2>1. DOMAIN to = 1..Len(to) /\ Len(to) \in Nat
    BY <1>6
  <2>2. writes \in [1..Len(to) -> EntryType]
    BY <1>7, <2>1
  <2>3. QED
    BY <2>1, <2>2
<1> HIDE DEF writes
<1>9. /\ <<read>> \in Seq(EntryType) /\ \A r : Among(<<read>>, r) = One(read.data = r)
  BY <1>5, AmongShort
<1>10. /\ entries \in Seq(EntryType)
       /\ \A r : Among(entries, r) = Among(<<read>>, r) + Among(writes, r)
       /\ \A j \in DOMAIN entries : \/ \E k \in DOMAIN <<read>> : entries[j] = <<read>>[k]
                                    \/ \E k \in DOMAIN writes : entries[j] = writes[k]
  <2> DEFINE s == <<read>>
  <2> HIDE DEF s
  <2>1. s \in Seq(EntryType)
    BY <1>9 DEF s
  <2>2. /\ s \o writes \in Seq(EntryType)
        /\ \A r : Among(s \o writes, r) = Among(s, r) + Among(writes, r)
        /\ \A j \in DOMAIN (s \o writes) : \/ \E k \in DOMAIN s : (s \o writes)[j] = s[k]
                                           \/ \E k \in DOMAIN writes : (s \o writes)[j] = writes[k]
    BY <1>8, <2>1, AmongConcat
  <2>3. QED
    BY <2>2 DEF s
<1>11. \A k \in DOMAIN <<read>> : <<read>>[k] = read
  OBVIOUS
<1>12. Queue(entries, to # <<>>, Request("READ", f, 0))
  BY <1>1 DEF AfterChunk, to, read, writes
<1> HIDE DEF entries
<1>13. \A j \in DOMAIN entries : entries[j].data = entries[j].req /\ Good(entries[j].req, bufs)
  BY <1>5, <1>7, <1>8, <1>10, <1>11
<1>14. Among(entries, Armed) = 0
  <2>1. Among(writes, Armed) = 0
    BY <1>7, <1>8, AmongNone
  <2>2. Among(<<read>>, Armed) = 0
    BY <1>4, <1>5, <1>9, AskedFor DEF One
  <2>3. QED
    BY <1>10, <2>1, <2>2
<1>15. \A g \in Fd : Among(entries, ReadOf(g)) = One(e.data = ReadOf(g))
  <2> SUFFICES ASSUME NEW g \in Fd
               PROVE  Among(entries, ReadOf(g)) = One(e.data = ReadOf(g))
    OBVIOUS
  <2>1. Among(writes, ReadOf(g)) = 0
    BY <1>7, <1>8, AmongNone
  <2>2. Among(<<read>>, ReadOf(g)) = One(e.data = ReadOf(g))
    BY <1>4, <1>5, <1>9
  <2>3. QED
    BY <1>10, <2>1, <2>2 DEF One
<1>16. QED
  BY <1>1, <1>10, <1>12, <1>13, <1>14, <1>15, QueuedKeeps

-----------------------------------------------------------------------------
(* The whole.                                                               *)

LEMMA UringStep ==
  ASSUME UringInv, Intact', [Next]_vars
  PROVE  UringInv'
<1>1. CASE Submit
  BY <1>1, SubmitKeeps
<1>2. CASE Turn
  BY <1>2, TurnKeeps
<1>3. CASE ReapProvided
  BY <1>3, ReapProvidedKeeps
<1>4. CASE ReapAccept
  BY <1>4, ReapAcceptKeeps
<1>5. CASE ReapEnd
  BY <1>5, ReapEndKeeps
<1>6. CASE ReapChunk
  BY <1>6, ReapChunkKeeps
<1>7. CASE ReapWrite
  BY <1>7, ReapWriteKeeps
<1>8. CASE Kernel
  BY <1>8, AcceptEndsKeeps, AcceptErrsKeeps, RecvEndsKeeps, RecvErrsKeeps, SendEndsKeeps,
     SendErrsKeeps DEF Kernel
<1>9. CASE \E c \in Conn : Client(c) \/ Network(c)
  BY <1>9, ClientKeeps
<1>10. CASE UNCHANGED vars
  <2>1. ServerUnchanged /\ UNCHANGED <<peer, backlog, fds, outbox, wrote, inbox, unread>>
    BY <1>10 DEF vars, ServerUnchanged, sockVars
  <2>2. SockTypeOK'
    BY <2>1 DEF UringInv, TableHonest, TypeOK, SockTypeOK
  <2>3. QED
    BY <2>1, <2>2, OutsideKeeps
<1>11. QED
  BY <1>1, <1>2, <1>3, <1>4, <1>5, <1>6, <1>7, <1>8, <1>9, <1>10 DEF Next, Server

\* The loop starts with the first accept queued, and nothing else.
LEMMA UringStart ==
  ASSUME Init
  PROVE  UringInv
<1>1. /\ SockInit /\ proc = "run" /\ pc = "submit"
      /\ clients_list = [i \in Slot |-> [connected |-> FALSE, fd |-> 0]]
      /\ connected_clients_num = 0
      /\ bufs = [b \in Buf |-> <<>>] /\ pool = [b \in Buf |-> 1]
      /\ sq = <<add_accept>> /\ sqhead = 1 /\ flight = <<>> /\ cq = <<>>
      /\ failures = 0
  BY DEF Init
<1>2. add_accept \in EntryType /\ add_accept.data = Armed /\ add_accept.req = Armed
  BY AskedFor, EntryIs DEF add_accept, Armed
<1>3. /\ <<add_accept>> \in Seq(EntryType)
      /\ \A r : Among(<<add_accept>>, r) = One(add_accept.data = r) /\ Among(<<>>, r) = 0
  BY <1>2, AmongShort
<1>4. \A f : Accepts(<<>>, f) = 0
  <2> SUFFICES ASSUME NEW f
               PROVE  Accepts(<<>>, f) = 0
    OBVIOUS
  <2>1. {i \in DOMAIN <<>> : <<>>[i].data.type = "ACCEPT" /\ <<>>[i].res = f} = {}
    OBVIOUS
  <2>2. QED
    BY <2>1, FS_EmptySet DEF Accepts
<1>5. TypeOK
  <2>1. SockTypeOK
    BY <1>1, InitType
  <2>2. /\ clients_list \in [Slot -> [connected : BOOLEAN, fd : AnyFd]]
        /\ connected_clients_num \in 0..MaxClient
    BY <1>1, Numbers DEF AnyFd
  <2>3. bufs \in [Buf -> Chunk \cup {<<>>}] /\ pool \in [Buf -> Nat]
    BY <1>1
  <2>4. sqhead \in 0..SqSize - 1 /\ 1 <= SqSize
    BY <1>1, Numbers
  <2>5. Len(sq) <= SqSize
    <3>1. Len(sq) = 1
      BY <1>1
    <3>2. QED
      BY <2>4, <3>1
  <2>6. sq \in Seq(EntryType)
    BY <1>1, <1>3
  <2>7. flight \in Seq(FlightType) /\ cq \in Seq(CompletionType)
    BY <1>1
  <2>8. failures \in 0..MaxFailures
    BY <1>1, UringAssumption
  <2>9. proc \in {"run", "crashed"} /\ pc \in {"submit", "reap"}
    BY <1>1
  <2> HIDE DEF EntryType, FlightType, CompletionType
  <2>10. QED
    BY <2>1, <2>2, <2>3, <2>4, <2>5, <2>6, <2>7, <2>8, <2>9
       DEF TypeOK, EntryType, FlightType, CompletionType
<1>6. Registered = {}
  BY <1>1 DEF Registered
<1>7. TableHonest /\ TableInv
  BY <1>1, <1>5, <1>6, FS_EmptySet DEF TableHonest, TableInv
<1>8. \A j \in DOMAIN sq : sq[j] = add_accept
  BY <1>1
<1>9. Intact /\ RequestsInv
  <2>1. DOMAIN flight = {} /\ DOMAIN cq = {}
    BY <1>1
  <2>2. Armed \in Asked /\ Armed.type = "ACCEPT"
    BY AskedFor DEF Armed, Request
  <2>3. QED
    BY <1>2, <1>8, <2>1, <2>2 DEF Intact, RequestsInv, Filled
<1>10. AcceptArmed
  <2>1. Among(sq, Armed) = 1 /\ Among(flight, Armed) = 0 /\ Among(cq, Armed) = 0
    BY <1>1, <1>2, <1>3 DEF One
  <2>2. QED
    BY <2>1 DEF AcceptArmed, HowMany, Armed
<1>11. OneReader
  <2> SUFFICES ASSUME NEW f \in Fd
               PROVE  HowMany(ReadOf(f)) + Accepts(cq, f) = IF fds[f] = NoConn THEN 0 ELSE 1
    BY DEF OneReader, ReadOf
  <2>1. fds[f] = NoConn
    BY <1>1 DEF SockInit
  <2>2. /\ Among(sq, ReadOf(f)) = 0 /\ Among(flight, ReadOf(f)) = 0
        /\ Among(cq, ReadOf(f)) = 0 /\ Accepts(cq, f) = 0
    BY <1>1, <1>2, <1>3, <1>4, AskedFor DEF One
  <2>3. QED
    BY <2>1, <2>2 DEF HowMany
<1>12. QED
  BY <1>7, <1>9, <1>10, <1>11 DEF UringInv

\* The loop over the completions (5.cpp:233-302): every answer queues what the
\* completion has used up, so that the table, the descriptors and what is on its
\* way go together, as long as main's own sqe, kept from an earlier turn
\* (5.cpp:287), has been written through into no other entry of the queue.
THEOREM UringInvCorrect == Spec /\ []Intact => []UringInv
<1>1. Init => UringInv
  BY UringStart
<1>2. UringInv /\ Intact' /\ [Next]_vars => UringInv'
  BY UringStep
<1>3. QED
  BY <1>1, <1>2, PTL DEF Spec

\* TableHonest: client_add and client_destroy (5.cpp:79-115) leave a table whose
\* count is right, of descriptors that are open and all different.
THEOREM TableHonestCorrect == Spec /\ []Intact => []TableHonest
<1>1. UringInv => TableHonest
  BY DEF UringInv
<1>2. QED
  BY <1>1, UringInvCorrect, PTL

\* AcceptArmed: as "re-add accept to monitor for new connections" (5.cpp:234)
\* has it, one accept is always on its way, and never two.
THEOREM AcceptArmedCorrect == Spec /\ []Intact => []AcceptArmed
<1>1. UringInv => AcceptArmed
  BY DEF UringInv
<1>2. QED
  BY <1>1, UringInvCorrect, PTL

\* OneReader: every open descriptor has one read on its way, or the completion
\* of its accept has yet to be answered with one (5.cpp:233-300).
THEOREM OneReaderCorrect == Spec /\ []Intact => []OneReader
<1>1. UringInv => OneReader
  BY DEF UringInv
<1>2. QED
  BY <1>1, UringInvCorrect, PTL
=============================================================================
