------------------------ MODULE TcpConnectionProofs -------------------------
(***************************************************************************)
(* Proofs about TcpConnection for messages, pieces and a send buffer of    *)
(* any size, and any number of messages and of bytes: the safety           *)
(* properties of the connection, from its registration to its close.  The  *)
(* first part is about FlattenSeq, by which io_vec_list_ is turned into    *)
(* the bytes that wait; its recursion is met by the least-number principle *)
(* instead of induction.                                                   *)
(***************************************************************************)
EXTENDS TcpConnection, SequenceTheorems, WellFoundedInduction, TLAPS

\* The least-number principle.
LEMMA LeastNumber ==
  ASSUME NEW S \in SUBSET Nat, S # {}
  PROVE  \E m \in S : \A k \in S : m <= k
<1>1. IsWellFoundedOn(OpToRel(<,Nat), Nat)
  BY NatLessThanWellFounded, Zenon
<1>2. PICK m \in S : \A k \in S : ~ (<<k, m>> \in OpToRel(<,Nat))
  BY <1>1, WFMin, Zenon
<1>3. \A k \in S : ~ (k < m)
  BY <1>2 DEF OpToRel
<1> QED
  BY <1>3

\* f is the function by which FlattenSeq concatenates the first n of seqs.
Flattens(f, seqs, n) ==
  f = [i \in 1 .. n |-> IF i = 1 THEN seqs[i] ELSE f[i - 1] \o seqs[i]]

\* Its values, one by one.
LEMMA FlattensValue ==
  ASSUME NEW f, NEW seqs, NEW n \in Nat, Flattens(f, seqs, n), NEW i \in 1 .. n
  PROVE  f[i] = IF i = 1 THEN seqs[i] ELSE f[i - 1] \o seqs[i]
<1> DEFINE e(j) == IF j = 1 THEN seqs[j] ELSE f[j - 1] \o seqs[j]
           h == [j \in 1 .. n |-> e(j)]
<1>1. f = h
  BY Zenon DEF Flattens
<1> HIDE DEF e
<1>2. h[i] = e(i)
  OBVIOUS
<1> HIDE DEF h
<1>3. f[i] = e(i)
  BY <1>1, <1>2
<1> QED
  BY <1>3 DEF e

\* There is one such function for every n.
LEMMA FlattensExists ==
  ASSUME NEW seqs, NEW n \in Nat
  PROVE  \E f : Flattens(f, seqs, n)
<1> DEFINE Bad == {k \in Nat : ~ \E f : Flattens(f, seqs, k)}
<1>1. SUFFICES Bad = {}
  OBVIOUS
<1>2. SUFFICES ASSUME Bad # {} PROVE FALSE
  OBVIOUS
<1>3. PICK m \in Bad : \A k \in Bad : m <= k
  BY <1>2, LeastNumber
<1>4. m # 0
  <2>1. Flattens(<< >>, seqs, 0)
    BY DEF Flattens
  <2> QED
    BY <2>1
<1>5. PICK f : Flattens(f, seqs, m - 1)
  BY <1>3, <1>4
<1>6. ASSUME NEW g, g = [i \in 1 .. m |-> IF i < m THEN f[i] ELSE IF m = 1 THEN seqs[m] ELSE f[m - 1] \o seqs[m]]
      PROVE  Flattens(g, seqs, m)
  <2>1. ASSUME NEW i \in 1 .. m
        PROVE  g[i] = IF i = 1 THEN seqs[i] ELSE g[i - 1] \o seqs[i]
    <3>1. CASE i < m
      <4>1. f[i] = IF i = 1 THEN seqs[i] ELSE f[i - 1] \o seqs[i]
        BY <1>5, <3>1, FlattensValue
      <4> QED
        BY <1>6, <3>1, <4>1
    <3>2. CASE i = m
      BY <1>6, <3>2
    <3> QED
      BY <3>1, <3>2
  <2> QED
    BY <1>6, <2>1 DEF Flattens
<1> QED
  BY <1>6, <1>3

\* Two of them agree where both are defined.
LEMMA FlattensAgree ==
  ASSUME NEW s, NEW t, NEW m \in Nat, NEW n \in Nat, m <= n,
         \A i \in 1 .. m : s[i] = t[i],
         NEW f, Flattens(f, s, m), NEW g, Flattens(g, t, n),
         NEW i \in 1 .. m
  PROVE  f[i] = g[i]
<1> DEFINE Bad == {k \in 1 .. m : f[k] # g[k]}
<1>1. SUFFICES ASSUME Bad # {} PROVE FALSE
  OBVIOUS
<1>2. PICK k \in Bad : \A j \in Bad : k <= j
  <2>1. Bad \in SUBSET Nat
    OBVIOUS
  <2> HIDE DEF Bad
  <2> QED
    BY <1>1, <2>1, LeastNumber
<1>3. /\ f[k] = IF k = 1 THEN s[k] ELSE f[k - 1] \o s[k]
      /\ g[k] = IF k = 1 THEN t[k] ELSE g[k - 1] \o t[k]
  BY FlattensValue
<1>4. k # 1 => f[k - 1] = g[k - 1]
  BY <1>2
<1> QED
  BY <1>3, <1>4

\* Its values are sequences.
LEMMA FlattensType ==
  ASSUME NEW S, NEW seqs \in Seq(Seq(S)), NEW n \in 0 .. Len(seqs),
         NEW f, Flattens(f, seqs, n)
  PROVE  \A i \in 1 .. n : f[i] \in Seq(S)
<1> DEFINE Bad == {k \in 1 .. n : f[k] \notin Seq(S)}
<1>1. SUFFICES ASSUME Bad # {} PROVE FALSE
  OBVIOUS
<1>2. PICK k \in Bad : \A j \in Bad : k <= j
  <2>1. Bad \in SUBSET Nat
    OBVIOUS
  <2> HIDE DEF Bad
  <2> QED
    BY <1>1, <2>1, LeastNumber
<1>3. f[k] = IF k = 1 THEN seqs[k] ELSE f[k - 1] \o seqs[k]
  BY LenProperties, FlattensValue
<1>4. k # 1 => f[k - 1] \in Seq(S)
  BY <1>2
<1>5. seqs[k] \in Seq(S)
  BY ElementOfSeq
<1> QED
  BY <1>3, <1>4, <1>5, ConcatProperties

\* What FlattenSeq is.
LEMMA FlattenSeqIs ==
  ASSUME NEW S, NEW seqs \in Seq(Seq(S)), seqs # << >>
  PROVE  \E f : Flattens(f, seqs, Len(seqs)) /\ FlattenSeq(seqs) = f[Len(seqs)]
<1> DEFINE n == Len(seqs)
           F == CHOOSE f : Flattens(f, seqs, n)
<1>1. n \in Nat \ {0}
  BY EmptySeq
<1>2. Flattens(F, seqs, n)
  BY <1>1, FlattensExists
<1>3. FlattenSeq(seqs) = F[n]
  BY <1>1 DEF FlattenSeq, Flattens
<1> QED
  BY <1>2, <1>3

LEMMA FlattenEmpty == FlattenSeq(<< >>) = << >>
  BY EmptySeq DEF FlattenSeq

LEMMA FlattenType ==
  ASSUME NEW S, NEW seqs \in Seq(Seq(S))
  PROVE  FlattenSeq(seqs) \in Seq(S)
<1>1. CASE seqs = << >>
  BY <1>1, FlattenEmpty, EmptySeq
<1>2. CASE seqs # << >>
  <2>1. PICK f : Flattens(f, seqs, Len(seqs)) /\ FlattenSeq(seqs) = f[Len(seqs)]
    BY <1>2, FlattenSeqIs
  <2>2. Len(seqs) \in Nat \ {0}
    BY <1>2, EmptySeq
  <2> QED
    BY <2>1, <2>2, FlattensType
<1> QED
  BY <1>1, <1>2

\* One more sequence is concatenated at the end.
LEMMA FlattenAppend ==
  ASSUME NEW S, NEW seqs \in Seq(Seq(S)), NEW x \in Seq(S)
  PROVE  FlattenSeq(Append(seqs, x)) = FlattenSeq(seqs) \o x
<1> DEFINE n == Len(seqs)
           all == Append(seqs, x)
<1>1. n \in Nat /\ all \in Seq(Seq(S)) /\ all # << >> /\ Len(all) = n + 1
      /\ all[n + 1] = x /\ \A i \in 1 .. n : seqs[i] = all[i]
  BY AppendProperties, LenProperties
<1>2. PICK g : Flattens(g, all, n + 1) /\ FlattenSeq(all) = g[n + 1]
  BY <1>1, FlattenSeqIs
<1>3. g[n + 1] = IF n = 0 THEN x ELSE g[n] \o x
  <2> HIDE DEF n, all
  <2>1. n + 1 \in Nat /\ n + 1 \in 1 .. n + 1 /\ Flattens(g, all, n + 1)
    BY <1>1, <1>2
  <2>2. g[n + 1] = IF n + 1 = 1 THEN all[n + 1] ELSE g[(n + 1) - 1] \o all[n + 1]
    BY <2>1, FlattensValue
  <2> QED
    BY <1>1, <2>2
<1>4. CASE seqs = << >>
  BY <1>2, <1>3, <1>4, FlattenEmpty, EmptySeq, ConcatEmptySeq
<1>5. CASE seqs # << >>
  <2>1. PICK f : Flattens(f, seqs, n) /\ FlattenSeq(seqs) = f[n]
    BY <1>5, FlattenSeqIs
  <2>2. n # 0
    BY <1>5, EmptySeq
  <2>3. \A i \in 1 .. n : f[i] = g[i]
    <3> HIDE DEF n, all
    <3>1. n + 1 \in Nat /\ n <= n + 1 /\ Flattens(g, all, n + 1) /\ Flattens(f, seqs, n)
      BY <1>1, <1>2, <2>1
    <3>2. n \in Nat
      BY <1>1
    <3>3. \A i \in 1 .. n : seqs[i] = all[i]
      BY <1>1
    <3>4. TAKE i \in 1 .. n
    <3> QED
      BY SMTT(30), <3>1, <3>2, <3>3, FlattensAgree
  <2>4. f[n] = g[n]
    BY <1>1, <2>2, <2>3
  <2> QED
    BY <1>2, <1>3, <2>1, <2>2, <2>4
<1> QED
  BY <1>4, <1>5
-----------------------------------------------------------------------------
(* The bytes of pieces.                                                    *)

Byte   == Nat \X Int
Pieces == {v \in [msg : Nat, from : Int, len : Nat] : v.from >= -1}

LEMMA BytesAssociative ==
  \A a, b, c \in Seq(Byte) : (a \o b) \o c = a \o (b \o c)
<1> SUFFICES ASSUME NEW a \in Seq(Byte), NEW b \in Seq(Byte), NEW c \in Seq(Byte)
             PROVE  (a \o b) \o c = a \o (b \o c)
  OBVIOUS
<1> QED
  BY ConcatAssociative

LEMMA BytesType ==
  ASSUME NEW v \in [msg : Nat, from : Int, len : Nat]
  PROVE  /\ Bytes(v) \in Seq(Byte) /\ Len(Bytes(v)) = v.len
         /\ \A i \in 1 .. v.len : Bytes(v)[i] = <<v.msg, v.from + i>>
<1>1. Bytes(v) \in [1 .. v.len -> Byte]
  BY DEF Bytes, Byte
<1>2. Bytes(v) \in Seq(Byte)
  BY <1>1, SeqDef
<1>3. Len(Bytes(v)) = v.len
  BY <1>1, <1>2, LenProperties
<1> QED
  BY <1>2, <1>3 DEF Bytes

\* The sequences that AllBytes concatenates.
LEMMA ListType ==
  ASSUME NEW l \in Seq(Pieces)
  PROVE  /\ [i \in 1 .. Len(l) |-> Bytes(l[i])] \in Seq(Seq(Byte))
         /\ Len([i \in 1 .. Len(l) |-> Bytes(l[i])]) = Len(l)
<1> DEFINE s == [i \in 1 .. Len(l) |-> Bytes(l[i])]
<1>1. \A i \in 1 .. Len(l) : Bytes(l[i]) \in Seq(Byte)
  BY BytesType, ElementOfSeq DEF Pieces
<1>2. s \in [1 .. Len(l) -> Seq(Byte)]
  BY <1>1
<1>3. Len(l) \in Nat
  BY LenProperties
<1>4. s \in Seq(Seq(Byte))
  BY <1>2, <1>3, SeqDef
<1>5. Len(s) = Len(l)
  BY <1>2, <1>3, <1>4, LenProperties
<1> QED
  BY <1>4, <1>5

LEMMA AllBytesType ==
  ASSUME NEW l \in Seq(Pieces)
  PROVE  AllBytes(l) \in Seq(Byte) /\ Len(AllBytes(l)) \in Nat
<1>1. AllBytes(l) \in Seq(Byte)
  BY ListType, FlattenType DEF AllBytes
<1> QED
  BY <1>1, LenProperties

LEMMA AllBytesEmpty == AllBytes(<< >>) = << >>
<1>1. [i \in 1 .. Len(<< >>) |-> Bytes(<< >>[i])] = << >>
  BY EmptySeq
<1> QED
  BY <1>1, FlattenEmpty DEF AllBytes

LEMMA AllBytesAppend ==
  ASSUME NEW l \in Seq(Pieces), NEW v \in Pieces
  PROVE  AllBytes(Append(l, v)) = AllBytes(l) \o Bytes(v)
<1> DEFINE s == [i \in 1 .. Len(l) |-> Bytes(l[i])]
           a == Append(l, v)
           t == [i \in 1 .. Len(a) |-> Bytes(a[i])]
<1>1. a \in Seq(Pieces) /\ Len(a) = Len(l) + 1 /\ Len(l) \in Nat
      /\ a[Len(l) + 1] = v /\ \A i \in 1 .. Len(l) : a[i] = l[i]
  BY AppendProperties, LenProperties
<1>2. Bytes(v) \in Seq(Byte)
  BY BytesType DEF Pieces
<1>3. /\ s \in Seq(Seq(Byte)) /\ Len(s) = Len(l)
      /\ t \in Seq(Seq(Byte)) /\ Len(t) = Len(a)
  BY <1>1, ListType
<1>4. Append(s, Bytes(v)) \in Seq(Seq(Byte)) /\ Len(Append(s, Bytes(v))) = Len(s) + 1
  BY <1>2, <1>3, AppendProperties
<1>5. ASSUME NEW i \in 1 .. Len(t) PROVE t[i] = Append(s, Bytes(v))[i]
  <2>1. CASE i \in 1 .. Len(l)
    <3>1. Append(s, Bytes(v))[i] = s[i]
      BY <1>2, <1>3, <2>1, AppendProperties
    <3>2. s[i] = Bytes(l[i]) /\ t[i] = Bytes(a[i])
      BY <1>1, <2>1
    <3> QED
      BY <1>1, <2>1, <3>1, <3>2
  <2>2. CASE i = Len(l) + 1
    <3>1. Append(s, Bytes(v))[i] = Bytes(v)
      BY <1>2, <1>3, <2>2, AppendProperties
    <3>2. t[i] = Bytes(a[i])
      BY <1>1, <2>2
    <3> QED
      BY <1>1, <2>2, <3>1, <3>2
  <2> QED
    BY <1>1, <1>3, <2>1, <2>2
<1>6. t = Append(s, Bytes(v))
  <2> HIDE DEF s, t, a
  <2> QED
    BY <1>1, <1>3, <1>4, <1>5, SeqEqual
<1>7. FlattenSeq(Append(s, Bytes(v))) = FlattenSeq(s) \o Bytes(v)
  BY <1>2, <1>3, FlattenAppend
<1> QED
  BY <1>6, <1>7 DEF AllBytes

\* The bytes of a list are those of its first pieces, then those of the rest.
LEMMA AllBytesSplit ==
  ASSUME NEW l \in Seq(Pieces), NEW j \in 0 .. Len(l), NEW k \in j .. Len(l)
  PROVE  AllBytes(SubSeq(l, 1, k)) = AllBytes(SubSeq(l, 1, j)) \o AllBytes(SubSeq(l, j + 1, k))
<1> DEFINE Holds(i) == AllBytes(SubSeq(l, 1, i))
                         = AllBytes(SubSeq(l, 1, j)) \o AllBytes(SubSeq(l, j + 1, i))
           Bad == {i \in j .. Len(l) : ~ Holds(i)}
<1>1. Len(l) \in Nat /\ Bad \in SUBSET Nat
  BY LenProperties
<1>2. SUFFICES ASSUME Bad # {} PROVE FALSE
  OBVIOUS
<1>3. PICK i \in Bad : \A h \in Bad : i <= h
  <2> HIDE DEF Bad
  <2> QED
    BY <1>1, <1>2, LeastNumber
<1>4. \A h \in 0 .. Len(l) : SubSeq(l, 1, h) \in Seq(Pieces)
  BY <1>1, SubSeqProperties, ElementOfSeq
<1>5. \A h \in 0 .. Len(l) : SubSeq(l, j + 1, h) \in Seq(Pieces)
  BY <1>1, SubSeqProperties, ElementOfSeq
<1>6. Holds(j)
  <2>1. SubSeq(l, j + 1, j) = << >>
    BY <1>1, SubSeqEmpty
  <2> QED
    BY <1>1, <1>4, <2>1, AllBytesEmpty, AllBytesType, ConcatEmptySeq
<1>7. i > j /\ i \in 1 .. Len(l) /\ i - 1 \in j .. Len(l) /\ {i, i - 1, j} \subseteq 0 .. Len(l)
  BY <1>1, <1>3, <1>6
<1>8. Holds(i - 1)
  BY <1>1, <1>3, <1>7
<1>9. l[i] \in Pieces
  BY <1>7, ElementOfSeq
<1>10. SubSeq(l, 1, i) = Append(SubSeq(l, 1, i - 1), l[i])
  BY <1>4, <1>7, <1>9, SubSeqRecursiveSecond, AppendIsConcat
<1>11. SubSeq(l, j + 1, i) = Append(SubSeq(l, j + 1, i - 1), l[i])
  BY <1>5, <1>7, <1>9, SubSeqRecursiveSecond, AppendIsConcat
<1>12. /\ SubSeq(l, 1, j) \in Seq(Pieces) /\ SubSeq(l, 1, i - 1) \in Seq(Pieces)
       /\ SubSeq(l, j + 1, i - 1) \in Seq(Pieces)
  BY <1>4, <1>5, <1>7
<1>13. /\ AllBytes(SubSeq(l, 1, i)) = AllBytes(SubSeq(l, 1, i - 1)) \o Bytes(l[i])
       /\ AllBytes(SubSeq(l, j + 1, i)) = AllBytes(SubSeq(l, j + 1, i - 1)) \o Bytes(l[i])
  BY <1>9, <1>10, <1>11, <1>12, AllBytesAppend
<1>14. /\ AllBytes(SubSeq(l, 1, j)) \in Seq(Byte)
       /\ AllBytes(SubSeq(l, j + 1, i - 1)) \in Seq(Byte)
       /\ Bytes(l[i]) \in Seq(Byte)
  BY <1>9, <1>12, AllBytesType, BytesType DEF Pieces
<1>15. Holds(i)
  <2>1. AllBytes(SubSeq(l, 1, i))
          = (AllBytes(SubSeq(l, 1, j)) \o AllBytes(SubSeq(l, j + 1, i - 1))) \o Bytes(l[i])
    BY <1>8, <1>13
  <2>2. AllBytes(SubSeq(l, 1, i))
          = AllBytes(SubSeq(l, 1, j)) \o (AllBytes(SubSeq(l, j + 1, i - 1)) \o Bytes(l[i]))
    BY <1>14, <2>1, BytesAssociative
  <2> QED
    BY <1>13, <2>2
<1> QED
  BY <1>3, <1>15

\* The bytes of a list that is not empty begin with those of its first piece.
LEMMA AllBytesCons ==
  ASSUME NEW l \in Seq(Pieces), l # << >>
  PROVE  AllBytes(l) = Bytes(l[1]) \o AllBytes(SubSeq(l, 2, Len(l)))
<1>1. Len(l) \in Nat \ {0} /\ l[1] \in Pieces
  BY EmptySeq, ElementOfSeq
<1>2. SubSeq(l, 1, Len(l)) = l
  BY SubSeqFull
<1>3. SubSeq(l, 1, 1) = Append(<< >>, l[1])
  <2>1. SubSeq(l, 1, 1) = SubSeq(l, 1, 0) \o << l[1] >>
    BY <1>1, SubSeqRecursiveSecond
  <2>2. SubSeq(l, 1, 0) = << >>
    BY SubSeqEmpty
  <2> QED
    BY <1>1, <2>1, <2>2, EmptySeq, AppendIsConcat
<1>4. AllBytes(SubSeq(l, 1, 1)) = Bytes(l[1])
  <2>1. AllBytes(SubSeq(l, 1, 1)) = AllBytes(<< >>) \o Bytes(l[1])
    BY <1>1, <1>3, EmptySeq, AllBytesAppend
  <2>2. Bytes(l[1]) \in Seq(Byte)
    BY <1>1, BytesType DEF Pieces
  <2> QED
    BY <2>1, <2>2, AllBytesEmpty, ConcatEmptySeq
<1>5. AllBytes(SubSeq(l, 1, Len(l))) = AllBytes(SubSeq(l, 1, 1)) \o AllBytes(SubSeq(l, 2, Len(l)))
  <2>1. 1 \in 0 .. Len(l) /\ Len(l) \in 1 .. Len(l) /\ 1 + 1 = 2
    BY <1>1
  <2> QED
    BY <2>1, AllBytesSplit
<1> QED
  BY <1>2, <1>4, <1>5

\* What Total is: a sum of lengths.
LEMMA TotalStep ==
  ASSUME NEW l \in Seq(Pieces)
  PROVE  /\ Total(l, 0) = 0
         /\ Total(l, Len(l)) = Len(AllBytes(l))
         /\ \A j \in 0 .. Len(l) : Total(l, j) \in Nat
         /\ \A j \in 0 .. Len(l) - 1 : Total(l, j + 1) = Total(l, j) + l[j + 1].len
<1>1. Len(l) \in Nat
  BY LenProperties
<1>2. \A h \in 0 .. Len(l) : SubSeq(l, 1, h) \in Seq(Pieces)
  BY <1>1, SubSeqProperties, ElementOfSeq
<1>3. Total(l, 0) = 0
  <2>1. SubSeq(l, 1, 0) = << >>
    BY SubSeqEmpty
  <2> QED
    BY <2>1, AllBytesEmpty, EmptySeq DEF Total
<1>4. Total(l, Len(l)) = Len(AllBytes(l))
  BY SubSeqFull DEF Total
<1>5. \A j \in 0 .. Len(l) : Total(l, j) \in Nat
  BY <1>2, AllBytesType DEF Total
<1>6. ASSUME NEW j \in 0 .. Len(l) - 1
      PROVE  Total(l, j + 1) = Total(l, j) + l[j + 1].len
  <2>1. j + 1 \in 1 .. Len(l) /\ j \in 0 .. Len(l)
    BY <1>1
  <2>2. l[j + 1] \in Pieces
    BY <2>1, ElementOfSeq
  <2>3. SubSeq(l, 1, j + 1) = SubSeq(l, 1, j) \o << l[j + 1] >>
    <3>1. SubSeq(l, 1, j + 1) = SubSeq(l, 1, (j + 1) - 1) \o << l[j + 1] >>
      BY <2>1, SubSeqRecursiveSecond
    <3> QED
      BY <2>1, <3>1
  <2>4. SubSeq(l, 1, j + 1) = Append(SubSeq(l, 1, j), l[j + 1])
    BY <1>2, <2>1, <2>2, <2>3, AppendIsConcat
  <2>5. AllBytes(SubSeq(l, 1, j + 1)) = AllBytes(SubSeq(l, 1, j)) \o Bytes(l[j + 1])
    BY <1>2, <2>1, <2>2, <2>4, AllBytesAppend
  <2> QED
    BY SMTT(30), <1>2, <2>1, <2>2, <2>5, AllBytesType, BytesType, ConcatProperties DEF Total, Pieces
<1> QED
  BY <1>3, <1>4, <1>5, <1>6

\* A set of naturals with a bound has a maximum, which is what Max finds.
LEMMA MaxOf ==
  ASSUME NEW b \in Nat, NEW D \in SUBSET (0 .. b), D # {}
  PROVE  Max(D) \in D /\ \A j \in D : j <= Max(D)
<1> DEFINE E == {e \in Nat : \E j \in D : e = b - j}
<1>1. E \in SUBSET Nat /\ E # {}
  <2>1. PICK j : j \in D
    OBVIOUS
  <2>2. j \in 0 .. b /\ b - j \in Nat
    BY <2>1
  <2>3. b - j \in E
    BY <2>1, <2>2
  <2> QED
    BY <2>3
<1>2. PICK e \in E : \A d \in E : e <= d
  <2> HIDE DEF E
  <2> QED
    BY <1>1, LeastNumber
<1>3. PICK m \in D : e = b - m
  BY <1>2
<1>4. \A j \in D : m >= j
  <2> TAKE j \in D
  <2>1. j \in 0 .. b /\ m \in 0 .. b
    OBVIOUS
  <2>2. b - j \in E
    BY <2>1
  <2>3. e <= b - j
    BY <1>2, <2>2
  <2> QED
    BY <1>3, <2>1, <2>3
<1>5. \A x : x \in D /\ (\A y \in D : x >= y) => \A j \in D : j <= x
  OBVIOUS
<1> QED
  BY <1>4, <1>5 DEF Max

\* The lesser of two numbers.
LEMMA MinOfTwo ==
  ASSUME NEW a \in Nat, NEW b \in Nat
  PROVE  Min({a, b}) = IF a <= b THEN a ELSE b
<1> DEFINE P(x) == x \in {a, b} /\ \A y \in {a, b} : x <= y
<1>1. P(IF a <= b THEN a ELSE b)
  OBVIOUS
<1>2. \A x, z : P(x) /\ P(z) => x = z
  OBVIOUS
<1> QED
  BY <1>1, <1>2 DEF Min

\* A sequence begins with the first of those it was concatenated from.
LEMMA BytesPrefix ==
  ASSUME NEW a \in Seq(Byte), NEW b \in Seq(Byte)
  PROVE  SubSeq(a \o b, 1, Len(a)) = a
<1>1. /\ Len(a) \in Nat /\ Len(b) \in Nat /\ a \o b \in Seq(Byte)
      /\ Len(a \o b) = Len(a) + Len(b)
      /\ \A i \in 1 .. Len(a) : (a \o b)[i] = a[i] /\ a[i] \in Byte
  BY LenProperties, ConcatProperties, ElementOfSeq
<1>2. /\ SubSeq(a \o b, 1, Len(a)) \in Seq(Byte)
      /\ Len(SubSeq(a \o b, 1, Len(a))) = Len(a)
      /\ \A i \in 1 .. Len(a) : SubSeq(a \o b, 1, Len(a))[i] = (a \o b)[i]
  BY <1>1, SubSeqProperties
<1> QED
  BY <1>1, <1>2, SeqEqual

\* A piece that is written in part keeps the rest of its bytes.
LEMMA PieceSplit ==
  ASSUME NEW v \in Pieces, NEW part \in 0 .. v.len
  PROVE  /\ Piece(v.msg, v.from + part, v.len - part) \in Pieces
         /\ Len(SubSeq(Bytes(v), 1, part)) = part
         /\ SubSeq(Bytes(v), 1, part) \in Seq(Byte)
         /\ Bytes(v) = SubSeq(Bytes(v), 1, part)
                         \o Bytes(Piece(v.msg, v.from + part, v.len - part))
<1> DEFINE w == Piece(v.msg, v.from + part, v.len - part)
           p == SubSeq(Bytes(v), 1, part)
<1>1. /\ v.msg \in Nat /\ v.from \in Int /\ v.from >= -1 /\ v.len \in Nat
      /\ v \in [msg : Nat, from : Int, len : Nat] /\ part \in Nat /\ part <= v.len
  BY DEF Pieces
<1>2. /\ w \in [msg : Nat, from : Int, len : Nat] /\ w \in Pieces
      /\ w.msg = v.msg /\ w.from = v.from + part /\ w.len = v.len - part
  BY <1>1 DEF Pieces, Piece
<1>3. /\ Bytes(v) \in Seq(Byte) /\ Len(Bytes(v)) = v.len
      /\ \A i \in 1 .. v.len : Bytes(v)[i] = <<v.msg, v.from + i>>
  BY <1>1, BytesType
<1> HIDE DEF w
<1>4. /\ Bytes(w) \in Seq(Byte) /\ Len(Bytes(w)) = v.len - part
      /\ \A i \in 1 .. v.len - part : Bytes(w)[i] = <<v.msg, v.from + part + i>>
  BY <1>2, BytesType
<1>5. p \in Seq(Byte) /\ Len(p) = part /\ \A i \in 1 .. part : p[i] = Bytes(v)[i]
  <2>1. \A i \in 1 .. part : Bytes(v)[i] \in Byte
    BY <1>1, <1>3 DEF Byte
  <2> QED
    BY <1>1, <2>1, SubSeqProperties
<1> DEFINE b == Bytes(w)
<1>6. b \in Seq(Byte) /\ Len(b) = v.len - part
  BY <1>4
<1> HIDE DEF p, b
<1>7. /\ p \o b \in Seq(Byte) /\ Len(p \o b) = Len(p) + Len(b)
      /\ \A i \in 1 .. Len(p) + Len(b) :
           (p \o b)[i] = IF i <= Len(p) THEN p[i] ELSE b[i - Len(p)]
  BY <1>5, <1>6, ConcatProperties
<1>8. Len(p) + Len(b) = v.len
  BY <1>1, <1>5, <1>6
<1>9. ASSUME NEW i \in 1 .. Len(Bytes(v)) PROVE Bytes(v)[i] = (p \o b)[i]
  <2>1. i \in 1 .. v.len /\ (p \o b)[i] = IF i <= part THEN p[i] ELSE b[i - part]
    BY <1>3, <1>5, <1>7, <1>8
  <2>2. CASE i <= part
    BY <1>1, <1>5, <2>1, <2>2
  <2>3. CASE i > part
    <3>1. i - part \in 1 .. v.len - part /\ v.from + part + (i - part) = v.from + i
      BY <1>1, <2>1, <2>3
    <3>2. b[i - part] = <<v.msg, v.from + i>>
      BY <1>4, <3>1 DEF b
    <3> QED
      BY <1>1, <1>3, <2>1, <2>3, <3>2
  <2> QED
    BY <1>1, <2>1, <2>2, <2>3
<1>10. Bytes(v) = p \o b
  BY <1>3, <1>7, <1>8, <1>9, SeqEqual
<1> QED
  BY <1>2, <1>5, <1>10 DEF w, p, b

\* The bytes of a list whose first piece has been replaced.
LEMMA FirstReplaced ==
  ASSUME NEW l \in Seq(Pieces), l # << >>, NEW w \in Pieces
  PROVE  /\ [l EXCEPT ![1] = w] \in Seq(Pieces)
         /\ AllBytes([l EXCEPT ![1] = w]) = Bytes(w) \o AllBytes(SubSeq(l, 2, Len(l)))
<1> DEFINE r == [l EXCEPT ![1] = w]
<1>1. Len(l) \in Nat \ {0} /\ 1 \in 1 .. Len(l)
  BY EmptySeq
<1>2. /\ r \in Seq(Pieces) /\ Len(r) = Len(l)
      /\ \A i \in 1 .. Len(l) : r[i] = IF i = 1 THEN w ELSE l[i]
  BY <1>1, ExceptSeq
<1> HIDE DEF r
<1>3. r # << >> /\ r[1] = w
  BY <1>1, <1>2, EmptySeq
<1>4. SubSeq(r, 2, Len(r)) = SubSeq(l, 2, Len(l))
  <2>1. \A i \in 2 .. Len(l) : r[i] \in Pieces /\ l[i] \in Pieces /\ r[i] = l[i]
    BY <1>1, <1>2, ElementOfSeq
  <2>2. ASSUME NEW q \in Seq(Pieces), \A i \in 2 .. Len(l) : q[i] \in Pieces
        PROVE  /\ SubSeq(q, 2, Len(l)) \in Seq(Pieces)
               /\ Len(SubSeq(q, 2, Len(l))) = Len(l) - 1
               /\ \A i \in 1 .. Len(l) - 1 : SubSeq(q, 2, Len(l))[i] = q[i + 1]
    <3>1. /\ SubSeq(q, 2, Len(l)) \in Seq(Pieces)
          /\ Len(SubSeq(q, 2, Len(l))) = IF 2 <= Len(l) THEN Len(l) - 2 + 1 ELSE 0
          /\ \A i \in 1 .. Len(l) - 2 + 1 : SubSeq(q, 2, Len(l))[i] = q[2 + i - 1]
      BY <1>1, <2>2, SubSeqProperties
    <3>2. \A i \in Int : 2 + i - 1 = i + 1
      OBVIOUS
    <3>3. Len(l) - 2 + 1 = Len(l) - 1
      BY <1>1
    <3> QED
      BY <1>1, <3>1, <3>2, <3>3
  <2>3. \A i \in 1 .. Len(l) - 1 : SubSeq(r, 2, Len(l))[i] = SubSeq(l, 2, Len(l))[i]
    <3> TAKE i \in 1 .. Len(l) - 1
    <3>1. i + 1 \in 2 .. Len(l)
      BY <1>1
    <3> QED
      BY <1>2, <2>1, <2>2, <3>1
  <2> QED
    BY <1>2, <2>1, <2>2, <2>3, SeqEqual
<1>5. AllBytes(r) = Bytes(r[1]) \o AllBytes(SubSeq(r, 2, Len(r)))
  BY <1>2, <1>3, AllBytesCons
<1> QED
  BY <1>2, <1>3, <1>4, <1>5 DEF r

\* Which pieces Advanced leaves out: those that were written completely.
LEMMA AdvancedCases ==
  ASSUME NEW l \in Seq(Pieces), NEW n \in 0 .. Len(AllBytes(l))
  PROVE  \/ n = Len(AllBytes(l)) /\ Advanced(l, n) = << >>
         \/ \E done \in 0 .. Len(l) - 1 :
              /\ Total(l, done) <= n /\ n <= Total(l, done + 1)
              /\ Advanced(l, n) =
                   [SubSeq(l, done + 1, Len(l)) EXCEPT ![1] =
                      Piece(@.msg, @.from + (n - Total(l, done)), @.len - (n - Total(l, done)))]
<1> DEFINE D    == {0} \cup {j \in 1 .. Len(l) : Total(l, j - 1) < n /\ Total(l, j) <= n}
           done == Max(D)
           rest == SubSeq(l, done + 1, Len(l))
<1>1. Len(l) \in Nat /\ Len(AllBytes(l)) \in Nat /\ n \in Nat
  BY LenProperties, AllBytesType
<1>2. D \in SUBSET (0 .. Len(l)) /\ D # {}
  BY <1>1
<1>3. done \in D /\ \A j \in D : j <= done
  <2> HIDE DEF D
  <2> QED
    BY <1>1, <1>2, MaxOf
<1>4. Advanced(l, n) = IF rest = << >> THEN rest
                       ELSE [rest EXCEPT ![1] = Piece(@.msg, @.from + (n - Total(l, done)),
                                                      @.len - (n - Total(l, done)))]
  BY DEF Advanced, Done, Without
<1> HIDE DEF done
<1>5. done \in 0 .. Len(l) /\ Total(l, done) <= n /\ Total(l, done) \in Nat
  BY <1>1, <1>3, TotalStep
<1>6. CASE done = Len(l)
  <2>1. rest = << >>
    BY <1>1, <1>6, SubSeqEmpty
  <2>2. n = Len(AllBytes(l))
    BY <1>1, <1>5, <1>6, TotalStep
  <2> QED
    BY <1>4, <2>1, <2>2
<1>7. CASE done < Len(l)
  <2>1. done \in 0 .. Len(l) - 1 /\ done + 1 \in 0 .. Len(l) /\ done + 1 \notin D
    BY <1>1, <1>3, <1>5, <1>7
  <2>2. n <= Total(l, done + 1)
    <3>1. /\ Total(l, done + 1) = Total(l, done) + l[done + 1].len
          /\ l[done + 1].len \in Nat
      BY <1>1, <2>1, TotalStep, ElementOfSeq DEF Pieces
    <3>2. done + 1 \in 1 .. Len(l) /\ (done + 1) - 1 = done
      BY <1>1, <2>1
    <3>3. ~ (Total(l, done) < n) \/ ~ (Total(l, done + 1) <= n)
      BY <2>1, <3>2
    <3>4. Total(l, done + 1) \in Nat
      BY <1>5, <3>1
    <3> HIDE DEF D
    <3> QED
      BY <1>1, <1>5, <3>1, <3>3, <3>4
  <2>3. Len(rest) = Len(l) - done
    BY <1>1, <1>5, <1>7, SubSeqProperties, ElementOfSeq
  <2>4. rest # << >>
    <3> HIDE DEF rest
    <3> QED
      BY <1>1, <1>5, <1>7, <2>3, EmptySeq
  <2> QED
    BY <1>4, <1>5, <2>1, <2>2, <2>4
<1> HIDE DEF rest, D
<1>8. done = Len(l) \/ done < Len(l)
  BY <1>1, <1>5
<1> QED
  BY <1>6, <1>7, <1>8

\* Nothing is left of nothing.
LEMMA AdvancedEmpty ==
  ASSUME NEW l \in Seq(Pieces), l = << >>, NEW n \in 0 .. Len(AllBytes(l))
  PROVE  Advanced(l, n) = << >>
<1>1. Len(l) = 0
  BY EmptySeq
<1>2. 0 .. Len(l) - 1 = {}
  BY <1>1
<1> QED
  BY <1>2, AdvancedCases

(***************************************************************************)
(* What writev took and what Advanced leaves are the bytes there were, in  *)
(* their order (TcpConnection::OnWrite's walk over io_vec_list_).          *)
(***************************************************************************)
LEMMA AdvancedIsRest ==
  ASSUME NEW l \in Seq(Pieces), NEW n \in 0 .. Len(AllBytes(l))
  PROVE  /\ Advanced(l, n) \in Seq(Pieces)
         /\ SubSeq(AllBytes(l), 1, n) \in Seq(Byte)
         /\ AllBytes(l) = SubSeq(AllBytes(l), 1, n) \o AllBytes(Advanced(l, n))
<1>1. /\ AllBytes(l) \in Seq(Byte) /\ Len(AllBytes(l)) \in Nat /\ Len(l) \in Nat
      /\ n \in Nat
  BY AllBytesType, LenProperties
<1>2. SubSeq(AllBytes(l), 1, n) \in Seq(Byte)
  <2> DEFINE b == AllBytes(l)
  <2>1. b \in Seq(Byte) /\ n <= Len(b) /\ Len(b) \in Nat
    BY <1>1
  <2> HIDE DEF b
  <2>2. SubSeq(b, 1, n) \in Seq(Byte)
    BY <1>1, <2>1, SubSeqProperties, ElementOfSeq
  <2> QED
    BY <2>2 DEF b
<1>3. CASE n = Len(AllBytes(l)) /\ Advanced(l, n) = << >>
  BY <1>1, <1>2, <1>3, AllBytesEmpty, EmptySeq, SubSeqFull, ConcatEmptySeq
<1>4. ASSUME NEW done \in 0 .. Len(l) - 1,
             Total(l, done) <= n, n <= Total(l, done + 1),
             Advanced(l, n) =
               [SubSeq(l, done + 1, Len(l)) EXCEPT ![1] =
                  Piece(@.msg, @.from + (n - Total(l, done)), @.len - (n - Total(l, done)))]
      PROVE  /\ Advanced(l, n) \in Seq(Pieces)
             /\ AllBytes(l) = SubSeq(AllBytes(l), 1, n) \o AllBytes(Advanced(l, n))
  <2> DEFINE part == n - Total(l, done)
             rest == SubSeq(l, done + 1, Len(l))
             v    == l[done + 1]
             w    == Piece(v.msg, v.from + part, v.len - part)
             first == AllBytes(SubSeq(l, 1, done))
             p    == SubSeq(Bytes(v), 1, part)
             tail == AllBytes(SubSeq(rest, 2, Len(rest)))
  <2>1. /\ done \in 0 .. Len(l) /\ done + 1 \in 1 .. Len(l) /\ v \in Pieces
        /\ Total(l, done) \in Nat /\ Total(l, done + 1) = Total(l, done) + v.len
    BY <1>1, TotalStep, ElementOfSeq
  <2>2. part \in 0 .. v.len
    <3>1. Total(l, done + 1) = Total(l, done) + v.len /\ v.len \in Nat
      BY <2>1 DEF Pieces
    <3> HIDE DEF v
    <3> QED
      BY <1>1, <1>4, <2>1, <3>1
  <2>3. /\ rest \in Seq(Pieces) /\ Len(rest) = Len(l) - done /\ rest # << >> /\ rest[1] = v
    <3>1. \A i \in done + 1 .. Len(l) : l[i] \in Pieces
      BY <1>1, <2>1, ElementOfSeq
    <3>2. /\ rest \in Seq(Pieces)
          /\ Len(rest) = IF done + 1 <= Len(l) THEN Len(l) - (done + 1) + 1 ELSE 0
          /\ \A i \in 1 .. Len(l) - (done + 1) + 1 : rest[i] = l[done + 1 + i - 1]
      BY <1>1, <2>1, <3>1, SubSeqProperties
    <3>3. Len(rest) = Len(l) - done /\ rest[1] = v
      BY <1>1, <2>1, <3>2
    <3> HIDE DEF rest
    <3> QED
      BY <1>1, <2>1, <3>2, <3>3, EmptySeq
  <2>4. SubSeq(rest, 2, Len(rest)) \in Seq(Pieces)
    <3> HIDE DEF rest
    <3> QED
      BY <2>3, SubSeqProperties, ElementOfSeq, LenProperties
  <2>5. /\ w \in Pieces /\ p \in Seq(Byte) /\ Len(p) = part
        /\ Bytes(v) = p \o Bytes(w)
    <3> HIDE DEF part, v
    <3> QED
      BY <2>1, <2>2, PieceSplit
  <2>6. Advanced(l, n) = [rest EXCEPT ![1] = w]
    BY <1>4, <2>3
  <2>7. /\ Advanced(l, n) \in Seq(Pieces)
        /\ AllBytes(Advanced(l, n)) = Bytes(w) \o tail
    <3> HIDE DEF rest, w
    <3> QED
      BY <2>3, <2>5, <2>6, FirstReplaced
  <2>8. AllBytes(rest) = Bytes(v) \o tail
    <3> HIDE DEF rest, v
    <3> QED
      BY <2>3, AllBytesCons
  <2>9. AllBytes(l) = first \o AllBytes(rest)
    <3>1. Len(l) \in done .. Len(l) /\ SubSeq(l, 1, Len(l)) = l
      BY <1>1, <2>1, SubSeqFull
    <3> QED
      BY <2>1, <3>1, AllBytesSplit
  <2>10. /\ first \in Seq(Byte) /\ tail \in Seq(Byte) /\ Bytes(w) \in Seq(Byte)
         /\ Len(first) = Total(l, done)
    <3>1. SubSeq(l, 1, done) \in Seq(Pieces)
      BY <1>1, <2>1, SubSeqProperties, ElementOfSeq
    <3> HIDE DEF rest, w
    <3> QED
      BY <2>4, <2>5, <3>1, AllBytesType, BytesType DEF Total, Pieces
  <2> DEFINE b == Bytes(w)
             all == AllBytes(l)
             adv == AllBytes(Advanced(l, n))
  <2>11. /\ all = first \o ((p \o b) \o tail) /\ adv = b \o tail
         /\ b \in Seq(Byte) /\ p \in Seq(Byte) /\ first \in Seq(Byte) /\ tail \in Seq(Byte)
         /\ Len(first) + Len(p) = n
    <3>1. part + Total(l, done) = n
      BY <1>1, <2>1
    <3> HIDE DEF first, p, w, v, tail, rest
    <3>2. Len(first) + Len(p) = n
      BY <2>2, <2>5, <2>10, <3>1, <2>1
    <3>3. all = first \o ((p \o b) \o tail)
      BY <2>5, <2>8, <2>9
    <3> QED
      BY <2>5, <2>7, <2>10, <3>2, <3>3
  <2>12. all = SubSeq(all, 1, n) \o adv
    <3> HIDE DEF first, p, b, tail, all, adv
    <3>1. (p \o b) \o tail = p \o adv /\ adv \in Seq(Byte)
      BY <2>11, BytesAssociative, ConcatProperties
    <3>2. all = (first \o p) \o adv
      <4>1. all = first \o (p \o adv)
        BY <2>11, <3>1
      <4>2. (first \o p) \o adv = first \o (p \o adv)
        BY ZenonT(40), <2>11, <3>1, BytesAssociative
      <4> QED
        BY <4>1, <4>2
    <3>3. first \o p \in Seq(Byte) /\ Len(first \o p) = n
      BY <2>11, ConcatProperties
    <3>4. SubSeq(all, 1, n) = first \o p
      BY <3>1, <3>2, <3>3, BytesPrefix
    <3> QED
      BY <3>2, <3>4
  <2> QED
    BY <2>7, <2>12
<1> QED
  BY <1>2, <1>3, <1>4, AdvancedCases
-----------------------------------------------------------------------------
(***************************************************************************)
(* The inductive invariant.                                                *)
(***************************************************************************)
Causes == {"none", "OnError", "OnClose", "OnRead", "OnWrite", "EINVAL", "ForceClose", "OnTimeout"}

\* TypeOK with what it takes for granted of the histories.
TypeInv ==
  /\ TypeOK
  /\ io_vec_list_ \in Seq(Pieces)
  /\ owed \in Seq(Byte) /\ wire \in Seq(Byte)
  /\ cause \in Causes
  /\ inbuf <= received

\* What a cause says of the socket, as long as the connection is closed.
CauseInv ==
  /\ pc \in {"OnError", "OnClose"} => sock = "gone"
  /\ closed_ => \/ cause \in {"ForceClose", "OnTimeout", "EINVAL"}
                \/ cause \in {"OnError", "OnClose"} /\ sock = "gone"
                \/ cause = "OnWrite" /\ sock \in {"reset", "gone"}
                \/ cause = "OnRead" /\ inbuf = 0 /\ sock # "up"

\* The loop is in OnRead, or will be after the callback, or closes.
Reading == \/ pc \in {"Readv", "Message", "OnError", "OnClose", "Killed"}
           \/ pc = "WriteComplete" /\ ret = "Readv"

\* NoLostRead wherever the loop is.
ReadInv ==
  /\ "IN" \in event_
  /\ events_ /\ (inbuf > 0 \/ sock # "up") => ready \/ Reading

\* OutputIsWritten wherever the loop is: what waits has been asked for, and
\* what has been asked for comes.
WriteInv ==
  /\ events_ /\ io_vec_list_ # << >> => missed \/ "OUT" \in event_
  /\ events_ /\ "OUT" \in event_ /\ Room > 0 /\ ~ Dead
       => ready \/ missed \/ pc \in {"OnWrite", "Writev"}

IInv == TypeInv /\ CloseIsComplete /\ CauseInv /\ ReadInv /\ WriteInv /\ NothingLost

\* The size of a message is a number.
LEMMA MessageSize ==
  ASSUME NEW c \in Messages
  PROVE  c[1] \in Ways /\ c[2] \in Sizes /\ c[2] \in Nat
<1>1. c \in Ways \X Sizes
  BY DEF Messages
<1>2. c[1] \in Ways /\ c[2] \in Sizes
  BY <1>1
<1> QED
  BY <1>2, ConstantAssumption

\* What TypeOK says of a list of pieces.
LEMMA PiecesAreLong ==
  ASSUME NEW l \in Seq(Pieces)
  PROVE  \A i \in DOMAIN l : l[i].len >= 0 /\ l[i].from >= -1
<1> TAKE i \in DOMAIN l
<1>1. l[i] \in Pieces
  BY LenProperties, ElementOfSeq
<1> QED
  BY <1>1 DEF Pieces

\* In an initial state.
LEMMA InitIInv == Init => IInv
<1> SUFFICES ASSUME Init PROVE IInv
  OBVIOUS
<1>1. TypeInv
  <2>1. /\ io_vec_list_ \in Seq(Pieces) /\ owed \in Seq(Byte) /\ wire \in Seq(Byte)
        /\ functions_ \in Seq(Functions)
    BY EmptySeq DEF Init
  <2>2. \A i \in DOMAIN io_vec_list_ : io_vec_list_[i].len >= 0 /\ io_vec_list_[i].from >= -1
    BY <2>1, PiecesAreLong
  <2>3. /\ inbuf \in 0 .. MaxIn /\ received \in 0 .. MaxIn /\ sndbuf \in 0 .. SndCap
        /\ sends \in 0 .. MaxSends /\ inbuf <= received
    BY ConstantAssumption DEF Init
  <2>4. event_ \subseteq {"IN", "OUT", "ET"}
    BY DEF Init, AddEvent, kEventRead
  <2> QED
    BY <2>1, <2>2, <2>3, <2>4 DEF Init, TypeInv, TypeOK, AddEvent, Causes
<1>2. CloseIsComplete /\ CauseInv
  BY DEF Init, CloseIsComplete, CauseInv, AddEvent
<1>3. ReadInv
  BY DEF Init, ReadInv, AddEvent, kEventRead
<1>4. WriteInv
  <2>1. "OUT" \notin event_
    BY DEF Init, AddEvent, kEventRead
  <2> QED
    BY <2>1 DEF Init, WriteInv
<1>5. NothingLost
  BY AllBytesEmpty, EmptySeq, ConcatEmptySeq DEF Init, NothingLost, Pending
<1> QED
  BY <1>1, <1>2, <1>3, <1>4, <1>5 DEF IInv

-----------------------------------------------------------------------------
(* The peer and the other threads.                                         *)

LEMMA PeerStep ==
  ASSUME IInv, PeerSends \/ PeerCloses \/ PeerResets \/ PeerAcks
  PROVE  IInv'
<1> USE DEF loopVars, sockVars, outVars
<1>1. CASE PeerSends
  <2>1. TypeInv'
    BY <1>1, ConstantAssumption DEF IInv, TypeInv, TypeOK, PeerSends
  <2>2. CloseIsComplete' /\ CauseInv' /\ ReadInv' /\ WriteInv'
    BY <1>1 DEF IInv, TypeInv, TypeOK, PeerSends, CloseIsComplete, CauseInv, ReadInv,
                Reading, WriteInv, Room, Dead, Failed
  <2>3. NothingLost'
    BY <1>1 DEF IInv, PeerSends, NothingLost, Pending
  <2> QED
    BY <2>1, <2>2, <2>3 DEF IInv
<1>2. CASE PeerCloses
  <2>1. TypeInv'
    BY <1>2 DEF IInv, TypeInv, TypeOK, PeerCloses
  <2>2. CloseIsComplete' /\ CauseInv' /\ ReadInv' /\ WriteInv'
    BY <1>2 DEF IInv, TypeInv, TypeOK, PeerCloses, CloseIsComplete, CauseInv, ReadInv,
                Reading, WriteInv, Room, Dead, Failed
  <2>3. NothingLost'
    BY <1>2 DEF IInv, PeerCloses, NothingLost, Pending
  <2> QED
    BY <2>1, <2>2, <2>3 DEF IInv
<1>3. CASE PeerResets
  <2>1. TypeInv'
    BY <1>3 DEF IInv, TypeInv, TypeOK, PeerResets
  <2>2. CloseIsComplete' /\ CauseInv' /\ ReadInv' /\ WriteInv'
    BY <1>3 DEF IInv, TypeInv, TypeOK, PeerResets, CloseIsComplete, CauseInv, ReadInv,
                Reading, WriteInv, Room, Dead, Failed
  <2>3. NothingLost'
    BY <1>3 DEF IInv, PeerResets, NothingLost, Pending
  <2> QED
    BY <2>1, <2>2, <2>3 DEF IInv
<1>4. CASE PeerAcks
  <2>1. TypeInv'
    BY <1>4, ConstantAssumption DEF IInv, TypeInv, TypeOK, PeerAcks
  <2>2. CloseIsComplete' /\ CauseInv' /\ ReadInv'
    BY <1>4 DEF IInv, TypeInv, TypeOK, PeerAcks, CloseIsComplete, CauseInv, ReadInv, Reading
  <2>3. WriteInv'
    BY <1>4, ConstantAssumption DEF IInv, TypeInv, TypeOK, PeerAcks, WriteInv, Room, Dead, Failed
  <2>4. NothingLost'
    BY <1>4 DEF IInv, PeerAcks, NothingLost, Pending
  <2> QED
    BY <2>1, <2>2, <2>3, <2>4 DEF IInv
<1> QED
  BY <1>1, <1>2, <1>3, <1>4

LEMMA CallStep ==
  ASSUME IInv, CallSend \/ CallForceClose
  PROVE  IInv'
<1> USE DEF loopVars, sockVars, outVars
<1>1. PICK f \in Functions : Queue(f)
  <2>1. CASE CallSend
    <3>1. PICK c \in Messages : Queue([op |-> c[1], size |-> c[2], msg |-> sends + 1])
      BY <2>1 DEF CallSend
    <3>2. sends + 1 \in 1 .. MaxSends
      BY <2>1, ConstantAssumption DEF CallSend, IInv, TypeInv, TypeOK
    <3>3. c[1] \in {"buf", "list", "none"} /\ c[2] \in Sizes
      BY MessageSize, ConstantAssumption
    <3> QED
      BY <3>1, <3>2, <3>3 DEF Functions
  <2>2. CASE CallForceClose
    BY <2>2 DEF CallForceClose, Functions
  <2> QED
    BY <2>1, <2>2
<1>2. functions_' \in Seq(Functions)
  BY <1>1, AppendProperties DEF Queue, IInv, TypeInv, TypeOK
<1>3. sends' \in 0 .. MaxSends
  BY ConstantAssumption DEF CallSend, CallForceClose, IInv, TypeInv, TypeOK
<1>4. TypeInv'
  BY <1>1, <1>2, <1>3 DEF Queue, IInv, TypeInv, TypeOK
<1>5. CloseIsComplete' /\ CauseInv' /\ ReadInv' /\ WriteInv' /\ NothingLost'
  BY <1>1 DEF Queue, IInv, CloseIsComplete, CauseInv, ReadInv, Reading, WriteInv,
              Room, Dead, Failed, NothingLost, Pending
<1> QED
  BY <1>4, <1>5 DEF IInv
-----------------------------------------------------------------------------
(* The connection's own operations.                                        *)

\* After OnClose the connection is closed, and asks nobody for anything.
LEMMA OnCloseStep ==
  ASSUME IInv, NEW why, OnClose(why),
         \/ why \in {"ForceClose", "OnTimeout", "EINVAL"}
         \/ why \in {"OnError", "OnClose"} /\ sock = "gone"
         \/ why = "OnWrite" /\ sock = "reset"
         \/ why = "OnRead" /\ inbuf = 0 /\ sock # "up",
         UNCHANGED <<ret, sockVars, outVars, sends>>,
         functions_' \in Seq(Functions), timer' \in BOOLEAN,
         pc' \in {"Readv", "Writev", "RunFuctions", "OnTimer"}
  PROVE  IInv'
<1> USE DEF sockVars, outVars
<1>1. /\ closed_' = TRUE /\ fd_' = FALSE /\ events_' = FALSE
      /\ ready' \in BOOLEAN /\ UNCHANGED <<event_, io_vec_list_>>
      /\ \/ cause' = cause /\ closed_
         \/ cause' = why
  BY DEF OnClose, OnConnectionClose, DelEvent, Close, IInv, CloseIsComplete, TypeInv, TypeOK
<1>2. TypeInv'
  BY ZenonT(40), <1>1 DEF IInv, TypeInv, TypeOK, Causes
<1>3. CloseIsComplete' /\ CauseInv'
  BY <1>1 DEF IInv, CloseIsComplete, CauseInv
<1>4. ReadInv' /\ WriteInv'
  BY <1>1 DEF IInv, ReadInv, WriteInv
<1>5. NothingLost'
  BY <1>1 DEF IInv, NothingLost, Pending
<1> QED
  BY <1>2, <1>3, <1>4, <1>5 DEF IInv

\* What joins the queue is asked for, and seen at once if there is room.
LEMMA QueuePieceIs ==
  ASSUME IInv, NEW v \in [msg : Nat, from : Int, len : Nat], v.from >= -1,
         NEW next, QueuePiece(v, next)
  PROVE  /\ io_vec_list_' \in Seq(Pieces) /\ Bytes(v) \in Seq(Byte)
         /\ AllBytes(io_vec_list_') = AllBytes(io_vec_list_) \o Bytes(v)
         /\ event_' \subseteq {"IN", "OUT", "ET"} /\ event_ \subseteq event_'
         /\ ready' \in BOOLEAN /\ missed' \in BOOLEAN /\ (ready => ready')
         /\ pc' = next /\ ret' = ret
         /\ \/ v.len = 0 /\ UNCHANGED <<io_vec_list_, event_, ready, missed>>
            \/ /\ v.len > 0 /\ (events_ => "OUT" \in event_')
               /\ events_ /\ (Room > 0 \/ Dead) => ready'
<1>1. /\ io_vec_list_ \in Seq(Pieces) /\ event_ \subseteq {"IN", "OUT", "ET"}
      /\ ready \in BOOLEAN /\ missed \in BOOLEAN
  BY DEF IInv, TypeInv, TypeOK
<1>2. Bytes(v) \in Seq(Byte) /\ Len(Bytes(v)) = v.len
  BY BytesType
<1>3. CASE v.len = 0
  <2>1. Bytes(v) = << >>
    BY <1>2, <1>3, EmptySeq
  <2>2. UNCHANGED <<io_vec_list_, event_, ready, missed, ret>> /\ pc' = next
    BY <1>3 DEF QueuePiece
  <2>3. AllBytes(io_vec_list_) \in Seq(Byte)
    BY <1>1, AllBytesType
  <2> QED
    BY <1>1, <1>2, <1>3, <2>1, <2>2, <2>3, ConcatEmptySeq
<1>4. CASE v.len # 0
  <2>1. v \in Pieces /\ v.len > 0
    BY <1>4 DEF Pieces
  <2>2. /\ io_vec_list_' = Append(io_vec_list_, v) /\ missed' = FALSE /\ EnableWrite(TRUE)
        /\ pc' = next /\ ret' = ret
    BY <1>4 DEF QueuePiece
  <2>3. /\ io_vec_list_' \in Seq(Pieces)
        /\ AllBytes(io_vec_list_') = AllBytes(io_vec_list_) \o Bytes(v)
    BY <1>1, <2>1, <2>2, AllBytesAppend, AppendProperties
  <2>4. /\ event_' \subseteq {"IN", "OUT", "ET"} /\ event_ \subseteq event_'
        /\ events_ => "OUT" \in event_'
    BY <1>1, <2>2 DEF EnableWrite, kEventWrite
  <2>5. ready' \in BOOLEAN /\ (ready => ready')
    BY <1>1, <2>2 DEF EnableWrite
  <2>6. ASSUME events_, Room > 0 \/ Dead PROVE ready'
    <3>1. "OUT" \in Mask(event_')
      BY <2>4, <2>6 DEF Mask
    <3> QED
      BY <2>2, <2>6, <3>1 DEF EnableWrite
  <2> QED
    BY <1>2, <2>1, <2>2, <2>3, <2>4, <2>5, <2>6
<1> QED
  BY <1>3, <1>4

\* Send(list).
LEMMA SendListStep ==
  ASSUME IInv, NEW way, NEW m \in Nat, NEW n \in Nat,
         NEW next \in {"Readv", "Writev", "RunFuctions"},
         SendList(way, m, n, next),
         \/ pc = "Message" /\ next = "Readv"
         \/ pc = "RunFuctions" /\ next = "RunFuctions"
         \/ pc = "WriteComplete" /\ next = ret,
         UNCHANGED <<closed_, fd_, events_, timer, inbuf, received, cause>>,
         functions_' \in Seq(Functions), sends' \in 0 .. MaxSends
  PROVE  IInv'
<1> DEFINE v == Piece(m, 0, n)
<1>1. /\ v \in [msg : Nat, from : Int, len : Nat] /\ v.from >= -1 /\ v.len = n
      /\ Bytes(v) \in Seq(Byte) /\ v \in Pieces
  BY BytesType DEF Piece, Pieces
<1>2. pc' = next /\ UNCHANGED <<sndbuf, wire, wrapped, ret, sock>>
  BY DEF SendList
<1>3. /\ io_vec_list_ \in Seq(Pieces) /\ owed \in Seq(Byte) /\ wire \in Seq(Byte)
      /\ AllBytes(io_vec_list_) \in Seq(Byte)
  BY AllBytesType DEF IInv, TypeInv
<1>4. CASE closed_ /\ UNCHANGED <<io_vec_list_, owed, event_, ready, missed>>
  <2>1. TypeInv'
    BY <1>2, <1>4 DEF IInv, TypeInv, TypeOK
  <2>2. CloseIsComplete' /\ CauseInv' /\ ReadInv' /\ WriteInv' /\ NothingLost'
    BY <1>2, <1>4 DEF IInv, CloseIsComplete, CauseInv, ReadInv, Reading, WriteInv,
                      NothingLost, Pending
  <2> QED
    BY <2>1, <2>2 DEF IInv
<1>5. CASE /\ owed' = owed \o Bytes(v)
           /\ io_vec_list_' = Append(io_vec_list_, v)
           /\ missed' = (missed \/ "OUT" \notin event_)
           /\ UNCHANGED <<event_, ready>>
  <2>1. /\ io_vec_list_' \in Seq(Pieces) /\ owed' \in Seq(Byte)
        /\ AllBytes(io_vec_list_') = AllBytes(io_vec_list_) \o Bytes(v)
    BY <1>1, <1>3, <1>5, AppendProperties, AllBytesAppend, ConcatProperties
  <2>2. \A i \in DOMAIN io_vec_list_' :
          io_vec_list_'[i].len >= 0 /\ io_vec_list_'[i].from >= -1
    BY <2>1, PiecesAreLong
  <2>3. TypeInv'
    BY ZenonT(40), <1>2, <1>5, <2>1, <2>2 DEF IInv, TypeInv, TypeOK
  <2>4. CloseIsComplete' /\ CauseInv' /\ ReadInv'
    BY <1>2, <1>5 DEF IInv, CloseIsComplete, CauseInv, ReadInv, Reading
  <2>5. WriteInv'
    BY <1>2, <1>5 DEF IInv, WriteInv, Room, Dead, Failed
  <2>6. NothingLost'
    <3>1. wire \o (AllBytes(io_vec_list_) \o Bytes(v))
            = (wire \o AllBytes(io_vec_list_)) \o Bytes(v)
      BY ZenonT(40), <1>1, <1>3, BytesAssociative
    <3> QED
      BY <1>2, <1>5, <2>1, <3>1 DEF IInv, NothingLost, Pending
  <2> QED
    BY <2>3, <2>4, <2>5, <2>6 DEF IInv
<1>6. CASE /\ IF io_vec_list_ = << >> THEN EnableWrite(TRUE) ELSE UNCHANGED <<event_, ready>>
           /\ UNCHANGED <<io_vec_list_, owed, missed>>
  <2>1. /\ event_' \subseteq {"IN", "OUT", "ET"} /\ event_ \subseteq event_'
        /\ ready' \in BOOLEAN /\ (ready => ready')
    BY <1>6 DEF IInv, TypeInv, TypeOK, EnableWrite, kEventWrite
  <2>2. ASSUME events_, "OUT" \in event_', Room > 0 \/ Dead
        PROVE  ready' \/ "OUT" \in event_
    <3>1. CASE io_vec_list_ = << >>
      <4>1. "OUT" \in Mask(event_')
        BY <2>2 DEF Mask
      <4> QED
        BY <1>6, <2>2, <3>1, <4>1 DEF EnableWrite
    <3> QED
      BY <1>6, <2>2, <3>1
  <2>3. TypeInv'
    BY <1>2, <1>6, <2>1 DEF IInv, TypeInv, TypeOK
  <2>4. CloseIsComplete' /\ CauseInv' /\ ReadInv'
    BY <1>2, <1>6, <2>1 DEF IInv, CloseIsComplete, CauseInv, ReadInv, Reading
  <2>5. WriteInv'
    BY <1>2, <1>6, <2>1, <2>2 DEF IInv, WriteInv, Room, Dead, Failed
  <2>6. NothingLost'
    BY <1>2, <1>6 DEF IInv, NothingLost, Pending
  <2> QED
    BY <2>3, <2>4, <2>5, <2>6 DEF IInv
<1> QED
  BY <1>4, <1>5, <1>6 DEF SendList

\* Send(buf, size).
LEMMA SendBufStep ==
  ASSUME IInv, NEW m \in Nat, NEW n \in Nat, NEW next \in {"Readv", "Writev", "RunFuctions"},
         SendBuf(m, n, next),
         \/ pc = "Message" /\ next = "Readv"
         \/ pc = "RunFuctions" /\ next = "RunFuctions"
         \/ pc = "WriteComplete" /\ next = ret,
         UNCHANGED <<closed_, fd_, events_, timer, inbuf, received, cause>>,
         functions_' \in Seq(Functions), sends' \in 0 .. MaxSends
  PROVE  IInv'
<1> DEFINE v == Piece(m, 0, n)
           b == Bytes(v)
<1>1. /\ v \in [msg : Nat, from : Int, len : Nat] /\ v.from = 0 /\ v.len = n /\ v.msg = m
      /\ b \in Seq(Byte) /\ Len(b) = n /\ v \in Pieces
  BY BytesType DEF Piece, Pieces
<1>2. /\ io_vec_list_ \in Seq(Pieces) /\ owed \in Seq(Byte) /\ wire \in Seq(Byte)
      /\ AllBytes(io_vec_list_) \in Seq(Byte) /\ owed \o b \in Seq(Byte)
      /\ sndbuf \in 0 .. SndCap /\ Room \in Nat /\ SndCap \in Nat
  <2>1. /\ io_vec_list_ \in Seq(Pieces) /\ owed \in Seq(Byte) /\ wire \in Seq(Byte)
        /\ sndbuf \in 0 .. SndCap /\ Room \in Nat /\ SndCap \in Nat
    BY ConstantAssumption DEF IInv, TypeInv, TypeOK, Room
  <2> HIDE DEF b
  <2> QED
    BY <1>1, <2>1, AllBytesType, ConcatProperties
<1> HIDE DEF v, b
<1>3. ASSUME closed_, pc' = next,
             UNCHANGED <<io_vec_list_, owed, wire, wrapped, missed, sndbuf, sock, event_, ready, ret>>
      PROVE  IInv'
  <2>1. TypeInv'
    BY <1>3 DEF IInv, TypeInv, TypeOK
  <2>2. CloseIsComplete' /\ CauseInv' /\ ReadInv' /\ WriteInv' /\ NothingLost'
    BY <1>3 DEF IInv, CloseIsComplete, CauseInv, ReadInv, Reading, WriteInv,
                NothingLost, Pending
  <2> QED
    BY <2>1, <2>2 DEF IInv
<1>4. ASSUME owed' = owed \o b, QueuePiece(v, next), UNCHANGED <<wire, sndbuf, wrapped, sock>>
      PROVE  IInv'
  <2>1. /\ io_vec_list_' \in Seq(Pieces)
        /\ AllBytes(io_vec_list_') = AllBytes(io_vec_list_) \o b
        /\ event_' \subseteq {"IN", "OUT", "ET"} /\ event_ \subseteq event_'
        /\ ready' \in BOOLEAN /\ missed' \in BOOLEAN /\ (ready => ready')
        /\ pc' = next /\ ret' = ret
        /\ \/ UNCHANGED <<io_vec_list_, event_, ready, missed>>
           \/ /\ events_ => "OUT" \in event_'
              /\ events_ /\ (Room > 0 \/ Dead) => ready'
    <3>1. v \in [msg : Nat, from : Int, len : Nat] /\ v.from >= -1 /\ b = Bytes(v)
      BY <1>1 DEF b
    <3> QED
      BY ZenonT(40), <1>4, <3>1, QueuePieceIs
  <2>2. \A i \in DOMAIN io_vec_list_' :
          io_vec_list_'[i].len >= 0 /\ io_vec_list_'[i].from >= -1
    BY <2>1, PiecesAreLong
  <2>3. TypeInv'
    BY <1>2, <1>4, <2>1, <2>2 DEF IInv, TypeInv, TypeOK
  <2>4. CloseIsComplete' /\ CauseInv' /\ ReadInv'
    BY <1>4, <2>1 DEF IInv, CloseIsComplete, CauseInv, ReadInv, Reading
  <2>5. WriteInv'
    BY <1>4, <2>1 DEF IInv, WriteInv, Room, Dead, Failed
  <2>6. NothingLost'
    <3>1. wire \o (AllBytes(io_vec_list_) \o b) = (wire \o AllBytes(io_vec_list_)) \o b
      BY ZenonT(40), <1>1, <1>2, BytesAssociative
    <3> QED
      BY <1>4, <2>1, <3>1 DEF IInv, NothingLost, Pending
  <2> QED
    BY <2>3, <2>4, <2>5, <2>6 DEF IInv
<1>5. ASSUME owed' = owed \o b, io_vec_list_ = << >>, ~ Dead, Write(b),
             UNCHANGED <<wrapped, sock>>,
             \/ /\ n <= Room
                /\ pc' = "WriteComplete" /\ ret' = next
                /\ UNCHANGED <<io_vec_list_, event_, ready, missed>>
             \/ n > Room /\ QueuePiece(Piece(m, Room, n - Room), next)
      PROVE  IInv'
  <2>1. AllBytes(io_vec_list_) = << >> /\ (wrapped \/ wire = owed)
    BY <1>2, <1>5, AllBytesEmpty, ConcatEmptySeq DEF IInv, NothingLost, Pending
  <2>2. CASE /\ n <= Room
             /\ pc' = "WriteComplete" /\ ret' = next
             /\ UNCHANGED <<io_vec_list_, event_, ready, missed>>
    <3>1. Min({Len(b), Room}) = n
      BY <1>1, <1>2, <2>2, MinOfTwo
    <3>2. SubSeq(b, 1, n) = b
      BY <1>1, SubSeqFull
    <3>3. wire' = wire \o b /\ sndbuf' = sndbuf + n
      BY <1>5, <3>1, <3>2 DEF Write
    <3>4. wire' \in Seq(Byte) /\ sndbuf' \in 0 .. SndCap
      BY <1>1, <1>2, <2>2, <3>3, ConcatProperties DEF Room
    <3>5. TypeInv'
      BY <1>2, <1>5, <2>2, <3>4 DEF IInv, TypeInv, TypeOK
    <3>6. CloseIsComplete' /\ CauseInv' /\ ReadInv'
      BY <1>5, <2>2 DEF IInv, CloseIsComplete, CauseInv, ReadInv, Reading
    <3>7. WriteInv'
      BY <1>2, <1>5, <2>2, <3>3 DEF IInv, WriteInv, Room, Dead, Failed
    <3>8. NothingLost'
      BY <1>5, <2>1, <2>2, <3>3, <3>4, ConcatEmptySeq DEF NothingLost, Pending
    <3> QED
      BY <3>5, <3>6, <3>7, <3>8 DEF IInv
  <2>3. CASE n > Room /\ QueuePiece(Piece(m, Room, n - Room), next)
    <3> DEFINE w == Piece(m, Room, n - Room)
               p == SubSeq(b, 1, Room)
    <3>1. Min({Len(b), Room}) = Room
      BY <1>1, <1>2, <2>3, MinOfTwo
    <3>2. wire' = wire \o p /\ sndbuf' = sndbuf + Room
      BY <1>5, <3>1 DEF Write
    <3>3. /\ w \in [msg : Nat, from : Int, len : Nat] /\ w.from >= -1
          /\ w.len = n - Room
      BY <1>2, <2>3 DEF Piece
    <3>4. p \in Seq(Byte) /\ b = p \o Bytes(w)
      <4>1. v \in Pieces /\ Room \in 0 .. v.len
        BY <1>1, <1>2, <2>3
      <4>2. Piece(v.msg, v.from + Room, v.len - Room) = w
        BY <1>1, <1>2
      <4> HIDE DEF w
      <4> QED
        BY <4>1, <4>2, PieceSplit DEF b
    <3>5. /\ io_vec_list_' \in Seq(Pieces) /\ Bytes(w) \in Seq(Byte)
          /\ AllBytes(io_vec_list_') = AllBytes(io_vec_list_) \o Bytes(w)
          /\ event_' \subseteq {"IN", "OUT", "ET"} /\ event_ \subseteq event_'
          /\ ready' \in BOOLEAN /\ missed' \in BOOLEAN /\ (ready => ready')
          /\ pc' = next /\ ret' = ret
          /\ \/ w.len = 0
             \/ w.len > 0 /\ (events_ => "OUT" \in event_')
      <4> HIDE DEF w
      <4> QED
        BY <2>3, <3>3, QueuePieceIs DEF w
    <3> HIDE DEF w, p
    <3>6. events_ => "OUT" \in event_'
      BY <1>2, <2>3, <3>3, <3>5
    <3>7. \A i \in DOMAIN io_vec_list_' :
            io_vec_list_'[i].len >= 0 /\ io_vec_list_'[i].from >= -1
      BY <3>5, PiecesAreLong
    <3>8. wire' \in Seq(Byte) /\ sndbuf' = SndCap
      BY <1>2, <3>2, <3>4, ConcatProperties DEF Room
    <3>9. TypeInv'
      BY SMTT(30), <1>2, <1>5, <3>5, <3>7, <3>8 DEF IInv, TypeInv, TypeOK
    <3>10. CloseIsComplete' /\ CauseInv' /\ ReadInv'
      BY <1>5, <3>5 DEF IInv, CloseIsComplete, CauseInv, ReadInv, Reading
    <3>11. WriteInv'
      BY <1>2, <1>5, <3>5, <3>6, <3>8 DEF IInv, WriteInv, Room, Dead, Failed
    <3>12. NothingLost'
      <4>1. AllBytes(io_vec_list_') = Bytes(w)
        BY <2>1, <3>5, ConcatEmptySeq
      <4>2. wire' \o Bytes(w) = wire \o b
        BY SMTT(30), <1>2, <3>2, <3>4, <3>5, BytesAssociative
      <4> QED
        BY <1>5, <2>1, <4>1, <4>2 DEF NothingLost, Pending
    <3> QED
      BY <3>9, <3>10, <3>11, <3>12 DEF IInv
  <2> QED
    BY <1>5, <2>2, <2>3
<1>6. ASSUME WriteFails(m, n, next), UNCHANGED <<wire, sndbuf>>
      PROVE  IInv'
  <2>1. CASE /\ sock = "reset" \/ (~ Dead /\ Room = 0 /\ n > 0)
             /\ sock' = IF sock = "reset" THEN "gone" ELSE sock
             /\ wrapped' = TRUE /\ owed' = owed \o b
             /\ QueuePiece(Piece(m, -1, n + 1), next)
    <3> DEFINE w == Piece(m, -1, n + 1)
    <3>1. w \in [msg : Nat, from : Int, len : Nat] /\ w.from >= -1 /\ w.len = n + 1
      BY DEF Piece
    <3>2. /\ io_vec_list_' \in Seq(Pieces)
          /\ event_' \subseteq {"IN", "OUT", "ET"} /\ event_ \subseteq event_'
          /\ ready' \in BOOLEAN /\ missed' \in BOOLEAN /\ (ready => ready')
          /\ pc' = next /\ ret' = ret
          /\ \/ w.len = 0
             \/ w.len > 0 /\ (events_ => "OUT" \in event_')
      <4> HIDE DEF w
      <4> QED
        BY <2>1, <3>1, QueuePieceIs DEF w
    <3>3. events_ => "OUT" \in event_'
      BY <3>1, <3>2
    <3>4. \A i \in DOMAIN io_vec_list_' :
            io_vec_list_'[i].len >= 0 /\ io_vec_list_'[i].from >= -1
      BY <3>2, PiecesAreLong
    <3>5. TypeInv'
      BY <1>2, <1>6, <2>1, <3>2, <3>4 DEF IInv, TypeInv, TypeOK
    <3>6. CloseIsComplete' /\ CauseInv' /\ ReadInv'
      BY <2>1, <3>2 DEF IInv, CloseIsComplete, CauseInv, ReadInv, Reading
    <3>7. WriteInv'
      BY <1>6, <2>1, <3>2, <3>3 DEF IInv, WriteInv, Room, Dead, Failed
    <3>8. NothingLost'
      BY <2>1 DEF NothingLost
    <3> QED
      BY <3>5, <3>6, <3>7, <3>8 DEF IInv
  <2>2. CASE /\ sock \in {"broken", "gone"}
             /\ pc' = "Killed"
             /\ UNCHANGED <<sock, wrapped, missed, owed, io_vec_list_, event_, ready, ret>>
    <3>1. TypeInv'
      BY <1>6, <2>2 DEF IInv, TypeInv, TypeOK
    <3>2. CloseIsComplete' /\ CauseInv' /\ ReadInv' /\ WriteInv' /\ NothingLost'
      BY <1>6, <2>2 DEF IInv, CloseIsComplete, CauseInv, ReadInv, Reading, WriteInv,
                        Room, Dead, Failed, NothingLost, Pending
    <3> QED
      BY <3>1, <3>2 DEF IInv
  <2> QED
    BY <1>6, <2>1, <2>2 DEF WriteFails, b, v
<1> QED
  BY <1>3, <1>4, <1>5, <1>6 DEF SendBuf, b, v

LEMMA SendInLoopStep ==
  ASSUME IInv, NEW way, NEW m \in Nat, NEW n \in Nat, NEW next \in {"Readv", "Writev", "RunFuctions"},
         SendInLoop(way, m, n, next),
         \/ pc = "Message" /\ next = "Readv"
         \/ pc = "RunFuctions" /\ next = "RunFuctions"
         \/ pc = "WriteComplete" /\ next = ret,
         functions_' \in Seq(Functions), sends' \in 0 .. MaxSends
  PROVE  IInv'
  BY SendBufStep, SendListStep DEF SendInLoop
-----------------------------------------------------------------------------
(* The loop.                                                               *)

LEMMA EpollStep ==
  ASSUME IInv, EpollReturns \/ EpollTimesOut
  PROVE  IInv'
<1> USE DEF loopVars, sockVars, outVars
<1>1. CASE EpollReturns
  <2> DEFINE mask == Mask(event_)
  <2>1. /\ pc = "EpollWait" /\ pc' = Handler(mask) /\ ready' = ("ET" \notin event_)
        /\ sock' = IF Failed THEN "gone" ELSE sock
        /\ missed' = (missed \/ {"IN", "OUT"} \subseteq mask)
        /\ mask # {}
        /\ UNCHANGED <<loopVars, functions_, ret, inbuf, received, sndbuf, owed, wire, wrapped,
                       sends, cause>>
    BY <1>1 DEF EpollReturns
  <2>2. /\ "ERR" \in mask <=> Failed
        /\ "HUP" \in mask <=> Dead
        /\ "IN" \in mask <=> inbuf > 0 \/ sock # "up"
        /\ "OUT" \in mask <=> "OUT" \in event_ /\ (Room > 0 \/ Dead)
        /\ mask \subseteq {"IN", "OUT", "HUP", "ERR"}
    BY DEF Mask, IInv, ReadInv, TypeInv, TypeOK
  <2> HIDE DEF mask
  <2>3. /\ pc' \in {"OnError", "OnClose", "Readv", "OnWrite"}
        /\ pc' = "OnError" => Failed
        /\ pc' = "OnClose" => Dead /\ ~ Failed
        /\ pc' = "OnWrite" => /\ ~ (inbuf > 0 \/ sock # "up")
                              /\ "OUT" \in event_
        /\ "IN" \notin mask /\ "OUT" \in mask /\ ~ Dead => pc' = "OnWrite"
    <3>1. CASE "ERR" \in mask
      <4>1. pc' = "OnError"
        BY <2>1, <3>1 DEF Handler
      <4> QED
        BY <2>2, <3>1, <4>1 DEF Dead
    <3>2. CASE "ERR" \notin mask /\ "HUP" \in mask /\ "IN" \notin mask
      <4>1. pc' = "OnClose"
        BY <2>1, <3>2 DEF Handler
      <4> QED
        BY <2>2, <3>2, <4>1
    <3>3. CASE "ERR" \notin mask /\ "IN" \in mask
      <4>1. pc' = "Readv"
        BY <2>1, <3>3 DEF Handler
      <4> QED
        BY <2>2, <3>3, <4>1
    <3>4. CASE "ERR" \notin mask /\ "HUP" \notin mask /\ "IN" \notin mask
      <4>1. pc' = "OnWrite"
        BY <2>1, <3>4 DEF Handler
      <4>2. "OUT" \in mask
        BY <2>1, <2>2, <3>4
      <4> QED
        BY <2>2, <3>4, <4>1, <4>2
    <3> QED
      BY <3>1, <3>2, <3>3, <3>4
  <2>4. TypeInv'
    BY <2>1, <2>3 DEF IInv, TypeInv, TypeOK
  <2>5. CloseIsComplete' /\ CauseInv'
    BY <2>1, <2>3 DEF IInv, CloseIsComplete, CauseInv, Dead, Failed
  <2>6. ReadInv'
    BY <2>1, <2>3 DEF IInv, ReadInv, Reading, Failed
  <2>7. WriteInv'
    <3>1. Room' = Room /\ (~ Dead' => ~ Dead)
      BY <2>1 DEF Room, Dead, Failed
    <3>2. "OUT" \in event_ /\ Room > 0 /\ ~ Dead => missed' \/ pc' = "OnWrite"
      BY <2>1, <2>2, <2>3
    <3>3. /\ pc' = "OnWrite" => "OUT" \in event_
          /\ pc' # "Writev" /\ pc' # "WriteComplete"
      BY <2>3
    <3>4. events_ /\ io_vec_list_ # << >> => missed' \/ "OUT" \in event_
      BY <2>1 DEF IInv, WriteInv
    <3> QED
      BY <2>1, <3>1, <3>2, <3>3, <3>4 DEF WriteInv
  <2>8. NothingLost'
    BY <2>1 DEF IInv, NothingLost, Pending
  <2> QED
    BY <2>4, <2>5, <2>6, <2>7, <2>8 DEF IInv
<1>2. CASE EpollTimesOut
  <2>1. ready => Mask(event_) = {}
    BY <1>2 DEF EpollTimesOut
  <2>2. /\ ready => ~ (inbuf > 0 \/ sock # "up")
        /\ ready => ~ ("OUT" \in event_ /\ (Room > 0 \/ Dead))
    BY <2>1 DEF Mask, IInv, ReadInv
  <2>3. TypeInv'
    BY ZenonT(40), <1>2 DEF EpollTimesOut, IInv, TypeInv, TypeOK
  <2>4. CloseIsComplete' /\ CauseInv' /\ ReadInv' /\ WriteInv'
    BY <1>2, <2>2 DEF EpollTimesOut, IInv, CloseIsComplete, CauseInv, ReadInv, Reading,
                      WriteInv, Room, Dead, Failed
  <2>5. NothingLost'
    BY <1>2 DEF EpollTimesOut, IInv, NothingLost, Pending
  <2> QED
    BY <2>3, <2>4, <2>5 DEF IInv
<1> QED
  BY <1>1, <1>2

\* OnRead, with the callback it makes, and the two handlers that close.
LEMMA ReadStep ==
  ASSUME IInv, OnErrorOrClose \/ Readv \/ ReadvAgain \/ ReadvEnds \/ Message
  PROVE  IInv'
<1> USE DEF loopVars, sockVars, outVars
<1>0. functions_ \in Seq(Functions) /\ timer \in BOOLEAN /\ sends \in 0 .. MaxSends
  BY DEF IInv, TypeInv, TypeOK
<1>1. CASE OnErrorOrClose
  BY <1>0, <1>1, OnCloseStep DEF OnErrorOrClose, IInv, CauseInv
<1>2. CASE Readv
  <2>1. TypeInv'
    BY <1>2, ConstantAssumption DEF Readv, IInv, TypeInv, TypeOK
  <2>2. CloseIsComplete' /\ CauseInv' /\ ReadInv' /\ WriteInv' /\ NothingLost'
    BY <1>2 DEF Readv, IInv, CloseIsComplete, CauseInv, ReadInv, Reading, WriteInv,
                Room, Dead, Failed, NothingLost, Pending
  <2> QED
    BY <2>1, <2>2 DEF IInv
<1>3. CASE ReadvAgain
  <2>1. TypeInv'
    BY <1>3 DEF ReadvAgain, IInv, TypeInv, TypeOK
  <2>2. CloseIsComplete' /\ CauseInv' /\ ReadInv' /\ WriteInv' /\ NothingLost'
    BY <1>3 DEF ReadvAgain, IInv, CloseIsComplete, CauseInv, ReadInv, Reading, WriteInv,
                Room, Dead, Failed, NothingLost, Pending
  <2> QED
    BY <2>1, <2>2 DEF IInv
<1>4. CASE ReadvEnds
  BY <1>0, <1>4, OnCloseStep DEF ReadvEnds
<1>5. CASE Message
  <2>1. CASE /\ pc' = "Readv"
             /\ UNCHANGED <<loopVars, ret, sockVars, outVars, ready, sends, cause, functions_>>
    <3>1. TypeInv'
      BY <2>1 DEF IInv, TypeInv, TypeOK
    <3>2. CloseIsComplete' /\ CauseInv' /\ ReadInv' /\ WriteInv' /\ NothingLost'
      BY <1>5, <2>1 DEF Message, IInv, CloseIsComplete, CauseInv, ReadInv, Reading, WriteInv,
                        Room, Dead, Failed, NothingLost, Pending
    <3> QED
      BY <3>1, <3>2 DEF IInv
  <2>2. ASSUME NEW c \in Messages, sends < MaxSends, sends' = sends + 1,
               SendInLoop(c[1], sends + 1, c[2], "Readv")
        PROVE  IInv'
    <3>1. sends + 1 \in Nat /\ c[2] \in Nat /\ sends' \in 0 .. MaxSends
      BY <1>0, <2>2, MessageSize, ConstantAssumption
    <3>2. functions_' \in Seq(Functions) /\ pc = "Message"
      BY <1>0, <1>5 DEF Message
    <3>3. PICK m \in Nat : m = sends + 1
      BY <3>1
    <3>4. SendInLoop(c[1], m, c[2], "Readv")
      BY <2>2, <3>3
    <3>5. "Readv" \in {"Readv", "Writev", "RunFuctions"} /\ c[2] \in Nat
      BY <3>1
    <3> QED
      BY <3>1, <3>2, <3>4, <3>5, SendInLoopStep
  <2>3. CASE OnClose("ForceClose") /\ pc' = "Readv" /\ UNCHANGED <<timer, ret, sockVars, outVars, sends, functions_>>
    BY <1>0, <2>3, OnCloseStep
  <2> QED
    BY <1>5, <2>1, <2>2, <2>3 DEF Message
<1> QED
  BY <1>1, <1>2, <1>3, <1>4, <1>5

\* OnWrite, with the callback it makes.
LEMMA WriteStep ==
  ASSUME IInv, OnWrite \/ Writev \/ WritevAgain \/ WritevFails \/ WriteComplete
  PROVE  IInv'
<1> USE DEF loopVars, sockVars, outVars
<1>0. /\ functions_ \in Seq(Functions) /\ timer \in BOOLEAN /\ sends \in 0 .. MaxSends
      /\ io_vec_list_ \in Seq(Pieces) /\ wire \in Seq(Byte) /\ owed \in Seq(Byte)
      /\ Pending \in Seq(Byte) /\ Len(Pending) \in Nat
      /\ sndbuf \in 0 .. SndCap /\ Room \in Nat /\ SndCap \in Nat
  BY AllBytesType, ConstantAssumption DEF IInv, TypeInv, TypeOK, Pending, Room
<1>w. ASSUME EnableWrite(FALSE)
      PROVE  /\ event_' \subseteq {"IN", "OUT", "ET"} /\ "IN" \in event_'
             /\ events_ => "OUT" \notin event_'
             /\ ready' \in BOOLEAN /\ (ready => ready')
  BY <1>w DEF EnableWrite, kEventWrite, IInv, TypeInv, TypeOK, ReadInv
<1>1. CASE OnWrite
  <2>1. CASE io_vec_list_ = << >> /\ EnableWrite(FALSE) /\ pc' = "WriteComplete" /\ ret' = "RunFuctions"
    <3>1. TypeInv'
      BY <1>1, <1>w, <2>1 DEF OnWrite, IInv, TypeInv, TypeOK
    <3>2. CloseIsComplete' /\ CauseInv' /\ ReadInv' /\ WriteInv'
      BY <1>1, <1>w, <2>1 DEF OnWrite, IInv, CloseIsComplete, CauseInv, ReadInv, Reading,
                              WriteInv, Room, Dead, Failed
    <3>3. NothingLost'
      BY <1>1 DEF OnWrite, IInv, NothingLost, Pending
    <3> QED
      BY <3>1, <3>2, <3>3 DEF IInv
  <2>2. CASE io_vec_list_ # << >> /\ pc' = "Writev" /\ UNCHANGED <<event_, ready, ret>>
    <3>1. TypeInv'
      BY <1>1, <2>2 DEF OnWrite, IInv, TypeInv, TypeOK
    <3>2. CloseIsComplete' /\ CauseInv' /\ ReadInv' /\ WriteInv' /\ NothingLost'
      BY <1>1, <2>2 DEF OnWrite, IInv, CloseIsComplete, CauseInv, ReadInv, Reading,
                        WriteInv, Room, Dead, Failed, NothingLost, Pending
    <3> QED
      BY <3>1, <3>2 DEF IInv
  <2> QED
    BY <1>1, <2>1, <2>2 DEF OnWrite
<1>2. CASE Writev
  <2> DEFINE n == Min({Len(Pending), Room})
             p == SubSeq(Pending, 1, n)
  <2>1. /\ pc = "Writev" /\ fd_ /\ wire' = wire \o p /\ sndbuf' = sndbuf + n
        /\ io_vec_list_' = Advanced(io_vec_list_, n)
        /\ UNCHANGED <<closed_, fd_, events_, timer, functions_, sockVars, owed, wrapped, missed,
                       sends, cause>>
    BY <1>2 DEF Writev, Write
  <2>2. n \in 0 .. Len(Pending) /\ n <= Room
    <3> DEFINE k == Len(Pending)
               r == Room
    <3>1. k \in Nat /\ r \in Nat /\ n = Min({k, r})
      BY <1>0
    <3> HIDE DEF k, r, n
    <3>2. n = IF k <= r THEN k ELSE r
      BY <3>1, MinOfTwo
    <3>3. n \in 0 .. k /\ n <= r
      BY <3>1, <3>2
    <3> QED
      BY <3>3 DEF k, r
  <2> HIDE DEF n
  <2>3. /\ io_vec_list_' \in Seq(Pieces) /\ p \in Seq(Byte)
        /\ Pending = p \o AllBytes(io_vec_list_')
    BY <1>0, <2>1, <2>2, AdvancedIsRest DEF Pending
  <2> HIDE DEF p
  <2>4. /\ wire' \in Seq(Byte) /\ sndbuf' \in 0 .. SndCap
        /\ \A i \in DOMAIN io_vec_list_' :
             io_vec_list_'[i].len >= 0 /\ io_vec_list_'[i].from >= -1
    BY <1>0, <2>1, <2>2, <2>3, ConcatProperties, PiecesAreLong DEF Room
  <2>5. NothingLost'
    <3>1. AllBytes(io_vec_list_') \in Seq(Byte)
      BY <2>3, AllBytesType
    <3>2. wire' \o AllBytes(io_vec_list_') = wire \o Pending
      <4>1. (wire \o p) \o AllBytes(io_vec_list_') = wire \o (p \o AllBytes(io_vec_list_'))
        BY SMTT(30), <1>0, <2>3, <3>1, BytesAssociative
      <4> QED
        BY <2>1, <2>3, <4>1
    <3> QED
      BY <2>1, <3>2 DEF IInv, NothingLost, Pending
  <2>6. CASE /\ io_vec_list_' = << >> /\ EnableWrite(FALSE)
             /\ pc' = "WriteComplete" /\ ret' = "Writev"
    <3>1. TypeInv'
      BY <1>w, <2>1, <2>3, <2>4, <2>6 DEF IInv, TypeInv, TypeOK
    <3>2. CloseIsComplete' /\ CauseInv' /\ ReadInv' /\ WriteInv'
      BY <1>w, <2>1, <2>6 DEF IInv, CloseIsComplete, CauseInv, ReadInv, Reading, WriteInv
    <3> QED
      BY <2>5, <3>1, <3>2 DEF IInv
  <2>7. CASE io_vec_list_' # << >> /\ UNCHANGED <<event_, ready, pc, ret>>
    <3>2. TypeInv'
      BY <2>1, <2>3, <2>4, <2>7 DEF IInv, TypeInv, TypeOK
    <3>3. CloseIsComplete' /\ CauseInv' /\ ReadInv' /\ WriteInv'
      <4>1. CloseIsComplete' /\ CauseInv' /\ ReadInv'
        BY <2>1, <2>7 DEF IInv, CloseIsComplete, CauseInv, ReadInv, Reading
      <4>2. WriteInv'
        <5>1. io_vec_list_ # << >>
          BY <1>0, <2>1, <2>2, <2>7, AdvancedEmpty DEF Pending
        <5> QED
          BY <2>1, <2>7, <5>1 DEF IInv, WriteInv
      <4> QED
        BY <4>1, <4>2
    <3> QED
      BY <2>5, <3>2, <3>3 DEF IInv
  <2> QED
    BY <1>2, <2>6, <2>7 DEF Writev
<1>3. CASE WritevAgain
  <2>1. TypeInv'
    BY <1>3 DEF WritevAgain, IInv, TypeInv, TypeOK
  <2>2. CloseIsComplete' /\ CauseInv' /\ ReadInv' /\ NothingLost'
    BY <1>3 DEF WritevAgain, IInv, CloseIsComplete, CauseInv, ReadInv, Reading,
                NothingLost, Pending
  <2>3. WriteInv'
    <3>1. /\ ~ events_ \/ Room = 0
          /\ missed /\ "OUT" \notin event_ => missed'
          /\ UNCHANGED <<events_, event_, io_vec_list_, sndbuf>>
      BY <1>3 DEF WritevAgain, IInv, CloseIsComplete
    <3>2. Room' = Room /\ ~ (0 > 0)
      BY <3>1 DEF Room
    <3>3. events_ /\ io_vec_list_ # << >> => missed \/ "OUT" \in event_
      BY DEF IInv, WriteInv
    <3>4. events_' => ~ (Room' > 0)
      BY <3>1, <3>2
    <3> QED
      BY Zenon, <3>1, <3>3, <3>4 DEF WriteInv
  <2> QED
    BY <2>1, <2>2, <2>3 DEF IInv
<1>4. CASE WritevFails
  <2>1. CASE \/ OnClose("EINVAL") /\ pc' = "RunFuctions"
             \/ sock = "reset" /\ OnClose("OnWrite") /\ pc' = "RunFuctions"
    BY <1>0, <1>4, <2>1, OnCloseStep DEF WritevFails
  <2>2. CASE /\ sock \in {"broken", "gone"} /\ pc' = "Killed"
             /\ UNCHANGED <<closed_, fd_, events_, event_, io_vec_list_, ready, cause>>
    <3>1. TypeInv'
      BY <1>4, <2>2 DEF WritevFails, IInv, TypeInv, TypeOK
    <3>2. CloseIsComplete' /\ CauseInv' /\ ReadInv' /\ WriteInv' /\ NothingLost'
      BY <1>4, <2>2 DEF WritevFails, IInv, CloseIsComplete, CauseInv, ReadInv, Reading,
                        WriteInv, Room, Dead, Failed, NothingLost, Pending
    <3> QED
      BY <3>1, <3>2 DEF IInv
  <2> QED
    BY <1>4, <2>1, <2>2 DEF WritevFails
<1>5. CASE WriteComplete
  <2>1. CASE /\ UNCHANGED <<loopVars, ret, sockVars, outVars, ready, sends, cause, functions_>>
             /\ pc' = ret
    <3>1. TypeInv'
      BY <1>5, <2>1 DEF WriteComplete, IInv, TypeInv, TypeOK
    <3>2. CloseIsComplete' /\ CauseInv' /\ ReadInv' /\ WriteInv' /\ NothingLost'
      BY <1>5, <2>1 DEF WriteComplete, IInv, TypeInv, TypeOK, CloseIsComplete, CauseInv,
                        ReadInv, Reading, WriteInv, Room, Dead, Failed, NothingLost, Pending
    <3> QED
      BY <3>1, <3>2 DEF IInv
  <2>2. CASE /\ OnClose("ForceClose") /\ pc' = ret
             /\ UNCHANGED <<timer, ret, sockVars, outVars, sends, functions_>>
    <3>1. pc' \in {"Readv", "Writev", "RunFuctions"}
      BY <2>2 DEF IInv, TypeInv, TypeOK
    <3> QED
      BY <1>0, <2>2, <3>1, OnCloseStep
  <2>3. ASSUME NEW c \in Messages, sends < MaxSends, sends' = sends + 1,
               SendInLoop(c[1], sends + 1, c[2], ret)
        PROVE  IInv'
    <3>1. sends + 1 \in Nat /\ c[2] \in Nat /\ sends' \in 0 .. MaxSends
      BY <1>0, <2>3, MessageSize, ConstantAssumption
    <3>2. functions_' \in Seq(Functions) /\ pc = "WriteComplete"
      BY <1>0, <1>5 DEF WriteComplete
    <3>3. PICK m \in Nat : m = sends + 1
      BY <3>1
    <3>4. PICK next \in {"Readv", "Writev", "RunFuctions"} : next = ret
      BY DEF IInv, TypeInv, TypeOK
    <3>5. SendInLoop(c[1], m, c[2], next)
      BY <2>3, <3>3, <3>4
    <3> QED
      BY <3>1, <3>2, <3>4, <3>5, SendInLoopStep
  <2> QED
    BY <1>5, <2>1, <2>2, <2>3 DEF WriteComplete
<1> QED
  BY <1>1, <1>2, <1>3, <1>4, <1>5

\* The functions of other threads, and the timing wheel.
LEMMA RunFuctionsStep ==
  ASSUME IInv, RunFuctions \/ RunFuctionsEnds \/ OnTimeout \/ OnTimerEnds
  PROVE  IInv'
<1> USE DEF loopVars, sockVars, outVars
<1>0. functions_ \in Seq(Functions) /\ timer \in BOOLEAN /\ sends \in 0 .. MaxSends
  BY DEF IInv, TypeInv, TypeOK
<1>1. CASE RunFuctions
  <2> DEFINE f == Head(functions_)
  <2>1. /\ pc = "RunFuctions" /\ functions_' = Tail(functions_)
        /\ \/ f.op # "close" /\ SendInLoop(f.op, f.msg, f.size, "RunFuctions")
           \/ f.op = "close" /\ OnClose("ForceClose")
              /\ UNCHANGED <<timer, pc, ret, sockVars, outVars>>
        /\ UNCHANGED sends
    BY <1>1 DEF RunFuctions
  <2>2. f \in Functions /\ functions_' \in Seq(Functions)
    BY <1>0, <1>1, HeadTailProperties DEF RunFuctions
  <2> HIDE DEF f
  <2>3. f.op # "close" => f.msg \in Nat /\ f.size \in Nat
    <3>1. CASE f \in [op : {"buf", "list", "none"}, size : Sizes, msg : 1 .. MaxSends]
      <4>1. f.size \in Sizes /\ f.msg \in 1 .. MaxSends
        BY <3>1
      <4>2. Sizes \subseteq Nat /\ MaxSends \in Nat
        BY ConstantAssumption
      <4>3. f.size \in Nat
        BY <4>1, <4>2
      <4>4. f.msg \in Nat
        BY <4>1, <4>2
      <4> QED
        BY <4>3, <4>4
    <3>2. CASE f \in [op : {"close"}]
      BY <3>2
    <3> QED
      BY <2>2, <3>1, <3>2 DEF Functions
  <2>4. CASE f.op # "close" /\ SendInLoop(f.op, f.msg, f.size, "RunFuctions")
    BY <1>0, <2>1, <2>2, <2>3, <2>4, SendInLoopStep
  <2>5. CASE OnClose("ForceClose") /\ UNCHANGED <<timer, pc, ret, sockVars, outVars>>
    BY <1>0, <2>1, <2>2, <2>5, OnCloseStep
  <2> QED
    BY <2>1, <2>4, <2>5
<1>2. CASE RunFuctionsEnds \/ OnTimerEnds
  <2>1. TypeInv'
    <3>1. /\ pc' \in {"OnTimer", "EpollWait"}
          /\ UNCHANGED <<loopVars, functions_, ret, ready, sockVars, outVars, sends, cause>>
      BY <1>2 DEF RunFuctionsEnds, OnTimerEnds
    <3> QED
      BY <3>1 DEF IInv, TypeInv, TypeOK
  <2>2. CloseIsComplete' /\ CauseInv' /\ ReadInv' /\ WriteInv' /\ NothingLost'
    BY SMTT(30), <1>2 DEF RunFuctionsEnds, OnTimerEnds, IInv, CloseIsComplete, CauseInv, ReadInv,
                Reading, WriteInv, Room, Dead, Failed, NothingLost, Pending
  <2> QED
    BY <2>1, <2>2 DEF IInv
<1>3. CASE OnTimeout
  BY <1>0, <1>3, OnCloseStep DEF OnTimeout
<1> QED
  BY <1>1, <1>2, <1>3

-----------------------------------------------------------------------------
(* The theorems.                                                           *)

LEMMA StepIInv == IInv /\ [Next]_vars => IInv'
<1> SUFFICES ASSUME IInv, [Next]_vars PROVE IInv'
  OBVIOUS
<1>1. CASE UNCHANGED vars
  <2>1. TypeInv'
    BY <1>1 DEF vars, loopVars, sockVars, outVars, IInv, TypeInv, TypeOK
  <2>2. CloseIsComplete' /\ CauseInv' /\ ReadInv' /\ WriteInv' /\ NothingLost'
    BY <1>1 DEF vars, loopVars, sockVars, outVars, IInv, CloseIsComplete, CauseInv, ReadInv,
                Reading, WriteInv, Room, Dead, Failed, NothingLost, Pending
  <2> QED
    BY <2>1, <2>2 DEF IInv
<1> QED
  BY <1>1, PeerStep, CallStep, EpollStep, ReadStep, WriteStep, RunFuctionsStep
     DEF Next, LoopStep

LEMMA Invariance == SafeSpec => []IInv
  BY InitIInv, StepIInv, PTL DEF SafeSpec

\* Every variable keeps its type, and no piece of io_vec_list_ is left with
\* a negative length: OnWrite takes no more from a piece than it has
\* (TcpConnection.cpp:115-126).
THEOREM TypeOKTheorem == Spec => []TypeOK
<1>1. IInv => TypeOK
  BY DEF IInv, TypeInv
<1> QED
  BY Invariance, <1>1, PTL DEF Spec

(***************************************************************************)
(* Whatever closes the connection, and in whatever callback, it is closed, *)
(* out of events_ and epoll and without a descriptor in the same step      *)
(* (TcpConnection::OnClose, TcpServer::OnConnectionClose).                 *)
(***************************************************************************)
THEOREM CloseIsCompleteTheorem == Spec => []CloseIsComplete
<1>1. IInv => CloseIsComplete
  BY DEF IInv
<1> QED
  BY Invariance, <1>1, PTL DEF Spec

(***************************************************************************)
(* After an orderly close of the peer, the connection is not closed by     *)
(* OnRead, OnError or OnClose before all bytes have been read              *)
(* (EventLoop.cpp:51-65, TcpConnection::OnRead).                           *)
(***************************************************************************)
THEOREM AllReadTheorem == Spec => []AllReadBeforeClose
<1>1. IInv => AllReadBeforeClose
  BY DEF IInv, TypeInv, CauseInv, AllReadBeforeClose
<1> QED
  BY Invariance, <1>1, PTL DEF Spec

(***************************************************************************)
(* The loop never goes to sleep on input, nor on output it was asked to    *)
(* write, whatever the sizes, the socket's room and the callbacks          *)
(* (EventLoop.cpp:51-69, OnRead, OnWrite, SendInLoop).                     *)
(***************************************************************************)
THEOREM NoLostEdgeTheorem == Spec => []NoLostEdge
<1>1. IInv => NoLostEdge
  <2>1. IInv => NoLostRead
    BY DEF IInv, ReadInv, Reading, NoLostRead
  <2>2. IInv => OutputIsWritten
    BY DEF IInv, WriteInv, OutputIsWritten
  <2> QED
    BY <2>1, <2>2 DEF NoLostEdge
<1> QED
  BY Invariance, <1>1, PTL DEF Spec

(***************************************************************************)
(* The bytes the socket was given and those that wait are the bytes that   *)
(* were sent, in their order, however the pieces were cut                  *)
(* (TcpConnection::SendInLoop and OnWrite).                                *)
(***************************************************************************)
THEOREM NothingLostTheorem == Spec => []NothingLost
<1>1. IInv => NothingLost
  BY DEF IInv
<1> QED
  BY Invariance, <1>1, PTL DEF Spec

(***************************************************************************)
(* Nothing is read, and so message_cb_ is not called, once the connection  *)
(* is closed (TcpConnection::OnRead, whose loop does not test closed_).    *)
(***************************************************************************)
THEOREM NoMessageTheorem == Spec => NoMessageAfterClose
<1>1. IInv /\ [Next]_vars => [inbuf' < inbuf => ~ closed_]_vars
  <2> SUFFICES ASSUME IInv, [Next]_vars, inbuf' < inbuf PROVE ~ closed_
    OBVIOUS
  <2>1. inbuf \in Nat
    BY ConstantAssumption DEF IInv, TypeInv, TypeOK
  <2>2. CASE Readv
    BY <2>2 DEF Readv, IInv, CloseIsComplete
  <2>3. CASE inbuf' = inbuf + 1 \/ inbuf' = inbuf
    BY <2>1, <2>3
  <2>4. Readv \/ inbuf' = inbuf + 1 \/ inbuf' = inbuf
    BY DEF vars, sockVars, Next, LoopStep, PeerSends, PeerCloses, PeerResets, PeerAcks,
           CallSend, CallForceClose, Queue, EpollReturns, EpollTimesOut, OnErrorOrClose,
           ReadvAgain, ReadvEnds, Message, SendInLoop, OnWrite, Writev, WritevAgain,
           WritevFails, WriteComplete, RunFuctions, RunFuctionsEnds, OnTimerEnds, OnTimeout
  <2> QED
    BY <2>2, <2>3, <2>4
<1> QED
  BY Invariance, <1>1, PTL DEF Spec, SafeSpec, NoMessageAfterClose
=============================================================================
