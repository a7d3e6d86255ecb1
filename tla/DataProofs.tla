----------------------------- MODULE DataProofs -----------------------------
(***************************************************************************)
(* Proofs that what is found is what was put there, in the two places that *)
(* keep data for others:                                                   *)
(*   - MsgBuffer, for any size of the buffer, of extrabuf and of the data: *)
(*     the order of its indices, a bound of its memory, and that it        *)
(*     implements the stream of bytes of ByteStream;                       *)
(*   - DnsService, for any hosts, any of them flaky or without IPv4        *)
(*     addresses, and any int as an index: GetHostAddress finds an address *)
(*     of the host.                                                        *)
(***************************************************************************)
EXTENDS MsgBuffer, DnsService, SequenceTheorems, TLAPS

\* The n bytes of vector b from index from on.
Window(b, from, n) == [i \in 1 .. n |-> b[from + i - 1]]

\* A function on 1 .. n is a sequence of length n.
LEMMA FunIsSeq ==
  ASSUME NEW S, NEW n \in Nat, NEW f \in [1 .. n -> S]
  PROVE  f \in Seq(S) /\ Len(f) = n
  OBVIOUS

\* Bytes below Base are numbers; 0, the byte resize adds, is one of them.
LEMMA ZeroIsByte == 0 \in Bytes /\ Bytes \subseteq Nat
  BY ConstantAssumption DEF Bytes

\* A window inside the vector is a sequence of bytes.
LEMMA WindowIsSeq ==
  ASSUME NEW m \in Nat, NEW b \in Vectors(m),
         NEW from \in Nat, NEW n \in Nat, from + n <= m
  PROVE  /\ Window(b, from, n) \in Seq(Bytes)
         /\ Len(Window(b, from, n)) = n
<1>1. Window(b, from, n) \in [1 .. n -> Bytes]
  BY DEF Window, Vectors
<1> QED
  BY <1>1, FunIsSeq

\* std::copy and resize leave a vector of bytes.
LEMMA CopiedIsVector ==
  ASSUME NEW m \in Nat, NEW n \in Nat, NEW b \in Vectors(m),
         NEW at \in Nat, NEW data \in Seq(Bytes)
  PROVE  Copied(b, n, at, data) \in Vectors(n)
<1> DEFINE c(i) == IF i >= at /\ i < at + Len(data) THEN data[i - at + 1]
                   ELSE IF i \in DOMAIN b THEN b[i] ELSE 0
<1>1. Copied(b, n, at, data) = [i \in 0 .. n - 1 |-> c(i)]
  BY DEF Copied
<1>2. ASSUME NEW i \in 0 .. n - 1 PROVE c(i) \in Bytes
  <2>1. CASE i >= at /\ i < at + Len(data)
    <3>1. i - at + 1 \in 1 .. Len(data)
      BY <2>1, LenProperties
    <3> QED
      BY <2>1, <3>1, ElementOfSeq
  <2>2. CASE ~ (i >= at /\ i < at + Len(data))
    BY <2>2, ZeroIsByte DEF Vectors
  <2> QED
    BY <2>1, <2>2
<1> HIDE DEF c
<1> QED
  BY <1>1, <1>2 DEF Vectors

\* What is before the place of the copy stays as it was.
LEMMA CopiedOld ==
  ASSUME NEW m \in Nat, NEW n \in Nat, NEW b \in Vectors(m),
         NEW at \in Nat, NEW data \in Seq(Bytes), NEW i \in 0 .. n - 1, i < at, i < m
  PROVE  Copied(b, n, at, data)[i] = b[i]
  BY DEF Copied, Vectors

\* Moving the readable bytes to the front keeps them.
LEMMA MovedKeeps ==
  ASSUME TypeOK, NEW b \in Vectors(size),
         NEW w \in Nat, readerIndex_ <= w, w <= size
  PROVE  /\ Moved(b, w) \in Vectors(size)
         /\ Window(Moved(b, w), kCheapPrepend, w - readerIndex_)
              = Window(b, readerIndex_, w - readerIndex_)
<1> USE ConstantAssumption
<1>1. /\ size \in Nat /\ readerIndex_ \in Nat /\ kCheapPrepend \in Nat
      /\ kCheapPrepend <= readerIndex_
  BY DEF TypeOK
<1>2. Moved(b, w) \in Vectors(size)
  BY <1>1 DEF Moved, Vectors
<1>3. ASSUME NEW i \in 1 .. w - readerIndex_
      PROVE  Moved(b, w)[kCheapPrepend + i - 1] = b[readerIndex_ + i - 1]
  BY <1>1 DEF Moved, Vectors
<1> QED
  BY <1>2, <1>3 DEF Window

\* The old bytes of b from r on, followed by data, are in c from r on.
Continues(c, b, r, old, data) ==
  Window(c, r, old + Len(data)) = Window(b, r, old) \o data

\* Copying data behind a window makes it the window followed by data.
LEMMA CopiedContinues ==
  ASSUME NEW m \in Nat, NEW n \in Nat, NEW b \in Vectors(m),
         NEW r \in Nat, NEW at \in Nat, NEW data \in Seq(Bytes), NEW old \in Nat,
         r + old = at, at <= m, at + Len(data) <= n
  PROVE  Continues(Copied(b, n, at, data), b, r, old, data)
<1>1. Len(data) \in Nat
  BY LenProperties
<1>2. PICK len \in Nat : len = old + Len(data)
  BY <1>1
<1>3. PICK c : c = Copied(b, n, at, data)
  OBVIOUS
<1>4. r + len <= n /\ r + old <= m
  BY <1>1, <1>2
<1>5. c \in Vectors(n)
  BY <1>3, CopiedIsVector
<1>6. PICK u : u = Window(c, r, len)
  OBVIOUS
<1>7. PICK v : v = Window(b, r, old)
  OBVIOUS
<1>8. u \in Seq(Bytes) /\ Len(u) = len
  BY <1>4, <1>5, <1>6, WindowIsSeq
<1>9. v \in Seq(Bytes) /\ Len(v) = old
  BY <1>4, <1>7, WindowIsSeq
<1>10. v \o data \in Seq(Bytes) /\ Len(v \o data) = len
  BY <1>1, <1>2, <1>9, ConcatProperties
<1>11. ASSUME NEW i \in 1 .. len PROVE u[i] = (v \o data)[i]
  <2>1. PICK k \in 0 .. n - 1 : k = r + i - 1
    BY <1>4
  <2>2. u[i] = c[k]
    BY <1>6, <2>1 DEF Window
  <2>3. CASE i <= old
    <3>1. k < at /\ k < m
      BY <2>1, <2>3
    <3>2. c[k] = b[k]
      BY <1>3, <3>1, CopiedOld
    <3>3. v[i] = b[k]
      BY <1>7, <2>1, <2>3 DEF Window
    <3>4. (v \o data)[i] = v[i]
      BY <1>1, <1>9, <2>3, ConcatProperties
    <3> QED
      BY <2>2, <3>2, <3>3, <3>4
  <2>4. CASE i > old
    <3>1. k >= at /\ k < at + Len(data) /\ k - at + 1 = i - old
      BY <1>1, <1>2, <2>1, <2>4
    <3>2. c[k] = data[k - at + 1]
      BY <1>3, <2>1, <3>1 DEF Copied
    <3>3. (v \o data)[i] = data[i - old]
      <4>1. i \in 1 .. Len(v) + Len(data) /\ ~ (i <= Len(v))
        BY <1>1, <1>2, <1>9, <2>4
      <4>2. (v \o data)[i] = data[i - Len(v)]
        BY <1>9, <4>1, ConcatProperties
      <4> QED
        BY <1>9, <4>2
    <3> QED
      BY <2>2, <3>1, <3>2, <3>3
  <2>5. i <= old \/ i > old
    OBVIOUS
  <2> QED
    BY <2>3, <2>4, <2>5
<1>12. u = v \o data
  BY <1>8, <1>10, <1>11, SeqEqual
<1> QED
  BY <1>2, <1>3, <1>6, <1>7, <1>12 DEF Continues

\* What a step establishes that adds data to old bytes, at the front of window.
DataAdded(window, old, data) ==
  /\ size' \in Nat /\ readerIndex_' \in Nat /\ writerIndex_' \in Nat
  /\ kCheapPrepend <= readerIndex_'
  /\ writerIndex_' = readerIndex_' + old + Len(data)
  /\ writerIndex_' <= size'
  /\ buffer_' \in Vectors(size')
  /\ Window(buffer_', readerIndex_', old + Len(data)) = window \o data
  /\ size' = size \/ size' < kCheapPrepend + old + 2 * Len(data)

\* DataAdded, with the vector, its size and the indices of the new state named.
LEMMA CopiedAdds ==
  ASSUME NEW m \in Nat, NEW n \in Nat, NEW b \in Vectors(m),
         NEW r \in Nat, NEW at \in Nat, NEW data \in Seq(Bytes), NEW old \in Nat,
         kCheapPrepend <= r, r + old = at, at <= m, at + Len(data) <= n,
         size' = n, readerIndex_' = r, writerIndex_' = at + Len(data),
         buffer_' = Copied(b, n, at, data),
         n = size \/ n < kCheapPrepend + old + 2 * Len(data)
  PROVE  DataAdded(Window(b, r, old), old, data)
<1>1. Len(data) \in Nat
  BY LenProperties
<1>2. Continues(Copied(b, n, at, data), b, r, old, data)
  BY CopiedContinues
<1>3. Window(buffer_', readerIndex_', old + Len(data)) = Window(b, r, old) \o data
  BY <1>2 DEF Continues
<1>4. buffer_' \in Vectors(size')
  BY CopiedIsVector
<1>5. /\ size' \in Nat /\ readerIndex_' \in Nat /\ writerIndex_' \in Nat
      /\ kCheapPrepend <= readerIndex_'
      /\ writerIndex_' = readerIndex_' + old + Len(data)
      /\ writerIndex_' <= size'
      /\ size' = size \/ size' < kCheapPrepend + old + 2 * Len(data)
  BY <1>1
<1> QED
  BY <1>3, <1>4, <1>5 DEF DataAdded

\* ensureWritableBytes, makeSpace, copy and hasWritten add the data.
LEMMA AppendAtAdds ==
  ASSUME TypeOK, NEW b \in Vectors(size),
         NEW w \in Nat, NEW old \in Nat, readerIndex_ + old = w, w <= size,
         NEW data \in Seq(Bytes), AppendAt(b, w, data)
  PROVE  DataAdded(Window(b, readerIndex_, old), old, data)
<1> USE ConstantAssumption
<1>1. /\ size \in Nat /\ readerIndex_ \in Nat /\ kCheapPrepend \in Nat
      /\ kCheapPrepend <= readerIndex_ /\ Len(data) \in Nat
      /\ w - readerIndex_ = old
  BY LenProperties DEF TypeOK
<1>2. CASE /\ size - w >= Len(data)
           /\ buffer_' = Copied(b, size, w, data)
           /\ writerIndex_' = w + Len(data)
           /\ UNCHANGED <<size, readerIndex_>>
  <2>1. w + Len(data) <= size
    BY <1>1, <1>2
  <2>2. size' = size /\ readerIndex_' = readerIndex_
    BY <1>2
  <2> QED
    BY <1>1, <1>2, <2>1, <2>2, CopiedAdds
<1>3. CASE /\ size - w < Len(data) /\ MustGrow(w, Len(data))
           /\ size' = w + Len(data)
           /\ buffer_' = Copied(b, w + Len(data), w, data)
           /\ writerIndex_' = w + Len(data)
           /\ UNCHANGED readerIndex_
  <2>1. PICK n \in Nat : n = w + Len(data)
    BY <1>1
  <2>2. n < kCheapPrepend + old + 2 * Len(data)
    BY <1>1, <1>3, <2>1 DEF MustGrow
  <2>3. /\ size' = n /\ readerIndex_' = readerIndex_ /\ w + Len(data) <= n
        /\ buffer_' = Copied(b, n, w, data)
    BY <1>1, <1>3, <2>1
  <2> QED
    BY <1>1, <1>3, <2>2, <2>3, CopiedAdds
<1>4. CASE /\ size - w < Len(data) /\ ~ MustGrow(w, Len(data))
           /\ buffer_' = Copied(Moved(b, w), size, kCheapPrepend + (w - readerIndex_), data)
           /\ readerIndex_' = kCheapPrepend
           /\ writerIndex_' = kCheapPrepend + (w - readerIndex_) + Len(data)
           /\ UNCHANGED size
  <2>1. PICK at \in Nat : at = kCheapPrepend + old
    BY <1>1
  <2>2. at + Len(data) <= size /\ at <= size /\ kCheapPrepend + old = at
    BY <1>1, <1>4, <2>1 DEF MustGrow
  <2>3. PICK c : c = Moved(b, w)
    OBVIOUS
  <2>4. /\ c \in Vectors(size)
        /\ Window(c, kCheapPrepend, old) = Window(b, readerIndex_, old)
    <3>1. readerIndex_ <= w
      BY <1>1
    <3> QED
      BY <1>1, <2>3, <3>1, MovedKeeps
  <2>5. /\ buffer_' = Copied(c, size, at, data)
        /\ size' = size /\ writerIndex_' = at + Len(data)
    BY <1>1, <1>4, <2>1, <2>3
  <2>6. kCheapPrepend <= kCheapPrepend
    BY <1>1
  <2>7. DataAdded(Window(c, kCheapPrepend, old), old, data)
    BY <1>1, <1>4, <2>2, <2>4, <2>5, <2>6, CopiedAdds
  <2> QED
    BY <2>4, <2>7
<1> QED
  BY <1>2, <1>3, <1>4 DEF AppendAt

\* The bytes the buffer holds are the window between its indices.
LEMMA ContentIsWindow ==
  Peek(readableBytes) = Window(buffer_, readerIndex_, readableBytes)
  BY DEF Peek, Window

\* readv into the writable bytes and then into extrabuf adds the data too.
LEMMA ReadFdAdds ==
  ASSUME TypeOK, NEW n \in Nat, NEW data \in Data(n), readFd(data)
  PROVE  DataAdded(Peek(readableBytes), readableBytes, data)
<1>1. /\ size \in Nat /\ readerIndex_ \in Nat /\ writerIndex_ \in Nat
      /\ kCheapPrepend <= readerIndex_ /\ writerIndex_ <= size
      /\ buffer_ \in Vectors(size)
      /\ data \in Seq(Bytes) /\ Len(data) = n
  BY FunIsSeq DEF TypeOK, Data
<1>2. PICK old \in Nat : old = readableBytes
  BY DEF TypeOK, readableBytes
<1>3. readerIndex_ + old = writerIndex_
  BY <1>1, <1>2 DEF readableBytes
<1>4. PICK room \in Nat : room = writableBytes
  BY <1>1 DEF writableBytes
<1>5. writerIndex_ + room = size
  BY <1>1, <1>4 DEF writableBytes
<1>6. Peek(readableBytes) = Window(buffer_, readerIndex_, old)
  BY <1>2, ContentIsWindow
<1>7. CASE n <= writableBytes
  <2>1. /\ buffer_' = Copied(buffer_, size, writerIndex_, data)
        /\ writerIndex_' = writerIndex_ + Len(data)
        /\ size' = size /\ readerIndex_' = readerIndex_
        /\ writerIndex_ + Len(data) <= size
    BY <1>1, <1>4, <1>5, <1>7 DEF readFd
  <2>2. DataAdded(Window(buffer_, readerIndex_, old), old, data)
    BY <1>1, <1>3, <2>1, CopiedAdds
  <2> QED
    BY <1>2, <1>6, <2>2
<1>8. CASE n > writableBytes
  <2> DEFINE head == SubSeq(data, 1, room)
             tail == SubSeq(data, room + 1, n)
             b == Copied(buffer_, size, writerIndex_, head)
  <2>1. AppendAt(b, size, tail)
    BY <1>1, <1>4, <1>8 DEF readFd
  <2>2. head \in Seq(Bytes) /\ Len(head) = room
    BY <1>1, <1>4, <1>8
  <2>3. tail \in Seq(Bytes) /\ Len(tail) = n - room
    BY <1>1, <1>4, <1>8
  <2>4. head \o tail = data
    BY <1>1, <1>4, <1>8
  <2> HIDE DEF head, tail
  <2>5. b \in Vectors(size)
    BY <1>1, <2>2, CopiedIsVector
  <2>6. Continues(b, buffer_, readerIndex_, old, head)
    <3>1. writerIndex_ + Len(head) <= size
      BY <1>1, <1>5, <2>2
    <3> QED
      BY <1>1, <1>3, <2>2, <3>1, CopiedContinues
  <2> HIDE DEF b
  <2>7. PICK all \in Nat : all = old + room
    OBVIOUS
  <2>8. Window(b, readerIndex_, all) = Peek(readableBytes) \o head
    BY <1>6, <2>2, <2>6, <2>7 DEF Continues
  <2>9. DataAdded(Window(b, readerIndex_, all), all, tail)
    <3>1. readerIndex_ + all = size /\ size <= size
      BY <1>1, <1>3, <1>5, <2>7
    <3> QED
      BY <1>1, <2>1, <2>3, <2>5, <3>1, AppendAtAdds
  <2>10. Peek(readableBytes) \in Seq(Bytes)
    BY <1>1, <1>3, <1>6, WindowIsSeq
  <2>11. (Peek(readableBytes) \o head) \o tail = Peek(readableBytes) \o data
    <3>1. PICK p \in Seq(Bytes) : p = Peek(readableBytes)
      BY <2>10
    <3>2. PICK h \in Seq(Bytes) : h = head
      BY <2>2
    <3>3. PICK t \in Seq(Bytes) : t = tail
      BY <2>3
    <3>4. (p \o h) \o t = p \o (h \o t)
      BY ConcatAssociative
    <3> QED
      BY <2>4, <3>1, <3>2, <3>3, <3>4
  <2>12. all + Len(tail) = old + Len(data)
    BY <1>1, <1>4, <2>3, <2>7
  <2>13. Window(buffer_', readerIndex_', old + Len(data)) = Peek(readableBytes) \o data
    BY <2>8, <2>9, <2>11, <2>12 DEF DataAdded
  <2>14. writerIndex_' = readerIndex_' + old + Len(data)
    BY <1>1, <2>3, <2>7, <2>9, <2>12 DEF DataAdded
  <2>15. size' = size \/ size' < kCheapPrepend + old + 2 * Len(data)
    <3>1. all + 2 * Len(tail) <= old + 2 * Len(data)
      BY <1>1, <1>4, <1>8, <2>3, <2>7
    <3>2. size' = size \/ size' < kCheapPrepend + all + 2 * Len(tail)
      BY <2>9 DEF DataAdded
    <3>3. size' \in Nat /\ Len(tail) \in Nat /\ kCheapPrepend \in Nat
      BY <2>3, <2>9, LenProperties, ConstantAssumption DEF DataAdded
    <3> QED
      BY <1>1, <3>1, <3>2, <3>3
  <2> QED
    BY <1>2, <2>9, <2>13, <2>14, <2>15 DEF DataAdded
<1> QED
  BY <1>1, <1>4, <1>7, <1>8
-----------------------------------------------------------------------------
(* The invariant.  Bounded speaks of the most bytes that were ever in the  *)
(* buffer; that they are at least the ones in it now makes it inductive.   *)

IInv ==
  /\ TypeOK
  /\ Bounded
  /\ readableBytes <= peak

\* Adding data keeps the invariant and is a step of the stream.
LEMMA DataAddedStep ==
  ASSUME IInv, NEW n \in Nat, n \in 0 .. MaxLen, NEW data \in Data(n),
         DataAdded(Peek(readableBytes), readableBytes, data), taken' = << >>, NotePeak
  PROVE  IInv' /\ Stream!Next
<1>1. /\ size \in Nat /\ peak \in Nat /\ n \in Nat /\ readableBytes \in Nat
      /\ kCheapPrepend \in Nat /\ kInitialSize \in Nat
  BY ConstantAssumption DEF IInv, TypeOK, readableBytes
<1>2. data \in Seq(Bytes) /\ Len(data) = n
  BY <1>1, FunIsSeq DEF Data
<1>3. PICK old \in Nat : old = readableBytes
  BY <1>1
<1>4. /\ buffer_' \in Vectors(size')
      /\ Window(buffer_', readerIndex_', old + n) = Peek(readableBytes) \o data
  BY <1>2, <1>3 DEF DataAdded
<1>5. PICK z \in Nat, r \in Nat, w \in Nat : z = size' /\ r = readerIndex_' /\ w = writerIndex_'
  BY DEF DataAdded
<1>6. /\ kCheapPrepend <= r /\ w <= z /\ w = r + old + n
      /\ z = size \/ z < kCheapPrepend + old + 2 * n
  BY <1>2, <1>3, <1>5 DEF DataAdded
<1>7. w - r = old + n /\ r <= w
  BY <1>6
<1>8. PICK p \in Nat : p = IF old + n > peak THEN old + n ELSE peak
  BY <1>1
<1>9. peak' = p
  BY <1>5, <1>7, <1>8 DEF NotePeak
<1>10. peak <= p /\ old + n <= p
  BY <1>1, <1>8
<1>11. TypeOK'
  BY <1>4, <1>5, <1>6, <1>7, <1>9, EmptySeq DEF TypeOK
<1>12. z <= kCheapPrepend + kInitialSize \/ z <= kCheapPrepend + 2 * p
  <2>1. z = size => z <= kCheapPrepend + kInitialSize \/ z <= kCheapPrepend + 2 * peak
    BY DEF IInv, Bounded
  <2> QED
    BY <1>1, <1>6, <1>10, <2>1
<1>13. Bounded' /\ (readableBytes <= peak)'
  BY <1>5, <1>7, <1>9, <1>10, <1>12, Zenon DEF Bounded, readableBytes
<1>14. Peek(readableBytes)' = Peek(readableBytes) \o data
  BY <1>4, <1>5, <1>7 DEF Peek, Window, readableBytes
<1>15. Stream!Add(data)
  BY <1>14 DEF Stream!Add
<1> QED
  BY <1>11, <1>13, <1>15 DEF IInv, Data, Stream!Next

\* The content as a sequence: its length and its bytes.
LEMMA ContentIsSeq ==
  ASSUME TypeOK
  PROVE  /\ readableBytes \in Nat
         /\ Peek(readableBytes) \in Seq(Bytes)
         /\ Len(Peek(readableBytes)) = readableBytes
<1>1. readableBytes \in Nat /\ readerIndex_ + readableBytes <= size /\ size \in Nat
  BY DEF TypeOK, readableBytes
<1>2. buffer_ \in Vectors(size) /\ readerIndex_ \in Nat
  BY DEF TypeOK
<1> QED
  BY <1>1, <1>2, ContentIsWindow, WindowIsSeq

\* Taking bytes keeps the invariant and is a step of the stream.
LEMMA RetrieveStep ==
  ASSUME IInv, NEW n \in Nat, n <= readableBytes, retrieve(n)
  PROVE  IInv' /\ Stream!Next
<1>1. /\ readableBytes \in Nat /\ Len(Peek(readableBytes)) = readableBytes
      /\ Peek(readableBytes) \in Seq(Bytes)
  BY ContentIsSeq DEF IInv
<1>2. /\ size \in Nat /\ readerIndex_ \in Nat /\ writerIndex_ \in Nat /\ peak \in Nat
      /\ kCheapPrepend \in Nat /\ readableBytes = writerIndex_ - readerIndex_
      /\ kCheapPrepend <= readerIndex_ /\ writerIndex_ <= size
  BY ConstantAssumption DEF IInv, TypeOK, readableBytes
<1>3. /\ size' = size /\ peak' = peak /\ buffer_' = buffer_
      /\ taken' = Peek(n)
  BY DEF retrieve
<1>4. PICK r \in Nat, w \in Nat :
        /\ r = readerIndex_' /\ w = writerIndex_'
        /\ kCheapPrepend <= r /\ r <= w /\ w <= size
        /\ w - r = readableBytes - n
        /\ n < readableBytes => r = readerIndex_ + n
  BY <1>1, <1>2 DEF retrieve, retrieved
<1>5. taken' = SubSeq(Peek(readableBytes), 1, n)
  BY <1>1, <1>2, <1>3 DEF Peek
<1>6. Peek(readableBytes)' = SubSeq(Peek(readableBytes), n + 1, readableBytes)
  <2>1. PICK p : p = Peek(readableBytes)
    OBVIOUS
  <2>2. PICK rest \in Nat : rest = readableBytes - n
    BY <1>1
  <2>3. /\ SubSeq(p, n + 1, readableBytes) \in Seq(Bytes)
        /\ Len(SubSeq(p, n + 1, readableBytes)) = rest
        /\ \A i \in 1 .. rest : SubSeq(p, n + 1, readableBytes)[i] = p[n + i]
    BY <1>1, <2>1, <2>2
  <2>4. \A i \in 1 .. rest : p[n + i] = buffer_[readerIndex_ + n + i - 1]
    BY <1>1, <1>2, <2>1, <2>2 DEF Peek
  <2>5. Peek(readableBytes)' = [i \in 1 .. rest |-> buffer_[r + i - 1]]
    BY <1>3, <1>4, <2>2 DEF Peek, readableBytes
  <2>6. n < readableBytes => r = readerIndex_ + n
    BY <1>4
  <2>7. \A i \in 1 .. rest : r + i - 1 = readerIndex_ + n + i - 1
    BY <1>1, <1>2, <2>2, <2>6
  <2>8. Peek(readableBytes)' = [i \in 1 .. rest |-> SubSeq(p, n + 1, readableBytes)[i]]
    <3>1. \A i \in 1 .. rest : buffer_[r + i - 1] = SubSeq(p, n + 1, readableBytes)[i]
      BY <2>3, <2>4, <2>7
    <3> QED
      BY <2>5, <3>1
  <2> QED
    BY <2>1, <2>3, <2>8
<1>7. taken' \in Seq(Bytes)
  BY <1>1, <1>5
<1>8. TypeOK'
  BY <1>2, <1>3, <1>4, <1>7 DEF IInv, TypeOK
<1>9. Bounded' /\ (readableBytes <= peak)'
  <2>1. Bounded'
    BY <1>3 DEF IInv, Bounded
  <2>2. readableBytes - n <= peak
    BY <1>1, <1>2 DEF IInv
  <2> QED
    BY <1>3, <1>4, <2>1, <2>2 DEF readableBytes
<1>10. Stream!Take(n)
  BY <1>1, <1>5, <1>6 DEF Stream!Take
<1> QED
  BY <1>1, <1>8, <1>9, <1>10 DEF IInv, Stream!Next

\* unwrite keeps the invariant and is a step of the stream.
LEMMA UnwriteStep ==
  ASSUME IInv, NEW n \in Nat, n <= readableBytes, unwrite(n)
  PROVE  IInv' /\ Stream!Next
<1>1. /\ readableBytes \in Nat /\ Len(Peek(readableBytes)) = readableBytes
      /\ Peek(readableBytes) \in Seq(Bytes)
  BY ContentIsSeq DEF IInv
<1>2. /\ size \in Nat /\ readerIndex_ \in Nat /\ writerIndex_ \in Nat /\ peak \in Nat
      /\ kCheapPrepend \in Nat /\ readableBytes = writerIndex_ - readerIndex_
      /\ kCheapPrepend <= readerIndex_ /\ writerIndex_ <= size
  BY ConstantAssumption DEF IInv, TypeOK, readableBytes
<1>3. /\ size' = size /\ peak' = peak /\ buffer_' = buffer_
      /\ readerIndex_' = readerIndex_ /\ writerIndex_' = writerIndex_ - n
      /\ taken' = << >>
  BY DEF unwrite
<1>4. Peek(readableBytes)' = SubSeq(Peek(readableBytes), 1, readableBytes - n)
  BY <1>1, <1>2, <1>3 DEF Peek, readableBytes
<1>5. TypeOK'
  BY <1>1, <1>2, <1>3, EmptySeq DEF IInv, TypeOK
<1>6. Bounded' /\ (readableBytes <= peak)'
  BY <1>1, <1>2, <1>3 DEF IInv, Bounded, readableBytes
<1>7. Stream!TakeBack(n)
  BY <1>1, <1>3, <1>4 DEF Stream!TakeBack
<1> QED
  BY <1>1, <1>5, <1>6, <1>7 DEF IInv, Stream!Next

\* The new buffer satisfies the invariant and is the empty stream.
LEMMA InitStep == Init => IInv /\ Stream!Init
<1> SUFFICES ASSUME Init PROVE IInv /\ Stream!Init
  OBVIOUS
<1>1. kCheapPrepend \in Nat /\ kInitialSize \in Nat
  BY ConstantAssumption
<1>2. PICK z \in Nat : z = kCheapPrepend + kInitialSize
  BY <1>1
<1>3. size = z /\ readerIndex_ = kCheapPrepend /\ writerIndex_ = kCheapPrepend
  BY <1>2 DEF Init
<1>4. kCheapPrepend <= z /\ readableBytes = 0
  BY <1>1, <1>2, <1>3 DEF readableBytes
<1>5. buffer_ \in Vectors(size)
  BY ZeroIsByte DEF Init, Vectors
<1>6. TypeOK
  BY <1>1, <1>3, <1>4, <1>5, EmptySeq DEF Init, TypeOK
<1>7. Bounded /\ readableBytes <= peak
  BY <1>1, <1>4 DEF Init, Bounded
<1>8. Peek(readableBytes) = << >>
  BY <1>4, <1>6, ContentIsSeq, EmptySeq
<1> QED
  BY <1>6, <1>7, <1>8 DEF Init, IInv, Stream!Init

\* Every step keeps the invariant and is a step of the stream.
LEMMA NextStep ==
  ASSUME IInv, [Next]_vars
  PROVE  IInv' /\ [Stream!Next]_(Stream!vars)
<1>1. /\ readableBytes \in Nat /\ readerIndex_ + readableBytes = writerIndex_
      /\ readerIndex_ \in Nat /\ writerIndex_ \in Nat /\ size \in Nat
      /\ kCheapPrepend <= readerIndex_ /\ writerIndex_ <= size
      /\ buffer_ \in Vectors(size) /\ TypeOK
  BY DEF IInv, TypeOK, readableBytes
<1>2. ASSUME NEW n \in 0 .. MaxLen, NEW data \in Data(n),
             append(data) \/ hasWritten(data) \/ readFd(data)
      PROVE  IInv' /\ Stream!Next
  <2>1. n \in Nat
    BY ConstantAssumption
  <2>2. data \in Seq(Bytes) /\ Len(data) = n
    BY <2>1, FunIsSeq DEF Data
  <2>3. taken' = << >> /\ NotePeak
    BY <1>2 DEF append, hasWritten, readFd
  <2>4. CASE append(data)
    <3>1. AppendAt(buffer_, writerIndex_, data)
      BY <2>4 DEF append
    <3>2. DataAdded(Window(buffer_, readerIndex_, readableBytes), readableBytes, data)
      BY <1>1, <2>2, <3>1, AppendAtAdds
    <3> QED
      BY <2>1, <2>3, <3>2, ContentIsWindow, DataAddedStep
  <2>5. CASE hasWritten(data)
    <3>1. /\ buffer_' = Copied(buffer_, size, writerIndex_, data)
          /\ writerIndex_' = writerIndex_ + Len(data)
          /\ size' = size /\ readerIndex_' = readerIndex_
      BY <2>5 DEF hasWritten
    <3>2. writerIndex_ + Len(data) <= size
      BY <1>1, <2>1, <2>2, <2>5 DEF hasWritten, writableBytes
    <3>3. DataAdded(Window(buffer_, readerIndex_, readableBytes), readableBytes, data)
      BY <1>1, <2>2, <3>1, <3>2, CopiedAdds
    <3> QED
      BY <2>1, <2>3, <3>3, ContentIsWindow, DataAddedStep
  <2>6. CASE readFd(data)
    <3>1. DataAdded(Peek(readableBytes), readableBytes, data)
      BY <1>1, <2>1, <2>6, ReadFdAdds
    <3> QED
      BY <2>1, <2>3, <3>1, DataAddedStep
  <2> QED
    BY <1>2, <2>4, <2>5, <2>6
<1>3. ASSUME NEW n \in 0 .. readableBytes, retrieve(n) \/ unwrite(n)
      PROVE  IInv' /\ Stream!Next
  <2>1. n \in Nat /\ n <= readableBytes
    BY <1>1
  <2> QED
    BY <1>3, <2>1, RetrieveStep, UnwriteStep
<1>4. CASE UNCHANGED vars
  BY <1>4 DEF vars, IInv, TypeOK, Bounded, readableBytes, Peek, Stream!vars
<1> QED
  BY <1>2, <1>3, <1>4 DEF Next

\* The invariant holds in every reachable state.
THEOREM Inductive == Spec => []IInv
<1>1. Init => IInv
  BY InitStep
<1>2. IInv /\ [Next]_vars => IInv'
  BY NextStep
<1> QED
  BY <1>1, <1>2, PTL DEF Spec

\* The indices of a MsgBuffer stay in order and inside the vector, with room
\* for kCheapPrepend bytes in front, whatever is added, taken or taken back.
THEOREM IndicesTheorem == Spec => []TypeOK
  BY Inductive, PTL DEF IInv

\* makeSpace never lets the vector grow beyond its initial size or twice the
\* bytes it held at a time, although it does not move the bytes before it grows.
THEOREM BoundedTheorem == Spec => []Bounded
  BY Inductive, PTL DEF IInv

\* A MsgBuffer is a ByteStream: no operation loses, repeats, reorders or invents
\* a byte, for every size of the buffer, of the data and of readFd's extrabuf.
THEOREM StreamTheorem == Spec => IsByteStream
<1>1. Init => Stream!Init
  BY InitStep
<1>2. IInv /\ [Next]_vars => [Stream!Next]_(Stream!vars)
  BY NextStep
<1> QED
  BY <1>1, <1>2, Inductive, PTL DEF Spec, IsByteStream, Stream!Spec
-----------------------------------------------------------------------------
(* DnsService.                                                             *)

\* The table and the vector about to be swapped into it hold what was answered
\* for the host, unless a lookup of the host has failed.
ListInv ==
  /\ \A h \in Added \ failed : host_info_[h] \in {<< >>} \cup Answers(h)
  /\ pc = "UpdateHost" /\ host \notin failed => list \in Answers(host)

DnsInv == DnsTypeOK /\ ListInv

LEMMA InitDnsInv == DnsInit => DnsInv
<1> SUFFICES ASSUME DnsInit PROVE DnsInv
  OBVIOUS
<1> USE DnsAssumption
<1>1. Added = {}
  BY DEF DnsInit, Added
<1>2. host_info_ \in [{} -> Lists] /\ << >> \in Lists
  BY DEF DnsInit, Lists
<1>3. DnsTypeOK
  BY <1>1, <1>2 DEF DnsInit, DnsTypeOK
<1>4. ListInv
  BY <1>1 DEF DnsInit, ListInv
<1> QED
  BY <1>3, <1>4 DEF DnsInv

\* The steps of the program.
LEMMA ProgramDnsInv ==
  ASSUME DnsInv,
         (\E h \in Hosts : AddHost(h)) \/ SetDnsServiceParams \/ Start \/ Stop \/ Join
  PROVE  DnsInv'
<1> USE DEF DnsInv
<1>1. ASSUME NEW h \in Hosts, AddHost(h) PROVE DnsInv'
  <2>1. host_info_' = [g \in Added \cup {h} |-> IF g = h THEN << >> ELSE host_info_[g]]
    BY <1>1 DEF AddHost, Update
  <2>2. Added' = Added \cup {h}
    BY <2>1 DEF Added
  <2>3. \A g \in Added' : host_info_'[g] = IF g = h THEN << >> ELSE host_info_[g]
    BY <2>1, <2>2
  <2>4. host_info_' \in [Added' -> Lists]
    BY <2>1, <2>2 DEF DnsTypeOK, Lists
  <2>5. DnsTypeOK'
    BY <1>1, <2>2, <2>4 DEF AddHost, DnsTypeOK, workerVars, callerVars, Lists, Answers
  <2>6. ListInv'
    BY <1>1, <2>2, <2>3 DEF AddHost, ListInv, workerVars, Answers
  <2> QED
    BY <2>5, <2>6
<1>2. CASE SetDnsServiceParams \/ Start \/ Stop \/ Join
  <2>1. host_info_' = host_info_ /\ UNCHANGED <<left, host, tried, list, res, failed>>
        /\ (pc' = pc \/ pc' \in {"none", "OnWork"})
    BY <1>2 DEF SetDnsServiceParams, Start, Stop, Join, tableVars, workerVars
  <2>2. Added' = Added
    BY <2>1 DEF Added
  <2>3. DnsTypeOK'
    BY <1>2, <2>1, <2>2 DEF SetDnsServiceParams, Start, Stop, Join, DnsTypeOK, workerVars,
       callerVars, Lists, Answers
  <2>4. ListInv'
    BY <2>1, <2>2 DEF ListInv, Answers
  <2> QED
    BY <2>3, <2>4
<1> QED
  BY <1>1, <1>2

\* The steps of the worker but for those that touch an answer or the table.
LEMMA RoundDnsInv ==
  ASSUME DnsInv,
         OnWork \/ NextHost \/ NoMoreTries \/ Sleep \/ Interval
  PROVE  DnsInv'
<1> USE DEF DnsInv
<1>1. host_info_' = host_info_ /\ UNCHANGED <<list, res, failed, died, running_, thread_, caller, retry_>>
  BY DEF OnWork, NextHost, NoMoreTries, Sleep, Interval, WorkerStep, tableVars,
     callerVars
<1>2. Added' = Added
  BY <1>1 DEF Added
<1>3. pc' \in {"ended", "Hosts", "Lookup", "interval", "OnWork"} /\ pc # "none"
  BY DEF OnWork, NextHost, NoMoreTries, Sleep, Interval
<1>4. left' \subseteq Added /\ host' \in Added \cup {NoHost} /\ tried' \in Nat
  BY DEF OnWork, NextHost, NoMoreTries, Sleep, Interval, DnsTypeOK
<1>5. pc' = "Lookup" => host' # NoHost
  BY DnsAssumption DEF OnWork, NextHost, NoMoreTries, Sleep, Interval, DnsTypeOK
<1>6. DnsTypeOK'
  BY <1>1, <1>2, <1>3, <1>4, <1>5 DEF DnsTypeOK, Lists, Answers
<1>7. ListInv'
  BY <1>1, <1>2, <1>3 DEF ListInv, Answers
<1> QED
  BY <1>6, <1>7

\* An answer is for the host that was asked for; what a failed lookup finds
\* need not be, and that is noted.
LEMMA LookupDnsInv == ASSUME DnsInv, Lookup PROVE DnsInv'
<1> USE DEF DnsInv
<1>1. host_info_' = host_info_ /\ UNCHANGED <<left, host, tried, running_, thread_, caller, retry_>>
  BY DEF Lookup, WorkerStep, tableVars, callerVars
<1>2. Added' = Added /\ Lists' = Lists /\ \A h : Answers(h)' = Answers(h)
  BY <1>1 DEF Added, Lists, Answers
<1>3. host \in Added /\ host \in Hosts /\ pc = "Lookup"
  BY DEF Lookup, DnsTypeOK
<1>4. Answers(host) \subseteq Lists /\ << >> \in Lists
  BY <1>3 DEF Lists
<1>5. CASE res' \in Answers(host) /\ list' = res' /\ UNCHANGED <<failed, died>>
           /\ pc' = IF list' # << >> THEN "UpdateHost" ELSE "sleep"
  <2>1. DnsTypeOK'
    BY <1>1, <1>2, <1>3, <1>4, <1>5 DEF DnsTypeOK
  <2>2. ListInv'
    BY <1>1, <1>2, <1>5 DEF ListInv
  <2> QED
    BY <2>1, <2>2
<1>6. CASE failed' = failed \cup {host} /\ list' \in {<< >>, res} /\ UNCHANGED <<res, died>>
           /\ pc' = IF list' # << >> THEN "UpdateHost" ELSE "sleep"
  <2>1. DnsTypeOK'
    BY <1>1, <1>2, <1>3, <1>4, <1>6 DEF DnsTypeOK
  <2>2. ListInv'
    BY <1>1, <1>2, <1>3, <1>6 DEF ListInv
  <2> QED
    BY <2>1, <2>2
<1>7. CASE died' = TRUE /\ UNCHANGED <<pc, list, res, failed>>
  <2>1. DnsTypeOK'
    BY <1>1, <1>2, <1>7 DEF DnsTypeOK
  <2>2. ListInv'
    BY <1>1, <1>2, <1>7 DEF ListInv
  <2> QED
    BY <2>1, <2>2
<1> QED
  BY <1>5, <1>6, <1>7 DEF Lookup, Pushed, Found

\* UpdateHost swaps the vector into the table.
LEMMA UpdateHostDnsInv == ASSUME DnsInv, UpdateHost PROVE DnsInv'
<1> USE DEF DnsInv
<1>1. UNCHANGED <<left, host, tried, res, failed, died, running_, thread_, caller, retry_>>
      /\ pc = "UpdateHost" /\ pc' = "Hosts" /\ list' = host_info_[host]
      /\ host_info_' = [g \in Added \cup {host} |-> IF g = host THEN list ELSE host_info_[g]]
  BY DEF UpdateHost, Update, WorkerStep, callerVars
<1>2. host \in Added
  BY <1>1 DEF DnsTypeOK
<1>3. Added' = Added
  BY <1>1, <1>2 DEF Added
<1>4. Lists' = Lists /\ \A h : Answers(h)' = Answers(h)
  BY DEF Lists, Answers
<1>5. host_info_' \in [Added -> Lists] /\ host_info_[host] \in Lists
  BY <1>1, <1>2 DEF DnsTypeOK
<1>6. DnsTypeOK'
  BY <1>1, <1>3, <1>4, <1>5 DEF DnsTypeOK
<1>7. \A h \in Added : host_info_'[h] = IF h = host THEN list ELSE host_info_[h]
  BY <1>1
<1>8. ListInv'
  BY <1>1, <1>2, <1>3, <1>4, <1>7 DEF ListInv
<1> QED
  BY <1>6, <1>8

LEMMA NextDnsInv == DnsInv /\ [DnsNext]_dnsVars => DnsInv'
<1> SUFFICES ASSUME DnsInv, [DnsNext]_dnsVars PROVE DnsInv'
  OBVIOUS
<1>1. CASE UNCHANGED dnsVars
  <2>1. DnsTypeOK'
    BY <1>1 DEF dnsVars, tableVars, workerVars, callerVars, DnsInv, DnsTypeOK, Added, Lists,
       Answers
  <2>2. ListInv'
    BY <1>1 DEF dnsVars, tableVars, workerVars, callerVars, DnsInv, ListInv, Added, Answers
  <2> QED
    BY <2>1, <2>2 DEF DnsInv
<1> QED
  BY <1>1, ProgramDnsInv, RoundDnsInv, LookupDnsInv, UpdateHostDnsInv DEF DnsNext, Worker
-----------------------------------------------------------------------------
(* Indices.                                                                *)

LEMMA RemainderIs ==
  ASSUME NEW x \in Int, NEW q \in Int, NEW r \in Nat, NEW u \in Nat \ {0}, x = q * u + r, r < u
  PROVE  x % u = r
  OBVIOUS

\* The remainders of neighbours are neighbours on the circle.
LEMMA NextRemainder ==
  ASSUME NEW x \in Nat, NEW u \in Nat \ {0}
  PROVE  x % u \in 0 .. u - 1 /\ (x + 1) % u = ((x % u) + 1) % u
<1> DEFINE q == x \div u
           r == x % u
<1>1. q \in Nat /\ r \in 0 .. u - 1 /\ x = q * u + r
  OBVIOUS
<1> HIDE DEF q, r
<1>2. CASE r + 1 < u
  <2>1. (r + 1) % u = r + 1
    BY <1>1, <1>2
  <2>2. x + 1 = q * u + (r + 1)
    BY <1>1
  <2>3. (x + 1) % u = r + 1
    BY <1>1, <1>2, <2>2, RemainderIs
  <2> QED
    BY <1>1, <2>1, <2>3 DEF r
<1>3. CASE r + 1 = u
  <2>1. (r + 1) % u = 0
    BY <1>1, <1>3
  <2>2. x + 1 = (q + 1) * u + 0
    BY <1>1, <1>3
  <2>3. (x + 1) % u = 0
    BY <1>1, <2>2, RemainderIs
  <2> QED
    BY <1>1, <2>1, <2>3 DEF r
<1> QED
  BY <1>1, <1>2, <1>3

\* An index becomes a size_t, and the next index the next size_t, but from -1.
LEMMA SlotIs ==
  ASSUME NEW i \in Indices, NEW len \in Nat \ {0}
  PROVE  /\ Slot(i, len) \in 0 .. len - 1
         /\ i + 1 \in Indices \ {0} => Slot(i + 1, len) = (Slot(i, len) + 1) % len
<1> DEFINE w == 2 ^ Width
<1>1. w \in Nat /\ MaxIndex \in Nat /\ MaxIndex < w
  BY DnsAssumption
<1>2. i \in Int /\ -MaxIndex - 1 <= i /\ i <= MaxIndex
  BY <1>1 DEF Indices
<1> HIDE DEF w
<1>3. CASE i >= 0
  <2>1. i \in Nat /\ i % w = i
    BY <1>1, <1>2, <1>3
  <2>2. i + 1 \in Indices => (i + 1) % w = i + 1
    BY <1>1, <1>2, <1>3 DEF Indices
  <2> QED
    BY <2>1, <2>2, NextRemainder DEF Slot, w
<1>4. CASE i < 0
  <2>1. w + i \in Nat /\ i = (-1) * w + (w + i) /\ w + i < w
    BY <1>1, <1>2, <1>4
  <2>2. i % w = w + i
    BY <1>1, <1>2, <2>1, RemainderIs
  <2>3. ASSUME i + 1 \in Indices \ {0} PROVE (i + 1) % w = (w + i) + 1
    <3>1. (w + i) + 1 \in Nat /\ i + 1 = (-1) * w + ((w + i) + 1) /\ (w + i) + 1 < w
      BY <1>1, <1>2, <1>4, <2>1, <2>3
    <3> QED
      BY <1>1, <1>2, <3>1, RemainderIs
  <2> QED
    BY <2>1, <2>2, <2>3, NextRemainder DEF Slot, w
<1> QED
  BY <1>2, <1>3, <1>4

(***************************************************************************)
(* GetHostAddress finds an address of the host it is asked for, unless a   *)
(* lookup of that host has failed, and for every int an address: whatever  *)
(* order the worker goes through the hosts in, and whenever the table is   *)
(* swapped (DnsService.cpp:24-53, 84-140).                                 *)
(***************************************************************************)
THEOREM LookupsAreRightTheorem == DnsSpec => []LookupsAreRight
<1>1. DnsInv => OwnAddresses
  <2> SUFFICES ASSUME DnsInv, NEW h \in Added \ failed
               PROVE  /\ \A i \in DOMAIN host_info_[h] : host_info_[h][i] \in Addresses(h)
                      /\ \A i, j \in DOMAIN host_info_[h] : i # j => host_info_[h][i] # host_info_[h][j]
    BY DEF OwnAddresses
  <2> DEFINE l == host_info_[h]
  <2>1. l = << >> \/ l = << <<h, 1>> >> \/ l = << <<h, 2>>, <<h, 3>>, <<h, 1>> >>
    BY DEF DnsInv, ListInv, Answers
  <2> HIDE DEF l
  <2>2. \A n \in 1 .. 3 : <<h, n>> \in Addresses(h)
    BY DEF Addresses
  <2>3. CASE l = << >>
    BY <2>3 DEF l
  <2>4. CASE l = << <<h, 1>> >>
    <3>1. DOMAIN l = {1} /\ l[1] = <<h, 1>>
      BY <2>4
    <3> QED
      BY <2>2, <3>1 DEF l
  <2>5. CASE l = << <<h, 2>>, <<h, 3>>, <<h, 1>> >>
    <3>1. DOMAIN l = {1, 2, 3} /\ l[1] = <<h, 2>> /\ l[2] = <<h, 3>> /\ l[3] = <<h, 1>>
      BY <2>5
    <3>2. <<h, 1>> # <<h, 2>> /\ <<h, 1>> # <<h, 3>> /\ <<h, 2>> # <<h, 3>>
      OBVIOUS
    <3> QED
      BY <2>2, <3>1, <3>2 DEF l
  <2> QED
    BY <2>1, <2>3, <2>4, <2>5
<1>2. DnsInv => EachIndexFinds
  <2> SUFFICES ASSUME DnsInv, NEW h \in Added, host_info_[h] # << >>, NEW i \in Indices
               PROVE  LET len == Len(host_info_[h]) IN
                      /\ Slot(i, len) \in 0 .. len - 1
                      /\ i + 1 \in Indices \ {0} =>
                           GetHostAddress(h, i + 1) = host_info_[h][((Slot(i, len) + 1) % len) + 1]
    BY DEF EachIndexFinds
  <2> DEFINE len == Len(host_info_[h])
  <2>1. len \in Nat \ {0}
    <3>1. host_info_[h] \in Lists
      BY DEF DnsInv, DnsTypeOK
    <3>2. PICK g : host_info_[h] = << <<g, 1>> >> \/ host_info_[h] = << <<g, 2>>, <<g, 3>>, <<g, 1>> >>
      BY <3>1 DEF Lists, Answers
    <3> QED
      BY <3>2
  <2> HIDE DEF len
  <2> QED
    BY <2>1, SlotIs DEF GetHostAddress, len
<1> QED
  BY <1>1, <1>2, InitDnsInv, NextDnsInv, PTL DEF DnsSpec, LookupsAreRight
=============================================================================
