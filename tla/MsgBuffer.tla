----------------------------- MODULE MsgBuffer -----------------------------
(***************************************************************************)
(* The buffer of a connection: src/network/base/MsgBuffer.h and .cpp.  The *)
(* readable bytes are buffer_[readerIndex_ .. writerIndex_ - 1]; what is   *)
(* before them is free but for kCheapPrepend bytes, and what is after them *)
(* is writable.  A buffer has one user at a time, the thread of its loop.  *)
(***************************************************************************)
EXTENDS Integers, Sequences

CONSTANTS
  Base,           \* a byte is a number below Base (256)
  kCheapPrepend,  \* 8
  kInitialSize,   \* 1024
  ExtraBuf,       \* the size of extrabuf in readFd (65536)
  MaxLen,         \* bound: bytes per operation
  MaxSize         \* bound: size of the buffer

ASSUME ConstantAssumption ==
  /\ Base \in Nat \ {0}
  /\ {kCheapPrepend, kInitialSize, ExtraBuf, MaxLen, MaxSize} \subseteq Nat

Bytes == 0 .. Base - 1

\* The vectors of n bytes.
Vectors(n) == [0 .. n - 1 -> Bytes]

VARIABLES
  buffer_,        \* the vector: buffer_[i] for i in 0 .. size - 1
  size,           \* buffer_.size()
  readerIndex_,
  writerIndex_,
  taken,          \* what the last operation gave to its caller (history)
  peak            \* the most bytes that were ever readable (history)

vars == <<buffer_, size, readerIndex_, writerIndex_, taken, peak>>

(***************************************************************************)
(* "0 <= readerIndex <= writerIndex <= size" (MsgBuffer.h:34), and room    *)
(* for kCheapPrepend bytes is left in front.                               *)
(***************************************************************************)
TypeOK ==
  /\ size \in Nat /\ readerIndex_ \in Nat /\ writerIndex_ \in Nat
  /\ kCheapPrepend <= readerIndex_
  /\ readerIndex_ <= writerIndex_
  /\ writerIndex_ <= size
  /\ buffer_ \in Vectors(size)
  /\ taken \in Seq(Bytes)
  /\ peak \in Nat

Init ==
  /\ size = kCheapPrepend + kInitialSize
  /\ buffer_ = [i \in 0 .. size - 1 |-> 0]
  /\ readerIndex_ = kCheapPrepend
  /\ writerIndex_ = kCheapPrepend
  /\ taken = << >>
  /\ peak = 0

readableBytes    == writerIndex_ - readerIndex_
writableBytes    == size - writerIndex_
prependableBytes == readerIndex_

\* The n bytes that start at peek().
Peek(n) == [i \in 1 .. n |-> buffer_[readerIndex_ + i - 1]]

Data(n) == [1 .. n -> Bytes]

\* The history: how much is readable after the step.
NotePeak == peak' = IF writerIndex_' - readerIndex_' > peak
                    THEN writerIndex_' - readerIndex_' ELSE peak
-----------------------------------------------------------------------------
(* Adding bytes.                                                           *)

\* Mutant of MustGrow: the reserved bytes are not counted.
MustGrowUnreserved(w, len) == (size - w) + readerIndex_ < len

\* Mutant of MustGrow: the free bytes in front are never used.
MustGrowAlways(w, len) == TRUE

\* makeSpace(len) with the write index at w: is there too little free space?
MustGrow(w, len) == (size - w) + readerIndex_ < len + kCheapPrepend

\* Vector b resized to n bytes, with data copied to position at.
Copied(b, n, at, data) ==
  [i \in 0 .. n - 1 |->
     IF i >= at /\ i < at + Len(data) THEN data[i - at + 1]
     ELSE IF i \in DOMAIN b THEN b[i] ELSE 0]

\* Mutant of Moved: the bytes stay where they are.
MovedNot(b, w) == b

\* The readable bytes moved to the front.
Moved(b, w) ==
  [i \in DOMAIN b |->
     IF i >= kCheapPrepend /\ i < kCheapPrepend + (w - readerIndex_)
     THEN b[i - kCheapPrepend + readerIndex_] ELSE b[i]]

\* Append data to a vector b that is written up to index w: ensureWritableBytes,
\* makeSpace, the copy, hasWritten.
AppendAt(b, w, data) ==
  LET len == Len(data)
      moved == kCheapPrepend + (w - readerIndex_)
  IN
  \/ /\ size - w >= len
     /\ buffer_' = Copied(b, size, w, data)
     /\ writerIndex_' = w + len
     /\ UNCHANGED <<size, readerIndex_>>
  \/ /\ size - w < len /\ MustGrow(w, len)
     /\ w + len <= MaxSize
     /\ size' = w + len
     /\ buffer_' = Copied(b, w + len, w, data)
     /\ writerIndex_' = w + len
     /\ UNCHANGED readerIndex_
  \/ /\ size - w < len /\ ~ MustGrow(w, len)
     /\ buffer_' = Copied(Moved(b, w), size, moved, data)
     /\ readerIndex_' = kCheapPrepend
     /\ writerIndex_' = moved + len
     /\ UNCHANGED size

append(data) ==
  /\ AppendAt(buffer_, writerIndex_, data)
  /\ taken' = << >>
  /\ NotePeak

\* Bytes written at beginWrite() and announced with hasWritten (UdpSocket).
hasWritten(data) ==
  /\ Len(data) <= writableBytes
  /\ buffer_' = Copied(buffer_, size, writerIndex_, data)
  /\ writerIndex_' = writerIndex_ + Len(data)
  /\ taken' = << >>
  /\ UNCHANGED <<size, readerIndex_>>
  /\ NotePeak

\* readv fills the writable bytes and then extrabuf, which is appended.
readFd(data) ==
  LET n == Len(data)
      head == SubSeq(data, 1, writableBytes)
      tail == SubSeq(data, writableBytes + 1, n)
  IN
  /\ n <= writableBytes + (IF writableBytes < ExtraBuf THEN ExtraBuf ELSE 0)
  /\ \/ /\ n <= writableBytes
        /\ buffer_' = Copied(buffer_, size, writerIndex_, data)
        /\ writerIndex_' = writerIndex_ + n
        /\ UNCHANGED <<size, readerIndex_>>
     \/ /\ n > writableBytes
        /\ AppendAt(Copied(buffer_, size, writerIndex_, head), size, tail)
  /\ taken' = << >>
  /\ NotePeak
-----------------------------------------------------------------------------
(* Taking bytes.                                                           *)

\* The indices after retrieve(len); an empty buffer starts over (retrieveAll).
retrieved(len) ==
  \/ /\ len < readableBytes
     /\ readerIndex_' = readerIndex_ + len
     /\ UNCHANGED writerIndex_
  \/ /\ len = readableBytes
     /\ readerIndex_' = kCheapPrepend
     /\ writerIndex_' = kCheapPrepend

\* retrieve, retrieveUntil, retrieveInt8 .. retrieveInt64, retrieveAll, and
\* retrieveAsString and retrieveAllAsString, which return the bytes.
retrieve(len) ==
  /\ len <= readableBytes
  /\ retrieved(len)
  /\ taken' = Peek(len)
  /\ UNCHANGED <<buffer_, size, peak>>

unwrite(len) ==
  /\ len <= readableBytes
  /\ writerIndex_' = writerIndex_ - len
  /\ taken' = << >>
  /\ UNCHANGED <<buffer_, size, readerIndex_, peak>>
-----------------------------------------------------------------------------
Next ==
  \/ \E n \in 0 .. MaxLen : \E data \in Data(n) :
       append(data) \/ hasWritten(data) \/ readFd(data)
  \/ \E n \in 0 .. readableBytes : retrieve(n) \/ unwrite(n)

Spec == Init /\ [][Next]_vars
-----------------------------------------------------------------------------
(* Properties.                                                             *)

(***************************************************************************)
(* The buffer is a stream of bytes, although makeSpace moves and resizes   *)
(* the vector and readFd reads into two places (MsgBuffer.h:107-261,       *)
(* MsgBuffer.cpp:13-45): no byte is lost, repeated or reordered, and       *)
(* stale bytes beyond the indices are never read.                          *)
(***************************************************************************)
Stream == INSTANCE ByteStream WITH content <- Peek(readableBytes)

IsByteStream == Stream!Spec

(***************************************************************************)
(* makeSpace grows the vector without moving the readable bytes first      *)
(* ("FIXME: move readable data", MsgBuffer.h:246); still the vector never  *)
(* takes more than twice the most bytes that were ever in it at a time.    *)
(***************************************************************************)
Bounded ==
  \/ size <= kCheapPrepend + kInitialSize
  \/ size <= kCheapPrepend + 2 * peak
=============================================================================
