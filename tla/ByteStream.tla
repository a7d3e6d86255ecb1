----------------------------- MODULE ByteStream -----------------------------
(***************************************************************************)
(* What a MsgBuffer is for (src/network/base/MsgBuffer.h:24-34): a stream  *)
(* of bytes.  Bytes are added at the end, taken from the front in the      *)
(* order they were added, and the last ones can be taken back.             *)
(***************************************************************************)
EXTENDS Naturals, Sequences

CONSTANTS Bytes,
          MaxLen    \* bound: bytes added at a time

VARIABLES content,   \* the bytes added and not yet taken
          taken      \* the bytes the last operation gave to its caller

vars == <<content, taken>>

Init == content = << >> /\ taken = << >>

Add(data) == content' = content \o data /\ taken' = << >>

Take(n) ==
  /\ content' = SubSeq(content, n + 1, Len(content))
  /\ taken'   = SubSeq(content, 1, n)

TakeBack(n) ==
  /\ content' = SubSeq(content, 1, Len(content) - n)
  /\ taken'   = << >>

Next ==
  \/ \E len \in 0 .. MaxLen : \E data \in [1 .. len -> Bytes] : Add(data)
  \/ \E n \in 0 .. Len(content) : Take(n) \/ TakeBack(n)

Spec == Init /\ [][Next]_vars
=============================================================================
