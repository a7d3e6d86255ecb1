--------------------------- MODULE TcpConnection ---------------------------
(***************************************************************************)
(* A connection of a TcpServer (src/network/net/TcpConnection.cpp) with    *)
(* the loop that serves it: its registration in events_ and epoll          *)
(* (EventLoop.cpp), the dispatch of its events, reading and writing the    *)
(* non-blocking socket, sending, the timeout, and closing                  *)
(* (TcpServer::OnConnectionClose).                                         *)
(*                                                                         *)
(* Between two steps of the loop the peer sends, acknowledges, closes or   *)
(* resets, and other threads call Send and ForceClose, which queue a       *)
(* function (module EventLoop).  A byte that is sent is <<m, i>>: byte i   *)
(* of the m-th message; <<m, 0>> is the byte in memory before the message. *)
(* Received bytes are only counted; MsgBuffer keeps them.  The socket and  *)
(* epoll are modelled as Linux implements them.                            *)
(***************************************************************************)
EXTENDS Integers, Sequences, SequencesExt, FiniteSetsExt

CONSTANTS
  Sizes,      \* the sizes of the messages the program sends
  Ways,       \* how it sends them: a subset of {"buf", "list", "none"}, a list of
              \* one node or of none; a longer list is several sent in a row
  Closes,     \* whether it calls ForceClose
  Resets,     \* whether the peer may reset the connection
  SndCap,     \* how many bytes the socket accepts before it is full
  IovMax,     \* how many pieces writev accepts (IOV_MAX, 1024)
  MaxSends,   \* bound: messages
  MaxIn,      \* bound: bytes the peer sends
  MaxQueue    \* bound: functions queued at a time

ASSUME ConstantAssumption ==
  /\ Sizes \subseteq Nat
  /\ Ways \subseteq {"buf", "list", "none"}
  /\ Closes \in BOOLEAN /\ Resets \in BOOLEAN
  /\ {SndCap, IovMax} \subseteq Nat \ {0}
  /\ {MaxSends, MaxIn, MaxQueue} \subseteq Nat

VARIABLES
  closed_,
  fd_,            \* the descriptor is open (fd_ > 0)
  events_,        \* the connection is in events_ and in epoll
  event_,         \* what epoll is asked for: IN, OUT, ET (edge-triggered)
  io_vec_list_,   \* pieces of messages that wait for OnWrite
  timer,          \* the TimeoutEntry is in the timing wheel
  functions_,     \* what other threads have asked the loop to do
  pc, ret,        \* where the loop is, and where the callback under way returns to
  sock,           \* the socket: "up", "fin" (the peer closed), "reset", "broken"
                  \* (reset after a FIN) or "gone" (the error was reported)
  inbuf,          \* bytes in its receive buffer
  sndbuf,         \* bytes in its send buffer
  ready,          \* it is on the ready list of epoll
  received,       \* bytes the peer has sent
  sends,          \* messages so far
  owed,           \* the bytes SendInLoop was given (history)
  wire,           \* the bytes the socket was given (history)
  wrapped,        \* a failed write() was taken for a length (history)
  missed,         \* since EnableWrite(true), or the last EAGAIN of an OnWrite that
                  \* epoll is still asked for, OnWrite was not asked for or not
                  \* called when it should (history)
  cause           \* what closed the connection (history)

loopVars == <<closed_, fd_, events_, event_, io_vec_list_, timer>>
sockVars == <<sock, inbuf, received>>
outVars  == <<sndbuf, owed, wire, wrapped, missed>>
vars == <<loopVars, functions_, pc, ret, sockVars, outVars, ready, sends, cause>>

kEventRead  == {"IN", "ET"}
kEventWrite == {"OUT", "ET"}

\* The messages there are; a list of no nodes has no size.
Messages == {c \in Ways \X Sizes : c[1] = "none" => c[2] = 0}

Functions == [op : {"buf", "list", "none"}, size : Sizes, msg : 1 .. MaxSends]
               \cup [op : {"close"}]

TypeOK ==
  /\ closed_ \in BOOLEAN /\ fd_ \in BOOLEAN /\ events_ \in BOOLEAN /\ timer \in BOOLEAN
  /\ event_ \subseteq {"IN", "OUT", "ET"}
  /\ \A i \in DOMAIN io_vec_list_ : io_vec_list_[i].len >= 0 /\ io_vec_list_[i].from >= -1
  /\ functions_ \in Seq(Functions)
  /\ pc \in {"EpollWait", "OnError", "OnClose", "Readv", "Message", "OnWrite", "Writev",
             "WriteComplete", "RunFuctions", "OnTimer", "Killed"}
  /\ ret \in {"Readv", "Writev", "RunFuctions"}
  /\ sock \in {"up", "fin", "reset", "broken", "gone"}
  /\ inbuf \in 0 .. MaxIn /\ received \in 0 .. MaxIn
  /\ sndbuf \in 0 .. SndCap
  /\ ready \in BOOLEAN /\ wrapped \in BOOLEAN /\ missed \in BOOLEAN
  /\ sends \in 0 .. MaxSends

\* AddEvent of a descriptor that is not in events_.
AddEvent == events_ = TRUE /\ event_ = kEventRead

\* TcpServer::OnAccept: AddEvent and EnableCheckTimeout; the loop goes on.
Init ==
  /\ closed_ = FALSE /\ fd_ = TRUE
  /\ AddEvent
  /\ io_vec_list_ = << >> /\ timer = TRUE
  /\ functions_ = << >> /\ pc = "RunFuctions" /\ ret = "RunFuctions"
  /\ sock = "up" /\ inbuf = 0 /\ sndbuf = 0 /\ ready = FALSE
  /\ received = 0 /\ sends = 0
  /\ owed = << >> /\ wire = << >> /\ wrapped = FALSE /\ missed = FALSE
  /\ cause = "none"
-----------------------------------------------------------------------------
(* The socket and epoll.                                                   *)

Room == SndCap - sndbuf

Failed == sock \in {"reset", "broken"}    \* SO_ERROR is set
Dead   == Failed \/ sock = "gone"

\* What epoll reports of the socket when it is asked for e.
Mask(e) ==
  LET all == (IF inbuf > 0 \/ sock # "up" THEN {"IN"} ELSE {})
               \cup (IF Room > 0 \/ Dead THEN {"OUT"} ELSE {})
  IN (all \cap e) \cup (IF Dead THEN {"HUP"} ELSE {})
                  \cup (IF Failed THEN {"ERR"} ELSE {})

\* The peer sends a byte, closes, or resets; each wakes epoll up.
PeerSends ==
  /\ sock = "up" /\ received < MaxIn
  /\ inbuf' = inbuf + 1 /\ received' = received + 1
  /\ ready' = (ready \/ events_)
  /\ UNCHANGED <<loopVars, functions_, pc, ret, sock, outVars, sends, cause>>

PeerCloses ==
  /\ sock' = "fin" /\ sock = "up"
  /\ ready' = (ready \/ events_)
  /\ UNCHANGED <<loopVars, functions_, pc, ret, inbuf, received, outVars, sends, cause>>

PeerResets ==
  /\ Resets /\ sock \in {"up", "fin"}
  /\ sock' = IF sock = "up" THEN "reset" ELSE "broken"
  /\ ready' = (ready \/ events_)
  /\ UNCHANGED <<loopVars, functions_, pc, ret, inbuf, received, outVars, sends, cause>>

\* The peer has received what was in the send buffer; room in a socket that
\* was full is an edge.
PeerAcks ==
  /\ sndbuf > 0 /\ ~ Dead
  /\ sndbuf' = 0
  /\ ready' = (ready \/ (events_ /\ Room = 0))
  /\ UNCHANGED <<loopVars, functions_, pc, ret, sockVars, owed, wire, wrapped, missed,
                 sends, cause>>
-----------------------------------------------------------------------------
(* Other threads.                                                          *)

Queue(f) ==
  /\ Len(functions_) < MaxQueue
  /\ functions_' = Append(functions_, f)
  /\ UNCHANGED <<loopVars, pc, ret, sockVars, outVars, ready, cause>>

CallSend ==
  /\ sends < MaxSends
  /\ sends' = sends + 1
  /\ \E c \in Messages : Queue([op |-> c[1], size |-> c[2], msg |-> sends + 1])

CallForceClose ==
  /\ Closes
  /\ Queue([op |-> "close"])
  /\ UNCHANGED sends
-----------------------------------------------------------------------------
(* Operations of the connection.  Each goes on at label next.              *)

\* Event::EnableWrite: a change of event_ makes epoll look at the socket.
EnableWrite(enable) ==
  /\ event_' = IF ~ events_ THEN event_
               ELSE IF enable THEN event_ \cup kEventWrite ELSE event_ \ kEventWrite
  /\ ready'  = (ready \/ (events_ /\ Mask(event_') # {}))

\* DelEvent: out of events_ and of epoll.
DelEvent == events_' = FALSE /\ ready' = FALSE

\* Mutant of OnConnectionClose: the connection stays in events_.
OnConnectionCloseKeepsEvent == UNCHANGED <<events_, ready>>

\* close_cb_, which is TcpServer::OnConnectionClose.
OnConnectionClose == DelEvent

\* Event::Close.
Close == fd_' = FALSE

OnClose(why) ==
  /\ \/ closed_ /\ UNCHANGED <<closed_, events_, ready, fd_, cause>>
     \/ ~ closed_ /\ closed_' = TRUE /\ OnConnectionClose /\ Close /\ cause' = why
  /\ UNCHANGED <<event_, io_vec_list_>>

\* The bytes of an iovec, of a list of them, and of what waits in io_vec_list_.
Bytes(v) == [i \in 1 .. v.len |-> <<v.msg, v.from + i>>]

AllBytes(l) == FlattenSeq([i \in 1 .. Len(l) |-> Bytes(l[i])])

Pending == AllBytes(io_vec_list_)

\* The socket takes as much of the bytes b as it has room for.
Write(b) ==
  LET n == Min({Len(b), Room}) IN
  /\ wire'   = wire \o SubSeq(b, 1, n)
  /\ sndbuf' = sndbuf + n

Piece(m, from, len) == [msg |-> m, from |-> from, len |-> len]

\* SendInLoop(list) of one node, which may be empty, or of none: EnableWrite
\* is called only if there is nothing to write, which is not the case once a
\* piece has been added.
SendList(way, m, n, next) ==
  /\ \/ closed_ /\ UNCHANGED <<io_vec_list_, owed, event_, ready, missed>>
     \/ /\ ~ closed_ /\ way = "list"
        /\ owed' = owed \o Bytes(Piece(m, 0, n))
        /\ io_vec_list_' = Append(io_vec_list_, Piece(m, 0, n))
        /\ missed' = (missed \/ "OUT" \notin event_)
        /\ UNCHANGED <<event_, ready>>
     \/ /\ ~ closed_ /\ way = "none"
        /\ IF io_vec_list_ = << >> THEN EnableWrite(TRUE) ELSE UNCHANGED <<event_, ready>>
        /\ UNCHANGED <<io_vec_list_, owed, missed>>
  /\ pc' = next
  /\ UNCHANGED <<sndbuf, wire, wrapped, ret, sock>>

\* Mutant of QueuePiece: OnWrite is asked for only by the first piece.
QueuePieceFirst(v, next) ==
  /\ IF v.len = 0
     THEN UNCHANGED <<io_vec_list_, event_, ready, missed>>
     ELSE /\ io_vec_list_' = Append(io_vec_list_, v) /\ missed' = FALSE
          /\ IF io_vec_list_ = << >> THEN EnableWrite(TRUE) ELSE UNCHANGED <<event_, ready>>
  /\ pc' = next
  /\ UNCHANGED ret

\* The end of SendInLoop(buf, size): what was not written joins the queue.
QueuePiece(v, next) ==
  /\ IF v.len = 0
     THEN UNCHANGED <<io_vec_list_, event_, ready, missed>>
     ELSE io_vec_list_' = Append(io_vec_list_, v) /\ missed' = FALSE /\ EnableWrite(TRUE)
  /\ pc' = next
  /\ UNCHANGED ret

\* write() fails: -1 is kept in the size_t send_len, which is never negative,
\* so size becomes size + 1 and buf + send_len is one byte before buf.  When
\* the error is EPIPE, SIGPIPE ends the process: nothing handles it.
WriteFails(m, n, next) ==
  \/ /\ sock = "reset" \/ (~ Dead /\ Room = 0 /\ n > 0)
     /\ sock' = IF sock = "reset" THEN "gone" ELSE sock
     /\ wrapped' = TRUE /\ owed' = owed \o Bytes(Piece(m, 0, n))
     /\ QueuePiece(Piece(m, -1, n + 1), next)
  \/ /\ sock \in {"broken", "gone"}
     /\ pc' = "Killed"
     /\ UNCHANGED <<sock, wrapped, missed, owed, io_vec_list_, event_, ready, ret>>

\* SendInLoop(buf, size).
SendBuf(m, n, next) ==
  LET b == Bytes(Piece(m, 0, n)) IN
  \/ /\ closed_ /\ pc' = next
     /\ UNCHANGED <<io_vec_list_, owed, wire, wrapped, missed, sndbuf, sock, event_, ready,
                    ret>>
  \/ /\ ~ closed_ /\ owed' = owed \o b
     /\ io_vec_list_ # << >>
     /\ QueuePiece(Piece(m, 0, n), next)
     /\ UNCHANGED <<wire, sndbuf, wrapped, sock>>
  \/ /\ ~ closed_ /\ owed' = owed \o b
     /\ io_vec_list_ = << >> /\ ~ Dead /\ (Room > 0 \/ n = 0)
     /\ Write(b)
     /\ \/ /\ n <= Room
           /\ pc' = "WriteComplete" /\ ret' = next
           /\ UNCHANGED <<io_vec_list_, event_, ready, missed>>
        \/ n > Room /\ QueuePiece(Piece(m, Room, n - Room), next)
     /\ UNCHANGED <<wrapped, sock>>
  \/ /\ ~ closed_ /\ io_vec_list_ = << >>
     /\ WriteFails(m, n, next)
     /\ UNCHANGED <<wire, sndbuf>>

SendInLoop(way, m, n, next) ==
  /\ \/ way = "buf" /\ SendBuf(m, n, next)
     \/ way # "buf" /\ SendList(way, m, n, next)
  /\ UNCHANGED <<closed_, fd_, events_, timer, inbuf, received, cause>>
-----------------------------------------------------------------------------
(* The loop.                                                               *)

\* Mutant of Handler: a peer that has closed is not read from any more.
HandlerHangsUp(mask) ==
  CASE "ERR" \in mask -> "OnError"
    [] "ERR" \notin mask /\ sock = "fin" -> "OnClose"
    [] "ERR" \notin mask /\ sock # "fin" /\ "IN" \in mask -> "Readv"
    [] OTHER -> "OnWrite"

\* Which handler Loop() calls: one only, even if there is more to do.
Handler(mask) ==
  CASE "ERR" \in mask -> "OnError"
    [] "ERR" \notin mask /\ "HUP" \in mask /\ "IN" \notin mask -> "OnClose"
    [] "ERR" \notin mask /\ "IN" \in mask -> "Readv"
    [] OTHER -> "OnWrite"

\* epoll_wait reports the connection.  An edge is reported once; Loop() reads
\* SO_ERROR before it calls OnError.
EpollReturns ==
  LET mask == Mask(event_) IN
  /\ pc = "EpollWait" /\ ready /\ mask # {}
  /\ pc' = Handler(mask)
  /\ ready' = ("ET" \notin event_)
  /\ sock' = IF Failed THEN "gone" ELSE sock
  /\ missed' = (missed \/ {"IN", "OUT"} \subseteq mask)
  /\ UNCHANGED <<loopVars, functions_, ret, inbuf, received, sndbuf, owed, wire, wrapped,
                 sends, cause>>

EpollTimesOut ==
  /\ pc = "EpollWait" /\ (~ ready \/ Mask(event_) = {})
  /\ pc' = "RunFuctions"
  /\ ready' = FALSE
  /\ UNCHANGED <<loopVars, functions_, ret, sockVars, outVars, sends, cause>>

\* OnError, and OnClose called by Loop().
OnErrorOrClose ==
  /\ pc \in {"OnError", "OnClose"}
  /\ OnClose(pc)
  /\ pc' = "RunFuctions"
  /\ UNCHANGED <<timer, functions_, ret, sockVars, outVars, sends>>

\* Mutant of Readv: OnRead keeps the descriptor it began with, so that it
\* goes on reading when message_cb_ has closed the connection.
ReadvKeepsDescriptor ==
  /\ pc = "Readv" /\ inbuf > 0
  /\ inbuf' = 0
  /\ pc' = "Message"
  /\ UNCHANGED <<loopVars, functions_, ret, ready, sock, received, outVars, sends, cause>>

\* Mutant of Readv: the read waits for a whole header, as a blocking one would.
ReadvWaits ==
  /\ pc = "Readv" /\ fd_ /\ inbuf > 1
  /\ inbuf' = 0
  /\ pc' = "Message"
  /\ UNCHANGED <<loopVars, functions_, ret, ready, sock, received, outVars, sends, cause>>

\* OnRead: readv takes all there is, and message_cb_ is called ...
Readv ==
  /\ pc = "Readv" /\ fd_ /\ inbuf > 0
  /\ inbuf' = 0
  /\ pc' = "Message"
  /\ UNCHANGED <<loopVars, functions_, ret, ready, sock, received, outVars, sends, cause>>

\* ... until there is nothing (EAGAIN, or EBADF once fd_ is closed) ...
ReadvAgain ==
  /\ pc = "Readv" /\ (~ fd_ \/ (inbuf = 0 /\ sock = "up"))
  /\ pc' = "RunFuctions"
  /\ UNCHANGED <<loopVars, functions_, ret, ready, sockVars, outVars, sends, cause>>

\* ... or the end: 0 after a FIN, or an error.
ReadvEnds ==
  /\ pc = "Readv" /\ fd_ /\ inbuf = 0 /\ sock # "up"
  /\ OnClose("OnRead")
  /\ pc' = "RunFuctions"
  /\ UNCHANGED <<timer, functions_, ret, sockVars, outVars, sends>>

\* message_cb_ does nothing, sends, or closes the connection: Send and
\* ForceClose run at once in the loop's own thread.
Message ==
  /\ pc = "Message"
  /\ \/ /\ pc' = "Readv"
        /\ UNCHANGED <<loopVars, ret, sockVars, outVars, ready, sends, cause>>
     \/ /\ sends < MaxSends /\ sends' = sends + 1
        /\ \E c \in Messages : SendInLoop(c[1], sends + 1, c[2], "Readv")
     \/ /\ Closes /\ OnClose("ForceClose") /\ pc' = "Readv"
        /\ UNCHANGED <<timer, ret, sockVars, outVars, sends>>
  /\ UNCHANGED functions_

\* OnWrite with nothing to write, or into its loop.
OnWrite ==
  /\ pc = "OnWrite"
  /\ \/ /\ io_vec_list_ = << >>
        /\ EnableWrite(FALSE)
        /\ pc' = "WriteComplete" /\ ret' = "RunFuctions"
     \/ /\ io_vec_list_ # << >> /\ pc' = "Writev"
        /\ UNCHANGED <<event_, ready, ret>>
  /\ UNCHANGED <<closed_, fd_, events_, io_vec_list_, timer, functions_, sockVars, outVars,
                 sends, cause>>

\* The length of the first j pieces of l.
Total(l, j) == Len(AllBytes(SubSeq(l, 1, j)))

\* The pieces l without the first done of them, and without the first part
\* bytes of the next.
Without(l, done, part) ==
  LET rest == SubSeq(l, done + 1, Len(l))
  IN IF rest = << >> THEN rest
     ELSE [rest EXCEPT ![1] = Piece(@.msg, @.from + part, @.len - part)]

\* How many of the pieces l are erased when n bytes have been written: one
\* after the other, while there are bytes left to account for.
Done(l, n) == Max({0} \cup {j \in 1 .. Len(l) : Total(l, j - 1) < n /\ Total(l, j) <= n})

\* Mutant of Advanced: a piece written in part is kept as it was.
AdvancedWhole(l, n) == Without(l, Done(l, n), 0)

\* Mutant of Advanced: the first piece is taken to be longer than what was
\* written.
AdvancedFirst(l, n) == Without(l, 0, n)

\* The pieces l after n bytes of them have been written.
Advanced(l, n) == Without(l, Done(l, n), n - Total(l, Done(l, n)))

\* One writev.  Nothing in the loop asks whether there is still something to
\* write: with an empty list, or an empty last piece, which is never erased,
\* writev returns 0, whatever the socket, and it is done all over again.
Writev ==
  /\ pc = "Writev" /\ fd_ /\ Len(io_vec_list_) <= IovMax
  /\ Pending = << >> \/ (~ Dead /\ Room > 0)
  /\ Write(Pending)
  /\ io_vec_list_' = Advanced(io_vec_list_, Min({Len(Pending), Room}))
  /\ \/ /\ io_vec_list_' = << >>
        /\ EnableWrite(FALSE)
        /\ pc' = "WriteComplete" /\ ret' = "Writev"
     \/ io_vec_list_' # << >> /\ UNCHANGED <<event_, ready, pc, ret>>
  /\ UNCHANGED <<closed_, fd_, events_, timer, functions_, sockVars, owed, wrapped, missed,
                 sends, cause>>

\* writev fails with EAGAIN, or with EBADF after the callback closed fd_.
WritevAgain ==
  /\ pc = "Writev"
  /\ \/ ~ fd_
     \/ Len(io_vec_list_) <= IovMax /\ Pending # << >> /\ ~ Dead /\ Room = 0
  /\ pc' = "RunFuctions"
  /\ missed' = (missed /\ "OUT" \notin event_)
  /\ UNCHANGED <<loopVars, functions_, ret, ready, sockVars, sndbuf, owed, wire, wrapped,
                 sends, cause>>

\* writev refuses so many pieces, or meets the error of a reset, or SIGPIPE.
WritevFails ==
  /\ pc = "Writev" /\ fd_
  /\ \/ Len(io_vec_list_) > IovMax /\ OnClose("EINVAL") /\ pc' = "RunFuctions"
     \/ /\ Len(io_vec_list_) <= IovMax /\ Pending # << >>
        /\ sock = "reset" /\ OnClose("OnWrite") /\ pc' = "RunFuctions"
     \/ /\ Len(io_vec_list_) <= IovMax /\ Pending # << >>
        /\ sock \in {"broken", "gone"} /\ pc' = "Killed"
        /\ UNCHANGED <<closed_, fd_, events_, event_, io_vec_list_, ready, cause>>
  /\ UNCHANGED <<timer, functions_, ret, sockVars, outVars, sends>>

\* write_complete_cb_ does nothing, closes (tests/TcpConnectorTest.cpp), or
\* sends: then it may be called again before it has returned.
WriteComplete ==
  /\ pc = "WriteComplete"
  /\ \/ UNCHANGED <<loopVars, ret, sockVars, outVars, ready, sends, cause>> /\ pc' = ret
     \/ /\ Closes /\ OnClose("ForceClose") /\ pc' = ret
        /\ UNCHANGED <<timer, ret, sockVars, outVars, sends>>
     \/ /\ sends < MaxSends /\ sends' = sends + 1
        /\ \E c \in Messages : SendInLoop(c[1], sends + 1, c[2], ret)
  /\ UNCHANGED functions_

\* RunFuctions: the functions queued by Send and ForceClose.
RunFuctions ==
  LET f == Head(functions_) IN
  /\ pc = "RunFuctions" /\ functions_ # << >>
  /\ functions_' = Tail(functions_)
  /\ \/ f.op # "close" /\ SendInLoop(f.op, f.msg, f.size, "RunFuctions")
     \/ /\ f.op = "close" /\ OnClose("ForceClose")
        /\ UNCHANGED <<timer, pc, ret, sockVars, outVars>>
  /\ UNCHANGED sends

RunFuctionsEnds ==
  /\ pc = "RunFuctions" /\ functions_ = << >>
  /\ pc' = "OnTimer"
  /\ UNCHANGED <<loopVars, functions_, ret, ready, sockVars, outVars, sends, cause>>

\* The timing wheel drops the TimeoutEntry: OnTimeout.  Nothing calls
\* ExtendLife, so this happens max_time after the connection was accepted.
OnTimeout ==
  /\ pc = "OnTimer" /\ timer
  /\ timer' = FALSE
  /\ OnClose("OnTimeout")
  /\ UNCHANGED <<functions_, pc, ret, sockVars, outVars, sends>>

OnTimerEnds ==
  /\ pc = "OnTimer"
  /\ pc' = "EpollWait"
  /\ UNCHANGED <<loopVars, functions_, ret, ready, sockVars, outVars, sends, cause>>
-----------------------------------------------------------------------------
LoopStep ==
  \/ EpollReturns \/ EpollTimesOut \/ OnErrorOrClose
  \/ Readv \/ ReadvAgain \/ ReadvEnds \/ Message
  \/ OnWrite \/ Writev \/ WritevAgain \/ WritevFails \/ WriteComplete
  \/ RunFuctions \/ RunFuctionsEnds \/ OnTimerEnds

Next ==
  \/ PeerSends \/ PeerCloses \/ PeerResets \/ PeerAcks
  \/ CallSend \/ CallForceClose
  \/ LoopStep \/ OnTimeout

SafeSpec == Init /\ [][Next]_vars

\* The loop's thread runs, and a peer that is there takes what it is sent.
Fairness == WF_vars(LoopStep) /\ WF_vars(PeerAcks)

Spec == SafeSpec /\ Fairness
-----------------------------------------------------------------------------
(* Properties.                                                             *)

(***************************************************************************)
(* No input waits unseen (EventLoop.cpp:58-69, OnRead): when the loop is   *)
(* about to sleep, a connection with unread bytes, or whose peer has gone, *)
(* is on the ready list of epoll, although edges are reported only once    *)
(* and EnableWrite(false) also takes EPOLLET away.                         *)
(***************************************************************************)
NoLostRead ==
  pc = "EpollWait" /\ events_ /\ (inbuf > 0 \/ sock # "up") => ready

(***************************************************************************)
(* A closed connection leaves nothing behind (OnClose, OnConnectionClose,  *)
(* Event::Close): events_ and epoll never hold a descriptor that is        *)
(* closed, whose number the next accept may return again, and no           *)
(* connection is closed in one place and open in another.                  *)
(***************************************************************************)
CloseIsComplete == closed_ = ~ fd_ /\ closed_ = ~ events_

(***************************************************************************)
(* Closing is final for the reader too: message_cb_ is not called again    *)
(* once the connection is closed, not even by the OnRead that is under way *)
(* and does not test closed_ in its loop (TcpConnection.cpp:58-77).        *)
(***************************************************************************)
NoMessageAfterClose == [][inbuf' < inbuf => ~ closed_]_vars

(***************************************************************************)
(* An orderly close of the peer loses nothing it sent before               *)
(* (EventLoop.cpp:51-65, OnRead): unless the program, the timeout, a reset *)
(* or a list of more than IOV_MAX pieces ends the connection first, all    *)
(* bytes were read.                                                        *)
(***************************************************************************)
AllReadBeforeClose ==
  closed_ /\ cause \notin {"ForceClose", "OnTimeout", "EINVAL"} /\ sock = "fin" => inbuf = 0

(***************************************************************************)
(* Nothing is lost, repeated or reordered between Send and the socket      *)
(* (SendInLoop, OnWrite): what the socket got and what waits is what was   *)
(* sent, as long as no write() of SendInLoop has failed.                   *)
(***************************************************************************)
NothingLost == wrapped \/ wire \o Pending = owed

(***************************************************************************)
(* What waits to be sent is sent when there is room (SendInLoop, OnWrite,  *)
(* EventLoop.cpp:51-69): the loop does not go to sleep on it, when the     *)
(* next edge may never come.  It does so after Send(list), which asks      *)
(* nobody to write, and when the edge was used up for OnRead alone: then   *)
(* the data waits for the next Send(buf, size).                            *)
(***************************************************************************)
OutputIsWritten ==
  pc = "EpollWait" /\ events_ /\ io_vec_list_ # << >> /\ Room > 0 /\ ~ Dead
    => ready \/ missed

(***************************************************************************)
(* No edge is lost in either direction: see the two parts                  *)
(* (EventLoop.cpp:51-69, TcpConnection.cpp:52-219).                        *)
(***************************************************************************)
NoLostEdge == NoLostRead /\ OutputIsWritten

\* OnWrite goes on calling writev with nothing to write: everything has been
\* written, or what is left are empty pieces (TcpConnection.cpp:113-140).
Spinning == Pending = << >> /\ (pc = "Writev" \/ (pc = "WriteComplete" /\ ret = "Writev"))

(***************************************************************************)
(* What the peer sends is read (OnRead), unless the connection is closed   *)
(* before, or the loop never again comes back from OnWrite.                *)
(***************************************************************************)
InputIsRead ==
  inbuf > 0 ~> (inbuf = 0 \/ closed_ \/ pc = "Killed" \/ []Spinning)

(***************************************************************************)
(* "发送数据" (TcpConnection.h:45): the bytes the socket is given are the  *)
(* bytes of the messages, in their order.                                  *)
(***************************************************************************)
SendsTheData == IsPrefix(wire, owed)
=============================================================================
