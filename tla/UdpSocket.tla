----------------------------- MODULE UdpSocket -----------------------------
(***************************************************************************)
(* A UdpServer or a UdpClient (net/UdpSocket.cpp, UdpServer.cpp,           *)
(* UdpClient.cpp), the loop that serves it, and another object that opens  *)
(* a descriptor in the same loop: starting and connecting once or again,   *)
(* receiving into a buffer that does not grow, sending at once or through  *)
(* buffer_list_, and the many ways to close, which differ in what they     *)
(* tell the loop.                                                          *)
(*                                                                         *)
(* A datagram to send is <<m, n>>: message m of n bytes.  One that is      *)
(* received is only its length.  Empty datagrams that arrive change        *)
(* nothing and are left out.                                               *)
(***************************************************************************)
EXTENDS Descriptors, Sequences, SequencesExt

CONSTANTS
  Kinds,       \* a subset of {"server", "client"}
  Socket,      \* the UdpServer or UdpClient
  Neighbour,   \* another object with a socket in the loop
  Foreign,     \* the file of that socket
  Sizes,       \* the sizes of the messages the program sends
  MaxSize,     \* the largest that sendto() takes
  Lengths,     \* the lengths of the datagrams that arrive
  BufferSize,  \* the size of msg_buffer_: 1024, kInitialSize of MsgBuffer
  SndCap,      \* how many datagrams the kernel takes before it is full
  MaxOpens,    \* bound: calls of Start or Connect
  MaxSends,    \* bound: messages
  MaxIn,       \* bound: datagrams that arrive
  MaxQueue     \* bound: functions queued at a time

Opens == 1 .. MaxOpens    \* the sockets of the object, one for each call

ASSUME SocketAssumption ==
  /\ Kinds \subseteq {"server", "client"}
  /\ Objects = {Socket, Neighbour} /\ Socket # Neighbour
  /\ {Foreign, NoFile} \cap Opens = {} /\ Foreign # NoFile
  /\ Sizes \subseteq Nat /\ Lengths \subseteq Nat \ {0}
  /\ {BufferSize, SndCap, MaxSize} \subseteq Nat \ {0}
  /\ {MaxOpens, MaxSends, MaxIn, MaxQueue} \subseteq Nat

VARIABLES
  kind,
  table,          \* descriptors, events_ and epoll (module Descriptors)
  asked,          \* what epoll is asked for: event_ of the object
  closed_,        \* of UdpSocket
  connected_,     \* of UdpClient
  buffer_list_,   \* datagrams that wait for OnWrite
  held,           \* bytes of msg_buffer_ up to its writer index
  timer,          \* the UdpTimeoutEntry is in the timing wheel
  arrived,        \* arrived[k]: datagrams in the receive buffer of socket k
  sndbuf,         \* sndbuf[k]: datagrams in its send buffer
  refused,        \* sockets with an error (an ICMP answer) to report
  batch,          \* what epoll_wait reported and Loop() has still to dispatch
  functions_,     \* what other threads have asked the loop to do
  pc,             \* where the loop is
  opens, sends, received,
  wire,           \* the messages the kernel was given, but for the empty
                  \* ones, which it is given again and again (history)
  again,          \* Start or Connect was called a second time without a clean
                  \* close in between (history)
  unclean,        \* how a server was closed, other than by Stop alone: "close",
                  \* events_ kept its number; "start", close_callback_ called
                  \* Start (history)
  missed,         \* since the last Send, OnWrite was not called when it should
                  \* have been: the socket was opened after the Send, or the
                  \* edge went to OnRead (history)
  left,           \* the callback has left bytes in msg_buffer_ (history)
  cut             \* a datagram no longer than msg_buffer_ was cut short (history)

objectVars == <<kind, table, asked, closed_, connected_, timer>>
kernelVars == <<arrived, sndbuf, refused>>
sendVars   == <<buffer_list_, wire, missed>>
readVars   == <<held, left, cut>>
loopVars   == <<batch, functions_, pc>>
bounds     == <<opens, sends, received>>
vars == <<objectVars, kernelVars, sendVars, readVars, loopVars, bounds, again, unclean>>

kEventRead  == {"IN", "ET"}
kEventWrite == {"OUT", "ET"}

Messages == (1 .. MaxSends) \X Sizes

TypeOK ==
  /\ kind \in Kinds
  /\ table \in Tables(Opens \cup {Foreign})
  /\ asked \in [Opens -> SUBSET {"IN", "OUT", "ET"}]
  /\ closed_ \in BOOLEAN /\ connected_ \in BOOLEAN /\ timer \in BOOLEAN
  /\ buffer_list_ \in Seq(Messages)
  /\ held \in 0 .. BufferSize
  /\ arrived \in [Opens -> Seq(Lengths)] /\ sndbuf \in [Opens -> 0 .. SndCap]
  /\ refused \subseteq Opens
  /\ batch \in Seq([fd : Fds, handler : {"OnRead", "OnWrite", "OnError"}])
  /\ functions_ \in Seq([op : {"Open", "Stop", "ForceClose", "Neighbour"}]
                          \cup [op : {"Send", "SendList"}, size : Sizes])
  /\ pc \in {"EpollWait", "Dispatch", "OnRead", "OnWrite", "RunFuctions"}
  /\ opens \in 0 .. MaxOpens /\ sends \in 0 .. MaxSends /\ received \in 0 .. MaxIn
  /\ wire \in Seq(1 .. MaxSends)
  /\ {again, missed, left, cut} \subseteq BOOLEAN
  /\ unclean \subseteq {"close", "start"}

Init ==
  /\ kind \in Kinds
  /\ table = EmptyTable /\ asked = [k \in Opens |-> {}]
  /\ closed_ = FALSE /\ connected_ = FALSE /\ timer = TRUE
  /\ buffer_list_ = << >> /\ held = 0
  /\ arrived = [k \in Opens |-> << >>] /\ sndbuf = [k \in Opens |-> 0] /\ refused = {}
  /\ batch = << >> /\ functions_ = << >> /\ pc = "EpollWait"
  /\ opens = 0 /\ sends = 0 /\ received = 0
  /\ wire = << >> /\ cut = FALSE
  /\ again = FALSE /\ unclean = {} /\ missed = FALSE /\ left = FALSE

IsUp    == IsOpen(table, Socket)
Current == FileOf(table, Socket)
Sockets == {table.file[n] : n \in Fds} \cap Opens
-----------------------------------------------------------------------------
(* The kernel.                                                             *)

Room(k) == SndCap - sndbuf[k]

\* What epoll reports of socket k.
Mask(k) ==
  {e \in asked[k] \cup {"ERR"} :
     \/ e = "IN" /\ arrived[k] # << >>
     \/ e = "OUT" /\ Room(k) > 0
     \/ e = "ERR" /\ k \in refused}

KernelStep == UNCHANGED <<kind, asked, closed_, connected_, timer, sendVars, readVars,
                          loopVars, opens, sends, again, unclean>>

Arrives(k) ==
  /\ k \in Sockets /\ received < MaxIn
  /\ received' = received + 1
  /\ \E n \in Lengths : arrived' = [arrived EXCEPT ![k] = Append(@, n)]
  /\ table' = EdgeOf(table, k)
  /\ KernelStep /\ UNCHANGED <<sndbuf, refused>>

\* Nobody listens where a connected socket sends.
Refused(k) ==
  /\ kind = "client" /\ k \in Sockets /\ sndbuf[k] > 0 /\ k \notin refused
  /\ refused' = refused \cup {k}
  /\ table' = EdgeOf(table, k)
  /\ KernelStep /\ UNCHANGED <<arrived, sndbuf, received>>

\* The network takes what was sent; room in a full buffer is an edge.
Drains(k) ==
  /\ k \in Sockets /\ sndbuf[k] > 0
  /\ sndbuf' = [sndbuf EXCEPT ![k] = 0]
  /\ table' = IF Room(k) = 0 /\ "OUT" \in asked[k] THEN EdgeOf(table, k) ELSE table
  /\ KernelStep /\ UNCHANGED <<arrived, refused, received>>
-----------------------------------------------------------------------------
(* Other threads.                                                          *)

Queue(f) ==
  /\ Len(functions_) < MaxQueue
  /\ functions_' = Append(functions_, f)
  /\ UNCHANGED <<objectVars, kernelVars, sendVars, readVars, batch, pc, received,
                 again, unclean>>

\* UdpServer::Start, UdpClient::Connect.
CallOpen == opens < MaxOpens /\ opens' = opens + 1 /\ Queue([op |-> "Open"]) /\ UNCHANGED sends

\* Send(buf, size), or Send(list) of one datagram, which UdpClient hides
\* behind a function that does nothing.
CallSend ==
  /\ sends < MaxSends /\ sends' = sends + 1
  /\ \E n \in Sizes :
       \/ Queue([op |-> "Send", size |-> n])
       \/ kind = "server" /\ Queue([op |-> "SendList", size |-> n])
  /\ UNCHANGED opens

CallStop       == kind = "server" /\ Queue([op |-> "Stop"]) /\ UNCHANGED <<opens, sends>>
CallForceClose == Queue([op |-> "ForceClose"]) /\ UNCHANGED <<opens, sends>>
NeighbourOpens ==
  ~ IsOpen(table, Neighbour) /\ Queue([op |-> "Neighbour"]) /\ UNCHANGED <<opens, sends>>
-----------------------------------------------------------------------------
(* Opening and closing.                                                    *)

\* UdpServer::Open in the middle of OnClose, and the rest of OnClose, which
\* closes the new socket k, not the one it was called for.
Restarted(t, k) ==
  IF Free(t) = {} THEN [t EXCEPT !.fd_[Socket] = NoFd]
  ELSE Close(AddEvent(OpenAs(t, Socket, k), Socket, FALSE), Socket)

\* UdpSocket::OnClose, of a server; events_ is not told.  close_callback_,
\* between closed_ = true and Event::Close, may do nothing, Stop or Start.
ServerOnClose(t) ==
  /\ closed_' = TRUE /\ UNCHANGED connected_
  /\ \/ closed_ /\ table' = t /\ UNCHANGED unclean
     \/ /\ ~ closed_ /\ table' = Close(t, Socket)
        /\ unclean' = IF IsOpen(t, Socket) /\ t.events_[t.fd_[Socket]] = Socket
                      THEN unclean \cup {"close"} ELSE unclean
     \/ ~ closed_ /\ table' = Close(DelEvent(t, Socket), Socket) /\ UNCHANGED unclean
     \/ /\ ~ closed_ /\ \E k \in Opens : table' = Restarted(t, k)
        /\ unclean' = unclean \cup {"start"}

\* Mutant of ClientOnClose: the loop is not told either.
ClientOnCloseOnly(t) ==
  /\ connected_' = FALSE
  /\ table' = IF connected_ THEN Close(t, Socket) ELSE t
  /\ UNCHANGED <<closed_, unclean>>

\* Mutant of ClientOnClose: the socket is not closed.
ClientOnCloseDeletes(t) ==
  /\ connected_' = FALSE
  /\ table' = IF connected_ THEN DelEvent(t, Socket) ELSE t
  /\ UNCHANGED <<closed_, unclean>>

\* UdpClient::OnClose; close_callback_ is not called.
ClientOnClose(t) ==
  /\ connected_' = FALSE
  /\ table' = IF connected_ THEN Close(DelEvent(t, Socket), Socket) ELSE t
  /\ UNCHANGED <<closed_, unclean>>

\* OnClose, with what the kernel keeps of the sockets that stay open.
OnClose(t) ==
  LET kept == {table'.file[n] : n \in Fds} IN
  /\ IF kind = "server" THEN ServerOnClose(t) ELSE ClientOnClose(t)
  /\ arrived' = [k \in Opens |-> IF k \in kept THEN arrived[k] ELSE << >>]
  /\ sndbuf' = [k \in Opens |-> IF k \in kept THEN sndbuf[k] ELSE 0]
  /\ refused' = refused \cap kept

\* What a callback in the loop's thread does to close: ForceClose, or Stop.
CloseCalled ==
  \/ OnClose(table)
  \/ kind = "server" /\ OnClose(DelEvent(table, Socket))

\* UdpServer::Open or UdpClient::ConnectInLoop: fd_ is overwritten, the new
\* socket is added to the loop unless its number is known there.  What
\* connected_cb_, the last call, does is a function queued next.
Open(k) ==
  /\ again' = (again \/ IsUp \/ closed_)
  /\ missed' = (missed \/ buffer_list_ # << >>)
  /\ \/ /\ Free(table) = {}
        /\ OnClose([table EXCEPT !.fd_[Socket] = NoFd])
        /\ UNCHANGED asked
     \/ /\ Free(table) # {}
        /\ table' = AddEvent(OpenAs(table, Socket, k), Socket, FALSE)
        /\ asked' = [asked EXCEPT ![k] = kEventRead]
        /\ connected_' = (kind = "client")
        /\ UNCHANGED <<closed_, unclean, kernelVars>>

\* UdpServer::Stop.
Stop == OnClose(DelEvent(table, Socket)) /\ UNCHANGED <<asked, again>>
-----------------------------------------------------------------------------
(* Sending.                                                                *)

\* Mutant of EnableWrite: it is called once and for all.
EnableWriteOnce ==
  IF ~ IsUp THEN UNCHANGED <<asked, table>>
  ELSE /\ asked' = [asked EXCEPT ![Current] = @ \cup kEventWrite]
       /\ table' = IF "OUT" \in asked[Current] THEN table
                   ELSE IF Room(Current) > 0 THEN Edge(table, table.fd_[Socket]) ELSE table

\* Event::EnableWrite(true), after refused' is known: epoll looks at the
\* socket again, and at a pending error.
EnableWrite ==
  IF ~ IsUp \/ table.events_[table.fd_[Socket]] = NoObject THEN UNCHANGED <<asked, table>>
  ELSE /\ asked' = [asked EXCEPT ![Current] = @ \cup kEventWrite]
       /\ table' = IF arrived[Current] # << >> \/ Room(Current) > 0 \/ Current \in refused'
                   THEN Edge(table, table.fd_[Socket]) ELSE table

\* sendto() of d fails for good, or does not have to wait.  A pending
\* error is returned once.
Fails(d)   == IsUp => Current \in refused \/ d[2] > MaxSize
CanSend(d) == ~ Fails(d) /\ Room(Current) > 0

SendTo(d) ==
  /\ sndbuf' = [sndbuf EXCEPT ![Current] = @ + 1]
  /\ wire' = IF d[2] > 0 THEN Append(wire, d[1]) ELSE wire

SendFails ==
  /\ refused' = IF IsUp THEN refused \ {Current} ELSE refused
  /\ UNCHANGED <<sndbuf, wire>>

Pending(ops) == Cardinality({i \in DOMAIN functions_ : functions_[i].op \in ops})

\* How many messages SendInLoop was given; they are numbered in that order.
Taken == sends - Pending({"Send", "SendList"})

\* Mutant of SendInLoop: a datagram is sent at once though others wait.
SendInLoopAtOnce(d) ==
  /\ \/ CanSend(d) /\ d[2] > 0 /\ SendTo(d) /\ UNCHANGED <<refused, buffer_list_>>
     \/ /\ ~ CanSend(d) \/ d[2] = 0
        /\ SendFails /\ buffer_list_' = Append(buffer_list_, d)
  /\ missed' = FALSE /\ EnableWrite

\* UdpSocket::SendInLoop(buf, size, addr, sock_len): at once if nothing waits
\* and it is not empty, or else through buffer_list_.  sendto() of an empty
\* datagram returns 0: it is sent and it waits.
SendInLoop(d) ==
  LET direct == buffer_list_ = << >> IN
  /\ \/ /\ direct /\ CanSend(d) /\ d[2] > 0
        /\ SendTo(d) /\ missed' = FALSE
        /\ UNCHANGED <<refused, buffer_list_, asked, table>>
     \/ /\ ~ direct \/ ~ CanSend(d) \/ d[2] = 0
        /\ IF direct /\ CanSend(d) THEN SendTo(d) /\ UNCHANGED refused
           ELSE IF direct THEN SendFails ELSE UNCHANGED <<sndbuf, wire, refused>>
        /\ buffer_list_' = Append(buffer_list_, d)
        /\ EnableWrite /\ missed' = FALSE

\* UdpSocket::SendInLoop(list): never at once.
SendListInLoop(d) ==
  /\ buffer_list_' = Append(buffer_list_, d)
  /\ UNCHANGED <<sndbuf, wire, refused>>
  /\ EnableWrite /\ missed' = FALSE

\* OnWrite: the bytes given to sendto() are those at buf->sock_addr.  A
\* datagram is removed if sendto() returns more than 0.
OnWrite ==
  /\ pc = "OnWrite" /\ ~ closed_ /\ buffer_list_ # << >> /\ CanSend(Head(buffer_list_))
  /\ SendTo(Head(buffer_list_))
  /\ \/ Head(buffer_list_)[2] > 0 /\ buffer_list_' = Tail(buffer_list_)
     \/ Head(buffer_list_)[2] = 0 /\ UNCHANGED buffer_list_
  /\ UNCHANGED <<objectVars, arrived, refused, missed, readVars, loopVars,
                 bounds, again, unclean>>

\* OnWrite returns: closed, no room, a hard error, or nothing left to write:
\* write_complete_callback_ may send another message, or close.
OnWriteEnds ==
  /\ pc = "OnWrite" /\ pc' = "Dispatch"
  /\ \/ /\ \/ closed_ \/ buffer_list_ = << >>
           \/ buffer_list_ # << >> /\ ~ Fails(Head(buffer_list_)) /\ Room(Current) = 0
        /\ UNCHANGED <<asked, table, closed_, connected_, kernelVars, sendVars, sends, unclean>>
     \/ /\ ~ closed_ /\ buffer_list_ = << >>
        /\ sends < MaxSends /\ sends' = sends + 1
        /\ \E s \in Sizes : SendInLoop(<<Taken + 1, s>>)
        /\ UNCHANGED <<closed_, connected_, arrived, unclean>>
     \/ /\ ~ closed_
        /\ \/ buffer_list_ = << >> /\ CloseCalled
           \/ buffer_list_ # << >> /\ Fails(Head(buffer_list_)) /\ OnClose(table)
        /\ UNCHANGED <<asked, sendVars, sends>>
  /\ UNCHANGED <<kind, timer, readVars, batch, functions_, opens, received, again>>
-----------------------------------------------------------------------------
(* Receiving.                                                              *)

Smaller(a, b) == IF a < b THEN a ELSE b

Writable == BufferSize - held

\* Mutant of Received: the bytes are taken, but the buffer starts again only
\* when it is full.
ReceivedOnly(n) == held' = held + Smaller(n, Writable) /\ UNCHANGED left

\* message_callback_ takes everything there is, and the buffer starts from
\* its beginning, or leaves some.
Received(n) ==
  \/ held' = 0 /\ UNCHANGED left
  \/ held' = held + Smaller(n, Writable) /\ left' = TRUE

\* recvfrom() of a datagram; message_callback_ may also answer, or close.
Recvfrom ==
  LET n == Head(arrived[Current]) IN
  /\ pc = "OnRead" /\ ~ closed_ /\ Writable > 0
  /\ IsUp /\ Current \notin refused /\ arrived[Current] # << >>
  /\ cut' = (cut \/ n \in Writable + 1 .. BufferSize)
  /\ Received(n)
  /\ \/ /\ arrived' = [arrived EXCEPT ![Current] = Tail(@)]
        /\ UNCHANGED <<asked, table, closed_, connected_, sndbuf, refused, sendVars, sends, unclean>>
     \/ /\ arrived' = [arrived EXCEPT ![Current] = Tail(@)]
        /\ sends < MaxSends /\ sends' = sends + 1
        /\ \E s \in Sizes : SendInLoop(<<Taken + 1, s>>)
        /\ UNCHANGED <<closed_, connected_, unclean>>
     \/ /\ CloseCalled
        /\ UNCHANGED <<asked, sendVars, sends>>
  /\ UNCHANGED <<kind, timer, loopVars, opens, received, again>>

\* OnRead returns: closed, no room in the buffer, nothing to read, or an error.
OnReadEnds ==
  /\ pc = "OnRead" /\ pc' = "Dispatch"
  /\ \/ /\ \/ closed_ \/ Writable = 0
           \/ IsUp /\ Current \notin refused /\ arrived[Current] = << >>
        /\ UNCHANGED <<table, closed_, connected_, kernelVars, unclean>>
     \/ /\ ~ closed_ /\ Writable > 0 /\ (IsUp => Current \in refused)
        /\ OnClose(table)
  /\ UNCHANGED <<kind, asked, timer, sendVars, readVars, batch, functions_,
                 bounds, again>>
-----------------------------------------------------------------------------
(* The loop.                                                               *)

\* Which handler Loop() calls: one only.
Handler(mask) ==
  CASE "ERR" \in mask -> "OnError"
    [] "ERR" \notin mask /\ "IN" \in mask -> "OnRead"
    [] OTHER -> "OnWrite"

\* epoll_wait: every edge is reported once.
EpollReturns ==
  LET true == {n \in table.ready : table.file[n] \in Opens /\ Mask(table.file[n]) # {}}
      mask(n) == Mask(table.file[n])
  IN
  /\ pc = "EpollWait"
  /\ batch' \in SetToSeqs({[fd |-> n, handler |-> Handler(mask(n))] : n \in true})
  /\ table' = [table EXCEPT !.ready = {}]
  /\ missed' = (missed \/ \E n \in true : {"IN", "OUT"} \subseteq mask(n))
  /\ pc' = "Dispatch"
  /\ UNCHANGED <<kind, asked, closed_, connected_, timer, kernelVars, buffer_list_, wire,
                 readVars, functions_, bounds, again, unclean>>

\* ExtendLife, at the start of OnRead and OnWrite, is module TimingWheel's.
Dispatch ==
  LET e == Head(batch) IN
  /\ pc = "Dispatch" /\ batch # << >>
  /\ batch' = Tail(batch)
  /\ \/ /\ table.events_[e.fd] # Socket
        /\ UNCHANGED <<pc, table, closed_, connected_, kernelVars, unclean>>
     \/ /\ table.events_[e.fd] = Socket /\ e.handler # "OnError"
        /\ pc' = e.handler
        /\ UNCHANGED <<table, closed_, connected_, kernelVars, unclean>>
     \/ /\ table.events_[e.fd] = Socket /\ e.handler = "OnError"
        /\ OnClose(table)
        /\ UNCHANGED pc
  /\ UNCHANGED <<kind, asked, timer, sendVars, readVars, functions_, bounds,
                 again>>

DispatchEnds ==
  /\ pc = "Dispatch" /\ batch = << >>
  /\ pc' = "RunFuctions"
  /\ UNCHANGED <<objectVars, kernelVars, sendVars, readVars, batch, functions_, bounds,
                 again, unclean>>

RunFuctions ==
  LET f == Head(functions_) IN
  /\ pc = "RunFuctions" /\ functions_ # << >>
  /\ functions_' = Tail(functions_)
  /\ \/ /\ f.op = "Open" /\ Open(opens - Pending({"Open"}) + 1)
        /\ UNCHANGED <<buffer_list_, wire>>
     \/ /\ f.op = "Stop" /\ Stop
        /\ UNCHANGED sendVars
     \/ /\ f.op = "ForceClose" /\ OnClose(table)
        /\ UNCHANGED <<asked, sendVars, again>>
     \/ /\ \/ f.op = "Send" /\ SendInLoop(<<Taken + 1, f.size>>)
           \/ f.op = "SendList" /\ SendListInLoop(<<Taken + 1, f.size>>)
        /\ UNCHANGED <<closed_, connected_, arrived, again, unclean>>
     \/ /\ f.op = "Neighbour"
        /\ table' = IF IsOpen(table, Neighbour) \/ Free(table) = {} THEN table
                    ELSE AddEvent(OpenAs(table, Neighbour, Foreign), Neighbour, FALSE)
        /\ UNCHANGED <<asked, closed_, connected_, kernelVars, sendVars, again, unclean>>
  /\ UNCHANGED <<kind, timer, readVars, batch, pc, bounds>>

RunFuctionsEnds ==
  /\ pc = "RunFuctions" /\ functions_ = << >>
  /\ pc' = "EpollWait"
  /\ UNCHANGED <<objectVars, kernelVars, sendVars, readVars, batch, functions_, bounds,
                 again, unclean>>

\* As RunFuctionsEnds, and the timing wheel drops the UdpTimeoutEntry of EnableCheckIdleTimeout.
OnTimeout ==
  /\ pc = "RunFuctions" /\ functions_ = << >> /\ timer
  /\ pc' = "EpollWait" /\ timer' = FALSE
  /\ OnClose(table)
  /\ UNCHANGED <<kind, asked, sendVars, readVars, batch, functions_, bounds, again>>

-----------------------------------------------------------------------------
Next ==
  \/ \E k \in Opens : Arrives(k) \/ Refused(k) \/ Drains(k)
  \/ CallOpen \/ CallSend \/ CallStop \/ CallForceClose \/ NeighbourOpens
  \/ EpollReturns \/ Dispatch \/ DispatchEnds
  \/ Recvfrom \/ OnReadEnds \/ OnWrite \/ OnWriteEnds
  \/ RunFuctions \/ RunFuctionsEnds \/ OnTimeout

Spec == Init /\ [][Next]_vars
-----------------------------------------------------------------------------
(* Properties.                                                             *)

(***************************************************************************)
(* Messages leave in the order of SendInLoop, each at most once            *)
(* (SendInLoop, OnWrite), over failures, closing and opening again: what   *)
(* could go out at once does not pass what waits.                          *)
(***************************************************************************)
EachOnceInOrder == \A i, j \in DOMAIN wire : i < j => wire[i] < wire[j]

(***************************************************************************)
(* What waits is written (OnWrite, EnableWrite): when the loop is about to *)
(* sleep with room in the kernel, a list that is not empty is on the ready *)
(* list.  The exceptions: Loop() called OnRead for an edge that was for    *)
(* OnWrite too, or the socket was opened after the Send, and there was no  *)
(* Send since.                                                             *)
(***************************************************************************)
WaitingIsWritten ==
  pc = "EpollWait" /\ buffer_list_ # << >> /\ IsUp /\ ~ closed_ =>
    Room(Current) = 0 \/ table.fd_[Socket] \in table.ready \/ missed

(***************************************************************************)
(* What arrives is read (OnRead): when the loop is about to sleep on an    *)
(* open socket, datagrams are on the ready list.  The exceptions: a server *)
(* that was closed before, because closed_ stays TRUE when it is started   *)
(* again; a callback that leaves bytes until the buffer is full, after     *)
(* which nothing is ever read; and a socket opened twice.                  *)
(***************************************************************************)
ArrivingIsRead ==
  pc = "EpollWait" /\ IsUp /\ arrived[Current] # << >> =>
    table.fd_[Socket] \in table.ready \/ (left /\ Writable = 0) \/ again

(***************************************************************************)
(* Datagrams are received whole (OnRead) unless they are longer than the   *)
(* 1024 bytes of msg_buffer_, which message_buffer_size_ (65535) does not  *)
(* change, or the callback has left bytes in it.                           *)
(***************************************************************************)
DatagramsAreWhole == cut => left

(***************************************************************************)
(* What arrives is received, and whole: see the two parts                  *)
(* (UdpSocket.cpp:69-121).                                                 *)
(***************************************************************************)
InputIsReceived == ArrivingIsRead /\ DatagramsAreWhole

(***************************************************************************)
(* Others are heard (OnClose, AddEvent): an object that opens a descriptor *)
(* after this socket was closed has its own entry in events_ and epoll,    *)
(* whatever closed the socket.  The exceptions: OnClose of a server does   *)
(* not remove it from the loop, and only Stop does so before; and a Start  *)
(* called from close_callback_, even of a Stop, leaves the number of the   *)
(* socket that Event::Close then closes in its place.                      *)
(***************************************************************************)
OthersHear ==
  IsOpen(table, Neighbour) => unclean # {} \/ Hears(table, Neighbour, Foreign)

(***************************************************************************)
(* No descriptor leaks (Open, ConnectInLoop, OnClose): an open socket is   *)
(* the current one, and one that is closed is not current, unless the      *)
(* socket was opened again while it was open or after a server's close.  A *)
(* Start in close_callback_ leaks the socket that was to be closed.        *)
(***************************************************************************)
NoDescriptorLeaks ==
  again \/ (/\ \/ "start" \in unclean
               \/ IF IsUp THEN Sockets = {Current} ELSE Sockets = {}
            /\ IsUp => ~ closed_ /\ (kind = "client" => connected_))
=============================================================================
