----------------------------- MODULE TcpClient -----------------------------
(***************************************************************************)
(* A TcpClient (TcpClinet.cpp) and the loop that serves it: connecting     *)
(* without blocking, what its status_ says of the socket, and connecting   *)
(* again, from another thread or from close_cb_.  Every Connect is an      *)
(* attempt with a socket of its own; nothing stops the program from        *)
(* calling Connect while one is under way, or after a close.               *)
(*                                                                         *)
(* The record client is the client with its descriptors and sockets; a     *)
(* handler is an operator from client to the values it may have next.      *)
(* Sending is one write that succeeds; module TcpConnection has the rest.  *)
(***************************************************************************)
EXTENDS Descriptors, Sequences, SequencesExt

CONSTANTS
  Client,
  Other,         \* a file that is none of the client's
  MaxConnects,   \* bound: calls of Connect
  MaxSends,      \* bound: calls of Send
  MaxCloses,     \* bound: calls of ForceClose
  MaxQueue       \* bound: functions queued at a time

Attempts == 1 .. MaxConnects

ASSUME ClientAssumption ==
  /\ Objects = {Client}
  /\ {Other, NoFile} \cap Attempts = {} /\ Other # NoFile
  /\ {MaxConnects, MaxSends, MaxCloses, MaxQueue} \subseteq Nat

VARIABLES
  client,       \* see Clients
  batch,        \* what epoll_wait reported and Loop() has still to dispatch
  functions_,   \* what other threads have asked the loop to do
  pc,           \* where the loop is
  sends, closes

vars == <<client, batch, functions_, pc, sends, closes>>

kEventRead  == {"IN", "ET"}
kEventWrite == {"OUT", "ET"}
Events      == SUBSET {"IN", "OUT", "ET"}

Clients ==
  [table : Tables(Attempts \cup {Other}),
   status_ : {"Init", "Connecting", "Connected", "Disconnected"},
   closed_ : BOOLEAN,
   event_ : Events,
   asked : [Fds -> Events],          \* what epoll was last asked for
   sock : [Attempts -> {"none", "connecting", "refused", "up", "fin", "reset"}],
   input : SUBSET Attempts,          \* sockets with bytes nobody has read
   tried : 0 .. MaxConnects,
   \* history:
   over : SUBSET Attempts,           \* not over when the next attempt began
   late : SUBSET Attempts,           \* began after a close
   swallowed : SUBSET Attempts,      \* the first input came with the connect
   misrouted : SUBSET Attempts,      \* a message for it went to another one
   reentered : BOOLEAN]              \* close_cb_ has called Connect

TypeOK ==
  /\ client \in Clients /\ NumbersAreOpen(client.table)
  /\ batch \in Seq([fd : Fds, handler : {"OnRead", "OnWrite", "OnError"}])
  /\ functions_ \in Seq([op : {"Connect", "ForceClose"}]
                          \cup [op : {"Send"}, to : Attempts])
  /\ pc \in {"EpollWait", "Dispatch", "RunFuctions"}
  /\ sends \in 0 .. MaxSends /\ closes \in 0 .. MaxCloses

\* The process has descriptors left, or none.
Init ==
  /\ \E f \in {NoFile, Other} :
       client = [table |-> [EmptyTable EXCEPT !.file = [n \in Fds |-> f]],
                 status_ |-> "Init", closed_ |-> FALSE, event_ |-> {},
                 asked |-> [n \in Fds |-> {}], sock |-> [k \in Attempts |-> "none"],
                 input |-> {}, tried |-> 0, over |-> {}, late |-> {},
                 swallowed |-> {}, misrouted |-> {}, reentered |-> FALSE]
  /\ batch = << >> /\ functions_ = << >> /\ pc = "EpollWait"
  /\ sends = 0 /\ closes = 0

HasSocket(c) == IsOpen(c.table, Client)
Socket(c)    == FileOf(c.table, Client)
Fd(c)        == c.table.fd_[Client]
-----------------------------------------------------------------------------
(* The sockets.                                                            *)

Failed(c, k) == c.sock[k] \in {"refused", "reset"}

\* What epoll reports of number n, which is a socket.
Mask(c, n) ==
  LET k == c.table.file[n] IN
  {e \in c.asked[n] \cup {"ERR"} :
     \/ e = "IN" /\ (k \in c.input \/ c.sock[k] = "fin" \/ Failed(c, k))
     \/ e = "OUT" /\ c.sock[k] # "connecting"
     \/ e = "ERR" /\ Failed(c, k)}

\* Number n is looked at, and put on the ready list if there is something.
Poke(c, n) == IF Mask(c, n) = {} THEN c ELSE [c EXCEPT !.table = Edge(@, n)]

OpenSockets == {client.table.file[n] : n \in Fds} \cap Attempts

\* The socket k changes, which is an edge.
Changes(k, c) ==
  /\ client' = Poke(c, CHOOSE n \in Fds : c.table.file[n] = k)
  /\ UNCHANGED <<batch, functions_, pc, sends, closes>>

\* The peer answers, or refuses (silence is a refusal in the end).
PeerAnswers(k) ==
  /\ k \in OpenSockets /\ client.sock[k] = "connecting"
  /\ \E how \in {"up", "refused"} : Changes(k, [client EXCEPT !.sock[k] = how])

PeerSends(k) ==
  /\ k \in OpenSockets /\ client.sock[k] = "up" /\ k \notin client.input
  /\ Changes(k, [client EXCEPT !.input = @ \cup {k}])

PeerEnds(k) ==
  /\ k \in OpenSockets /\ client.sock[k] = "up"
  /\ \E how \in {"fin", "reset"} : Changes(k, [client EXCEPT !.sock[k] = how])

OtherCloses ==
  /\ \E n \in Fds : client.table.file[n] = Other
  /\ client' = [client EXCEPT !.table.file = [n \in Fds |-> NoFile]]
  /\ UNCHANGED <<batch, functions_, pc, sends, closes>>
-----------------------------------------------------------------------------
(* Other threads.                                                          *)

Queue(f) ==
  /\ Len(functions_) < MaxQueue
  /\ functions_' = Append(functions_, f)
  /\ UNCHANGED <<client, batch, pc>>

CallConnect ==
  /\ client.tried < MaxConnects
  /\ Queue([op |-> "Connect"]) /\ UNCHANGED <<sends, closes>>

\* Send looks at status_ in the calling thread.
CallSend ==
  /\ client.status_ = "Connected" /\ HasSocket(client)
  /\ sends < MaxSends /\ sends' = sends + 1
  /\ Queue([op |-> "Send", to |-> Socket(client)]) /\ UNCHANGED closes

CallForceClose ==
  /\ closes < MaxCloses /\ closes' = closes + 1
  /\ Queue([op |-> "ForceClose"]) /\ UNCHANGED sends
-----------------------------------------------------------------------------
(* Connecting and closing.                                                 *)

\* EventLoop::EnableWrite, which does nothing if the number is not known.
EnableWrite(c, enable) ==
  LET e == IF enable THEN c.event_ \cup kEventWrite ELSE c.event_ \ kEventWrite
  IN IF ~ HasSocket(c) \/ c.table.events_[Fd(c)] = NoObject THEN c
     ELSE Poke([c EXCEPT !.event_ = e, !.asked[Fd(c)] = e], Fd(c))

\* AddEvent of fd_; a number that is known leaves everything as it is.
Register(c) ==
  IF c.table.events_[Fd(c)] # NoObject THEN c
  ELSE [c EXCEPT !.table = AddEvent(@, Client, FALSE), !.event_ = kEventRead,
                 !.asked[Fd(c)] = kEventRead]

\* What OnClose does first.
LeaveLoop(c) ==
  IF c.status_ \in {"Connecting", "Connected"}
  THEN [c EXCEPT !.table = DelEvent(@, Client)] ELSE c

\* OnClose when closed_ is set: TcpConnection::OnClose returns at once, and
\* the descriptor stays open.
OnCloseAgain(c) == [LeaveLoop(c) EXCEPT !.status_ = "Disconnected"]

\* Mutant of Started: it makes the closed connection usable again.
StartedOpen(c) == [c EXCEPT !.status_ = "Connecting", !.closed_ = FALSE]

Started(c) == [c EXCEPT !.status_ = "Connecting"]

\* ConnectInLoop up to connect(): the old fd_ is forgotten, open or not.
NewAttempt(c) ==
  LET k == c.tried + 1 IN
  [c EXCEPT !.tried = k,
            !.table = IF Free(@) = {} THEN [@ EXCEPT !.fd_[Client] = NoFd]
                                      ELSE OpenAs(@, Client, k),
            !.over  = @ \cup (IF HasSocket(c) THEN {Socket(c)} ELSE {}),
            !.late  = @ \cup (IF c.closed_ THEN {k} ELSE {})]

\* The new socket is in the loop, and connect() has been called.
Connecting(c, how) ==
  LET new == NewAttempt(c) IN
  EnableWrite(Register([Started(new) EXCEPT !.sock[new.tried] = how]), TRUE)

\* Mutant of ConnectGoesOn: EINPROGRESS is taken for success.
ConnectGoesOnAtOnce(c) ==
  IF Free(c.table) = {} THEN {}
  ELSE {[Connecting(c, how) EXCEPT !.status_ = "Connected"] : how \in {"connecting", "up"}}

\* ConnectInLoop when connect() is under way or has succeeded ...
ConnectGoesOn(c) ==
  IF Free(c.table) = {} THEN {}
  ELSE {Connecting(c, "connecting"), [Connecting(c, "up") EXCEPT !.status_ = "Connected"]}

\* ... and when no descriptor is left, or connect() fails at once.
ConnectFails(c) ==
  IF Free(c.table) = {} THEN NewAttempt(c) ELSE Connecting(c, "none")

\* Mutant of CloseSocket: the socket is left open when it has failed.
CloseSocketGood(c) ==
  IF ~ HasSocket(c) \/ Failed(c, Socket(c)) THEN c
  ELSE [c EXCEPT !.table = Close(@, Client), !.sock[Socket(c)] = "none",
                 !.input = @ \ {Socket(c)}]

\* Event::Close.
CloseSocket(c) ==
  IF ~ HasSocket(c) THEN c
  ELSE [c EXCEPT !.table = Close(@, Client), !.sock[Socket(c)] = "none",
                 !.input = @ \ {Socket(c)}]

\* What close_cb_ may do: nothing, or Connect again, which runs at once.
CloseCallback(c) ==
  {c} \cup IF c.tried = MaxConnects THEN {}
           ELSE {[d EXCEPT !.reentered = TRUE] :
                   d \in ConnectGoesOn(c) \cup {OnCloseAgain(ConnectFails(c))}}

\* TcpClient::OnClose; Event::Close comes after close_cb_ and closes what
\* fd_ is then.
OnClose(c) ==
  IF c.closed_ THEN {OnCloseAgain(c)}
  ELSE {CloseSocket(d) : d \in CloseCallback([OnCloseAgain(c) EXCEPT !.closed_ = TRUE])}

ConnectInLoop(c) == ConnectGoesOn(c) \cup OnClose(ConnectFails(c))

\* What connected_cb_ and message_cb_ may do: nothing, ForceClose, or Connect,
\* which run at once.
Callback(c) ==
  {c} \cup OnClose(c) \cup (IF c.tried = MaxConnects THEN {} ELSE ConnectInLoop(c))

\* ConnectInLoop as the loop calls it, with connected_cb_ when connect()
\* succeeds at once.
ConnectFunction(c) ==
  OnClose(ConnectFails(c)) \cup
  UNION {IF d.status_ = "Connected" THEN Callback(d) ELSE {d} : d \in ConnectGoesOn(c)}
-----------------------------------------------------------------------------
(* The handlers of Loop().                                                 *)

\* CheckError: SO_ERROR is set, though epoll may not have said so yet.
CheckError(c) == HasSocket(c) /\ Failed(c, Socket(c))

\* The end of a connect: UpdateConnectionStatus, or OnClose.  Nothing is
\* read, though the edge may have been for input as well.
Establish(c) ==
  IF CheckError(c) THEN OnClose(c)
  ELSE Callback([c EXCEPT !.status_ = "Connected",
                          !.swallowed = @ \cup (IF HasSocket(c) /\ "IN" \in Mask(c, Fd(c))
                                                THEN {Socket(c)} ELSE {})])

\* OnRead after the last message_cb_: the end if the peer has closed, or if
\* the callback has left no descriptor.
ReadEnds(c) ==
  IF HasSocket(c) => c.sock[Socket(c)] \in {"fin", "reset"} THEN OnClose(c) ELSE {c}

\* TcpConnection::OnRead: all there is, of the socket that fd_ is then.
ReadAll(c) ==
  LET d == [c EXCEPT !.input = @ \ {Socket(c)}] IN
  UNION {ReadEnds(e) : e \in IF Socket(c) \in c.input THEN Callback(d) ELSE {d}}

OnRead(c) ==
  CASE c.status_ = "Connecting" -> Establish(c)
    [] c.status_ = "Connected" /\ ~ c.closed_ -> ReadAll(c)
    [] OTHER -> {c}

\* Nothing is ever left to write here.
OnWrite(c) ==
  CASE c.status_ = "Connecting" -> Establish(c)
    [] c.status_ = "Connected" /\ ~ c.closed_ -> {EnableWrite(c, FALSE)}
    [] OTHER -> {c}

Handle(handler, c) ==
  CASE handler = "OnError" -> OnClose(c)
    [] handler = "OnRead"  -> OnRead(c)
    [] handler = "OnWrite" -> OnWrite(c)
-----------------------------------------------------------------------------
(* The loop.                                                               *)

Handler(mask) ==
  CASE "ERR" \in mask -> "OnError"
    [] "ERR" \notin mask /\ "IN" \in mask -> "OnRead"
    [] OTHER -> "OnWrite"

\* epoll_wait; an edge is reported once.
EpollReturns ==
  LET true == {n \in client.table.ready : Mask(client, n) # {}} IN
  /\ pc = "EpollWait"
  /\ batch' \in SetToSeqs({[fd |-> n, handler |-> Handler(Mask(client, n))] : n \in true})
  /\ client' = [client EXCEPT !.table.ready = {n \in true : "ET" \notin client.asked[n]}]
  /\ pc' = IF true = {} THEN "RunFuctions" ELSE "Dispatch"
  /\ UNCHANGED <<functions_, sends, closes>>

Dispatch ==
  LET e == Head(batch) IN
  /\ pc = "Dispatch"
  /\ batch' = Tail(batch)
  /\ pc' = IF Len(batch) = 1 THEN "RunFuctions" ELSE "Dispatch"
  /\ \/ /\ client.table.events_[e.fd] = Client
        /\ client' \in Handle(e.handler, client)
     \/ /\ client.table.events_[e.fd] = NoObject
        /\ UNCHANGED client
  /\ UNCHANGED <<functions_, sends, closes>>

\* SendInLoop for a message of attempt k.
SendInLoop(k, c) ==
  IF ~ c.closed_ /\ HasSocket(c) /\ Socket(c) # k
  THEN [c EXCEPT !.misrouted = @ \cup {k}] ELSE c

RunFuctions ==
  LET f == Head(functions_) IN
  /\ pc = "RunFuctions" /\ functions_ # << >>
  /\ functions_' = Tail(functions_)
  /\ \/ f.op = "Connect" /\ client.tried < MaxConnects /\ client' \in ConnectFunction(client)
     \/ f.op = "Connect" /\ client.tried = MaxConnects /\ UNCHANGED client   \* the bound
     \/ f.op = "ForceClose" /\ client' \in OnClose(client)
     \/ f.op = "Send" /\ client' = SendInLoop(f.to, client)
  /\ UNCHANGED <<batch, pc, sends, closes>>

RunFuctionsEnds ==
  /\ pc = "RunFuctions" /\ functions_ = << >>
  /\ pc' = "EpollWait"
  /\ UNCHANGED <<client, batch, functions_, sends, closes>>
-----------------------------------------------------------------------------
LoopStep == EpollReturns \/ Dispatch \/ RunFuctions \/ RunFuctionsEnds

Next ==
  \/ \E k \in Attempts : PeerAnswers(k) \/ PeerSends(k) \/ PeerEnds(k)
  \/ OtherCloses \/ CallConnect \/ CallSend \/ CallForceClose
  \/ LoopStep

Spec == Init /\ [][Next]_vars
-----------------------------------------------------------------------------
(* Properties.                                                             *)

(***************************************************************************)
(* "Connected" is true (OnRead, OnWrite, CheckError): a client that says   *)
(* so has a socket whose connect has succeeded.  The exception is a client *)
(* that was told to connect again while an attempt was under way or        *)
(* connected: the old number is still in events_, and its event is taken   *)
(* for the new socket's.                                                   *)
(***************************************************************************)
ConnectedIsConnected ==
  client.status_ = "Connected" =>
    \/ client.over # {} \/ client.reentered
    \/ HasSocket(client) /\ client.sock[Socket(client)] \in {"up", "fin", "reset"}

(***************************************************************************)
(* Every attempt gives its descriptor back (OnClose, Event::Close), in     *)
(* whatever way it fails: an open socket is the client's current one.  The *)
(* exceptions are an attempt that was overtaken by the next one, an        *)
(* attempt made after a close, whose own close does nothing because        *)
(* closed_ stays TRUE, and the one a Connect in close_cb_ overtakes.       *)
(***************************************************************************)
AttemptsGiveDescriptorsBack ==
  \A k \in OpenSockets :
    \/ k \in client.over \cup client.late
    \/ HasSocket(client) /\ Socket(client) = k /\ client.status_ # "Disconnected"

(***************************************************************************)
(* A client that is disconnected has left the loop (OnClose): nothing of   *)
(* it is in events_ or epoll, where the next owner of the number would be  *)
(* refused.  The exceptions are the same overlaps.                         *)
(***************************************************************************)
DisconnectedLeavesLoop ==
  client.status_ = "Disconnected" /\ client.over = {} /\ ~ client.reentered =>
    client.table.epoll = {} /\ \A n \in Fds : client.table.events_[n] = NoObject

(***************************************************************************)
(* What the peer sends is read (OnRead, UpdateConnectionStatus): when the  *)
(* loop is about to sleep on a connected client, input is on the ready     *)
(* list.  The exceptions: input that was there when the connect was        *)
(* noticed, because OnRead then returns without reading and the edge is    *)
(* gone; and a client that was closed before, which never reads again.     *)
(***************************************************************************)
NoInputIsLost ==
  LET k == Socket(client) IN
  /\ pc = "EpollWait" /\ client.status_ = "Connected" /\ HasSocket(client)
  /\ k \in client.input \/ client.sock[k] \in {"fin", "reset"}
  => \/ Fd(client) \in client.table.ready
     \/ k \in client.swallowed \cup client.late

(***************************************************************************)
(* A message goes to the connection it was sent on (Send, SendInLoop):     *)
(* status_ is read in the calling thread, the message is written later by  *)
(* the loop, and between the two the client may have been closed and       *)
(* connected to a new socket.  Only an attempt that overtakes a connected  *)
(* one takes its messages.                                                 *)
(***************************************************************************)
MessagesKeepTheirConnection == client.misrouted \subseteq client.over

(***************************************************************************)
(* An attempt ends (ConnectInLoop, OnWrite, OnError): a client does not    *)
(* stay in kTcpConStatusConnecting for ever.  When the loop is about to    *)
(* sleep, the socket is still connecting, in epoll, or its outcome is on   *)
(* the ready list, unless Connect was called from close_cb_, whose caller  *)
(* then closes the new socket.                                             *)
(***************************************************************************)
OutcomesAreSeen ==
  pc = "EpollWait" /\ client.status_ = "Connecting" =>
    \/ client.reentered
    \/ /\ HasSocket(client) /\ Hears(client.table, Client, Socket(client))
       /\ "OUT" \in client.asked[Fd(client)]
       /\ client.sock[Socket(client)] = "connecting" \/ Fd(client) \in client.table.ready

(***************************************************************************)
(* status_ tells the truth whatever it says, connected, connecting or      *)
(* disconnected: see the three parts (TcpClinet.cpp:34-124).               *)
(***************************************************************************)
StatusIsTrue == ConnectedIsConnected /\ OutcomesAreSeen /\ DisconnectedLeavesLoop
=============================================================================
