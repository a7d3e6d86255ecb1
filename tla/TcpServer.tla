----------------------------- MODULE TcpServer -----------------------------
(***************************************************************************)
(* A TcpServer with its Acceptor (TcpServer.cpp, net/Acceptor.cpp), many   *)
(* connections, and the loop that serves them all: descriptors that run    *)
(* out and are used again, events that epoll reported before a descriptor  *)
(* was closed, and the restart of the acceptor.  What one connection reads *)
(* and writes is module TcpConnection's; here it only has input or not.    *)
(*                                                                         *)
(* Start and ForceClose are called in the loop's thread or queued for it   *)
(* (RunInLoop); Stop acts in whatever thread calls it, at any moment, as   *)
(* one step (that it races for events_ is left out).  The program keeps    *)
(* the pointers of connections that callbacks under way still use.  A      *)
(* closed connection's memory is used for the next one.                    *)
(***************************************************************************)
EXTENDS Descriptors, Sequences, SequencesExt

CONSTANTS
  Peers,       \* each connects once at most; numbered as they connect
  Conns,       \* memory for TcpConnections
  Acceptor,
  Listener,    \* the file of a listening socket
  Other,       \* a file that is none of the server's
  None,
  MaxCalls,    \* bound: calls from other threads
  MaxSignals,  \* bound: times a peer sends, closes or resets
  MaxQueue     \* bound: functions queued at a time

ASSUME ServerAssumption ==
  /\ Objects = Conns \cup {Acceptor} /\ Acceptor \notin Conns
  /\ Peers \subseteq Nat /\ {Listener, Other, NoFile} \cap Peers = {}
  /\ Listener # Other /\ NoFile \notin {Listener, Other}
  /\ None \notin Conns
  /\ \E m, n \in Fds : m # n    \* one for the rest of the program, one to listen
  /\ {MaxCalls, MaxSignals, MaxQueue} \subseteq Nat

VARIABLES
  table,          \* descriptors, events_ and epoll (module Descriptors)
  connections_,
  peer,           \* peer[p]: "out", "waiting" in the backlog, "open", "dropped"
                  \* with the backlog, or "closed" by the server
  sock,           \* sock[p]: "up", "fin" or "reset"
  unread,         \* the peers with bytes nobody has read
  batch,          \* what epoll_wait reported and Loop() has still to dispatch
  functions_,     \* what other threads have asked the loop to do
  pc, cur,        \* where the loop is; the connection whose OnRead is under way
  calls, signals,
  stopped,        \* Stop was called after the last Start
  reopened,       \* Start was called on an acceptor that was started (history)
  crossed         \* a callback closed a socket that is not being served, of
                  \* a connection or of the acceptor, while the batch lasts
                  \* (history)

peerVars == <<peer, sock, unread>>
history  == <<calls, signals, stopped, reopened>>
vars == <<table, connections_, peerVars, batch, functions_, pc, cur, history, crossed>>

Files == Peers \cup {Listener, Other}

Reports == [fd : Fds, file : Files, handler : {"OnRead", "OnError"}]

TypeOK ==
  /\ table \in Tables(Files) /\ NumbersAreOpen(table)
  /\ connections_ \subseteq Conns
  /\ peer \in [Peers -> {"out", "waiting", "open", "dropped", "closed"}]
  /\ sock \in [Peers -> {"up", "fin", "reset"}]
  /\ unread \subseteq Peers
  /\ batch \in Seq(Reports)
  /\ functions_ \in Seq({"Start"} \cup Conns)
  /\ pc \in {"EpollWait", "Dispatch", "Accept", "Read", "RunFuctions", "OnTimer",
            "Exited"}
  /\ cur \in Conns \cup {None}
  /\ calls \in 0 .. MaxCalls /\ signals \in 0 .. MaxSignals
  /\ stopped \in BOOLEAN /\ reopened \in BOOLEAN /\ crossed \in BOOLEAN

\* The lowest number is in use by the rest of the program.
Init ==
  /\ table = [EmptyTable EXCEPT !.file[Min(Fds)] = Other]
  /\ connections_ = {}
  /\ peer = [p \in Peers |-> "out"] /\ sock = [p \in Peers |-> "up"] /\ unread = {}
  /\ batch = << >> /\ functions_ = << >>
  /\ pc = "EpollWait" /\ cur = None
  /\ calls = 0 /\ signals = 0 /\ stopped = FALSE /\ reopened = FALSE /\ crossed = FALSE
-----------------------------------------------------------------------------
(* Peers, other threads, and the rest of the process.                      *)

Waiting == {p \in Peers : peer[p] = "waiting"}

HasInput(p) == p \in unread \/ sock[p] # "up"

Runs == pc # "Exited"

PeerConnects(p) ==
  /\ Runs
  /\ peer[p] = "out"
  /\ p = Min({q \in Peers : peer[q] = "out"}) /\ IsOpen(table, Acceptor)
  /\ peer' = [peer EXCEPT ![p] = "waiting"]
  /\ table' = EdgeOf(table, Listener)
  /\ UNCHANGED <<connections_, sock, unread, batch, functions_, pc, cur, history, crossed>>

Signal ==
  /\ Runs
  /\ signals < MaxSignals /\ signals' = signals + 1
  /\ UNCHANGED <<connections_, peer, batch, functions_, pc, cur, calls, stopped, reopened,
                 crossed>>

PeerSends(p) ==
  /\ peer[p] \in {"waiting", "open"} /\ sock[p] = "up" /\ p \notin unread
  /\ unread' = unread \cup {p}
  /\ table' = EdgeOf(table, p)
  /\ Signal /\ UNCHANGED sock

PeerEnds(p, how) ==
  /\ peer[p] \in {"waiting", "open"} /\ sock[p] = "up"
  /\ sock' = [sock EXCEPT ![p] = how]
  /\ table' = EdgeOf(table, p)
  /\ Signal /\ UNCHANGED unread

OtherCloses ==
  /\ Runs
  /\ Other \in {table.file[n] : n \in Fds}
  /\ table' = CloseNumber(table, CHOOSE n \in Fds : table.file[n] = Other)
  /\ UNCHANGED <<connections_, peerVars, batch, functions_, pc, cur, history, crossed>>

Queue(f) ==
  /\ Runs
  /\ calls < MaxCalls /\ calls' = calls + 1
  /\ Len(functions_) < MaxQueue
  /\ functions_' = Append(functions_, f)
  /\ UNCHANGED <<table, connections_, peerVars, batch, pc, cur, signals, stopped, reopened, crossed>>

CallStart      == Queue("Start")
CallForceClose == \E c \in connections_ : Queue(c)
-----------------------------------------------------------------------------
(* The acceptor.                                                           *)

\* The server is done with the peers ps.
Gone(ps, how) ==
  /\ peer' = [p \in Peers |-> IF p \in ps THEN how ELSE peer[p]]
  /\ sock' = [p \in Peers |-> IF p \in ps THEN "up" ELSE sock[p]]

\* Nobody will read what these peers have sent.
Discard(ps) == unread' = unread \ ps

\* Acceptor::Open: the old listening socket is closed, with the peers in its
\* backlog, and events_ is not told.
Open(t) == AddEvent(OpenAs(Close(t, Acceptor), Acceptor, Listener), Acceptor, FALSE)

\* Acceptor::Stop: the socket goes on listening.
Stop(t) == DelEvent(t, Acceptor)

\* TcpServer::Stop, called by any thread or callback.
CallStop ==
  /\ Runs
  /\ calls < MaxCalls /\ calls' = calls + 1
  /\ table' = Stop(table) /\ stopped' = TRUE
  /\ UNCHANGED <<connections_, peerVars, batch, functions_, pc, cur, signals, reopened, crossed>>

\* TcpServer::Start in the loop's thread: Open at once.
Start ==
  /\ table' = Open(table)
  /\ Gone(Waiting, "dropped")
  /\ stopped' = FALSE
  /\ reopened' = (reopened \/ Hears(table, Acceptor, Listener))
  /\ UNCHANGED connections_

\* Acceptor::OnClose: Stop and Start.
AcceptorOnClose ==
  /\ table' = Open(Stop(table))
  /\ Gone(Waiting, "dropped") /\ Discard(Waiting)
  /\ stopped' = FALSE
  /\ UNCHANGED <<connections_, reopened, crossed>>
-----------------------------------------------------------------------------
(* Connections.                                                            *)

\* Mutant of OnConnectionClose: the event is not removed from the loop.
OnConnectionCloseErases(t, c) == t

\* TcpServer::OnConnectionClose (connections_.erase is in OnClose below).
OnConnectionClose(t, c) == DelEvent(t, c)

\* Mutant of Closed: the descriptor is left to the destructor.
ClosedLater(t, c) == OnConnectionClose(t, c)

\* What TcpConnection::OnClose does to the descriptor: close_cb_, then
\* Event::Close.
Closed(t, c) == Close(OnConnectionClose(t, c), c)

\* TcpConnection::OnClose of an open connection.
OnClose(c) ==
  /\ connections_' = connections_ \ {c}
  /\ Gone({FileOf(table, c)}, "closed")
  /\ table' = Closed(table, c)

\* A connection some function still refers to is kept by its pointer.
FreeConns == {c \in Conns \ connections_ : c # cur /\ c \notin ToSet(functions_)}
-----------------------------------------------------------------------------
(* The loop.                                                               *)

Report(n) ==
  LET f == table.file[n] IN
  [fd |-> n, file |-> f,
   handler |-> IF f \in Peers /\ sock[f] = "reset" THEN "OnError" ELSE "OnRead"]

\* Where Loop() goes after the events, with the functions fs still to run.
AfterEvents(fs) == IF fs = << >> THEN "OnTimer" ELSE "RunFuctions"

\* epoll_wait reports what is on the ready list and still true.
EpollReturns ==
  LET ready == {n \in table.ready : IF table.file[n] \in Peers
                                    THEN HasInput(table.file[n]) ELSE Waiting # {}} IN
  /\ pc = "EpollWait"
  /\ batch' \in SetToSeqs({Report(n) : n \in ready})
  /\ table' = [table EXCEPT !.ready = {}]
  /\ pc' = IF batch' = << >> THEN AfterEvents(functions_) ELSE "Dispatch"
  /\ crossed' = FALSE
  /\ UNCHANGED <<connections_, peerVars, functions_, cur, history>>

\* The acceptor is told of an error of the socket that had its number before:
\* a listening socket has none of its own.
AcceptorOnError(e) == table.events_[e.fd] = Acceptor /\ e.handler = "OnError"

\* Loop() looks the number up in events_ and calls the object it finds.
Dispatch ==
  LET e == Head(batch)
      o == table.events_[e.fd] IN
  /\ pc = "Dispatch" /\ batch # << >>
  /\ batch' = Tail(batch)
  /\ \/ /\ o = NoObject
        /\ UNCHANGED <<table, connections_, peerVars, pc, cur, stopped, reopened, crossed>>
     \/ /\ AcceptorOnError(e) /\ AcceptorOnClose /\ UNCHANGED <<pc, cur>>
     \/ /\ o = Acceptor /\ e.handler = "OnRead" /\ pc' = "Accept"
        /\ UNCHANGED <<table, connections_, peerVars, cur, stopped, reopened, crossed>>
     \/ /\ o \in Conns /\ e.handler = "OnRead" /\ pc' = "Read" /\ cur' = o
        /\ UNCHANGED <<table, connections_, peerVars, stopped, reopened, crossed>>
     \/ /\ o \in Conns /\ e.handler = "OnError" /\ OnClose(o)
        /\ Discard({FileOf(table, o)})
        /\ UNCHANGED <<pc, cur, stopped, reopened, crossed>>
  /\ UNCHANGED <<functions_, calls, signals>>

\* Mutant of AtRunFuctions: the queued functions run between two events.
AtRunFuctionsEarly == pc \in {"Dispatch", "RunFuctions"}

AtRunFuctions == pc = "RunFuctions"

DispatchEnds ==
  /\ pc = "Dispatch" /\ batch = << >>
  /\ pc' = AfterEvents(functions_)
  /\ UNCHANGED <<table, connections_, peerVars, batch, functions_, cur, history, crossed>>

\* Mutant of AfterAccept: one connection is accepted for each event.
AfterAcceptReturns == "Dispatch"

\* Where Acceptor::OnRead is after a connection: in its loop.
AfterAccept == "Accept"

\* Acceptor::OnRead and TcpServer::OnAccept; new_connection_cb_ does nothing
\* or closes the connection it is given.
Accept(p, c) ==
  LET opened == OpenAs(table, c, p)
      added  == AddEvent(opened, c, HasInput(p)) IN
  /\ pc = "Accept" /\ p \in Waiting /\ Free(table) # {} /\ FreeConns # {}
  /\ c = CHOOSE d \in FreeConns : TRUE
  /\ pc' = AfterAccept
  /\ \/ /\ table' = added
        /\ connections_' = connections_ \cup {c}
        /\ peer' = [peer EXCEPT ![p] = "open"]
        /\ UNCHANGED <<sock, unread>>
     \/ /\ table' = Closed(added, c)
        /\ Gone({p}, "closed") /\ Discard({p})
        /\ UNCHANGED connections_
  /\ UNCHANGED <<batch, functions_, cur, history, crossed>>

\* The end of Acceptor::OnRead.  accept4 may fail at any time with something
\* else than EAGAIN (no memory, too many files), and does so when no number is
\* free, even if nobody waits.
AcceptEnds ==
  /\ pc = "Accept"
  /\ \/ AcceptorOnClose
     \/ /\ Waiting = {} /\ Free(table) # {}
        /\ UNCHANGED <<table, connections_, peerVars, stopped, reopened, crossed>>
  /\ pc' = "Dispatch"
  /\ UNCHANGED <<batch, functions_, cur, calls, signals>>

MessageIsThere == pc = "Read" /\ IsOpen(table, cur) /\ FileOf(table, cur) \in unread

\* OnRead of a connection with input; message_cb_ does nothing, closes its own
\* connection or another one, or starts the server again.
Read ==
  /\ MessageIsThere
  /\ \/ /\ Discard({FileOf(table, cur)})
        /\ UNCHANGED <<table, connections_, peer, sock, stopped, reopened, crossed>>
     \/ \E c \in connections_ :
          /\ OnClose(c) /\ Discard({FileOf(table, cur), FileOf(table, c)})
          /\ crossed' = (crossed \/ (c # cur /\ batch # << >>))
          /\ UNCHANGED <<stopped, reopened>>
     \/ /\ Start /\ Discard(Waiting \cup {FileOf(table, cur)})
        /\ crossed' = (crossed \/ batch # << >>)
  /\ UNCHANGED <<batch, functions_, pc, cur, calls, signals>>

\* OnRead ends: nothing more to read, or the connection has been closed ...
ReadAgain ==
  /\ pc = "Read"
  /\ IsOpen(table, cur) => ~ HasInput(FileOf(table, cur))
  /\ pc' = "Dispatch" /\ cur' = None
  /\ UNCHANGED <<table, connections_, peerVars, batch, functions_, history, crossed>>

\* ... or the peer has.
ReadEnds ==
  /\ pc = "Read" /\ IsOpen(table, cur)
  /\ FileOf(table, cur) \notin unread /\ sock[FileOf(table, cur)] # "up"
  /\ OnClose(cur) /\ Discard({FileOf(table, cur)})
  /\ pc' = "Dispatch" /\ cur' = None
  /\ UNCHANGED <<batch, functions_, history, crossed>>

RunFuctions ==
  LET f == Head(functions_) IN
  /\ AtRunFuctions /\ functions_ # << >>
  /\ functions_' = Tail(functions_)
  /\ \/ /\ f = "Start" /\ Start /\ Discard(Waiting)
     \/ /\ f \in Conns /\ IsOpen(table, f) /\ OnClose(f)
        /\ Discard({FileOf(table, f)})
        /\ UNCHANGED <<stopped, reopened>>
     \/ /\ f \in Conns /\ ~ IsOpen(table, f)
        /\ UNCHANGED <<table, connections_, peerVars, stopped, reopened>>
  /\ pc' = IF batch = << >> THEN AfterEvents(Tail(functions_)) ELSE pc
  /\ UNCHANGED <<batch, cur, calls, signals, crossed>>

\* Acceptor::Open has no socket: exit(-1).
OpenFails ==
  /\ \/ pc = "Dispatch" /\ batch # << >> /\ AcceptorOnError(Head(batch))
     \/ pc = "Accept"
     \/ MessageIsThere
     \/ AtRunFuctions /\ functions_ # << >> /\ Head(functions_) = "Start"
  /\ pc' = "Exited"
  /\ UNCHANGED <<table, connections_, peerVars, batch, functions_, cur, history, crossed>>

Exited == pc = "Exited" /\ UNCHANGED vars

\* The timing wheel drops the TimeoutEntry that OnAccept gave a connection.
OnTimeout(c) ==
  /\ pc = "OnTimer" /\ c \in connections_
  /\ OnClose(c) /\ Discard({FileOf(table, c)})
  /\ UNCHANGED <<batch, functions_, pc, cur, history, crossed>>

OnTimerEnds ==
  /\ pc = "OnTimer"
  /\ pc' = "EpollWait"
  /\ UNCHANGED <<table, connections_, peerVars, batch, functions_, cur, history, crossed>>
-----------------------------------------------------------------------------
LoopStep ==
  \/ EpollReturns \/ Dispatch \/ DispatchEnds
  \/ \E p \in Peers, c \in Conns : Accept(p, c)
  \/ AcceptEnds \/ Read \/ ReadAgain \/ ReadEnds
  \/ RunFuctions \/ OnTimerEnds \/ OpenFails \/ Exited

Next ==
  \/ \E p \in Peers :
       PeerConnects(p) \/ PeerSends(p) \/ PeerEnds(p, "fin") \/ PeerEnds(p, "reset")
  \/ OtherCloses \/ CallStart \/ CallStop \/ CallForceClose
  \/ LoopStep \/ \E c \in Conns : OnTimeout(c)

Spec == Init /\ [][Next]_vars
-----------------------------------------------------------------------------
(* Properties.                                                             *)

(***************************************************************************)
(* No connection is deaf (OnAccept, AddEvent, OnConnectionClose): each     *)
(* connection of the server has its own entry in events_ and in epoll,     *)
(* although AddEvent silently does nothing when the number is in events_   *)
(* already.  The exception is an acceptor that was opened twice: Open      *)
(* leaves its old number in events_, and the connection that gets that     *)
(* number is never read.                                                   *)
(***************************************************************************)
ConnectionsHear ==
  \A c \in connections_ : reopened \/ Hears(table, c, FileOf(table, c))

(***************************************************************************)
(* A server that was started and not stopped goes on accepting (Acceptor   *)
(* OnRead, OnClose, Open): after every error the acceptor is again in      *)
(* events_ and epoll, with the socket it listens on.  The exception is     *)
(* the same.                                                               *)
(***************************************************************************)
AcceptorHears ==
  IsOpen(table, Acceptor) => stopped \/ reopened \/ Hears(table, Acceptor, Listener)

(***************************************************************************)
(* Everybody is heard over descriptors that run out and are used again:    *)
(* see the two parts (Acceptor.cpp:26-105, TcpServer.cpp:35-69,            *)
(* EventLoop.cpp).                                                         *)
(***************************************************************************)
EverybodyHears == ConnectionsHear /\ AcceptorHears

(***************************************************************************)
(* No descriptor leaks (TcpConnection::OnClose, Event::Close,              *)
(* Acceptor::Open): every open number belongs to a connection in           *)
(* connections_, to the acceptor or to the rest of the program, and        *)
(* connections_ holds open connections only.                               *)
(***************************************************************************)
NoDescriptorLeaks ==
  /\ \A n \in Fds : table.file[n] \in {NoFile, Other}
                      \/ \E o \in connections_ \cup {Acceptor} : table.fd_[o] = n
  /\ \A c \in connections_ : IsOpen(table, c)

(***************************************************************************)
(* An event reaches the socket it was reported for (EventLoop.cpp:38-70):  *)
(* epoll_wait returns numbers, and a number may be closed and taken by     *)
(* another socket before Loop() comes to it.  This needs a callback that   *)
(* closes a connection other than its own, or that starts the server       *)
(* again; OnError of the old socket would then close the new one.          *)
(***************************************************************************)
EventsReachTheirSocket ==
  \A i \in DOMAIN batch : LET e == batch[i] IN
    \/ crossed
    \/ table.file[e.fd] = e.file
    \/ table.events_[e.fd] = NoObject

(***************************************************************************)
(* No edge is lost (Acceptor::OnRead, Dispatch): when the loop is about to *)
(* sleep, a peer that waits in the backlog, or a connection with input, is *)
(* on the ready list of epoll.  An edge is reported once, so OnRead must   *)
(* go on until nobody waits, and an event skipped because its number was   *)
(* not in events_ must not have been the next owner's.                     *)
(***************************************************************************)
NobodyWaitsUnseen ==
  pc = "EpollWait" =>
    /\ Waiting # {} => stopped \/ reopened \/ table.fd_[Acceptor] \in table.ready
    /\ \A c \in connections_ :
         HasInput(FileOf(table, c)) => reopened \/ table.fd_[c] \in table.ready
=============================================================================
