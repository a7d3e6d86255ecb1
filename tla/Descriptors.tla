---------------------------- MODULE Descriptors ----------------------------
(***************************************************************************)
(* What a loop and the kernel know of descriptors, and the operations on   *)
(* it: events_ of EventLoop.cpp is keyed by the number of a descriptor,    *)
(* epoll drops a number by itself when it is closed, and the kernel gives  *)
(* the lowest free number to the next socket.  Nothing ties the three      *)
(* together but the calls the objects make.                                *)
(*                                                                         *)
(* A table is a record: file[n] is what number n is open on, epoll the     *)
(* numbers epoll watches, ready those on its ready list, events_[n] the    *)
(* object Loop() calls for n, fd_[o] the number object o believes it has.  *)
(***************************************************************************)
EXTENDS Integers, FiniteSetsExt

CONSTANTS
  Fds,        \* the numbers the process may open
  Objects,    \* the objects derived from Event
  NoFd,       \* fd_ = -1
  NoObject,
  NoFile

ASSUME DescriptorsAssumption ==
  /\ Fds \subseteq Nat \ {0} /\ IsFiniteSet(Fds)
  /\ NoFd \notin Fds /\ NoObject \notin Objects

Tables(Files) ==
  [file    : [Fds -> Files \cup {NoFile}],
   epoll   : SUBSET Fds,
   ready   : SUBSET Fds,
   events_ : [Fds -> Objects \cup {NoObject}],
   fd_     : [Objects -> Fds \cup {NoFd}]]

EmptyTable ==
  [file    |-> [n \in Fds |-> NoFile],
   epoll   |-> {},
   ready   |-> {},
   events_ |-> [n \in Fds |-> NoObject],
   fd_     |-> [o \in Objects |-> NoFd]]

Free(t)     == {n \in Fds : t.file[n] = NoFile}
IsOpen(t, o) == t.fd_[o] # NoFd
FileOf(t, o) == t.file[t.fd_[o]]

\* The numbers objects believe to have are open.
NumbersAreOpen(t) == \A o \in Objects : IsOpen(t, o) => FileOf(t, o) # NoFile

\* Object o is called for the events of its own socket f.
Hears(t, o, f) ==
  /\ IsOpen(t, o) /\ FileOf(t, o) = f
  /\ t.fd_[o] \in t.epoll /\ t.events_[t.fd_[o]] = o

\* socket() or accept4(): the number goes to fd_ of o.
OpenAs(t, o, f) ==
  LET n == Min(Free(t)) IN [t EXCEPT !.file[n] = f, !.fd_[o] = n]

\* close(): epoll forgets the number, events_ does not.
CloseNumber(t, n) ==
  [t EXCEPT !.file[n] = NoFile, !.epoll = @ \ {n}, !.ready = @ \ {n}]

\* Mutant of Close: fd_ keeps the number.
CloseStale(t, o) == IF IsOpen(t, o) THEN CloseNumber(t, t.fd_[o]) ELSE t

\* Event::Close.
Close(t, o) ==
  IF IsOpen(t, o) THEN [CloseNumber(t, t.fd_[o]) EXCEPT !.fd_[o] = NoFd] ELSE t

\* An edge, seen if epoll watches the number.
Edge(t, n) == IF n \in t.epoll THEN [t EXCEPT !.ready = @ \cup {n}] ELSE t

\* The socket f becomes readable, wherever it is open.
EdgeOf(t, f) ==
  [t EXCEPT !.ready = @ \cup {n \in t.epoll : t.file[n] = f}]

\* EventLoop::AddEvent, which returns if the number is in events_; now says
\* whether the socket has something to report already.
AddEvent(t, o, now) ==
  LET n == t.fd_[o] IN
  IF t.events_[n] # NoObject THEN t
  ELSE Edge([t EXCEPT !.events_[n] = o, !.epoll = @ \cup {n}],
            IF now THEN n ELSE NoFd)

\* EventLoop::DelEvent, by the number.
DelEvent(t, o) ==
  LET n == t.fd_[o] IN
  IF ~ IsOpen(t, o) \/ t.events_[n] = NoObject THEN t
  ELSE [t EXCEPT !.events_[n] = NoObject, !.epoll = @ \ {n}, !.ready = @ \ {n}]
=============================================================================
