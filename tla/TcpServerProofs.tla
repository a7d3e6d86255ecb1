--------------------------- MODULE TcpServerProofs --------------------------
(***************************************************************************)
(* Proofs about TcpServer for any number of peers, connections,            *)
(* descriptors and calls: the safety properties of the table of            *)
(* descriptors, of what epoll reported, and of the acceptor's restart.     *)
(***************************************************************************)
EXTENDS TcpServer, DescriptorsProofs

(***************************************************************************)
(* The inductive invariant.                                                *)
(***************************************************************************)

\* Table t is in order when cs are the open connections: nobody shares a
\* number, every open number has an owner, epoll watches open numbers only.
Good(t, cs) ==
  /\ t \in Tables(Files)
  /\ cs \subseteq Conns
  /\ \A c \in Conns : c \in cs <=> t.fd_[c] \in Fds
  /\ \A o, q \in Objects : t.fd_[o] \in Fds /\ o # q => t.fd_[o] # t.fd_[q]
  /\ \A c \in cs : t.file[t.fd_[c]] \in Peers
  /\ t.fd_[Acceptor] \in Fds => t.file[t.fd_[Acceptor]] = Listener
  /\ \A n \in Fds : t.file[n] \in {NoFile, Other} \/ \E o \in Objects : t.fd_[o] = n
  /\ t.ready \subseteq t.epoll
  /\ \A n \in t.epoll : t.file[n] \notin {NoFile, Other}
  /\ \A n \in Fds, c \in Conns : t.events_[n] = c => t.fd_[c] = n
  /\ \A n \in t.epoll : t.events_[n] = Acceptor => t.fd_[Acceptor] = n

\* events_ holds no number that its object has lost.
Registered(t) ==
  \A n \in Fds : t.events_[n] # NoObject => t.fd_[t.events_[n]] = n /\ n \in t.epoll

Heard(t, cs) == Registered(t) /\ \A c \in cs : Hears(t, c, FileOf(t, c))

TypeInv ==
  /\ peer \in [Peers -> {"out", "waiting", "open", "dropped", "closed"}]
  /\ sock \in [Peers -> {"up", "fin", "reset"}]
  /\ unread \subseteq Peers
  /\ batch \in Seq(Reports)
  /\ functions_ \in Seq({"Start"} \cup Conns)
  /\ pc \in {"EpollWait", "Dispatch", "Accept", "Read", "RunFuctions", "OnTimer",
            "Exited"}
  /\ cur \in Conns \cup {None}
  /\ calls \in 0 .. MaxCalls /\ signals \in 0 .. MaxSignals
  /\ stopped \in BOOLEAN /\ reopened \in BOOLEAN /\ crossed \in BOOLEAN

HeardInv == reopened \/ (Heard(table, connections_) /\ AcceptorHears)

\* Before the first Start there is nothing but the rest of the program.
StartInv ==
  ~ IsOpen(table, Acceptor) =>
    /\ Waiting = {} /\ connections_ = {}
    /\ \A n \in Fds : n # Min(Fds) => table.file[n] = NoFile

\* What Loop() has still to dispatch is what the numbers are open on.
BatchInv ==
  /\ pc \notin {"Dispatch", "Accept", "Read", "Exited"} => batch = << >>
  /\ \A i, j \in 1 .. Len(batch) : i # j => batch[i].fd # batch[j].fd
  /\ crossed \/ \A i \in 1 .. Len(batch) :
       table.file[batch[i].fd] = batch[i].file /\ batch[i].file # Other
  /\ crossed \/ \A i \in 1 .. Len(batch) :
       table.events_[batch[i].fd] = Acceptor => table.fd_[Acceptor] = batch[i].fd
  /\ pc = "Accept" =>
       crossed \/ \A i \in 1 .. Len(batch) : batch[i].fd # table.fd_[Acceptor]
  /\ pc = "Read" =>
       /\ cur \in Conns
       /\ crossed \/ \A i \in 1 .. Len(batch) : batch[i].fd # table.fd_[cur]

\* Number n has been reported, or will be.
Reported(n) == n \in table.ready \/ \E i \in 1 .. Len(batch) : batch[i].fd = n

\* NobodyWaitsUnseen wherever the loop is, while the program runs.
UnseenInv == pc # "Exited" =>
  /\ Waiting # {} => stopped \/ reopened \/ pc = "Accept" \/ Reported(table.fd_[Acceptor])
  /\ \A c \in connections_ : HasInput(FileOf(table, c)) =>
       reopened \/ (pc = "Read" /\ cur = c) \/ Reported(table.fd_[c])

IInv ==
  /\ TypeInv /\ Good(table, connections_)
  /\ HeardInv /\ StartInv /\ BatchInv /\ UnseenInv
-----------------------------------------------------------------------------
(* What the server does to a table that is in order.                       *)

LEMMA ConstantsAre ==
  /\ Acceptor \in Objects /\ Conns \subseteq Objects /\ Acceptor \notin Conns
  /\ \A o \in Objects : o # Acceptor => o \in Conns
  /\ NoFd \notin Fds /\ NoObject \notin Objects
  /\ Listener \notin Peers /\ Other \notin Peers /\ NoFile \notin Peers
  /\ Listener # Other /\ NoFile # Listener /\ NoFile # Other
  BY DescriptorsAssumption, ServerAssumption

\* What Tables says, one value at a time.
Typed(t) ==
  /\ \A n \in Fds : t.file[n] \in Files \cup {NoFile}
  /\ \A n \in Fds : t.events_[n] \in Objects \cup {NoObject}
  /\ \A o \in Objects : t.fd_[o] \in Fds \cup {NoFd}
  /\ t.epoll \subseteq Fds /\ t.ready \subseteq Fds

LEMMA TablesTyped ==
  ASSUME NEW t \in Tables(Files)
  PROVE  Typed(t) /\ \A o \in Objects : IsOpen(t, o) <=> t.fd_[o] \in Fds
<1>1. /\ t.file \in [Fds -> Files \cup {NoFile}]
      /\ t.epoll \subseteq Fds /\ t.ready \subseteq Fds
      /\ t.events_ \in [Fds -> Objects \cup {NoObject}]
      /\ t.fd_ \in [Objects -> Fds \cup {NoFd}]
  BY FieldsOfTable
<1> QED
  BY <1>1, ConstantsAre DEF Typed, IsOpen

LEMMA CloseGood ==
  ASSUME NEW t, NEW cs, Good(t, cs), NEW c \in cs, NEW u, u = Closed(t, c)
  PROVE  /\ Good(u, cs \ {c}) /\ t.fd_[c] \in Fds
         /\ \A n \in Fds : u.file[n] = IF n = t.fd_[c] THEN NoFile ELSE t.file[n]
         /\ \A o \in Objects : u.fd_[o] = IF o = c THEN NoFd ELSE t.fd_[o]
         /\ u.ready = t.ready \ {t.fd_[c]}
         /\ \A n \in Fds : u.events_[n] = Acceptor => t.events_[n] = Acceptor
         /\ Heard(t, cs) => Heard(u, cs \ {c})
         /\ Hears(t, Acceptor, Listener) => Hears(u, Acceptor, Listener)
<1> DEFINE v == DelEvent(t, c)
           n == t.fd_[c]
<1>0. /\ t \in Tables(Files) /\ c \in Conns /\ c \in Objects /\ c # Acceptor
      /\ n \in Fds
  BY ConstantsAre DEF Good
<1>t. Typed(t) /\ IsOpen(t, c)
  BY <1>0, TablesTyped
<1>1. /\ v \in Tables(Files) /\ v.file = t.file /\ v.fd_ = t.fd_
      /\ \/ t.events_[n] = NoObject /\ v = t
         \/ /\ v.events_ = [t.events_ EXCEPT ![n] = NoObject]
            /\ v.epoll = t.epoll \ {n} /\ v.ready = t.ready \ {n}
  BY <1>0, <1>t, DelEventIs
<1>2. IsOpen(v, c) /\ u = Close(v, c)
  BY <1>1, <1>t DEF IsOpen, Closed, OnConnectionClose
<1> HIDE DEF v
<1>3. /\ u \in Tables(Files)
      /\ u.file = [v.file EXCEPT ![v.fd_[c]] = NoFile]
      /\ u.fd_ = [v.fd_ EXCEPT ![c] = NoFd]
      /\ u.epoll = v.epoll \ {v.fd_[c]} /\ u.ready = v.ready \ {v.fd_[c]}
      /\ u.events_ = v.events_
  BY <1>0, <1>1, <1>2, CloseIs
<1>d. DOMAIN t.file = Fds /\ DOMAIN t.events_ = Fds /\ DOMAIN t.fd_ = Objects
  BY <1>0, FieldsOfTable
<1>4. /\ \A m \in Fds : u.file[m] = IF m = n THEN NoFile ELSE t.file[m]
      /\ \A o \in Objects : u.fd_[o] = IF o = c THEN NoFd ELSE t.fd_[o]
      /\ u.epoll = t.epoll \ {n} /\ u.ready = t.ready \ {n}
      /\ \A m \in Fds : u.events_[m] = IF m = n THEN NoObject ELSE t.events_[m]
  BY <1>0, <1>1, <1>3, <1>d
<1> HIDE DEF n
<1>5. \A o \in Objects : o # c /\ t.fd_[o] \in Fds => t.fd_[o] # n
  BY <1>0 DEF Good, n
<1>c. \A d \in cs : d \in Conns /\ d \in Objects /\ t.fd_[d] \in Fds
  BY ConstantsAre DEF Good
<1>6. Good(u, cs \ {c})
  <2>2. \A o, q \in Objects : u.fd_[o] \in Fds /\ o # q => u.fd_[o] # u.fd_[q]
    BY <1>4, ConstantsAre DEF Good
  <2>3. \A d \in Conns : d \in cs \ {c} <=> u.fd_[d] \in Fds
    BY <1>4, ConstantsAre DEF Good
  <2>4. /\ \A d \in cs \ {c} : u.file[u.fd_[d]] \in Peers
        /\ u.fd_[Acceptor] \in Fds => u.file[u.fd_[Acceptor]] = Listener
    BY <1>0, <1>4, <1>5, <1>c, ConstantsAre DEF Good
  <2>5. \A m \in Fds : u.file[m] \in {NoFile, Other} \/ \E o \in Objects : u.fd_[o] = m
    <3> TAKE m \in Fds
    <3>1. t.file[m] \in {NoFile, Other} \/ \E o \in Objects : t.fd_[o] = m
      BY DEF Good
    <3> QED
      BY <1>4, <3>1 DEF n
  <2>6. u.ready \subseteq u.epoll /\ \A m \in u.epoll : u.file[m] \notin {NoFile, Other}
    BY <1>t, <1>4 DEF Good, Typed
  <2>7. \A m \in Fds, d \in Conns : u.events_[m] = d => u.fd_[d] = m
    BY <1>4, ConstantsAre DEF Good, n
  <2>8. cs \ {c} \subseteq Conns
    BY DEF Good
  <2>9. \A m \in u.epoll : u.events_[m] = Acceptor => u.fd_[Acceptor] = m
    BY <1>0, <1>4, <1>t, ConstantsAre DEF Good, Typed
  <2> QED
    BY <1>3, <2>2, <2>3, <2>4, <2>5, <2>6, <2>7, <2>8, <2>9 DEF Good
<1>7. ASSUME Heard(t, cs) PROVE Heard(u, cs \ {c})
  <2>1. Registered(u)
    <3> SUFFICES ASSUME NEW m \in Fds, u.events_[m] # NoObject
                 PROVE  u.fd_[u.events_[m]] = m /\ m \in u.epoll
      BY DEF Registered
    <3>1. m # n /\ u.events_[m] = t.events_[m] /\ t.events_[m] \in Objects
      BY <1>4, <1>t DEF Typed
    <3>2. t.fd_[t.events_[m]] = m /\ m \in t.epoll
      BY <1>7, <3>1 DEF Heard, Registered
    <3> QED
      BY <1>4, <3>1, <3>2 DEF n
  <2>2. ASSUME NEW d \in cs \ {c} PROVE Hears(u, d, FileOf(u, d))
    <3>1. t.fd_[d] \in Fds /\ t.fd_[d] # n /\ u.fd_[d] = t.fd_[d] /\ d \in Objects
      BY <1>c, <1>4, <1>5
    <3>2. t.fd_[d] \in t.epoll /\ t.events_[t.fd_[d]] = d
      BY <1>7 DEF Heard, Hears
    <3> QED
      BY <1>4, <3>1, <3>2, ConstantsAre DEF Hears, IsOpen
  <2> QED
    BY <2>1, <2>2 DEF Heard
<1>8. ASSUME Hears(t, Acceptor, Listener) PROVE Hears(u, Acceptor, Listener)
  <2>1. t.fd_[Acceptor] \in Fds /\ u.fd_[Acceptor] = t.fd_[Acceptor] /\ t.fd_[Acceptor] # n
    BY <1>0, <1>8, <1>4, <1>5, <1>t, ConstantsAre DEF Hears, IsOpen, Typed
  <2> QED
    BY <1>4, <1>8, <2>1 DEF Hears, IsOpen, FileOf
<1>9. \A m \in Fds : u.events_[m] = Acceptor => t.events_[m] = Acceptor
  BY <1>4, ConstantsAre
<1> QED
  BY <1>0, <1>4, <1>6, <1>7, <1>8, <1>9 DEF n

\* An edge changes the ready list only.
LEMMA EdgeGood ==
  ASSUME NEW t, NEW cs, Good(t, cs), NEW f, NEW u, u = EdgeOf(t, f)
  PROVE  /\ Good(u, cs)
         /\ u.file = t.file /\ u.fd_ = t.fd_ /\ u.epoll = t.epoll /\ u.events_ = t.events_
         /\ u.ready = t.ready \cup {n \in t.epoll : t.file[n] = f}
         /\ Heard(t, cs) => Heard(u, cs)
         /\ Hears(t, Acceptor, Listener) => Hears(u, Acceptor, Listener)
<1>1. /\ u \in Tables(Files)
      /\ u.file = t.file /\ u.fd_ = t.fd_ /\ u.epoll = t.epoll /\ u.events_ = t.events_
      /\ u.ready = t.ready \cup {n \in t.epoll : t.file[n] = f}
  BY EdgeOfIs DEF Good
<1>2. Good(u, cs)
  BY <1>1 DEF Good
<1>3. Heard(t, cs) => Heard(u, cs)
  BY <1>1 DEF Heard, Registered, Hears, IsOpen, FileOf
<1>4. Hears(t, Acceptor, Listener) => Hears(u, Acceptor, Listener)
  BY <1>1 DEF Hears, IsOpen, FileOf
<1> QED
  BY <1>1, <1>2, <1>3, <1>4

\* The rest of the program closes a number of its own.
LEMMA OtherGood ==
  ASSUME NEW t, NEW cs, Good(t, cs), NEW n \in Fds, t.file[n] = Other,
         NEW u, u = CloseNumber(t, n)
  PROVE  /\ Good(u, cs)
         /\ u.fd_ = t.fd_ /\ u.ready = t.ready /\ u.events_ = t.events_
         /\ \A m \in Fds : u.file[m] = IF m = n THEN NoFile ELSE t.file[m]
         /\ \A o \in Objects : t.fd_[o] # n
         /\ Heard(t, cs) => Heard(u, cs)
         /\ Hears(t, Acceptor, Listener) => Hears(u, Acceptor, Listener)
<1>0. t \in Tables(Files)
  BY DEF Good
<1>t. Typed(t) /\ DOMAIN t.file = Fds
  BY <1>0, TablesTyped, FieldsOfTable
<1>1. /\ u \in Tables(Files)
      /\ u.file = [t.file EXCEPT ![n] = NoFile] /\ u.fd_ = t.fd_
      /\ u.epoll = t.epoll \ {n} /\ u.ready = t.ready \ {n} /\ u.events_ = t.events_
  BY <1>0, CloseNumberIs
<1>2. n \notin t.epoll /\ n \notin t.ready
  BY DEF Good
<1>3. /\ u.epoll = t.epoll /\ u.ready = t.ready
      /\ \A m \in Fds : u.file[m] = IF m = n THEN NoFile ELSE t.file[m]
  BY <1>t, <1>1, <1>2
<1>4. \A o \in Objects : t.fd_[o] # n
  BY ConstantsAre DEF Good
<1>5. Good(u, cs)
  <2>1. /\ \A d \in cs : u.file[u.fd_[d]] \in Peers
        /\ u.fd_[Acceptor] \in Fds => u.file[u.fd_[Acceptor]] = Listener
    BY <1>1, <1>3, <1>4, ConstantsAre DEF Good
  <2>2. \A m \in Fds : u.file[m] \in {NoFile, Other} \/ \E o \in Objects : u.fd_[o] = m
    BY <1>1, <1>3 DEF Good
  <2>3. \A m \in u.epoll : u.file[m] \notin {NoFile, Other}
    BY <1>2, <1>3, <1>t DEF Good, Typed
  <2> QED
    BY <1>1, <1>3, <2>1, <2>2, <2>3 DEF Good
<1>6. ASSUME Heard(t, cs) PROVE Heard(u, cs)
  <2>1. Registered(u)
    BY <1>1, <1>3, <1>6 DEF Heard, Registered
  <2>2. \A d \in cs : Hears(u, d, FileOf(u, d))
    BY <1>1, <1>3, <1>6 DEF Heard, Hears, IsOpen
  <2> QED
    BY <2>1, <2>2 DEF Heard
<1>7. ASSUME Hears(t, Acceptor, Listener) PROVE Hears(u, Acceptor, Listener)
  <2>1. t.fd_[Acceptor] \in Fds /\ t.fd_[Acceptor] # n
    BY <1>4, <1>7, <1>t, ConstantsAre DEF Hears, IsOpen, Typed
  <2> QED
    BY <1>1, <1>3, <1>7, <2>1 DEF Hears, IsOpen, FileOf
<1> QED
  BY <1>1, <1>3, <1>4, <1>5, <1>6, <1>7

\* Acceptor::Stop: nothing but its own number is touched.
LEMMA StopGood ==
  ASSUME NEW t, NEW cs, Good(t, cs), NEW u, u = Stop(t)
  PROVE  /\ Good(u, cs) /\ u.file = t.file /\ u.fd_ = t.fd_
         /\ \A n \in Fds : n # t.fd_[Acceptor] /\ n \in t.ready => n \in u.ready
         /\ Heard(t, cs) => Heard(u, cs)
         /\ t.fd_[Acceptor] \in Fds => u.events_[t.fd_[Acceptor]] = NoObject
         /\ \A n \in Fds : u.events_[n] = Acceptor => t.events_[n] = Acceptor
<1>0. t \in Tables(Files) /\ Acceptor \in Objects
  BY ConstantsAre DEF Good
<1>t. Typed(t) /\ DOMAIN t.events_ = Fds /\ (IsOpen(t, Acceptor) <=> t.fd_[Acceptor] \in Fds)
  BY <1>0, TablesTyped, FieldsOfTable
<1> DEFINE n == t.fd_[Acceptor]
<1>1. /\ u \in Tables(Files) /\ u.file = t.file /\ u.fd_ = t.fd_
      /\ \/ n \notin Fds /\ u = t
         \/ n \in Fds /\ t.events_[n] = NoObject /\ u = t
         \/ /\ n \in Fds
            /\ u.events_ = [t.events_ EXCEPT ![n] = NoObject]
            /\ u.epoll = t.epoll \ {n} /\ u.ready = t.ready \ {n}
  BY <1>0, <1>t, DelEventIs DEF Stop
<1>2. CASE u = t /\ (n \notin Fds \/ t.events_[n] = NoObject)
  BY <1>2
<1>3. CASE /\ n \in Fds
           /\ u.events_ = [t.events_ EXCEPT ![n] = NoObject]
           /\ u.epoll = t.epoll \ {n} /\ u.ready = t.ready \ {n}
  <2>1. \A m \in Fds : u.events_[m] = IF m = n THEN NoObject ELSE t.events_[m]
    BY <1>t, <1>3
  <2>c. \A d \in cs : d \in Objects /\ t.fd_[d] \in Fds /\ t.fd_[d] # n
    BY <1>3, ConstantsAre DEF Good
  <2> HIDE DEF n
  <2>2. Good(u, cs)
    <3>1. \A m \in Fds, d \in Conns : u.events_[m] = d => u.fd_[d] = m
      BY <1>1, <2>1, ConstantsAre DEF Good
    <3>2. u.ready \subseteq u.epoll /\ \A m \in u.epoll : u.file[m] \notin {NoFile, Other}
      BY <1>1, <1>3 DEF Good
    <3>3. \A m \in u.epoll : u.events_[m] = Acceptor => u.fd_[Acceptor] = m
      BY <1>1, <1>t, <1>3, <2>1, ConstantsAre DEF Good, Typed
    <3> QED
      BY <1>1, <3>1, <3>2, <3>3 DEF Good
  <2>3. ASSUME Heard(t, cs) PROVE Heard(u, cs)
    <3>1. Registered(u)
      BY <1>1, <1>3, <2>1, <2>3 DEF Heard, Registered
    <3>2. ASSUME NEW d \in cs PROVE Hears(u, d, FileOf(u, d))
      <4>1. t.fd_[d] \in t.epoll /\ t.events_[t.fd_[d]] = d /\ IsOpen(t, d)
        BY <2>3 DEF Heard, Hears
      <4> QED
        BY <1>1, <1>3, <2>1, <2>c, <4>1 DEF Hears, IsOpen
    <3> QED
      BY <3>1, <3>2 DEF Heard
  <2> QED
    BY <1>1, <1>3, <2>1, <2>2, <2>3, ConstantsAre DEF n
<1> QED
  BY <1>1, <1>2, <1>3

\* A socket f of object o, which had none, is opened and registered.
LEMMA OpenedGood ==
  ASSUME NEW t, NEW cs, Good(t, cs), NEW o \in Objects, t.fd_[o] = NoFd, Free(t) # {},
         NEW f, o = Acceptor => f = Listener, o \in Conns => f \in Peers,
         NEW now \in BOOLEAN, NEW n, n = Min(Free(t)), NEW u,
          u = AddEvent(OpenAs(t, o, f), o, now),
         NEW cs2, cs2 = IF o = Acceptor THEN cs ELSE cs \cup {o}
  PROVE  /\ Good(u, cs2) /\ n \in Fds /\ NumberOpened(t, u, o, f, n)
         /\ Heard(t, cs) => /\ Heard(u, cs2) /\ Hears(u, o, f) /\ t.events_[n] = NoObject
         /\ o # Acceptor /\ Hears(t, Acceptor, Listener) => Hears(u, Acceptor, Listener)
<1>0. t \in Tables(Files) /\ f \in Files /\ cs \subseteq Objects
  BY ConstantsAre DEF Good, Files
<1>t. Typed(t)
  BY <1>0, TablesTyped
<1>g. n \in Fds /\ u \in Tables(Files) /\ NumberOpened(t, u, o, f, n)
  BY <1>0, OpenedIs
<1>1. /\ t.file[n] = NoFile /\ u \in Tables(Files)
      /\ \A m \in Fds : u.file[m] = IF m = n THEN f ELSE t.file[m]
      /\ \A q \in Objects : u.fd_[q] = IF q = o THEN n ELSE t.fd_[q]
      /\ \A m \in Fds : u.events_[m] = IF m = n /\ t.events_[n] = NoObject THEN o
                                       ELSE t.events_[m]
      /\ \A m \in Fds : m \in u.epoll <=> m \in t.epoll \/ (m = n /\ t.events_[n] = NoObject)
      /\ t.ready \subseteq u.ready
      /\ \A m \in u.ready : m \in t.ready \/ (m = n /\ t.events_[n] = NoObject)
  BY <1>g DEF NumberOpened
<1>u. Typed(u) /\ u.fd_[o] = n /\ n \in Fds /\ n # NoFd
  BY <1>1, <1>g, TablesTyped, ConstantsAre
<1>2. \A q \in Objects : t.fd_[q] \in Fds => t.fd_[q] # n /\ q # o
  <2>1. \A c \in Conns : t.fd_[c] \in Fds => t.file[t.fd_[c]] \in Peers
    BY DEF Good
  <2>2. t.fd_[Acceptor] \in Fds => t.file[t.fd_[Acceptor]] = Listener
    BY DEF Good
  <2> QED
    BY <1>1, <2>1, <2>2, ConstantsAre
<1>3. \A d \in cs : d \in Conns /\ d \in Objects /\ d # Acceptor /\ t.fd_[d] \in Fds
  BY ConstantsAre DEF Good
<1>4. \A d \in Conns : d \in cs2 <=> d \in cs \/ d = o
  BY ConstantsAre
<1>5. Good(u, cs2)
  <2>1. \A p, q \in Objects : u.fd_[p] \in Fds /\ p # q => u.fd_[p] # u.fd_[q]
    <3>1. \A p, q \in Objects : t.fd_[p] \in Fds /\ p # q => t.fd_[p] # t.fd_[q]
      BY DEF Good
    <3> QED
      BY <1>1, <1>2, <3>1
  <2>2. cs2 \subseteq Conns /\ \A d \in Conns : d \in cs2 <=> u.fd_[d] \in Fds
    <3>1. \A d \in Conns : d \in cs <=> t.fd_[d] \in Fds
      BY DEF Good
    <3>2. \A d \in Conns : u.fd_[d] = IF d = o THEN n ELSE t.fd_[d]
      BY <1>1, ConstantsAre
    <3>3. \A d \in Conns : d \in cs2 <=> u.fd_[d] \in Fds
      BY <1>4, <1>u, <3>1, <3>2
    <3> QED
      BY <1>3, <3>3, ConstantsAre
  <2>3. \A d \in cs2 : u.file[u.fd_[d]] \in Peers
    <3> SUFFICES ASSUME NEW d \in cs2 PROVE u.file[u.fd_[d]] \in Peers
      OBVIOUS
    <3>1. CASE d = o
      <4>1. o \in Conns
        BY <2>2, <3>1
      <4> QED
        BY <1>1, <1>u, <3>1, <4>1
    <3>2. CASE d # o
      <4>1. d \in cs /\ d \in Objects /\ t.fd_[d] \in Fds /\ t.fd_[d] # n
        BY <1>2, <1>3, <3>2
      <4>2. t.file[t.fd_[d]] \in Peers
        BY <4>1 DEF Good
      <4> QED
        BY <1>1, <3>2, <4>1, <4>2
    <3> QED
      BY <3>1, <3>2
  <2>4. u.fd_[Acceptor] \in Fds => u.file[u.fd_[Acceptor]] = Listener
    <3>1. CASE o = Acceptor
      BY <1>1, <1>u, <3>1
    <3>2. CASE o # Acceptor
      <4>1. u.fd_[Acceptor] = t.fd_[Acceptor]
        BY <1>1, <3>2, ConstantsAre
      <4>2. t.fd_[Acceptor] \in Fds => t.fd_[Acceptor] # n
        BY <1>2, ConstantsAre
      <4>3. t.fd_[Acceptor] \in Fds => t.file[t.fd_[Acceptor]] = Listener
        BY DEF Good
      <4> QED
        BY <1>1, <4>1, <4>2, <4>3
    <3> QED
      BY <3>1, <3>2
  <2>5. \A m \in Fds : u.file[m] \in {NoFile, Other} \/ \E q \in Objects : u.fd_[q] = m
    <3> TAKE m \in Fds
    <3>1. CASE m = n
      BY <1>u, <3>1
    <3>2. CASE m # n
      <4>1. t.file[m] \in {NoFile, Other} \/ \E q \in Objects : t.fd_[q] = m
        BY DEF Good
      <4>2. \A q \in Objects : t.fd_[q] = m => u.fd_[q] = m
        BY <1>1, <1>2
      <4> QED
        BY <1>1, <3>2, <4>1, <4>2
    <3> QED
      BY <3>1, <3>2
  <2>6. u.ready \subseteq u.epoll
    <3>1. t.ready \subseteq t.epoll
      BY DEF Good
    <3> QED
      BY <1>1, <1>u, <3>1 DEF Typed
  <2>7. \A m \in u.epoll : u.file[m] \notin {NoFile, Other}
    <3>1. \A m \in t.epoll : t.file[m] \notin {NoFile, Other}
      BY DEF Good
    <3>2. f \notin {NoFile, Other}
      BY ConstantsAre
    <3> QED
      BY <1>1, <1>u, <3>1, <3>2 DEF Typed
  <2>8. \A m \in Fds, d \in Conns : u.events_[m] = d => u.fd_[d] = m
    <3>1. \A m \in Fds, d \in Conns : t.events_[m] = d => t.fd_[d] = m
      BY DEF Good
    <3> QED
      BY <1>1, <1>2, <3>1, ConstantsAre
  <2>9. \A m \in u.epoll : u.events_[m] = Acceptor => u.fd_[Acceptor] = m
    <3>1. /\ \A m \in t.epoll : t.events_[m] = Acceptor => t.fd_[Acceptor] = m
          /\ n \notin t.epoll
      BY <1>1 DEF Good
    <3> QED
      BY <1>1, <1>2, <1>u, <3>1, ConstantsAre DEF Typed
  <2> QED
    BY <1>1, <2>1, <2>2, <2>3, <2>4, <2>5, <2>6, <2>7, <2>8, <2>9 DEF Good
<1>6. ASSUME Heard(t, cs)
      PROVE  Heard(u, cs2) /\ Hears(u, o, f) /\ t.events_[n] = NoObject
  <2>1. \A m \in Fds : t.events_[m] # NoObject =>
          t.fd_[t.events_[m]] = m /\ m \in t.epoll /\ t.events_[m] \in Objects
    BY <1>6, <1>t DEF Heard, Registered, Typed
  <2>2. t.events_[n] = NoObject
    BY <1>2, <1>u, <2>1
  <2>3. Registered(u)
    <3> SUFFICES ASSUME NEW m \in Fds, u.events_[m] # NoObject
                 PROVE  u.fd_[u.events_[m]] = m /\ m \in u.epoll
      BY DEF Registered
    <3>1. CASE m = n
      BY <1>1, <1>u, <2>2, <3>1
    <3>2. CASE m # n
      <4>1. u.events_[m] = t.events_[m]
        BY <1>1, <3>2
      <4>2. t.fd_[t.events_[m]] = m /\ m \in t.epoll /\ t.events_[m] \in Objects
        BY <2>1, <4>1
      <4> QED
        BY <1>1, <1>2, <4>1, <4>2
    <3> QED
      BY <3>1, <3>2
  <2>4. Hears(u, o, f)
    BY <1>1, <1>u, <2>2 DEF Hears, IsOpen, FileOf
  <2>5. ASSUME NEW d \in cs2 PROVE Hears(u, d, FileOf(u, d))
    <3>1. CASE d = o
      BY <2>4, <3>1 DEF Hears
    <3>2. CASE d # o
      <4>1. d \in cs /\ d \in Objects /\ t.fd_[d] \in Fds /\ t.fd_[d] # n
        BY <1>2, <1>3, <3>2
      <4>2. t.fd_[d] \in t.epoll /\ t.events_[t.fd_[d]] = d
        BY <1>6, <4>1 DEF Heard, Hears
      <4>3. u.fd_[d] = t.fd_[d]
        BY <1>1, <3>2, <4>1
      <4> QED
        BY <1>1, <4>1, <4>2, <4>3, ConstantsAre DEF Hears, IsOpen
    <3> QED
      BY <3>1, <3>2
  <2> QED
    BY <2>2, <2>3, <2>4, <2>5 DEF Heard
<1>7. ASSUME o # Acceptor, Hears(t, Acceptor, Listener) PROVE Hears(u, Acceptor, Listener)
  <2>1. t.fd_[Acceptor] \in Fds
    BY <1>7, <1>t, ConstantsAre DEF Hears, IsOpen, Typed
  <2>2. u.fd_[Acceptor] = t.fd_[Acceptor] /\ t.fd_[Acceptor] # n
    BY <1>1, <1>2, <1>7, <2>1, ConstantsAre
  <2> QED
    BY <1>1, <1>7, <2>1, <2>2 DEF Hears, IsOpen, FileOf
<1> QED
  BY <1>g, <1>5, <1>6, <1>7

\* From t to v, the acceptor has lost its number a, if it had one.
AcceptorGone(t, v, a) ==
  /\ v.fd_[Acceptor] = NoFd
  /\ \A m \in Fds : v.file[m] = IF m = a THEN NoFile ELSE t.file[m]
  /\ \A q \in Objects : q # Acceptor => v.fd_[q] = t.fd_[q]
  /\ \A m \in Fds : m \in t.ready /\ m # a => m \in v.ready
  /\ v.events_ = t.events_

\* What events_ would say of number a is not the acceptor's.
Unregistered(t, a) == a \in Fds => t.events_[a] # Acceptor

\* Event::Close of the acceptor: events_ is not told.
LEMMA CloseAcceptorGood ==
  ASSUME NEW t, NEW cs, Good(t, cs), NEW v, v = Close(t, Acceptor),
         NEW a, a = t.fd_[Acceptor]
  PROVE  /\ Good(v, cs) /\ AcceptorGone(t, v, a)
         /\ Heard(t, cs) /\ Unregistered(t, a) => Heard(v, cs)
<1>0. t \in Tables(Files) /\ Acceptor \in Objects
  BY ConstantsAre DEF Good
<1>t. /\ Typed(t) /\ (IsOpen(t, Acceptor) <=> a \in Fds)
      /\ DOMAIN t.file = Fds /\ DOMAIN t.fd_ = Objects
  BY <1>0, TablesTyped, FieldsOfTable
<1>1. CASE a \notin Fds
  <2>1. v = t /\ a = NoFd
    BY <1>0, <1>t, <1>1 DEF Close, Typed
  <2> QED
    BY <1>1, <2>1 DEF AcceptorGone
<1>2. CASE a \in Fds
  <2>1. /\ v \in Tables(Files)
        /\ v.file = [t.file EXCEPT ![a] = NoFile]
        /\ v.fd_ = [t.fd_ EXCEPT ![Acceptor] = NoFd]
        /\ v.epoll = t.epoll \ {a} /\ v.ready = t.ready \ {a}
        /\ v.events_ = t.events_
    <3>1. /\ v \in Tables(Files)
          /\ v.file = [t.file EXCEPT ![t.fd_[Acceptor]] = NoFile]
          /\ v.fd_ = [t.fd_ EXCEPT ![Acceptor] = NoFd]
          /\ v.epoll = t.epoll \ {t.fd_[Acceptor]} /\ v.ready = t.ready \ {t.fd_[Acceptor]}
          /\ v.events_ = t.events_
      BY <1>0, <1>t, <1>2, CloseIs
    <3> QED
      BY <3>1
  <2>2. /\ \A m \in Fds : v.file[m] = IF m = a THEN NoFile ELSE t.file[m]
        /\ \A q \in Objects : v.fd_[q] = IF q = Acceptor THEN NoFd ELSE t.fd_[q]
        /\ v.fd_[Acceptor] = NoFd
    BY <1>0, <1>t, <2>1
  <2>3. \A d \in Conns : /\ d \in Objects /\ v.fd_[d] = t.fd_[d] /\ d # Acceptor
                         /\ t.fd_[d] # a
    <3>1. \A o, q \in Objects : t.fd_[o] \in Fds /\ o # q => t.fd_[o] # t.fd_[q]
      BY DEF Good
    <3> QED
      BY <1>0, <1>2, <2>2, <3>1, ConstantsAre
  <2>4. Good(v, cs)
    <3>1. \A o, q \in Objects : v.fd_[o] \in Fds /\ o # q => v.fd_[o] # v.fd_[q]
      <4>1. \A o, q \in Objects : t.fd_[o] \in Fds /\ o # q => t.fd_[o] # t.fd_[q]
        BY DEF Good
      <4> QED
        BY <2>2, <4>1, ConstantsAre
    <3>2. \A d \in Conns : d \in cs <=> v.fd_[d] \in Fds
      <4>1. \A d \in Conns : d \in cs <=> t.fd_[d] \in Fds
        BY DEF Good
      <4> QED
        BY <2>3, <4>1
    <3>3. \A d \in cs : v.file[v.fd_[d]] \in Peers
      <4>1. \A d \in cs : d \in Conns /\ t.fd_[d] \in Fds /\ t.file[t.fd_[d]] \in Peers
        BY DEF Good
      <4> QED
        BY <2>2, <2>3, <4>1
    <3>4. \A m \in Fds : v.file[m] \in {NoFile, Other} \/ \E o \in Objects : v.fd_[o] = m
      <4> TAKE m \in Fds
      <4>1. t.file[m] \in {NoFile, Other} \/ \E o \in Objects : t.fd_[o] = m
        BY DEF Good
      <4> QED
        BY <2>2, <4>1
    <3>5. v.ready \subseteq v.epoll /\ \A m \in v.epoll : v.file[m] \notin {NoFile, Other}
      BY <1>t, <2>1, <2>2 DEF Good, Typed
    <3>6. \A m \in Fds, d \in Conns : v.events_[m] = d => v.fd_[d] = m
      <4>1. \A m \in Fds, d \in Conns : t.events_[m] = d => t.fd_[d] = m
        BY DEF Good
      <4> QED
        BY <2>1, <2>3, <4>1
    <3>7. v.fd_[Acceptor] \notin Fds /\ cs \subseteq Conns
      BY <2>2, ConstantsAre DEF Good
    <3>8. \A m \in v.epoll : v.events_[m] # Acceptor
      BY <2>1 DEF Good
    <3> QED
      BY <2>1, <3>1, <3>2, <3>3, <3>4, <3>5, <3>6, <3>7, <3>8 DEF Good
  <2>5. ASSUME Heard(t, cs), t.events_[a] # Acceptor PROVE Heard(v, cs)
    <3>1. \A m \in Fds : t.events_[m] # NoObject =>
            t.fd_[t.events_[m]] = m /\ m \in t.epoll /\ t.events_[m] \in Objects
      BY <1>t, <2>5 DEF Heard, Registered, Typed
    <3>2. \A m \in Fds : t.events_[m] # NoObject => t.events_[m] \in Conns
      BY <2>5, <3>1, ConstantsAre
    <3>3. Registered(v)
      BY <2>1, <2>3, <3>1, <3>2 DEF Registered
    <3>4. ASSUME NEW d \in cs PROVE Hears(v, d, FileOf(v, d))
      <4>1. d \in Conns /\ t.fd_[d] \in t.epoll /\ t.events_[t.fd_[d]] = d /\ IsOpen(t, d)
        BY <2>5 DEF Heard, Hears, Good
      <4> QED
        BY <2>1, <2>3, <4>1 DEF Hears, IsOpen
    <3> QED
      BY <3>3, <3>4 DEF Heard
  <2> QED
    BY <1>2, <2>1, <2>2, <2>4, <2>5 DEF AcceptorGone, Unregistered
<1> QED
  BY <1>1, <1>2

\* From t to u, the acceptor has gone from number a to a free one, or to a again.
AcceptorOpened(t, u, a) ==
  /\ u.fd_[Acceptor] # a => t.file[u.fd_[Acceptor]] = NoFile
  /\ \A q \in Objects : q # Acceptor => u.fd_[q] = t.fd_[q]
  /\ \A m \in Fds : u.file[m] = IF m = u.fd_[Acceptor] THEN Listener
                                ELSE IF m = a THEN NoFile ELSE t.file[m]
  /\ \A m \in Fds : m \in t.ready /\ m # a => m \in u.ready
  /\ \A m \in Fds : u.events_[m] = Acceptor =>
       m = u.fd_[Acceptor] \/ t.events_[m] = Acceptor

\* Acceptor::Open: it listens again, on a number that was free or its own.
LEMMA OpenGood ==
  ASSUME NEW t, NEW cs, Good(t, cs), NEW a, a = t.fd_[Acceptor], a \in Fds \/ Free(t) # {},
         NEW u, u = Open(t)
  PROVE  /\ Good(u, cs) /\ u.fd_[Acceptor] \in Fds /\ AcceptorOpened(t, u, a)
         /\ Heard(t, cs) /\ Unregistered(t, a) => Heard(u, cs) /\ Hears(u, Acceptor, Listener)
<1> DEFINE v == Close(t, Acceptor)
           n == Min(Free(v))
<1>1. /\ v = Close(t, Acceptor) /\ n = Min(Free(v))
      /\ u = AddEvent(OpenAs(v, Acceptor, Listener), Acceptor, FALSE)
  BY DEF Open
<1> HIDE DEF v, n
<1>2. /\ Good(v, cs) /\ AcceptorGone(t, v, a)
      /\ Heard(t, cs) /\ Unregistered(t, a) => Heard(v, cs)
  BY <1>1, CloseAcceptorGood
<1>3. Free(v) # {} /\ v.fd_[Acceptor] = NoFd
  BY <1>2 DEF Free, AcceptorGone
<1>4. /\ Acceptor \in Objects /\ FALSE \in BOOLEAN /\ Acceptor \notin Conns
      /\ cs = IF Acceptor = Acceptor THEN cs ELSE cs \cup {Acceptor}
  BY ConstantsAre
<1>5. /\ Good(u, cs) /\ n \in Fds /\ NumberOpened(v, u, Acceptor, Listener, n)
      /\ Heard(v, cs) => Heard(u, cs) /\ Hears(u, Acceptor, Listener)
  BY <1>1, <1>2, <1>3, <1>4, OpenedGood
<1>6. u.fd_[Acceptor] = n
  BY <1>4, <1>5 DEF NumberOpened
<1>7. AcceptorOpened(t, u, a)
  <2>1. v.file[n] = NoFile /\ (n # a => t.file[n] = NoFile)
    BY <1>2, <1>5 DEF NumberOpened, AcceptorGone
  <2>2. \A m \in Fds : m \in t.ready /\ m # a => m \in u.ready
    BY <1>2, <1>5 DEF NumberOpened, AcceptorGone
  <2>3. \A q \in Objects : q # Acceptor => u.fd_[q] = t.fd_[q]
    BY <1>2, <1>5 DEF NumberOpened, AcceptorGone
  <2>4. \A m \in Fds : u.file[m] = IF m = n THEN Listener
                                   ELSE IF m = a THEN NoFile ELSE t.file[m]
    BY <1>2, <1>5 DEF NumberOpened, AcceptorGone
  <2>5. \A m \in Fds : u.events_[m] = Acceptor => m = n \/ t.events_[m] = Acceptor
    BY <1>2, <1>5 DEF NumberOpened, AcceptorGone
  <2> QED
    BY <1>6, <2>1, <2>2, <2>3, <2>4, <2>5 DEF AcceptorOpened
<1> QED
  BY <1>2, <1>5, <1>6, <1>7

LEMMA TwoNumbers == \A x \in Fds : \E n \in Fds : n # x
  BY ServerAssumption

\* The lowest number is one of Fds.
LEMMA LowestFd == Min(Fds) \in Fds
<1>1. Fds \in SUBSET Nat /\ Fds # {}
  BY DescriptorsAssumption, ServerAssumption
<1> QED
  BY <1>1, LeastFd

LEMMA BoundsAre == MaxCalls \in Nat /\ MaxSignals \in Nat /\ MaxQueue \in Nat
  BY ServerAssumption

LEMMA InitIInv == Init => IInv
<1> SUFFICES ASSUME Init PROVE IInv
  OBVIOUS
<1>0. /\ Fds # {} /\ Min(Fds) \in Fds /\ NoFd \notin Fds /\ NoObject \notin Objects
      /\ \A o \in Conns : o \in Objects
      /\ Acceptor \in Objects /\ Acceptor \notin Conns
  BY LowestFd, ConstantsAre
<1> DEFINE n == Min(Fds)
<1>1. /\ \A m \in Fds : table.file[m] = IF m = n THEN Other ELSE NoFile
      /\ \A m \in Fds : table.events_[m] = NoObject
      /\ \A o \in Objects : table.fd_[o] = NoFd
      /\ table.epoll = {} /\ table.ready = {}
  BY <1>0 DEF Init, EmptyTable
<1>2. table \in Tables(Files)
  <2>1. EmptyTable \in Tables(Files)
    BY DEF EmptyTable, Tables
  <2>2. Other \in Files
    BY DEF Files
  <2> HIDE DEF n
  <2>3. n \in Fds /\ table = [EmptyTable EXCEPT !.file[n] = Other]
    BY <1>0 DEF Init, n
  <2> QED
    BY <2>1, <2>2, <2>3 DEF Tables
<1>3. connections_ = {} /\ reopened = FALSE /\ batch = << >> /\ pc = "EpollWait"
  BY DEF Init
<1> HIDE DEF n
<1>4. Good(table, connections_)
  BY <1>0, <1>1, <1>2, <1>3 DEF Good
<1>5. TypeInv
  <2>1. 0 \in 0 .. MaxCalls /\ 0 \in 0 .. MaxSignals
    BY BoundsAre
  <2>2. << >> \in Seq(Reports) /\ << >> \in Seq({"Start"} \cup Conns)
    OBVIOUS
  <2> QED
    BY <2>1, <2>2 DEF Init, TypeInv
<1>6. Waiting = {}
  BY DEF Init, Waiting
<1>7. ~ IsOpen(table, Acceptor)
  BY <1>0, <1>1 DEF IsOpen
<1>8. HeardInv
  BY <1>1, <1>3, <1>7 DEF HeardInv, Heard, Registered, AcceptorHears
<1>9. StartInv
  BY <1>1, <1>3, <1>6 DEF StartInv, n
<1>10. BatchInv /\ UnseenInv
  BY <1>3, <1>6 DEF BatchInv, UnseenInv
<1> QED
  BY <1>4, <1>5, <1>8, <1>9, <1>10 DEF IInv
-----------------------------------------------------------------------------
(* Each step keeps the invariant.                                          *)

\* What is in the batch, one report at a time.
LEMMA BatchTyped ==
  ASSUME TypeInv
  PROVE  \A i \in 1 .. Len(batch) : batch[i].fd \in Fds /\ batch[i].file \in Files
<1>1. \A i \in 1 .. Len(batch) : batch[i] \in Reports
  BY DEF TypeInv
<1> QED
  BY <1>1 DEF Reports

\* The invariant, seen from a connection and from the acceptor.
LEMMA OwnersAre ==
  ASSUME Good(table, connections_)
  PROVE  /\ \A d \in connections_ :
              /\ d \in Conns /\ d \in Objects /\ d # Acceptor
              /\ IsOpen(table, d) /\ table.fd_[d] \in Fds
              /\ table.fd_[d] # table.fd_[Acceptor]
              /\ FileOf(table, d) \in Peers
         /\ \A d \in Conns : IsOpen(table, d) => d \in connections_
         /\ \A d \in Conns : d \notin connections_ => table.fd_[d] = NoFd
         /\ \A c, d \in connections_ : c # d => table.fd_[c] # table.fd_[d]
         /\ IsOpen(table, Acceptor) =>
              table.fd_[Acceptor] \in Fds /\ FileOf(table, Acceptor) = Listener
<1>1. \A o \in Objects : IsOpen(table, o) <=> table.fd_[o] \in Fds
  BY TablesTyped DEF Good
<1>2. Typed(table)
  BY TablesTyped DEF Good
<1>3. \A d \in connections_ : d \in Conns /\ d \in Objects /\ d # Acceptor
  BY ConstantsAre DEF Good
<1>4. \A d \in connections_ : table.fd_[d] \in Fds /\ table.file[table.fd_[d]] \in Peers
  BY <1>3 DEF Good
<1>5. \A o, q \in Objects : table.fd_[o] \in Fds /\ o # q => table.fd_[o] # table.fd_[q]
  BY DEF Good
<1>6. \A d \in Conns : d \in connections_ <=> table.fd_[d] \in Fds
  BY DEF Good
<1> QED
  BY <1>1, <1>2, <1>3, <1>4, <1>5, <1>6, ConstantsAre DEF FileOf, Typed, Good

\* Everybody hears, unless the acceptor was opened twice.
LEMMA HearersAre ==
  ASSUME IInv, ~ reopened
  PROVE  /\ \A n \in Fds : table.events_[n] # NoObject =>
              table.fd_[table.events_[n]] = n /\ n \in table.epoll
         /\ \A d \in connections_ :
              table.fd_[d] \in table.epoll /\ table.events_[table.fd_[d]] = d
         /\ ~ stopped /\ IsOpen(table, Acceptor) =>
              /\ Hears(table, Acceptor, Listener)
              /\ table.file[table.fd_[Acceptor]] = Listener
              /\ table.fd_[Acceptor] \in table.epoll
              /\ table.events_[table.fd_[Acceptor]] = Acceptor
  BY DEF IInv, HeardInv, Heard, Registered, AcceptorHears, Hears, FileOf

\* What TcpConnection::OnClose of an open connection c does to the server.
LEMMA CloseStep ==
  ASSUME IInv, NEW c \in connections_, OnClose(c), UNCHANGED <<stopped, reopened>>,
         unread' \subseteq unread
  PROVE  /\ Good(table', connections_') /\ HeardInv' /\ StartInv'
         /\ Waiting' \subseteq Waiting
         /\ peer' \in [Peers -> {"out", "waiting", "open", "dropped", "closed"}]
         /\ sock' \in [Peers -> {"up", "fin", "reset"}]
         /\ \A p \in Peers : HasInput(p)' => HasInput(p)
         /\ \A p \in Waiting : peer'[p] # "dropped"
         /\ connections_' = connections_ \ {c}
         /\ \A n \in Fds : n # table.fd_[c] => table'.file[n] = table.file[n]
         /\ table'.ready = table.ready \ {table.fd_[c]}
         /\ table'.fd_[Acceptor] = table.fd_[Acceptor]
         /\ \A n \in Fds : table'.events_[n] = Acceptor => table.events_[n] = Acceptor
         /\ \A d \in Conns : table'.fd_[d] = IF d = c THEN NoFd ELSE table.fd_[d]
         /\ \A d \in connections_' : FileOf(table', d) = FileOf(table, d)
<1>0. Good(table, connections_) /\ HeardInv /\ StartInv
  BY DEF IInv
<1>1. table' = Closed(table, c) /\ connections_' = connections_ \ {c}
  BY DEF OnClose
<1>2. /\ Good(table', connections_ \ {c}) /\ table.fd_[c] \in Fds
      /\ \A n \in Fds : table'.file[n] = IF n = table.fd_[c] THEN NoFile ELSE table.file[n]
      /\ \A o \in Objects : table'.fd_[o] = IF o = c THEN NoFd ELSE table.fd_[o]
      /\ table'.ready = table.ready \ {table.fd_[c]}
      /\ \A n \in Fds : table'.events_[n] = Acceptor => table.events_[n] = Acceptor
      /\ Heard(table, connections_) => Heard(table', connections_ \ {c})
      /\ Hears(table, Acceptor, Listener) => Hears(table', Acceptor, Listener)
  BY <1>0, <1>1, CloseGood
<1>o. /\ \A d \in connections_ :
              /\ d \in Conns /\ d \in Objects /\ d # Acceptor
              /\ IsOpen(table, d) /\ table.fd_[d] \in Fds
              /\ table.fd_[d] # table.fd_[Acceptor]
              /\ FileOf(table, d) \in Peers
      /\ \A p, d \in connections_ : p # d => table.fd_[p] # table.fd_[d]
  BY <1>0, OwnersAre
<1>3. /\ table'.fd_[Acceptor] = table.fd_[Acceptor]
      /\ \A d \in Conns : table'.fd_[d] = IF d = c THEN NoFd ELSE table.fd_[d]
  BY <1>2, <1>o, ConstantsAre
<1>4. HeardInv'
  <2>1. CASE reopened
    BY <2>1 DEF HeardInv
  <2>2. CASE ~ reopened
    <3>1. Heard(table, connections_) /\ AcceptorHears
      BY <1>0, <2>2 DEF HeardInv
    <3>2. Heard(table', connections_')
      BY <1>1, <1>2, <3>1
    <3>3. AcceptorHears'
      BY <1>2, <1>3, <3>1 DEF AcceptorHears, IsOpen
    <3> QED
      BY <3>2, <3>3 DEF HeardInv
  <2> QED
    BY <2>1, <2>2
<1>5. StartInv'
  <2>1. IsOpen(table, Acceptor)
    BY <1>0 DEF StartInv
  <2> QED
    BY <1>3, <2>1 DEF StartInv, IsOpen
<1>6. /\ peer \in [Peers -> {"out", "waiting", "open", "dropped", "closed"}]
      /\ sock \in [Peers -> {"up", "fin", "reset"}]
  BY DEF IInv, TypeInv
<1> DEFINE g == {FileOf(table, c)}
<1>7. /\ peer' = [p \in Peers |-> IF p \in g THEN "closed" ELSE peer[p]]
      /\ sock' = [p \in Peers |-> IF p \in g THEN "up" ELSE sock[p]]
  BY DEF OnClose, Gone
<1> HIDE DEF g
<1>8. /\ peer' \in [Peers -> {"out", "waiting", "open", "dropped", "closed"}]
      /\ sock' \in [Peers -> {"up", "fin", "reset"}]
  BY <1>6, <1>7
<1>9. /\ Waiting' \subseteq Waiting
      /\ \A p \in Waiting : peer'[p] # "dropped"
      /\ \A p \in Peers : HasInput(p)' => HasInput(p)
  BY <1>7 DEF Waiting, HasInput
<1>10. \A d \in connections_' : FileOf(table', d) = FileOf(table, d)
  BY <1>1, <1>2, <1>o DEF FileOf
<1> QED
  BY <1>1, <1>2, <1>3, <1>4, <1>5, <1>8, <1>9, <1>10

\* What peers and other threads do leaves the loop's own state alone.
LEMMA PeerStep ==
  ASSUME IInv, NEW p \in Peers,
         PeerConnects(p) \/ PeerSends(p) \/ PeerEnds(p, "fin") \/ PeerEnds(p, "reset")
  PROVE  IInv'
<1> DEFINE f == IF PeerConnects(p) THEN Listener ELSE p
<1>0. /\ Good(table, connections_) /\ HeardInv /\ StartInv /\ BatchInv /\ UnseenInv /\ TypeInv
  BY DEF IInv
<1>1. /\ table' = EdgeOf(table, f) /\ pc # "Exited"
      /\ UNCHANGED <<connections_, batch, functions_, pc, cur, calls, stopped, reopened, crossed>>
  BY DEF PeerConnects, PeerSends, PeerEnds, Signal, history, Runs
<1> HIDE DEF f
<1>2. /\ Good(table', connections_')
      /\ table'.file = table.file /\ table'.fd_ = table.fd_ /\ table'.epoll = table.epoll
      /\ table'.events_ = table.events_
      /\ table'.ready = table.ready \cup {n \in table.epoll : table.file[n] = f}
      /\ Heard(table, connections_) => Heard(table', connections_')
      /\ Hears(table, Acceptor, Listener) => Hears(table', Acceptor, Listener)
  BY <1>0, <1>1, EdgeGood
<1>3. TypeInv'
  <2>1. /\ peer' \in [Peers -> {"out", "waiting", "open", "dropped", "closed"}]
        /\ sock' \in [Peers -> {"up", "fin", "reset"}] /\ unread' \subseteq Peers
    <3> USE <1>0 DEF TypeInv
    <3>1. CASE PeerConnects(p)
      BY <3>1 DEF PeerConnects
    <3>2. CASE PeerSends(p)
      BY <3>2 DEF PeerSends, Signal
    <3>3. CASE PeerEnds(p, "fin")
      BY <3>3 DEF PeerEnds, Signal
    <3>4. CASE PeerEnds(p, "reset")
      BY <3>4 DEF PeerEnds, Signal
    <3> QED
      BY <3>1, <3>2, <3>3, <3>4
  <2>2. signals' \in 0 .. MaxSignals
    BY <1>0, BoundsAre DEF PeerConnects, PeerSends, PeerEnds, Signal, TypeInv, history
  <2> QED
    BY <1>0, <1>1, <2>1, <2>2 DEF TypeInv
<1>4. HeardInv'
  BY <1>0, <1>1, <1>2 DEF HeardInv, AcceptorHears, IsOpen
<1>5. \/ PeerConnects(p) /\ IsOpen(table, Acceptor) /\ f = Listener
         /\ UNCHANGED <<sock, unread>>
      \/ f = p /\ UNCHANGED peer /\ (\A q \in Peers : HasInput(q)' => q = p \/ HasInput(q))
  <2>1. CASE PeerConnects(p)
    BY <2>1 DEF PeerConnects, f
  <2>2. CASE ~ PeerConnects(p)
    BY <1>0, <2>2 DEF PeerSends, PeerEnds, Signal, TypeInv, f, HasInput
  <2> QED
    BY <2>1, <2>2
<1>6. StartInv'
  BY <1>0, <1>1, <1>2, <1>5 DEF StartInv, IsOpen, Waiting
<1>7. BatchInv'
  BY <1>0, <1>1, <1>2 DEF BatchInv
<1>8. UnseenInv'
  <2>1. Waiting' # {} => stopped' \/ reopened' \/ pc' = "Accept" \/ Reported(table.fd_[Acceptor])'
    <3>1. CASE f = Listener /\ IsOpen(table, Acceptor) /\ ~ reopened /\ ~ stopped
      <4>1. table.fd_[Acceptor] \in table.epoll /\ table.file[table.fd_[Acceptor]] = Listener
        BY <3>1, HearersAre
      <4> QED
        BY <1>2, <3>1, <4>1 DEF Reported
    <3>2. CASE reopened \/ stopped
      BY <1>1, <3>2
    <3>3. CASE UNCHANGED peer
      BY <1>0, <1>1, <1>2, <3>3 DEF Waiting, UnseenInv, Reported
    <3> QED
      BY <1>5, <3>1, <3>2, <3>3
  <2>2. ASSUME NEW d \in connections_, HasInput(FileOf(table, d))', ~ reopened
        PROVE  (pc = "Read" /\ cur = d) \/ Reported(table.fd_[d])'
    <3>1. FileOf(table, d) \in Peers /\ FileOf(table, d)' = FileOf(table, d)
      BY <1>0, <1>2, OwnersAre DEF FileOf
    <3>2. CASE HasInput(FileOf(table, d))
      BY <1>0, <1>1, <1>2, <2>2, <3>2 DEF UnseenInv, Reported
    <3>3. CASE f = FileOf(table, d)
      <4>1. table.fd_[d] \in table.epoll
        BY <2>2, HearersAre
      <4> QED
        BY <1>2, <3>3, <4>1 DEF Reported, FileOf
    <3>4. HasInput(FileOf(table, d)) \/ f = FileOf(table, d)
      BY <1>5, <2>2, <3>1 DEF HasInput
    <3> QED
      BY <3>2, <3>3, <3>4
  <2> QED
    BY <1>1, <1>2, <2>1, <2>2 DEF UnseenInv
<1> QED
  BY <1>2, <1>3, <1>4, <1>6, <1>7, <1>8 DEF IInv

LEMMA OtherClosesStep == IInv /\ OtherCloses => IInv'
<1> SUFFICES ASSUME IInv, OtherCloses PROVE IInv'
  OBVIOUS
<1>0. /\ Good(table, connections_) /\ HeardInv /\ StartInv /\ BatchInv /\ UnseenInv /\ TypeInv
  BY DEF IInv
<1>1. PICK n \in Fds : table.file[n] = Other /\ table' = CloseNumber(table, n)
  BY DEF OtherCloses
<1>u. UNCHANGED <<connections_, peer, sock, unread, batch, functions_, pc, cur, calls, signals,
                  stopped, reopened, crossed>>
  BY DEF OtherCloses, peerVars, history
<1>2. /\ Good(table', connections_')
      /\ table'.fd_ = table.fd_ /\ table'.ready = table.ready /\ table'.events_ = table.events_
      /\ \A m \in Fds : table'.file[m] = IF m = n THEN NoFile ELSE table.file[m]
      /\ \A o \in Objects : table.fd_[o] # n
      /\ Heard(table, connections_) => Heard(table', connections_')
      /\ Hears(table, Acceptor, Listener) => Hears(table', Acceptor, Listener)
  BY <1>0, <1>1, <1>u, OtherGood
<1>3. TypeInv'
  BY <1>0, <1>u DEF TypeInv
<1>4. HeardInv'
  BY <1>0, <1>u, <1>2 DEF HeardInv, AcceptorHears, IsOpen
<1>5. StartInv'
  BY <1>0, <1>u, <1>2 DEF StartInv, IsOpen, Waiting
<1>6. BatchInv'
  <2>1. \A i \in 1 .. Len(batch) : batch[i].fd \in Fds
    BY <1>0, BatchTyped
  <2>2. crossed \/ \A i \in 1 .. Len(batch) :
          table'.file[batch[i].fd] = batch[i].file /\ batch[i].file # Other
    BY <1>0, <1>1, <1>2, <2>1 DEF BatchInv
  <2> QED
    BY <1>0, <1>u, <1>2, <2>2 DEF BatchInv
<1>7. UnseenInv'
  <2>1. \A d \in connections_ : FileOf(table, d)' = FileOf(table, d)
    BY <1>0, <1>2, OwnersAre DEF FileOf
  <2> QED
    BY <1>0, <1>u, <1>2, <2>1 DEF UnseenInv, Reported, Waiting, HasInput
<1> QED
  BY <1>2, <1>3, <1>4, <1>5, <1>6, <1>7 DEF IInv

LEMMA QueueStep ==
  ASSUME IInv, NEW f \in {"Start"} \cup Conns, Queue(f)
  PROVE  IInv'
<1>1. UNCHANGED <<table, connections_, peer, sock, unread, batch, pc, cur, signals, stopped,
                  reopened, crossed>>
  BY DEF Queue, peerVars
<1>2. functions_' \in Seq({"Start"} \cup Conns) /\ calls' \in 0 .. MaxCalls
  BY BoundsAre DEF IInv, TypeInv, Queue
<1>3. TypeInv'
  BY <1>1, <1>2 DEF IInv, TypeInv
<1>4. HeardInv' /\ StartInv' /\ BatchInv' /\ UnseenInv'
  BY <1>1 DEF IInv, HeardInv, StartInv, BatchInv, UnseenInv, AcceptorHears, Reported,
              Waiting, HasInput
<1> QED
  BY <1>1, <1>3, <1>4 DEF IInv

LEMMA EpollReturnsStep == IInv /\ EpollReturns => IInv'
<1> SUFFICES ASSUME IInv, EpollReturns PROVE IInv'
  OBVIOUS
<1>0. /\ Good(table, connections_) /\ HeardInv /\ StartInv /\ BatchInv /\ UnseenInv /\ TypeInv
  BY DEF IInv
<1> DEFINE ready == {n \in table.ready : IF table.file[n] \in Peers
                                         THEN HasInput(table.file[n]) ELSE Waiting # {}}
           S == {Report(n) : n \in ready}
<1>1. /\ pc = "EpollWait" /\ batch' \in SetToSeqs(S)
      /\ table' = [table EXCEPT !.ready = {}]
      /\ pc' = IF batch' = << >> THEN AfterEvents(functions_) ELSE "Dispatch"
      /\ crossed' = FALSE
      /\ UNCHANGED <<connections_, peer, sock, unread, functions_, cur, calls, signals, stopped,
                     reopened>>
  BY DEF EpollReturns, peerVars, history
<1>t. Typed(table) /\ table.ready \subseteq table.epoll
      /\ \A n \in table.epoll : table.file[n] \notin {NoFile, Other}
  BY <1>0, TablesTyped DEF Good
<1>r. \A n \in ready : n \in table.ready /\ n \in Fds
  BY <1>t DEF Typed
<1> HIDE DEF ready
<1>2. \A n \in ready : /\ Report(n).fd = n /\ Report(n).file = table.file[n]
                       /\ Report(n) \in Reports
                       /\ table.file[n] # Other
                       /\ Report(n).handler = "OnError" => table.file[n] \in Peers
  <2> SUFFICES ASSUME NEW n \in ready
               PROVE  /\ Report(n).fd = n /\ Report(n).file = table.file[n]
                      /\ Report(n) \in Reports
                      /\ table.file[n] # Other
                      /\ Report(n).handler = "OnError" => table.file[n] \in Peers
    OBVIOUS
  <2>1. n \in Fds /\ table.file[n] \in Files /\ table.file[n] # Other
    BY <1>t, <1>r DEF Typed
  <2> QED
    BY <2>1 DEF Report, Reports
<1>3. IsFiniteSet(S)
  <2> DEFINE g == [n \in ready |-> Report(n)]
  <2>1. IsFiniteSet(ready)
    <3>1. ready \subseteq Fds /\ IsFiniteSet(Fds)
      BY <1>r, DescriptorsAssumption
    <3> QED
      BY <3>1, FS_Subset
  <2>2. g \in Surjection(ready, S)
    BY DEF Surjection
  <2> QED
    BY <2>1, <2>2, FS_Surjection
<1>4. /\ batch' \in Seq(S)
      /\ \A i, j \in 1 .. Len(batch') : i # j => batch'[i] # batch'[j]
      /\ \A x \in S : \E i \in 1 .. Len(batch') : batch'[i] = x
  BY SMTT(30), <1>1, <1>3, SeqsOfSet
<1>5. \A i \in 1 .. Len(batch') : \E n \in ready : batch'[i] = Report(n)
  <2>1. \A i \in 1 .. Len(batch') : batch'[i] \in S
    BY <1>4
  <2> QED
    BY <2>1
<1>6. /\ \A i \in 1 .. Len(batch') :
           /\ batch'[i].fd \in ready /\ batch'[i].file = table.file[batch'[i].fd]
           /\ batch'[i].file # Other
           /\ batch'[i].handler = "OnRead" \/ batch'[i].file \in Peers
      /\ \A i, j \in 1 .. Len(batch') : i # j => batch'[i].fd # batch'[j].fd
      /\ \A n \in ready : \E i \in 1 .. Len(batch') : batch'[i].fd = n
  <2>1. \A i \in 1 .. Len(batch') : batch'[i].fd \in ready /\ batch'[i] = Report(batch'[i].fd)
    BY <1>2, <1>5
  <2>2. \A i \in 1 .. Len(batch') :
           /\ batch'[i].fd \in ready /\ batch'[i].file = table.file[batch'[i].fd]
           /\ batch'[i].file # Other
           /\ batch'[i].handler = "OnRead" \/ batch'[i].file \in Peers
    <3> SUFFICES ASSUME NEW i \in 1 .. Len(batch'), NEW n \in ready,
                        n = batch'[i].fd, batch'[i] = Report(n)
                 PROVE  /\ batch'[i].file = table.file[n] /\ batch'[i].file # Other
                        /\ batch'[i].handler = "OnRead" \/ batch'[i].file \in Peers
      BY <2>1
    <3>1. Report(n).handler \in {"OnRead", "OnError"}
      BY <1>2 DEF Reports
    <3> QED
      BY <1>2, <3>1
  <2>3. \A i, j \in 1 .. Len(batch') : i # j => batch'[i].fd # batch'[j].fd
    BY <1>4, <2>1
  <2>4. \A n \in ready : \E i \in 1 .. Len(batch') : batch'[i].fd = n
    <3> SUFFICES ASSUME NEW n \in ready PROVE \E i \in 1 .. Len(batch') : batch'[i].fd = n
      OBVIOUS
    <3>1. Report(n) \in S
      OBVIOUS
    <3> QED
      BY <1>2, <1>4, <3>1
  <2> QED
    BY <2>2, <2>3, <2>4
<1>7. batch' \in Seq(Reports)
  <2>1. S \subseteq Reports
    BY <1>2
  <2> QED
    BY <1>4, <2>1
<1> HIDE DEF S
<1>8. /\ table' \in Tables(Files) /\ table'.file = table.file /\ table'.fd_ = table.fd_
      /\ table'.epoll = table.epoll /\ table'.events_ = table.events_ /\ table'.ready = {}
  <2>1. table \in Tables(Files)
    BY <1>0 DEF Good
  <2> QED
    BY <1>1, <2>1 DEF Tables
<1>9. TypeInv'
  <2>1. pc' \in {"Dispatch", "RunFuctions", "OnTimer"}
    BY <1>1 DEF AfterEvents
  <2> QED
    BY <1>0, <1>1, <1>7, <2>1 DEF TypeInv
<1>10. Good(table', connections_')
  BY <1>0, <1>1, <1>8 DEF Good
<1>11. HeardInv'
  BY <1>0, <1>1, <1>8 DEF HeardInv, AcceptorHears, Heard, Registered, Hears, IsOpen, FileOf
<1>12. StartInv'
  BY <1>0, <1>1, <1>8 DEF StartInv, IsOpen, Waiting
<1>13. BatchInv'
  <2>1. pc' \notin {"Dispatch", "Accept", "Read"} => batch' = << >>
    BY <1>1
  <2>2. \A i \in 1 .. Len(batch') : table'.events_[batch'[i].fd] = Acceptor =>
          table'.fd_[Acceptor] = batch'[i].fd
    <3>1. \A n \in table.epoll : table.events_[n] = Acceptor => table.fd_[Acceptor] = n
      BY <1>0 DEF Good
    <3> QED
      BY <1>6, <1>8, <1>r, <1>t, <3>1
  <2>3. \A i \in 1 .. Len(batch') :
          table'.file[batch'[i].fd] = batch'[i].file /\ batch'[i].file # Other
    BY <1>6, <1>8
  <2>4. pc' \notin {"Accept", "Read"}
    BY <1>1 DEF AfterEvents
  <2> QED
    BY <1>6, <2>1, <2>2, <2>3, <2>4 DEF BatchInv
<1>14. UnseenInv'
  <2>1. batch = << >>
    BY <1>0, <1>1 DEF BatchInv
  <2>2. \A n : Reported(n) => n \in table.ready
    BY <2>1 DEF Reported
  <2>3. Waiting' = Waiting
    BY <1>1 DEF Waiting
  <2>4. ASSUME Waiting # {}, ~ stopped, ~ reopened PROVE Reported(table.fd_[Acceptor])'
    <3>1. Reported(table.fd_[Acceptor])
      BY <1>0, <1>1, <2>4 DEF UnseenInv
    <3>2. table.fd_[Acceptor] \in table.ready
      BY <2>1, <3>1 DEF Reported
    <3>3. table.file[table.fd_[Acceptor]] = Listener
      BY <1>0, <1>t, <3>2 DEF Good, Typed
    <3>4. table.fd_[Acceptor] \in ready
      BY <2>4, <3>2, <3>3, ConstantsAre DEF ready
    <3> QED
      BY <1>6, <1>8, <3>4 DEF Reported
  <2>5. ASSUME NEW d \in connections_, HasInput(FileOf(table, d)), ~ reopened
        PROVE  Reported(table.fd_[d])'
    <3>1. Reported(table.fd_[d])
      BY <1>0, <1>1, <2>5 DEF UnseenInv
    <3>2. table.fd_[d] \in table.ready
      BY <2>1, <3>1 DEF Reported
    <3>3. FileOf(table, d) \in Peers
      BY <1>0, OwnersAre
    <3>4. table.fd_[d] \in ready
      BY <2>5, <3>2, <3>3 DEF ready, FileOf
    <3> QED
      BY <1>6, <1>8, <3>4 DEF Reported
  <2>6. \A d \in connections_ : HasInput(FileOf(table, d))' <=> HasInput(FileOf(table, d))
    BY <1>1, <1>8 DEF HasInput, FileOf
  <2> QED
    BY <1>1, <1>8, <2>3, <2>4, <2>5, <2>6 DEF UnseenInv
<1> QED
  BY <1>9, <1>10, <1>11, <1>12, <1>13, <1>14 DEF IInv

\* A step that only moves the loop, with nothing left to dispatch or accept.
LEMMA MoveStep ==
  ASSUME IInv, batch = << >>, UNCHANGED <<table, connections_, peerVars, batch, functions_, cur, history, crossed>>,
         pc' \in {"EpollWait", "RunFuctions", "OnTimer"}, pc \notin {"Accept", "Read", "Exited"}
  PROVE  IInv'
<1>1. UNCHANGED <<table, connections_, peer, sock, unread, batch, functions_, cur, calls, signals,
                  stopped, reopened, crossed>>
  BY DEF peerVars, history
<1>2. TypeInv'
  BY <1>1 DEF IInv, TypeInv
<1>3. HeardInv' /\ StartInv' /\ BatchInv'
  BY <1>1 DEF IInv, HeardInv, StartInv, BatchInv, AcceptorHears, Waiting
<1>4. UnseenInv'
  BY <1>1 DEF IInv, UnseenInv, Reported, Waiting, HasInput
<1> QED
  BY <1>1, <1>2, <1>3, <1>4 DEF IInv

LEMMA MovesStep == IInv /\ (DispatchEnds \/ OnTimerEnds) => IInv'
<1> SUFFICES ASSUME IInv, DispatchEnds \/ OnTimerEnds PROVE IInv'
  OBVIOUS
<1>1. CASE DispatchEnds
  BY <1>1, MoveStep DEF DispatchEnds, AfterEvents
<1>2. CASE OnTimerEnds
  BY <1>2, MoveStep DEF OnTimerEnds, IInv, BatchInv
<1> QED
  BY <1>1, <1>2

\* The head of the batch is gone: the rest was in the batch.
LEMMA TailOfBatch ==
  ASSUME TypeInv, batch # << >>, batch' = Tail(batch)
  PROVE  /\ batch' \in Seq(Reports) /\ Head(batch) = batch[1] /\ 1 \in 1 .. Len(batch)
         /\ \A i \in 1 .. Len(batch') :
              batch'[i] = batch[i + 1] /\ i + 1 \in 1 .. Len(batch) /\ i + 1 # 1
         /\ \A i, j \in 1 .. Len(batch') : i # j => i + 1 # j + 1
         /\ \A i \in 1 .. Len(batch) : i # 1 =>
              \E j \in 1 .. Len(batch') : batch'[j] = batch[i]
<1>1. batch \in Seq(Reports) /\ Len(batch) \in Nat /\ Len(batch) # 0
  BY DEF TypeInv
<1>2. batch' \in Seq(Reports) /\ Len(batch') = Len(batch) - 1 /\ Head(batch) = batch[1]
  BY <1>1
<1>3. \A i \in 1 .. Len(batch') : batch'[i] = batch[i + 1]
  BY <1>1, <1>2
<1>4. \A i \in 1 .. Len(batch) : i # 1 => i - 1 \in 1 .. Len(batch') /\ (i - 1) + 1 = i
  BY <1>1, <1>2
<1> QED
  BY <1>1, <1>2, <1>3, <1>4

\* A number that was reported for another event than the first still is.
LEMMA StillReported ==
  ASSUME TypeInv, batch # << >>, batch' = Tail(batch), NEW n, Reported(n), n # Head(batch).fd
  PROVE  n \in table.ready \/ \E i \in 1 .. Len(batch') : batch'[i].fd = n
<1>1. CASE n \in table.ready
  BY <1>1
<1>2. CASE \E i \in 1 .. Len(batch) : batch[i].fd = n
  <2>1. PICK i \in 1 .. Len(batch) : batch[i].fd = n
    BY <1>2
  <2>2. /\ Head(batch) = batch[1]
        /\ i # 1 => \E j \in 1 .. Len(batch') : batch'[j] = batch[i]
    BY TailOfBatch
  <2> QED
    BY <2>1, <2>2
<1> QED
  BY <1>1, <1>2 DEF Reported

\* BatchInv of what remains, when the numbers of the rest have not changed.
LEMMA RestOfBatch ==
  ASSUME IInv, pc = "Dispatch", batch # << >>, batch' = Tail(batch), UNCHANGED crossed,
         table'.fd_[Acceptor] = table.fd_[Acceptor],
         \A n \in Fds : n # Head(batch).fd => table'.file[n] = table.file[n],
         \A n \in Fds : table'.events_[n] = Acceptor => table.events_[n] = Acceptor,
         pc' = "Accept" => table.events_[Head(batch).fd] = Acceptor,
         pc' \in {"Dispatch", "Accept"} \/ (pc' = "Read" /\ cur' \in Conns
                                            /\ table'.fd_[cur'] = Head(batch).fd)
  PROVE  BatchInv' /\ batch' \in Seq(Reports)
<1>0. BatchInv /\ TypeInv
  BY DEF IInv
<1>1. /\ batch' \in Seq(Reports) /\ Head(batch) = batch[1] /\ 1 \in 1 .. Len(batch)
      /\ \A i \in 1 .. Len(batch') :
           batch'[i] = batch[i + 1] /\ i + 1 \in 1 .. Len(batch) /\ i + 1 # 1
      /\ \A i, j \in 1 .. Len(batch') : i # j => i + 1 # j + 1
  BY <1>0, TailOfBatch
<1>2. \A i \in 1 .. Len(batch) : batch[i].fd \in Fds
  BY <1>0, BatchTyped
<1>3. \A i, j \in 1 .. Len(batch) : i # j => batch[i].fd # batch[j].fd
  BY <1>0 DEF BatchInv
<1>4. \A i \in 1 .. Len(batch') : batch'[i].fd \in Fds /\ batch'[i].fd # Head(batch).fd
  BY <1>1, <1>2, <1>3
<1>5. \A i, j \in 1 .. Len(batch') : i # j => batch'[i].fd # batch'[j].fd
  BY <1>1, <1>3
<1>e. crossed \/ \A i \in 1 .. Len(batch) :
        table.events_[batch[i].fd] = Acceptor => table.fd_[Acceptor] = batch[i].fd
  BY <1>0 DEF BatchInv
<1>6. crossed' \/ \A i \in 1 .. Len(batch') :
        table'.events_[batch'[i].fd] = Acceptor => table'.fd_[Acceptor] = batch'[i].fd
  BY <1>1, <1>2, <1>e
<1>8. pc' = "Accept" =>
        crossed' \/ \A i \in 1 .. Len(batch') : batch'[i].fd # table'.fd_[Acceptor]
  BY <1>1, <1>4, <1>e
<1>7. crossed' \/ \A i \in 1 .. Len(batch') :
        table'.file[batch'[i].fd] = batch'[i].file /\ batch'[i].file # Other
  <2>1. crossed \/ \A i \in 1 .. Len(batch) :
          table.file[batch[i].fd] = batch[i].file /\ batch[i].file # Other
    BY <1>0 DEF BatchInv
  <2> QED
    BY <1>1, <1>4, <2>1
<1> QED
  BY <1>1, <1>4, <1>5, <1>6, <1>7, <1>8 DEF BatchInv

\* The waiting peers are dropped: what it leaves of the peers.
LEMMA DropWaiting ==
  ASSUME TypeInv, Gone(Waiting, "dropped"), unread' \subseteq unread
  PROVE  /\ peer' \in [Peers -> {"out", "waiting", "open", "dropped", "closed"}]
         /\ sock' \in [Peers -> {"up", "fin", "reset"}] /\ unread' \subseteq Peers
         /\ Waiting' = {} /\ \A q \in Peers : HasInput(q)' => HasInput(q)
<1>1. /\ peer \in [Peers -> {"out", "waiting", "open", "dropped", "closed"}]
      /\ sock \in [Peers -> {"up", "fin", "reset"}] /\ unread \subseteq Peers
  BY DEF TypeInv
<1> DEFINE W == Waiting
<1>2. /\ peer' = [p \in Peers |-> IF p \in W THEN "dropped" ELSE peer[p]]
      /\ sock' = [p \in Peers |-> IF p \in W THEN "up" ELSE sock[p]]
  BY DEF Gone
<1>3. \A p \in Peers : peer[p] = "waiting" => p \in W
  BY DEF Waiting
<1> HIDE DEF W
<1> QED
  BY <1>1, <1>2, <1>3 DEF Waiting, HasInput

\* What the acceptor's new socket leaves to the connections.
LEMMA OthersKept ==
  ASSUME Good(table, connections_), NEW t, t.fd_ = table.fd_, t.file = table.file,
         \A m \in Fds : m # table.fd_[Acceptor] /\ m \in table.ready => m \in t.ready,
         NEW a, a = table.fd_[Acceptor], NEW u, AcceptorOpened(t, u, a)
  PROVE  \A d \in connections_ : /\ u.fd_[d] = table.fd_[d]
                                 /\ FileOf(u, d) = FileOf(table, d) /\ FileOf(table, d) \in Peers
                                 /\ table.fd_[d] \in table.ready => table.fd_[d] \in u.ready
<1> SUFFICES ASSUME NEW d \in connections_
             PROVE  /\ u.fd_[d] = table.fd_[d]
                    /\ FileOf(u, d) = FileOf(table, d) /\ FileOf(table, d) \in Peers
                    /\ table.fd_[d] \in table.ready => table.fd_[d] \in u.ready
  OBVIOUS
<1>1. /\ d \in Objects /\ d # Acceptor /\ table.fd_[d] \in Fds /\ table.fd_[d] # a
      /\ FileOf(table, d) \in Peers
  BY OwnersAre
<1>2. u.fd_[d] = table.fd_[d]
  BY <1>1 DEF AcceptorOpened
<1>3. table.fd_[d] # u.fd_[Acceptor]
  BY <1>1, ConstantsAre DEF AcceptorOpened, FileOf
<1>4. u.file[table.fd_[d]] = table.file[table.fd_[d]]
  BY <1>1, <1>3 DEF AcceptorOpened
<1>5. table.fd_[d] \in table.ready => table.fd_[d] \in u.ready
  BY <1>1 DEF AcceptorOpened
<1> QED
  BY <1>1, <1>2, <1>4, <1>5 DEF FileOf

\* Acceptor::Open of table t, which is the server's or what Stop makes of it.
LEMMA OpenKeeps ==
  ASSUME IInv, NEW t, Good(t, connections_), t.fd_ = table.fd_, t.file = table.file,
         \A m \in Fds : m # table.fd_[Acceptor] /\ m \in table.ready => m \in t.ready,
         table' = Open(t), Gone(Waiting, "dropped"), unread' \subseteq unread,
         UNCHANGED connections_, NEW a, a = table.fd_[Acceptor]
  PROVE  /\ Good(table', connections_') /\ StartInv'
         /\ AcceptorOpened(t, table', a)
         /\ Heard(t, connections_) /\ Unregistered(t, a) =>
              Heard(table', connections_') /\ Hears(table', Acceptor, Listener)
         /\ peer' \in [Peers -> {"out", "waiting", "open", "dropped", "closed"}]
         /\ sock' \in [Peers -> {"up", "fin", "reset"}] /\ unread' \subseteq Peers
         /\ Waiting' = {}
         /\ \A d \in connections_' :
              /\ table'.fd_[d] = table.fd_[d]
              /\ table.fd_[d] \in table.ready => table.fd_[d] \in table'.ready
              /\ HasInput(FileOf(table, d))' => HasInput(FileOf(table, d))
<1>0. Good(table, connections_) /\ StartInv /\ TypeInv
  BY DEF IInv
<1>1. a \in Fds \/ Free(t) # {}
  <2>1. CASE IsOpen(table, Acceptor)
    BY <1>0, <2>1, OwnersAre
  <2>2. CASE ~ IsOpen(table, Acceptor)
    <3>1. \A n \in Fds : n # Min(Fds) => table.file[n] = NoFile
      BY <1>0, <2>2 DEF StartInv
    <3>2. PICK n \in Fds : n # Min(Fds)
      BY LowestFd, TwoNumbers
    <3> QED
      BY <3>1, <3>2 DEF Free
  <2> QED
    BY <2>1, <2>2
<1>2. a = t.fd_[Acceptor]
  OBVIOUS
<1>3. /\ Good(table', connections_) /\ table'.fd_[Acceptor] \in Fds
      /\ AcceptorOpened(t, table', a)
      /\ Heard(t, connections_) /\ Unregistered(t, a) =>
           Heard(table', connections_) /\ Hears(table', Acceptor, Listener)
  BY <1>1, <1>2, OpenGood
<1>4. /\ peer' \in [Peers -> {"out", "waiting", "open", "dropped", "closed"}]
      /\ sock' \in [Peers -> {"up", "fin", "reset"}] /\ unread' \subseteq Peers
      /\ Waiting' = {} /\ \A q \in Peers : HasInput(q)' => HasInput(q)
  BY <1>0, DropWaiting
<1>5. StartInv'
  BY <1>3, ConstantsAre DEF StartInv, IsOpen
<1>6. \A d \in connections_ :
        /\ table'.fd_[d] = table.fd_[d]
        /\ FileOf(table', d) = FileOf(table, d) /\ FileOf(table, d) \in Peers
        /\ table.fd_[d] \in table.ready => table.fd_[d] \in table'.ready
  BY <1>0, <1>3, OthersKept
<1>7. \A d \in connections_ : HasInput(FileOf(table, d))' => HasInput(FileOf(table, d))
  BY <1>4, <1>6 DEF HasInput
<1> QED
  BY <1>3, <1>4, <1>5, <1>6, <1>7

\* TcpServer::Start, of a server in any state.
LEMMA StartKeeps ==
  ASSUME IInv, Start, unread' \subseteq unread
  PROVE  /\ Good(table', connections_') /\ StartInv' /\ HeardInv' /\ Waiting' = {}
         /\ UNCHANGED connections_ /\ stopped' = FALSE
         /\ reopened' \in BOOLEAN /\ (reopened => reopened')
         /\ peer' \in [Peers -> {"out", "waiting", "open", "dropped", "closed"}]
         /\ sock' \in [Peers -> {"up", "fin", "reset"}] /\ unread' \subseteq Peers
         /\ \A d \in connections_' :
              /\ table'.fd_[d] = table.fd_[d]
              /\ table.fd_[d] \in table.ready => table.fd_[d] \in table'.ready
              /\ HasInput(FileOf(table, d))' => HasInput(FileOf(table, d))
<1> DEFINE a == table.fd_[Acceptor]
           t == table
<1>0. Good(table, connections_) /\ HeardInv /\ TypeInv
  BY DEF IInv
<1>1. /\ table' = Open(table) /\ Gone(Waiting, "dropped") /\ stopped' = FALSE
      /\ reopened' = (reopened \/ Hears(table, Acceptor, Listener)) /\ UNCHANGED connections_
  BY DEF Start
<1>2. a = table.fd_[Acceptor] /\ t = table
  OBVIOUS
<1> HIDE DEF a, t
<1>3. /\ Good(t, connections_) /\ t.fd_ = table.fd_ /\ t.file = table.file
      /\ \A m \in Fds : m # table.fd_[Acceptor] /\ m \in table.ready => m \in t.ready
      /\ table' = Open(t)
  BY <1>0, <1>1, <1>2
<1>4. /\ Good(table', connections_') /\ StartInv'
      /\ Heard(t, connections_) /\ Unregistered(t, a) =>
           Heard(table', connections_') /\ Hears(table', Acceptor, Listener)
      /\ peer' \in [Peers -> {"out", "waiting", "open", "dropped", "closed"}]
      /\ sock' \in [Peers -> {"up", "fin", "reset"}] /\ unread' \subseteq Peers
      /\ Waiting' = {}
      /\ \A d \in connections_' :
           /\ table'.fd_[d] = table.fd_[d]
           /\ table.fd_[d] \in table.ready => table.fd_[d] \in table'.ready
           /\ HasInput(FileOf(table, d))' => HasInput(FileOf(table, d))
  BY <1>1, <1>2, <1>3, OpenKeeps
<1>5. reopened' \in BOOLEAN /\ (reopened => reopened')
      /\ (Hears(table, Acceptor, Listener) => reopened')
  <2>1. reopened \in BOOLEAN
    BY <1>0 DEF TypeInv
  <2> DEFINE heard == Hears(table, Acceptor, Listener)
  <2>2. heard \in BOOLEAN
    BY DEF Hears
  <2> HIDE DEF heard
  <2>3. reopened' = (reopened \/ heard)
    BY <1>1 DEF heard
  <2>4. reopened' \in BOOLEAN /\ (reopened => reopened') /\ (heard => reopened')
    BY <2>1, <2>2, <2>3
  <2> QED
    BY <2>4 DEF heard
<1>6. HeardInv'
  <2> SUFFICES ASSUME ~ reopened' PROVE Heard(table', connections_') /\ AcceptorHears'
    BY DEF HeardInv
  <2>1. Heard(table, connections_) /\ ~ Hears(table, Acceptor, Listener)
    BY <1>0, <1>5 DEF HeardInv
  <2>2. Unregistered(table, a)
    <3> SUFFICES ASSUME a \in Fds, table.events_[a] = Acceptor PROVE FALSE
      BY DEF Unregistered
    <3>1. a \in table.epoll
      BY <2>1, ConstantsAre DEF Heard, Registered
    <3>2. table.file[a] = Listener
      BY <1>0, <1>2 DEF Good
    <3> QED
      BY <1>2, <2>1, <3>1, <3>2, ConstantsAre DEF Hears, IsOpen, FileOf
  <2> QED
    BY <1>2, <1>4, <2>1, <2>2 DEF AcceptorHears
<1> QED
  BY <1>1, <1>4, <1>5, <1>6

\* Acceptor::OnClose, where the numbers in rest, a part of the batch, are
\* still to be dispatched and none of them is the acceptor's.
LEMMA AcceptorOnCloseKeeps ==
  ASSUME IInv, AcceptorOnClose,
         NEW rest, rest \subseteq 1 .. Len(batch),
         crossed \/ \A i \in rest : batch[i].fd # table.fd_[Acceptor]
  PROVE  /\ Good(table', connections_') /\ StartInv' /\ HeardInv'
         /\ UNCHANGED <<connections_, reopened, crossed>> /\ stopped' = FALSE
         /\ peer' \in [Peers -> {"out", "waiting", "open", "dropped", "closed"}]
         /\ sock' \in [Peers -> {"up", "fin", "reset"}] /\ unread' \subseteq Peers
         /\ Waiting' = {}
         /\ \A d \in connections_' :
              /\ table'.fd_[d] = table.fd_[d]
              /\ table.fd_[d] \in table.ready => table.fd_[d] \in table'.ready
              /\ HasInput(FileOf(table, d))' => HasInput(FileOf(table, d))
         /\ crossed \/ \A i \in rest :
              /\ table'.file[batch[i].fd] = batch[i].file /\ batch[i].file # Other
              /\ table'.events_[batch[i].fd] = Acceptor =>
                   table'.fd_[Acceptor] = batch[i].fd
<1> DEFINE t == Stop(table)
           a == table.fd_[Acceptor]
<1>0. Good(table, connections_) /\ HeardInv /\ BatchInv /\ TypeInv
  BY DEF IInv
<1>1. /\ table' = Open(t) /\ Gone(Waiting, "dropped") /\ unread' \subseteq unread
      /\ UNCHANGED <<connections_, reopened, crossed>> /\ stopped' = FALSE
  BY DEF AcceptorOnClose, Discard
<1>2. t = Stop(table) /\ a = table.fd_[Acceptor]
  OBVIOUS
<1> HIDE DEF t, a
<1>3. /\ Good(t, connections_) /\ t.file = table.file /\ t.fd_ = table.fd_
      /\ \A n \in Fds : n # table.fd_[Acceptor] /\ n \in table.ready => n \in t.ready
      /\ Heard(table, connections_) => Heard(t, connections_)
      /\ table.fd_[Acceptor] \in Fds => t.events_[table.fd_[Acceptor]] = NoObject
      /\ \A n \in Fds : t.events_[n] = Acceptor => table.events_[n] = Acceptor
  BY <1>0, <1>2, StopGood
<1>4. Unregistered(t, a)
  BY <1>2, <1>3, ConstantsAre DEF Unregistered
<1>5. /\ Good(table', connections_') /\ StartInv'
      /\ AcceptorOpened(t, table', a)
      /\ Heard(t, connections_) /\ Unregistered(t, a) =>
           Heard(table', connections_') /\ Hears(table', Acceptor, Listener)
      /\ peer' \in [Peers -> {"out", "waiting", "open", "dropped", "closed"}]
      /\ sock' \in [Peers -> {"up", "fin", "reset"}] /\ unread' \subseteq Peers
      /\ Waiting' = {}
      /\ \A d \in connections_' :
           /\ table'.fd_[d] = table.fd_[d]
           /\ table.fd_[d] \in table.ready => table.fd_[d] \in table'.ready
           /\ HasInput(FileOf(table, d))' => HasInput(FileOf(table, d))
  BY <1>1, <1>2, <1>3, OpenKeeps
<1>6. HeardInv'
  BY <1>0, <1>1, <1>3, <1>4, <1>5 DEF HeardInv, AcceptorHears
<1>7. ASSUME ~ crossed, NEW i \in rest
      PROVE  /\ table'.file[batch[i].fd] = batch[i].file /\ batch[i].file # Other
             /\ table'.events_[batch[i].fd] = Acceptor => table'.fd_[Acceptor] = batch[i].fd
  <2>1. /\ batch[i].fd \in Fds /\ batch[i].file \in Files /\ batch[i].fd # a
        /\ i \in 1 .. Len(batch)
    BY <1>0, <1>2, <1>7, BatchTyped
  <2>2. /\ table.file[batch[i].fd] = batch[i].file /\ batch[i].file # Other
        /\ table.events_[batch[i].fd] = Acceptor => a = batch[i].fd
    BY <1>0, <1>2, <1>7, <2>1 DEF BatchInv
  <2>3. NoFile \notin Files
    BY ConstantsAre DEF Files
  <2>4. table'.fd_[Acceptor] = batch[i].fd => table.file[batch[i].fd] = NoFile
    BY <1>3, <1>5, <2>1 DEF AcceptorOpened
  <2>5. table'.fd_[Acceptor] # batch[i].fd
    BY <2>1, <2>2, <2>3, <2>4
  <2> QED
    BY <1>3, <1>5, <2>1, <2>2, <2>5 DEF AcceptorOpened
<1> QED
  BY <1>1, <1>5, <1>6, <1>7

LEMMA DispatchStep == IInv /\ Dispatch => IInv'
<1> SUFFICES ASSUME IInv, Dispatch PROVE IInv'
  OBVIOUS
<1>0. /\ Good(table, connections_) /\ HeardInv /\ StartInv /\ BatchInv /\ UnseenInv /\ TypeInv
  BY DEF IInv
<1> DEFINE e == Head(batch)
           o == table.events_[e.fd]
<1>1. /\ pc = "Dispatch" /\ batch # << >> /\ batch' = Tail(batch)
      /\ UNCHANGED <<functions_, calls, signals>>
  BY DEF Dispatch
<1>2. \/ /\ o = NoObject
         /\ UNCHANGED <<table, connections_, peerVars, pc, cur, stopped, reopened, crossed>>
      \/ o = Acceptor /\ AcceptorOnClose /\ UNCHANGED <<pc, cur>>
      \/ /\ o = Acceptor /\ pc' = "Accept"
         /\ UNCHANGED <<table, connections_, peerVars, cur, stopped, reopened, crossed>>
      \/ /\ o \in Conns /\ pc' = "Read" /\ cur' = o
         /\ UNCHANGED <<table, connections_, peerVars, stopped, reopened, crossed>>
      \/ /\ o \in Conns /\ OnClose(o) /\ Discard({FileOf(table, o)})
         /\ UNCHANGED <<pc, cur, stopped, reopened, crossed>>
  BY DEF Dispatch, AcceptorOnError
<1>3. e.fd \in Fds
  BY <1>0, <1>1, BatchTyped, TailOfBatch
<1> HIDE DEF e, o
<1>4. o \in Conns => o \in connections_ /\ table.fd_[o] = e.fd
  <2>1. o \in Conns => table.fd_[o] = e.fd
    BY <1>0, <1>3 DEF Good, o
  <2> QED
    BY <1>0, <1>3, <2>1 DEF Good
<1>5. ~ reopened =>
        /\ \A d \in connections_ : table.fd_[d] = e.fd => o = d
        /\ ~ stopped /\ IsOpen(table, Acceptor) /\ table.fd_[Acceptor] = e.fd => o = Acceptor
  BY HearersAre DEF o
<1>6. Waiting # {} => IsOpen(table, Acceptor)
  BY <1>0 DEF StartInv
<1>7. CASE /\ UNCHANGED <<table, connections_, peerVars, stopped, reopened, crossed>>
           /\ \/ o = NoObject /\ UNCHANGED <<pc, cur>>
              \/ o = Acceptor /\ pc' = "Accept" /\ UNCHANGED cur
              \/ o \in Conns /\ pc' = "Read" /\ cur' = o
  <2>1. UNCHANGED <<table, connections_, peer, sock, unread, stopped, reopened, crossed>>
    BY <1>7 DEF peerVars
  <2>2. /\ pc' \in {"Dispatch", "Accept", "Read"} /\ cur' \in Conns \cup {None}
        /\ pc' = "Read" => cur' \in Conns /\ table'.fd_[cur'] = e.fd
        /\ pc' = "Accept" => o = Acceptor
    BY <1>0, <1>1, <1>7, <1>4, <2>1, ConstantsAre DEF TypeInv
  <2>3. BatchInv' /\ batch' \in Seq(Reports)
    BY <1>1, <2>1, <2>2, RestOfBatch DEF e, o
  <2>4. TypeInv'
    BY <1>0, <1>1, <2>1, <2>2, <2>3 DEF TypeInv
  <2>5. HeardInv' /\ StartInv'
    BY <1>0, <1>1, <2>1 DEF HeardInv, StartInv, AcceptorHears, Waiting
  <2>6. UnseenInv'
    <3>1. ASSUME Waiting # {}, ~ stopped, ~ reopened, pc' # "Accept"
          PROVE  Reported(table.fd_[Acceptor])'
      <4>1. Reported(table.fd_[Acceptor])
        BY <1>0, <1>1, <3>1 DEF UnseenInv
      <4>2. table.fd_[Acceptor] # e.fd
        BY <1>5, <1>6, <3>1, <1>7, ConstantsAre
      <4> QED
        BY <1>0, <1>1, <2>1, <4>1, <4>2, TailOfBatch DEF Reported, e
    <3>2. ASSUME NEW d \in connections_, HasInput(FileOf(table, d)), ~ reopened
          PROVE  (pc' = "Read" /\ cur' = d) \/ Reported(table.fd_[d])'
      <4>1. Reported(table.fd_[d])
        BY <1>0, <1>1, <3>2 DEF UnseenInv
      <4>2. CASE table.fd_[d] = e.fd
        <5>1. o = d /\ d \in Conns
          BY <1>0, <1>5, <3>2, <4>2 DEF Good
        <5>2. pc' = "Read" /\ cur' = o
          BY <1>7, <5>1, ConstantsAre
        <5> QED
          BY <5>1, <5>2
      <4>3. CASE table.fd_[d] # e.fd
        BY <1>0, <1>1, <2>1, <4>1, <4>3, TailOfBatch DEF Reported, e
      <4> QED
        BY <4>2, <4>3
    <3>3. Waiting' = Waiting /\ \A d \in connections_ :
            HasInput(FileOf(table, d))' <=> HasInput(FileOf(table, d))
      BY <2>1 DEF Waiting, HasInput
    <3> QED
      BY <1>1, <2>1, <3>1, <3>2, <3>3 DEF UnseenInv
  <2> QED
    BY <1>0, <2>1, <2>3, <2>4, <2>5, <2>6 DEF IInv
<1>8. CASE /\ o \in Conns /\ OnClose(o) /\ Discard({FileOf(table, o)})
           /\ UNCHANGED <<pc, cur, stopped, reopened, crossed>>
  <2>1. o \in connections_ /\ unread' \subseteq unread
    BY <1>4, <1>8 DEF Discard
  <2>2. /\ Good(table', connections_') /\ HeardInv' /\ StartInv'
        /\ Waiting' \subseteq Waiting
        /\ peer' \in [Peers -> {"out", "waiting", "open", "dropped", "closed"}]
        /\ sock' \in [Peers -> {"up", "fin", "reset"}]
        /\ \A p \in Peers : HasInput(p)' => HasInput(p)
        /\ connections_' = connections_ \ {o}
        /\ \A n \in Fds : n # table.fd_[o] => table'.file[n] = table.file[n]
        /\ table'.ready = table.ready \ {table.fd_[o]}
        /\ table'.fd_[Acceptor] = table.fd_[Acceptor]
        /\ \A n \in Fds : table'.events_[n] = Acceptor => table.events_[n] = Acceptor
        /\ \A d \in Conns : table'.fd_[d] = IF d = o THEN NoFd ELSE table.fd_[d]
        /\ \A d \in connections_' : FileOf(table', d) = FileOf(table, d)
    BY <1>1, <1>8, <2>1, CloseStep
  <2>3. BatchInv' /\ batch' \in Seq(Reports)
    BY <1>1, <1>4, <1>8, <2>2, RestOfBatch DEF e
  <2>4. TypeInv'
    BY <1>0, <1>1, <1>8, <2>1, <2>2, <2>3 DEF TypeInv
  <2>5. UnseenInv'
    <3>o. \A d \in connections_ : /\ table.fd_[d] # table.fd_[Acceptor] /\ d \in Conns
                                  /\ FileOf(table, d) \in Peers
                                  /\ d # o => table.fd_[d] # table.fd_[o]
      BY <1>0, <2>1, OwnersAre
    <3>1. ASSUME Waiting # {}, ~ stopped, ~ reopened
          PROVE  Reported(table.fd_[Acceptor])'
      <4>1. Reported(table.fd_[Acceptor])
        BY <1>0, <1>1, <3>1 DEF UnseenInv
      <4>2. table.fd_[Acceptor] # e.fd
        BY <1>4, <1>8, <2>1, <3>o
      <4> QED
        BY <1>0, <1>1, <1>4, <1>8, <2>2, <4>1, <4>2, StillReported DEF Reported, e
    <3>2. ASSUME NEW d \in connections_ \ {o}, HasInput(FileOf(table, d)), ~ reopened
          PROVE  Reported(table.fd_[d])'
      <4>1. Reported(table.fd_[d])
        BY <1>0, <1>1, <3>2 DEF UnseenInv
      <4>2. table.fd_[d] # e.fd /\ table'.fd_[d] = table.fd_[d]
        BY <1>4, <1>8, <2>2, <3>o
      <4>3. table.fd_[d] \in table.ready => table.fd_[d] \in table'.ready
        BY <1>4, <1>8, <2>2, <4>2
      <4>4. \/ table.fd_[d] \in table.ready
            \/ \E i \in 1 .. Len(batch') : batch'[i].fd = table.fd_[d]
        BY <1>0, <1>1, <4>1, <4>2, StillReported DEF e
      <4> QED
        BY <4>2, <4>3, <4>4 DEF Reported
    <3>3. \A d \in connections_' : HasInput(FileOf(table, d))' => HasInput(FileOf(table, d))
      BY <2>2, <3>o DEF HasInput
    <3> QED
      BY <1>1, <1>8, <2>2, <3>1, <3>2, <3>3 DEF UnseenInv
  <2> QED
    BY <2>2, <2>3, <2>4, <2>5 DEF IInv
<1>9. CASE o = Acceptor /\ AcceptorOnClose /\ UNCHANGED <<pc, cur>>
  <2> DEFINE rest == {i \in 1 .. Len(batch) : i # 1}
  <2>t. /\ batch' \in Seq(Reports) /\ e = batch[1] /\ 1 \in 1 .. Len(batch)
        /\ \A i \in 1 .. Len(batch') :
             batch'[i] = batch[i + 1] /\ i + 1 \in 1 .. Len(batch) /\ i + 1 # 1
        /\ \A i, j \in 1 .. Len(batch') : i # j => i + 1 # j + 1
        /\ \A i \in 1 .. Len(batch) : i # 1 => \E j \in 1 .. Len(batch') : batch'[j] = batch[i]
    BY <1>0, <1>1, TailOfBatch DEF e
  <2>1. crossed \/ \A i \in rest : batch[i].fd # table.fd_[Acceptor]
    <3>1. \A i \in rest : batch[i].fd # e.fd
      <4>1. \A i, j \in 1 .. Len(batch) : i # j => batch[i].fd # batch[j].fd
        BY <1>0 DEF BatchInv
      <4> QED
        BY <2>t, <4>1
    <3>2. crossed \/ table.fd_[Acceptor] = e.fd
      BY <1>0, <1>9, <2>t DEF BatchInv, o
    <3> QED
      BY <3>1, <3>2
  <2>2. rest \subseteq 1 .. Len(batch) /\ \A i \in 1 .. Len(batch') : i + 1 \in rest
    BY <2>t
  <2> HIDE DEF rest
  <2>3. /\ Good(table', connections_') /\ StartInv' /\ HeardInv'
        /\ UNCHANGED <<connections_, reopened, crossed>> /\ stopped' = FALSE
        /\ peer' \in [Peers -> {"out", "waiting", "open", "dropped", "closed"}]
        /\ sock' \in [Peers -> {"up", "fin", "reset"}] /\ unread' \subseteq Peers
        /\ Waiting' = {}
        /\ \A d \in connections_' :
             /\ table'.fd_[d] = table.fd_[d]
             /\ table.fd_[d] \in table.ready => table.fd_[d] \in table'.ready
             /\ HasInput(FileOf(table, d))' => HasInput(FileOf(table, d))
        /\ crossed \/ \A i \in rest :
             /\ table'.file[batch[i].fd] = batch[i].file /\ batch[i].file # Other
             /\ table'.events_[batch[i].fd] = Acceptor =>
                  table'.fd_[Acceptor] = batch[i].fd
    BY <1>9, <2>1, <2>2, AcceptorOnCloseKeeps
  <2>4. TypeInv'
    BY <1>0, <1>1, <1>9, <2>t, <2>3 DEF TypeInv
  <2>5. BatchInv'
    <3>1. \A i, j \in 1 .. Len(batch') : i # j => batch'[i].fd # batch'[j].fd
      <4>1. \A i, j \in 1 .. Len(batch) : i # j => batch[i].fd # batch[j].fd
        BY <1>0 DEF BatchInv
      <4>2. SUFFICES ASSUME NEW i \in 1 .. Len(batch'), NEW j \in 1 .. Len(batch'), i # j
                     PROVE  batch'[i].fd # batch'[j].fd
        OBVIOUS
      <4>3. /\ batch'[i] = batch[i + 1] /\ batch'[j] = batch[j + 1]
            /\ i + 1 \in 1 .. Len(batch) /\ j + 1 \in 1 .. Len(batch)
        BY <2>t
      <4>4. i + 1 # j + 1
        BY <4>2, SMT
      <4> QED
        BY <4>1, <4>3, <4>4
    <3>2. ASSUME ~ crossed, NEW i \in 1 .. Len(batch')
          PROVE  /\ table'.file[batch'[i].fd] = batch'[i].file /\ batch'[i].file # Other
                 /\ table'.events_[batch'[i].fd] = Acceptor =>
                      table'.fd_[Acceptor] = batch'[i].fd
      <4>1. i + 1 \in rest /\ batch'[i] = batch[i + 1]
        BY <2>t, <2>2
      <4> QED
        BY <2>3, <3>2, <4>1
    <3> QED
      BY <1>1, <1>9, <2>3, <3>1, <3>2 DEF BatchInv
  <2>6. UnseenInv'
    <3>1. ASSUME NEW d \in connections_, HasInput(FileOf(table, d))', ~ reopened
          PROVE  Reported(table.fd_[d])'
      <4>1. Reported(table.fd_[d])
        BY <1>0, <1>1, <2>3, <3>1 DEF UnseenInv
      <4>2. table.fd_[d] # e.fd
        BY <1>0, <1>5, <1>9, <3>1, OwnersAre
      <4> QED
        BY <1>0, <1>1, <2>3, <3>1, <4>1, <4>2, StillReported DEF Reported, e
    <3> QED
      BY <2>3, <3>1 DEF UnseenInv
  <2> QED
    BY <2>3, <2>4, <2>5, <2>6 DEF IInv
<1> QED
  BY <1>2, <1>7, <1>8, <1>9

\* What remains in the batch when numbers that were not free keep their files.
LEMMA BatchKept ==
  ASSUME IInv, UNCHANGED <<batch, crossed>>, table'.fd_[Acceptor] = table.fd_[Acceptor],
         pc = "Accept", pc' = "Accept",
         \A n \in Fds : table.file[n] # NoFile => table'.file[n] = table.file[n],
         \A n \in Fds : table'.events_[n] = Acceptor => table.events_[n] = Acceptor
  PROVE  BatchInv'
<1>1. BatchInv /\ TypeInv
  BY DEF IInv
<1>2. \A i \in 1 .. Len(batch) : batch[i].fd \in Fds /\ batch[i].file \in Files
  BY <1>1, BatchTyped
<1>3. NoFile \notin Files
  BY ConstantsAre DEF Files
<1>4. crossed \/ \A i \in 1 .. Len(batch) :
        table'.file[batch[i].fd] = batch[i].file /\ batch[i].file # Other
  BY <1>1, <1>2, <1>3 DEF BatchInv
<1>5. crossed \/ \A i \in 1 .. Len(batch) :
        table'.events_[batch[i].fd] = Acceptor => table'.fd_[Acceptor] = batch[i].fd
  BY <1>1, <1>2 DEF BatchInv
<1> QED
  BY <1>1, <1>4, <1>5 DEF BatchInv

LEMMA AcceptStep ==
  ASSUME IInv, NEW p \in Peers, NEW c \in Conns, Accept(p, c)
  PROVE  IInv'
<1>0. /\ Good(table, connections_) /\ HeardInv /\ StartInv /\ BatchInv /\ UnseenInv /\ TypeInv
  BY DEF IInv
<1> DEFINE now == HasInput(p)
           added == AddEvent(OpenAs(table, c, p), c, now)
           n == Min(Free(table))
           cs == connections_ \cup {c}
<1>1. /\ pc = "Accept" /\ pc' = "Accept" /\ p \in Waiting /\ Free(table) # {}
      /\ c \in FreeConns
      /\ UNCHANGED <<batch, functions_, cur, calls, signals, stopped, reopened, crossed>>
  BY DEF Accept, AfterAccept, history
<1>2. \/ /\ table' = added /\ connections_' = cs /\ peer' = [peer EXCEPT ![p] = "open"]
         /\ UNCHANGED <<sock, unread>>
      \/ /\ table' = Closed(added, c) /\ Gone({p}, "closed") /\ Discard({p})
         /\ UNCHANGED connections_
  BY DEF Accept
<1>3. /\ now \in BOOLEAN /\ n = Min(Free(table))
      /\ added = AddEvent(OpenAs(table, c, p), c, now)
      /\ cs = IF c = Acceptor THEN connections_ ELSE connections_ \cup {c}
      /\ c \in Objects /\ c # Acceptor
  BY ConstantsAre DEF HasInput
<1>4. now => added = AddEvent(OpenAs(table, c, p), c, TRUE)
  BY DEF HasInput
<1>5. table.fd_[c] = NoFd /\ c \notin connections_
  BY <1>0, <1>1, OwnersAre DEF FreeConns
<1>s. IsOpen(table, Acceptor)
  BY <1>0, <1>1 DEF StartInv
<1> HIDE DEF added, n, now
<1>6. /\ Good(added, cs) /\ n \in Fds /\ NumberOpened(table, added, c, p, n)
      /\ Heard(table, connections_) =>
           Heard(added, cs) /\ Hears(added, c, p) /\ table.events_[n] = NoObject
      /\ c # Acceptor /\ Hears(table, Acceptor, Listener) => Hears(added, Acceptor, Listener)
  BY <1>0, <1>1, <1>3, <1>5, OpenedGood
<1>7. /\ table.file[n] = NoFile
      /\ \A m \in Fds : added.file[m] = IF m = n THEN p ELSE table.file[m]
      /\ \A q \in Objects : added.fd_[q] = IF q = c THEN n ELSE table.fd_[q]
      /\ table.ready \subseteq added.ready
      /\ \A m \in Fds : added.events_[m] = Acceptor => table.events_[m] = Acceptor
  BY <1>3, <1>6 DEF NumberOpened
<1>8. Heard(table, connections_) /\ now => n \in added.ready
  <2>1. table \in Tables(Files) /\ p \in Files
    BY <1>0 DEF Good, Files
  <2> QED
    BY ZenonT(40), <1>1, <1>3, <1>4, <1>6, <2>1, OpenedNow
<1>9. /\ added.fd_[Acceptor] = table.fd_[Acceptor] /\ added.fd_[c] = n
      /\ \A m \in Fds : table.file[m] # NoFile => added.file[m] = table.file[m]
  BY <1>3, <1>7, ConstantsAre
<1>o. \A d \in connections_ : /\ d \in Conns /\ d \in Objects /\ d # Acceptor /\ d # c
                              /\ table.fd_[d] \in Fds /\ FileOf(table, d) \in Peers
                              /\ table.file[table.fd_[d]] # NoFile /\ table.fd_[d] # n
                              /\ added.fd_[d] = table.fd_[d]
                              /\ FileOf(added, d) = FileOf(table, d)
  <2>1. \A d \in connections_ : /\ d \in Conns /\ d \in Objects /\ d # Acceptor /\ d # c
                                /\ table.fd_[d] \in Fds /\ FileOf(table, d) \in Peers
    BY <1>0, <1>5, OwnersAre
  <2>2. \A d \in connections_ : table.file[table.fd_[d]] # NoFile
    BY <2>1, ConstantsAre DEF FileOf
  <2> QED
    BY <1>7, <1>9, <2>1, <2>2 DEF FileOf
<1>a. \A q : q \in Waiting' => q \in Waiting
  BY <1>0, <1>2 DEF Waiting, Gone, TypeInv
<1>u. ~ reopened => Heard(table, connections_) /\ AcceptorHears
  BY <1>0 DEF HeardInv
<1>w. Waiting # {} => stopped \/ reopened \/ pc' = "Accept"
  BY <1>1
<1>10. CASE /\ table' = added /\ connections_' = cs /\ peer' = [peer EXCEPT ![p] = "open"]
            /\ UNCHANGED <<sock, unread>>
  <2>1. TypeInv'
    BY <1>0, <1>1, <1>10 DEF TypeInv
  <2>2. HeardInv'
    BY <1>1, <1>3, <1>6, <1>9, <1>10, <1>u DEF HeardInv, AcceptorHears, IsOpen
  <2>3. StartInv'
    BY <1>9, <1>10, <1>s DEF StartInv, IsOpen
  <2>4. BatchInv'
    BY <1>1, <1>7, <1>9, <1>10, BatchKept
  <2>5. UnseenInv'
    <3>1. ASSUME NEW d \in connections_, HasInput(FileOf(table, d)), ~ reopened
          PROVE  Reported(table.fd_[d])'
      <4>1. Reported(table.fd_[d])
        BY <1>0, <1>1, <3>1 DEF UnseenInv
      <4> QED
        BY <1>1, <1>7, <1>10, <1>o, <4>1 DEF Reported
    <3>2. ASSUME HasInput(p), ~ reopened PROVE Reported(table.fd_[c])'
      <4>1. n \in added.ready
        BY <1>8, <1>u, <3>2 DEF now
      <4> QED
        BY <1>9, <1>10, <4>1 DEF Reported
    <3>3. \A d \in connections_ : HasInput(FileOf(table, d))' <=> HasInput(FileOf(table, d))
      BY <1>o, <1>10 DEF HasInput
    <3>4. HasInput(FileOf(table, c))' <=> HasInput(p)
      BY <1>6, <1>7, <1>9, <1>10 DEF HasInput, FileOf
    <3> QED
      BY <1>1, <1>10, <3>1, <3>2, <3>3, <3>4 DEF UnseenInv
  <2> QED
    BY <1>6, <1>10, <2>1, <2>2, <2>3, <2>4, <2>5 DEF IInv
<1>11. CASE /\ table' = Closed(added, c) /\ Gone({p}, "closed") /\ Discard({p})
            /\ UNCHANGED connections_
  <2>1. cs \ {c} = connections_ /\ c \in cs
    BY <1>5
  <2>2. /\ Good(table', cs \ {c}) /\ added.fd_[c] \in Fds
        /\ \A m \in Fds : table'.file[m] = IF m = added.fd_[c] THEN NoFile ELSE added.file[m]
        /\ \A q \in Objects : table'.fd_[q] = IF q = c THEN NoFd ELSE added.fd_[q]
        /\ table'.ready = added.ready \ {added.fd_[c]}
        /\ \A m \in Fds : table'.events_[m] = Acceptor => added.events_[m] = Acceptor
        /\ Heard(added, cs) => Heard(table', cs \ {c})
        /\ Hears(added, Acceptor, Listener) => Hears(table', Acceptor, Listener)
    BY <1>6, <1>11, <2>1, CloseGood
  <2>3. /\ Good(table', connections_')
        /\ \A m \in Fds : table'.file[m] = table.file[m]
        /\ table'.fd_[Acceptor] = table.fd_[Acceptor]
        /\ \A d \in connections_ : /\ table'.fd_[d] = table.fd_[d]
                                   /\ FileOf(table', d) = FileOf(table, d)
        /\ \A m \in Fds : m # n /\ m \in table.ready => m \in table'.ready
    <3>1. Good(table', connections_')
      BY <1>11, <2>1, <2>2
    <3>2. /\ \A m \in Fds : table'.file[m] = table.file[m]
          /\ \A m \in Fds : m # n /\ m \in table.ready => m \in table'.ready
      BY <1>7, <1>9, <2>2
    <3>3. table'.fd_[Acceptor] = table.fd_[Acceptor]
      BY <1>3, <1>9, <2>2, ConstantsAre
    <3>4. \A d \in connections_ : table'.fd_[d] = table.fd_[d]
      BY <1>o, <2>2
    <3>5. \A d \in connections_ : FileOf(table', d) = FileOf(table, d)
      BY <1>o, <3>2, <3>4 DEF FileOf
    <3> QED
      BY <3>1, <3>2, <3>3, <3>4, <3>5
  <2>4. /\ peer' \in [Peers -> {"out", "waiting", "open", "dropped", "closed"}]
        /\ sock' \in [Peers -> {"up", "fin", "reset"}] /\ unread' \subseteq unread
        /\ \A q \in Peers : HasInput(q)' => HasInput(q)
    BY <1>0, <1>11 DEF Gone, Discard, TypeInv, HasInput
  <2>5. TypeInv'
    BY <1>0, <1>1, <1>11, <2>4 DEF TypeInv
  <2>6. HeardInv'
    BY <1>1, <1>3, <1>6, <1>11, <1>u, <2>1, <2>2, <2>3 DEF HeardInv, AcceptorHears, IsOpen
  <2>7. StartInv'
    BY <2>3, <1>s DEF StartInv, IsOpen
  <2>8. BatchInv'
    BY <1>1, <1>7, <2>2, <2>3, BatchKept
  <2>9. UnseenInv'
    <3>1. ASSUME NEW d \in connections_, HasInput(FileOf(table, d)), ~ reopened
          PROVE  Reported(table.fd_[d])'
      <4>1. Reported(table.fd_[d])
        BY <1>0, <1>1, <3>1 DEF UnseenInv
      <4> QED
        BY <1>1, <1>o, <2>3, <4>1 DEF Reported
    <3>2. \A d \in connections_ : HasInput(FileOf(table, d))' => HasInput(FileOf(table, d))
      BY <1>o, <2>3, <2>4 DEF HasInput
    <3> QED
      BY <1>1, <1>11, <2>3, <3>1, <3>2 DEF UnseenInv
  <2> QED
    BY <2>3, <2>5, <2>6, <2>7, <2>8, <2>9 DEF IInv
<1> QED
  BY <1>2, <1>10, <1>11

LEMMA AcceptEndsStep == IInv /\ AcceptEnds => IInv'
<1> SUFFICES ASSUME IInv, AcceptEnds PROVE IInv'
  OBVIOUS
<1>0. /\ Good(table, connections_) /\ HeardInv /\ StartInv /\ BatchInv /\ UnseenInv /\ TypeInv
  BY DEF IInv
<1>1. /\ pc = "Accept" /\ pc' = "Dispatch"
      /\ UNCHANGED <<batch, functions_, cur, calls, signals>>
  BY DEF AcceptEnds
<1>2. CASE Waiting = {} /\ UNCHANGED <<table, connections_, peerVars, stopped, reopened, crossed>>
  <2>1. UNCHANGED <<table, connections_, peer, sock, unread, batch, functions_, cur, calls, signals,
                    stopped, reopened, crossed>>
    BY <1>1, <1>2 DEF peerVars
  <2>2. TypeInv'
    BY <1>0, <1>1, <2>1 DEF TypeInv
  <2>3. HeardInv' /\ StartInv' /\ BatchInv'
    BY <1>0, <1>1, <2>1 DEF HeardInv, StartInv, BatchInv, AcceptorHears, Waiting
  <2>4. UnseenInv'
    BY <1>0, <1>1, <1>2, <2>1 DEF UnseenInv, Reported, Waiting, HasInput
  <2> QED
    BY <1>0, <2>1, <2>2, <2>3, <2>4 DEF IInv
<1>3. CASE AcceptorOnClose
  <2> DEFINE rest == 1 .. Len(batch)
  <2>1. crossed \/ \A i \in rest : batch[i].fd # table.fd_[Acceptor]
    BY <1>0, <1>1 DEF BatchInv
  <2>2. rest \subseteq 1 .. Len(batch) /\ rest = 1 .. Len(batch)
    OBVIOUS
  <2> HIDE DEF rest
  <2>3. /\ Good(table', connections_') /\ StartInv' /\ HeardInv'
        /\ UNCHANGED <<connections_, reopened, crossed>> /\ stopped' = FALSE
        /\ peer' \in [Peers -> {"out", "waiting", "open", "dropped", "closed"}]
        /\ sock' \in [Peers -> {"up", "fin", "reset"}] /\ unread' \subseteq Peers
        /\ Waiting' = {}
        /\ \A d \in connections_' :
             /\ table'.fd_[d] = table.fd_[d]
             /\ table.fd_[d] \in table.ready => table.fd_[d] \in table'.ready
             /\ HasInput(FileOf(table, d))' => HasInput(FileOf(table, d))
        /\ crossed \/ \A i \in rest :
             /\ table'.file[batch[i].fd] = batch[i].file /\ batch[i].file # Other
             /\ table'.events_[batch[i].fd] = Acceptor =>
                  table'.fd_[Acceptor] = batch[i].fd
    BY <1>3, <2>1, <2>2, AcceptorOnCloseKeeps
  <2>4. TypeInv'
    BY <1>0, <1>1, <2>3 DEF TypeInv
  <2>5. BatchInv'
    BY <1>0, <1>1, <2>2, <2>3 DEF BatchInv
  <2>6. UnseenInv'
    <3>1. ASSUME NEW d \in connections_, HasInput(FileOf(table, d))', ~ reopened
          PROVE  Reported(table.fd_[d])'
      <4>1. Reported(table.fd_[d])
        BY <1>0, <1>1, <2>3, <3>1 DEF UnseenInv
      <4> QED
        BY <1>1, <2>3, <3>1, <4>1 DEF Reported
    <3> QED
      BY <2>3, <3>1 DEF UnseenInv
  <2> QED
    BY <2>3, <2>4, <2>5, <2>6 DEF IInv
<1> QED
  BY <1>2, <1>3 DEF AcceptEnds

\* Closing a connection, seen from what the loop has still to dispatch: the
\* other numbers stay reported, and nothing new has to be.
LEMMA CloseUnseen ==
  ASSUME IInv, NEW c \in connections_, OnClose(c), UNCHANGED <<stopped, reopened, batch>>,
         unread' \subseteq unread, pc \notin {"Accept", "Exited"},
         pc = "Read" => (pc' = "Read" /\ cur' = cur) \/ cur = c
  PROVE  UnseenInv'
<1>0. Good(table, connections_) /\ UnseenInv
  BY DEF IInv
<1>1. /\ Waiting' \subseteq Waiting
      /\ \A p \in Peers : HasInput(p)' => HasInput(p)
      /\ connections_' = connections_ \ {c}
      /\ table'.ready = table.ready \ {table.fd_[c]}
      /\ table'.fd_[Acceptor] = table.fd_[Acceptor]
      /\ \A d \in Conns : table'.fd_[d] = IF d = c THEN NoFd ELSE table.fd_[d]
      /\ \A d \in connections_' : FileOf(table', d) = FileOf(table, d)
  BY CloseStep
<1>o. \A d \in connections_ : /\ d \in Conns /\ table.fd_[d] # table.fd_[Acceptor]
                              /\ FileOf(table, d) \in Peers
                              /\ d # c => table.fd_[d] # table.fd_[c]
  BY <1>0, OwnersAre
<1>2. ASSUME Waiting # {}, ~ stopped, ~ reopened PROVE Reported(table.fd_[Acceptor])'
  <2>1. Reported(table.fd_[Acceptor])
    BY <1>0, <1>2 DEF UnseenInv
  <2> QED
    BY <1>1, <1>o, <2>1 DEF Reported
<1>3. ASSUME NEW d \in connections_ \ {c}, HasInput(FileOf(table, d)), ~ reopened
      PROVE  (pc' = "Read" /\ cur' = d) \/ Reported(table.fd_[d])'
  <2>1. (pc = "Read" /\ cur = d) \/ Reported(table.fd_[d])
    BY <1>0, <1>3 DEF UnseenInv
  <2>2. table'.fd_[d] = table.fd_[d] /\ table.fd_[d] # table.fd_[c]
    BY <1>1, <1>3, <1>o
  <2> QED
    BY <1>1, <1>3, <2>1, <2>2 DEF Reported
<1>4. \A d \in connections_' : HasInput(FileOf(table, d))' => HasInput(FileOf(table, d))
  BY <1>1, <1>o DEF HasInput
<1> QED
  BY <1>1, <1>2, <1>3, <1>4 DEF UnseenInv

\* Closing a connection, when there is nothing left to dispatch.
LEMMA CloseIInv ==
  ASSUME IInv, NEW c \in connections_, OnClose(c), Discard({FileOf(table, c)}),
         UNCHANGED <<stopped, reopened, batch, calls, signals>>, batch = << >>,
         functions_' \in Seq({"Start"} \cup Conns),
         pc \notin {"Accept", "Read", "Exited"}, pc' \in {"RunFuctions", "OnTimer"},
         UNCHANGED <<cur, crossed>>
  PROVE  IInv'
<1>1. unread' \subseteq unread
  BY DEF Discard
<1>2. /\ Good(table', connections_') /\ HeardInv' /\ StartInv'
      /\ peer' \in [Peers -> {"out", "waiting", "open", "dropped", "closed"}]
      /\ sock' \in [Peers -> {"up", "fin", "reset"}]
  BY <1>1, CloseStep
<1>3. UnseenInv'
  BY <1>1, CloseUnseen
<1>4. TypeInv' /\ BatchInv'
  BY <1>1, <1>2 DEF IInv, TypeInv, BatchInv
<1> QED
  BY <1>2, <1>3, <1>4 DEF IInv

LEMMA OnTimeoutStep ==
  ASSUME IInv, NEW c \in Conns, OnTimeout(c)
  PROVE  IInv'
  BY CloseIInv DEF OnTimeout, history, IInv, TypeInv, BatchInv

LEMMA ReadStep == IInv /\ (Read \/ ReadAgain \/ ReadEnds) => IInv'
<1> SUFFICES ASSUME IInv, Read \/ ReadAgain \/ ReadEnds PROVE IInv'
  OBVIOUS
<1>0. /\ Good(table, connections_) /\ HeardInv /\ StartInv /\ BatchInv /\ UnseenInv /\ TypeInv
  BY DEF IInv
<1>1. /\ pc = "Read" /\ cur \in Conns
      /\ UNCHANGED <<batch, functions_, calls, signals>>
  BY <1>0 DEF Read, MessageIsThere, ReadAgain, ReadEnds, history, BatchInv
<1>2. IsOpen(table, cur) => cur \in connections_
  BY <1>0, <1>1, OwnersAre
<1>3. CASE UNCHANGED <<table, connections_, peer, sock, stopped, reopened, crossed>> /\ unread' \subseteq unread
           /\ \/ UNCHANGED <<pc, cur>>
              \/ /\ pc' = "Dispatch" /\ cur' = None
                 /\ IsOpen(table, cur) => ~ HasInput(FileOf(table, cur))
  <2>1. TypeInv'
    BY <1>0, <1>1, <1>3 DEF TypeInv
  <2>2. HeardInv' /\ StartInv' /\ BatchInv'
    BY <1>0, <1>1, <1>3 DEF HeardInv, StartInv, BatchInv, AcceptorHears, Waiting
  <2>3. UnseenInv'
    <3>1. ASSUME NEW d \in connections_, HasInput(FileOf(table, d)), ~ reopened
          PROVE  (pc' = "Read" /\ cur' = d) \/ Reported(table.fd_[d])
      <4>1. IsOpen(table, d)
        BY <1>0, OwnersAre
      <4> QED
        BY <1>0, <1>1, <1>3, <3>1, <4>1 DEF UnseenInv
    <3>2. ASSUME Waiting # {}, ~ stopped, ~ reopened PROVE Reported(table.fd_[Acceptor])
      BY <1>0, <1>1, <3>2 DEF UnseenInv
    <3>3. \A d \in connections_ : HasInput(FileOf(table, d))' => HasInput(FileOf(table, d))
      BY <1>3 DEF HasInput
    <3> QED
      BY <1>1, <1>3, <3>1, <3>2, <3>3 DEF UnseenInv, Reported, Waiting
  <2> QED
    BY <1>0, <1>3, <2>1, <2>2, <2>3 DEF IInv
<1>4. ASSUME NEW c \in connections_, OnClose(c), unread' \subseteq unread,
             UNCHANGED <<stopped, reopened>>,
             \/ UNCHANGED <<pc, cur>> /\ crossed' = (crossed \/ (c # cur /\ batch # << >>))
             \/ c = cur /\ pc' = "Dispatch" /\ cur' = None /\ UNCHANGED crossed
      PROVE  IInv'
  <2>1. /\ Good(table', connections_') /\ HeardInv' /\ StartInv'
        /\ peer' \in [Peers -> {"out", "waiting", "open", "dropped", "closed"}]
        /\ sock' \in [Peers -> {"up", "fin", "reset"}]
        /\ \A n \in Fds : n # table.fd_[c] => table'.file[n] = table.file[n]
        /\ table'.fd_[Acceptor] = table.fd_[Acceptor]
        /\ \A n \in Fds : table'.events_[n] = Acceptor => table.events_[n] = Acceptor
        /\ \A d \in Conns : table'.fd_[d] = IF d = c THEN NoFd ELSE table.fd_[d]
    BY <1>1, <1>4, CloseStep
  <2>2. UnseenInv'
    BY <1>1, <1>4, CloseUnseen
  <2>3. TypeInv'
    BY <1>0, <1>1, <1>4, <2>1 DEF TypeInv
  <2>4. \A i \in 1 .. Len(batch) : batch[i].fd \in Fds
    BY <1>0, BatchTyped
  <2>5. crossed' \in BOOLEAN /\ (crossed => crossed')
        /\ (pc' = "Read" /\ c # cur /\ batch # << >> => crossed')
    <3>1. crossed \in BOOLEAN
      BY <1>0 DEF TypeInv
    <3> DEFINE other == c # cur /\ batch # << >>
    <3>2. CASE crossed' = (crossed \/ other)
      <4> other \in BOOLEAN
        OBVIOUS
      <4> HIDE DEF other
      <4>1. crossed' \in BOOLEAN /\ (crossed => crossed') /\ (other => crossed')
        BY <3>1, <3>2
      <4> QED
        BY <4>1 DEF other
    <3>3. CASE c = cur /\ UNCHANGED crossed
      BY <3>1, <3>3
    <3> QED
      BY <1>4, <3>2, <3>3
  <2>6. ASSUME ~ crossed', NEW i \in 1 .. Len(batch)
        PROVE  /\ batch[i].fd # table.fd_[c]
               /\ table'.file[batch[i].fd] = batch[i].file /\ batch[i].file # Other
               /\ table'.events_[batch[i].fd] = Acceptor => table'.fd_[Acceptor] = batch[i].fd
               /\ pc' = "Read" => batch[i].fd # table'.fd_[cur]
    <3>1. batch # << >>
      OBVIOUS
    <3>2. c = cur
      BY <1>1, <1>4, <2>5, <2>6, <3>1
    <3>3. ~ crossed
      BY <2>5, <2>6
    <3>4. batch[i].fd # table.fd_[c]
      BY <1>0, <1>1, <3>2, <3>3 DEF BatchInv
    <3>5. /\ table.file[batch[i].fd] = batch[i].file /\ batch[i].file # Other
          /\ table.events_[batch[i].fd] = Acceptor => table.fd_[Acceptor] = batch[i].fd
      BY <1>0, <3>3 DEF BatchInv
    <3> QED
      BY <1>1, <2>1, <2>4, <3>2, <3>4, <3>5, ConstantsAre
  <2>7. pc' = "Read" => cur' \in Conns /\ cur' = cur
    BY <1>1, <1>4
  <2>8. BatchInv'
    <3>1. \A i, j \in 1 .. Len(batch) : i # j => batch[i].fd # batch[j].fd
      BY <1>0 DEF BatchInv
    <3>2. pc' \in {"Dispatch", "Read"} /\ batch' = batch
      BY <1>1, <1>4
    <3> QED
      BY <2>6, <2>7, <3>1, <3>2 DEF BatchInv
  <2> QED
    BY <2>1, <2>2, <2>3, <2>8 DEF IInv
<1>5. CASE /\ Start /\ unread' \subseteq unread /\ UNCHANGED <<pc, cur>>
           /\ crossed' = (crossed \/ batch # << >>)
  <2>1. /\ Good(table', connections_') /\ StartInv' /\ HeardInv' /\ Waiting' = {}
        /\ UNCHANGED connections_ /\ stopped' = FALSE
        /\ reopened' \in BOOLEAN /\ (reopened => reopened')
        /\ peer' \in [Peers -> {"out", "waiting", "open", "dropped", "closed"}]
        /\ sock' \in [Peers -> {"up", "fin", "reset"}] /\ unread' \subseteq Peers
        /\ \A d \in connections_' :
             /\ table'.fd_[d] = table.fd_[d]
             /\ table.fd_[d] \in table.ready => table.fd_[d] \in table'.ready
             /\ HasInput(FileOf(table, d))' => HasInput(FileOf(table, d))
    BY <1>5, StartKeeps
  <2>2. crossed' \in BOOLEAN /\ (crossed' \/ batch = << >>)
    <3>1. crossed \in BOOLEAN
      BY <1>0 DEF TypeInv
    <3> QED
      BY <1>5, <3>1
  <2>3. TypeInv'
    BY <1>0, <1>1, <1>5, <2>1, <2>2 DEF TypeInv
  <2>4. BatchInv'
    BY <1>0, <1>1, <1>5, <2>2 DEF BatchInv
  <2>5. UnseenInv'
    <3>1. ASSUME NEW d \in connections_, HasInput(FileOf(table, d)), ~ reopened'
          PROVE  cur = d \/ Reported(table.fd_[d])
      BY <1>0, <1>1, <2>1, <3>1 DEF UnseenInv
    <3> QED
      BY <1>1, <1>5, <2>1, <3>1 DEF UnseenInv, Reported
  <2> QED
    BY <2>1, <2>3, <2>4, <2>5 DEF IInv
<1>6. CASE Read
  BY <1>3, <1>4, <1>5, <1>6 DEF Read, Discard
<1>7. CASE ReadAgain
  BY <1>3, <1>7 DEF ReadAgain, peerVars, history
<1>8. CASE ReadEnds
  BY <1>2, <1>4, <1>8 DEF ReadEnds, Discard, history
<1> QED
  BY <1>6, <1>7, <1>8

LEMMA RunFuctionsStep == IInv /\ RunFuctions => IInv'
<1> SUFFICES ASSUME IInv, RunFuctions PROVE IInv'
  OBVIOUS
<1>0. /\ Good(table, connections_) /\ HeardInv /\ StartInv /\ BatchInv /\ UnseenInv /\ TypeInv
  BY DEF IInv
<1> DEFINE f == Head(functions_)
<1>1. /\ pc = "RunFuctions" /\ batch = << >> /\ pc' \in {"RunFuctions", "OnTimer"}
      /\ UNCHANGED <<batch, cur, calls, signals, crossed>>
  BY <1>0 DEF RunFuctions, AtRunFuctions, AfterEvents, BatchInv
<1>2. functions_' \in Seq({"Start"} \cup Conns)
  BY <1>0 DEF RunFuctions, TypeInv
<1>3. \/ Start /\ Discard(Waiting)
      \/ /\ f \in Conns /\ IsOpen(table, f) /\ OnClose(f)
         /\ Discard({FileOf(table, f)})
         /\ UNCHANGED <<stopped, reopened>>
      \/ UNCHANGED <<table, connections_, peerVars, stopped, reopened>>
  BY DEF RunFuctions
<1> HIDE DEF f
<1>b. BatchInv'
  BY <1>0, <1>1 DEF BatchInv
<1>4. CASE Start /\ Discard(Waiting)
  <2>1. /\ Good(table', connections_') /\ StartInv' /\ HeardInv' /\ Waiting' = {}
        /\ UNCHANGED connections_ /\ stopped' = FALSE
        /\ reopened' \in BOOLEAN /\ (reopened => reopened')
        /\ peer' \in [Peers -> {"out", "waiting", "open", "dropped", "closed"}]
        /\ sock' \in [Peers -> {"up", "fin", "reset"}] /\ unread' \subseteq Peers
        /\ \A d \in connections_' :
             /\ table'.fd_[d] = table.fd_[d]
             /\ table.fd_[d] \in table.ready => table.fd_[d] \in table'.ready
             /\ HasInput(FileOf(table, d))' => HasInput(FileOf(table, d))
    BY <1>4, StartKeeps DEF Discard
  <2>2. TypeInv'
    BY <1>0, <1>1, <1>2, <2>1 DEF TypeInv
  <2>3. UnseenInv'
    <3>1. ASSUME NEW d \in connections_, HasInput(FileOf(table, d)), ~ reopened'
          PROVE  table.fd_[d] \in table.ready
      BY <1>0, <1>1, <2>1, <3>1 DEF UnseenInv, Reported
    <3> QED
      BY <2>1, <3>1 DEF UnseenInv, Reported
  <2> QED
    BY <1>b, <2>1, <2>2, <2>3 DEF IInv
<1>5. CASE /\ f \in Conns /\ IsOpen(table, f) /\ OnClose(f)
           /\ Discard({FileOf(table, f)})
           /\ UNCHANGED <<stopped, reopened>>
  <2>1. f \in connections_
    BY <1>0, <1>5, OwnersAre
  <2> QED
    BY <1>1, <1>2, <1>5, <2>1, CloseIInv
<1>6. CASE UNCHANGED <<table, connections_, peerVars, stopped, reopened>>
  <2>1. UNCHANGED <<table, connections_, peer, sock, unread, batch, stopped, reopened>>
    BY <1>1, <1>6 DEF peerVars
  <2>2. TypeInv'
    BY <1>0, <1>1, <1>2, <2>1 DEF TypeInv
  <2>3. HeardInv' /\ StartInv'
    BY <1>0, <2>1 DEF HeardInv, StartInv, AcceptorHears, Waiting
  <2>4. UnseenInv'
    BY <1>0, <1>1, <2>1 DEF UnseenInv, Reported, Waiting, HasInput
  <2> QED
    BY <1>0, <1>b, <2>1, <2>2, <2>3, <2>4 DEF IInv
<1> QED
  BY <1>3, <1>4, <1>5, <1>6

\* Stop, in any thread and at any point of the loop.
LEMMA CallStopStep == IInv /\ CallStop => IInv'
<1> SUFFICES ASSUME IInv, CallStop PROVE IInv'
  OBVIOUS
<1>0. /\ Good(table, connections_) /\ HeardInv /\ StartInv /\ BatchInv /\ UnseenInv /\ TypeInv
  BY DEF IInv
<1>1. /\ table' = Stop(table) /\ stopped' = TRUE /\ calls' \in 0 .. MaxCalls
      /\ UNCHANGED <<connections_, peer, sock, unread, batch, functions_, pc, cur, signals,
                     reopened, crossed>>
  BY <1>0, BoundsAre DEF CallStop, TypeInv, peerVars
<1>2. /\ Good(table', connections_) /\ table'.file = table.file /\ table'.fd_ = table.fd_
      /\ \A n \in Fds : n # table.fd_[Acceptor] /\ n \in table.ready => n \in table'.ready
      /\ Heard(table, connections_) => Heard(table', connections_)
      /\ \A n \in Fds : table'.events_[n] = Acceptor => table.events_[n] = Acceptor
  BY <1>0, <1>1, StopGood
<1>3. TypeInv'
  BY <1>0, <1>1 DEF TypeInv
<1>4. HeardInv' /\ StartInv'
  BY <1>0, <1>1, <1>2 DEF HeardInv, StartInv, AcceptorHears, IsOpen, Waiting
<1>5. BatchInv'
  <2>1. \A i \in 1 .. Len(batch) : batch[i].fd \in Fds
    BY <1>0, BatchTyped
  <2> QED
    BY <1>0, <1>1, <1>2, <2>1 DEF BatchInv
<1>6. UnseenInv'
  <2>1. ASSUME NEW d \in connections_, HasInput(FileOf(table, d)), ~ reopened, pc # "Exited"
        PROVE  (pc = "Read" /\ cur = d) \/ Reported(table.fd_[d])'
    <3>1. (pc = "Read" /\ cur = d) \/ Reported(table.fd_[d])
      BY <1>0, <2>1 DEF UnseenInv
    <3>2. table.fd_[d] \in Fds /\ table.fd_[d] # table.fd_[Acceptor]
      BY <1>0, OwnersAre
    <3> QED
      BY <1>1, <1>2, <3>1, <3>2 DEF Reported
  <2>2. \A d \in connections_ : HasInput(FileOf(table, d))' <=> HasInput(FileOf(table, d))
    BY <1>1, <1>2 DEF HasInput, FileOf
  <2> QED
    BY <1>1, <1>2, <2>1, <2>2 DEF UnseenInv
<1> QED
  BY <1>1, <1>2, <1>3, <1>4, <1>5, <1>6 DEF IInv

\* The program ends.
LEMMA OpenFailsStep == IInv /\ OpenFails => IInv'
<1> SUFFICES ASSUME IInv, OpenFails PROVE IInv'
  OBVIOUS
<1>1. /\ pc' = "Exited"
      /\ UNCHANGED <<table, connections_, peer, sock, unread, batch, functions_, cur, calls,
                     signals, stopped, reopened, crossed>>
  BY DEF OpenFails, peerVars, history
<1> QED
  BY <1>1 DEF IInv, TypeInv, HeardInv, StartInv, BatchInv, UnseenInv, AcceptorHears, Waiting

LEMMA StutterStep == IInv /\ UNCHANGED vars => IInv'
<1> SUFFICES ASSUME IInv, UNCHANGED vars PROVE IInv'
  OBVIOUS
<1>1. UNCHANGED <<table, connections_, peer, sock, unread, batch, functions_, pc, cur, calls,
                  signals, stopped, reopened, crossed>>
  BY DEF vars, peerVars, history
<1> QED
  BY <1>1 DEF IInv, TypeInv, HeardInv, StartInv, BatchInv, UnseenInv, AcceptorHears, Reported,
              Waiting, HasInput

LEMMA NextIInv == IInv /\ [Next]_vars => IInv'
<1> SUFFICES ASSUME IInv, [Next]_vars PROVE IInv'
  OBVIOUS
<1>1. ASSUME NEW p \in Peers,
             PeerConnects(p) \/ PeerSends(p) \/ PeerEnds(p, "fin") \/ PeerEnds(p, "reset")
      PROVE  IInv'
  BY <1>1, PeerStep
<1>2. CASE OtherCloses
  BY <1>2, OtherClosesStep
<1>3. CASE CallStart \/ CallForceClose
  <2>1. \A c \in connections_ : c \in Conns
    BY DEF IInv, Good
  <2> QED
    BY <1>3, <2>1, QueueStep DEF CallStart, CallForceClose
<1>4. CASE LoopStep
  BY <1>4, EpollReturnsStep, DispatchStep, MovesStep, AcceptStep, AcceptEndsStep, ReadStep,
     RunFuctionsStep, OpenFailsStep, StutterStep DEF LoopStep, Exited
<1>5. ASSUME NEW c \in Conns, OnTimeout(c) PROVE IInv'
  BY <1>5, OnTimeoutStep
<1>6. CASE UNCHANGED vars
  BY <1>6, StutterStep
<1>7. CASE CallStop
  BY <1>7, CallStopStep
<1> QED
  BY <1>1, <1>2, <1>3, <1>4, <1>5, <1>6, <1>7 DEF Next

THEOREM InductiveInvariant == Spec => []IInv
  BY InitIInv, NextIInv, PTL DEF Spec
-----------------------------------------------------------------------------
(* The properties.                                                         *)

(***************************************************************************)
(* The state of the server is what its types say, for any number of peers, *)
(* connections and descriptors: no object believes in a number that is not *)
(* open (Event::fd_ against the kernel's table).                           *)
(***************************************************************************)
THEOREM TypeOKTheorem == Spec => []TypeOK
<1>1. IInv => TypeOK
  <2> SUFFICES ASSUME IInv PROVE TypeOK
    OBVIOUS
  <2>1. TypeInv /\ Good(table, connections_) /\ table \in Tables(Files)
        /\ connections_ \subseteq Conns
    BY DEF IInv, Good
  <2>2. NumbersAreOpen(table)
    <3> SUFFICES ASSUME NEW o \in Objects, IsOpen(table, o) PROVE FileOf(table, o) # NoFile
      BY DEF NumbersAreOpen
    <3>1. o \in connections_ \/ o = Acceptor
      BY <2>1, OwnersAre, ConstantsAre
    <3> QED
      BY <2>1, <3>1, OwnersAre, ConstantsAre
  <2> QED
    BY <2>1, <2>2 DEF TypeOK, TypeInv
<1> QED
  BY <1>1, InductiveInvariant, PTL

(***************************************************************************)
(* No descriptor leaks (TcpConnection::OnClose, Event::Close,              *)
(* Acceptor::Open): every open number has an owner the server knows.       *)
(***************************************************************************)
THEOREM NoDescriptorLeaksTheorem == Spec => []NoDescriptorLeaks
<1>1. IInv => NoDescriptorLeaks
  <2> SUFFICES ASSUME IInv PROVE NoDescriptorLeaks
    OBVIOUS
  <2>1. Good(table, connections_)
    BY DEF IInv
  <2>2. \A c \in connections_ : IsOpen(table, c)
    BY <2>1, OwnersAre
  <2>3. ASSUME NEW n \in Fds, table.file[n] \notin {NoFile, Other}
        PROVE  \E o \in connections_ \cup {Acceptor} : table.fd_[o] = n
    <3>1. PICK o \in Objects : table.fd_[o] = n
      BY <2>1, <2>3 DEF Good
    <3>2. o \in connections_ \/ o = Acceptor
      BY <2>1, <3>1, ConstantsAre DEF Good
    <3> QED
      BY <3>1, <3>2
  <2> QED
    BY <2>2, <2>3 DEF NoDescriptorLeaks
<1> QED
  BY <1>1, InductiveInvariant, PTL

(***************************************************************************)
(* Everybody is heard, however descriptors run out and are used again      *)
(* (Acceptor.cpp:26-105, TcpServer.cpp:35-69, EventLoop.cpp), unless Start *)
(* was called on an acceptor that was listening already.                   *)
(***************************************************************************)
THEOREM EverybodyHearsTheorem == Spec => []EverybodyHears
<1>1. IInv => EverybodyHears
  BY DEF IInv, HeardInv, Heard, EverybodyHears, ConnectionsHear, AcceptorHears
<1> QED
  BY <1>1, InductiveInvariant, PTL

(***************************************************************************)
(* An event reaches the socket it was reported for (EventLoop.cpp:38-70),  *)
(* although the numbers epoll_wait returned may be closed and used again   *)
(* before Loop() comes to them.                                            *)
(***************************************************************************)
THEOREM EventsReachTheorem == Spec => []EventsReachTheirSocket
<1>1. IInv => EventsReachTheirSocket
  <2> SUFFICES ASSUME IInv PROVE EventsReachTheirSocket
    OBVIOUS
  <2>1. DOMAIN batch = 1 .. Len(batch)
    BY DEF IInv, TypeInv
  <2> QED
    BY <2>1 DEF IInv, BatchInv, EventsReachTheirSocket
<1> QED
  BY <1>1, InductiveInvariant, PTL

(***************************************************************************)
(* No edge is lost (Acceptor::OnRead, Dispatch): when the loop sleeps,     *)
(* whoever waits for it is on the ready list.                              *)
(***************************************************************************)
THEOREM NobodyWaitsUnseenTheorem == Spec => []NobodyWaitsUnseen
<1>1. IInv => NobodyWaitsUnseen
  <2> SUFFICES ASSUME IInv, pc = "EpollWait"
               PROVE  /\ Waiting # {} => stopped \/ reopened
                                         \/ table.fd_[Acceptor] \in table.ready
                      /\ \A c \in connections_ :
                           HasInput(FileOf(table, c)) => reopened \/ table.fd_[c] \in table.ready
    BY DEF NobodyWaitsUnseen
  <2>1. batch = << >> /\ UnseenInv
    BY DEF IInv, BatchInv
  <2> QED
    BY <2>1 DEF UnseenInv, Reported
<1> QED
  BY <1>1, InductiveInvariant, PTL

=============================================================================
