-------------------------- MODULE DescriptorsProofs -------------------------
(***************************************************************************)
(* What the operations of module Descriptors do to a table, field by       *)
(* field, for any set of numbers, objects and files.                       *)
(***************************************************************************)
EXTENDS Descriptors, SequencesExt, FiniteSetTheorems, WellFoundedInduction, TLAPS

\* The least-number principle.
LEMMA LeastFd ==
  ASSUME NEW S \in SUBSET Nat, S # {}
  PROVE  Min(S) \in S /\ \A n \in S : Min(S) <= n
<1>1. IsWellFoundedOn(OpToRel(<,Nat), Nat)
  BY NatLessThanWellFounded, Zenon
<1>2. PICK m \in S : \A k \in S : ~ (<<k, m>> \in OpToRel(<,Nat))
  BY <1>1, WFMin, Zenon
<1>3. \A k \in S : ~ (k < m)
  BY <1>2 DEF OpToRel
<1>4. \A k \in S : m <= k
  BY <1>3
<1> QED
  BY <1>4 DEF Min

\* A record with the fields of a table is one.
LEMMA TableOfFields ==
  ASSUME NEW Files, NEW file \in [Fds -> Files \cup {NoFile}],
         NEW epoll \in SUBSET Fds, NEW ready \in SUBSET Fds,
         NEW events_ \in [Fds -> Objects \cup {NoObject}],
         NEW fd_ \in [Objects -> Fds \cup {NoFd}],
         NEW u, u = [file |-> file, epoll |-> epoll, ready |-> ready, events_ |-> events_,
                     fd_ |-> fd_]
  PROVE  /\ u \in Tables(Files)
         /\ u.file = file /\ u.epoll = epoll /\ u.ready = ready /\ u.events_ = events_
         /\ u.fd_ = fd_
  BY DEF Tables

LEMMA FieldsOfTable ==
  ASSUME NEW Files, NEW t \in Tables(Files)
  PROVE  /\ t = [file |-> t.file, epoll |-> t.epoll, ready |-> t.ready,
                 events_ |-> t.events_, fd_ |-> t.fd_]
         /\ t.file \in [Fds -> Files \cup {NoFile}]
         /\ t.epoll \subseteq Fds /\ t.ready \subseteq Fds
         /\ t.events_ \in [Fds -> Objects \cup {NoObject}]
         /\ t.fd_ \in [Objects -> Fds \cup {NoFd}]
  BY DEF Tables

\* From t to u, object o gets number n, open on f.
NumberGiven(t, u, o, f, n) ==
  /\ t.file[n] = NoFile
  /\ u.file = [t.file EXCEPT ![n] = f] /\ u.fd_ = [t.fd_ EXCEPT ![o] = n]
  /\ u.epoll = t.epoll /\ u.ready = t.ready /\ u.events_ = t.events_

LEMMA OpenAsIs ==
  ASSUME NEW Files, NEW t \in Tables(Files), NEW o \in Objects, NEW f \in Files,
         Free(t) # {}, NEW n, n = Min(Free(t)), NEW u, u = OpenAs(t, o, f)
  PROVE  n \in Fds /\ u \in Tables(Files) /\ NumberGiven(t, u, o, f, n)
<1>1. n \in Fds /\ t.file[n] = NoFile
  <2>1. Free(t) \subseteq Fds /\ Free(t) \subseteq Nat
    BY DescriptorsAssumption DEF Free
  <2>2. n \in Free(t)
    BY <2>1, LeastFd
  <2> QED
    BY <2>2 DEF Free
<1>2. u = [t EXCEPT !.file[n] = f, !.fd_[o] = n]
  BY DEF OpenAs
<1>3. /\ u.file = [t.file EXCEPT ![n] = f] /\ u.fd_ = [t.fd_ EXCEPT ![o] = n]
      /\ u.epoll = t.epoll /\ u.ready = t.ready /\ u.events_ = t.events_
  BY <1>2 DEF Tables
<1>4. u = [file |-> [t.file EXCEPT ![n] = f], epoll |-> t.epoll, ready |-> t.ready,
           events_ |-> t.events_, fd_ |-> [t.fd_ EXCEPT ![o] = n]]
  <2>1. u = [file |-> u.file, epoll |-> u.epoll, ready |-> u.ready, events_ |-> u.events_,
             fd_ |-> u.fd_]
    BY <1>2 DEF Tables
  <2> QED
    BY <1>3, <2>1
<1>5. [t.file EXCEPT ![n] = f] \in [Fds -> Files \cup {NoFile}]
      /\ [t.fd_ EXCEPT ![o] = n] \in [Objects -> Fds \cup {NoFd}]
  BY <1>1, FieldsOfTable
<1>6. u \in Tables(Files)
  BY <1>4, <1>5, FieldsOfTable, TableOfFields
<1> QED
  BY <1>1, <1>3, <1>6 DEF NumberGiven

LEMMA CloseNumberIs ==
  ASSUME NEW Files, NEW t \in Tables(Files), NEW n \in Fds, NEW u, u = CloseNumber(t, n)
  PROVE  /\ u \in Tables(Files)
         /\ u.file = [t.file EXCEPT ![n] = NoFile] /\ u.fd_ = t.fd_
         /\ u.epoll = t.epoll \ {n} /\ u.ready = t.ready \ {n} /\ u.events_ = t.events_
<1>1. u = [t EXCEPT !.file[n] = NoFile, !.epoll = t.epoll \ {n}, !.ready = t.ready \ {n}]
  BY DEF CloseNumber
<1>2. u = [file |-> [t.file EXCEPT ![n] = NoFile], epoll |-> t.epoll \ {n},
           ready |-> t.ready \ {n}, events_ |-> t.events_, fd_ |-> t.fd_]
  BY ZenonT(40), <1>1, FieldsOfTable
<1>3. [t.file EXCEPT ![n] = NoFile] \in [Fds -> Files \cup {NoFile}]
      /\ t.epoll \ {n} \subseteq Fds /\ t.ready \ {n} \subseteq Fds
  BY FieldsOfTable
<1> QED
  BY <1>2, <1>3, FieldsOfTable, TableOfFields

LEMMA CloseIs ==
  ASSUME NEW Files, NEW t \in Tables(Files), NEW o \in Objects, IsOpen(t, o),
         NEW u, u = Close(t, o)
  PROVE  /\ t.fd_[o] \in Fds /\ u \in Tables(Files)
         /\ u.file = [t.file EXCEPT ![t.fd_[o]] = NoFile]
         /\ u.fd_ = [t.fd_ EXCEPT ![o] = NoFd]
         /\ u.epoll = t.epoll \ {t.fd_[o]} /\ u.ready = t.ready \ {t.fd_[o]}
         /\ u.events_ = t.events_
<1> DEFINE v == CloseNumber(t, t.fd_[o])
<1>1. t.fd_[o] \in Fds
  BY DEF Tables, IsOpen
<1>2. /\ v \in Tables(Files)
      /\ v.file = [t.file EXCEPT ![t.fd_[o]] = NoFile] /\ v.fd_ = t.fd_
      /\ v.epoll = t.epoll \ {t.fd_[o]} /\ v.ready = t.ready \ {t.fd_[o]}
      /\ v.events_ = t.events_
  <2> DEFINE n == t.fd_[o]
  <2>1. n \in Fds /\ v = CloseNumber(t, n)
    BY <1>1
  <2> HIDE DEF n, v
  <2>2. /\ v \in Tables(Files)
        /\ v.file = [t.file EXCEPT ![n] = NoFile] /\ v.fd_ = t.fd_
        /\ v.epoll = t.epoll \ {n} /\ v.ready = t.ready \ {n} /\ v.events_ = t.events_
    BY <2>1, CloseNumberIs
  <2> QED
    BY <2>2 DEF n
<1>3. u = [v EXCEPT !.fd_[o] = NoFd]
  BY DEF Close
<1> HIDE DEF v
<1> QED
  BY <1>1, <1>2, <1>3 DEF Tables

LEMMA EdgeOfIs ==
  ASSUME NEW Files, NEW t \in Tables(Files), NEW f, NEW u, u = EdgeOf(t, f)
  PROVE  /\ u \in Tables(Files)
         /\ u.file = t.file /\ u.fd_ = t.fd_ /\ u.epoll = t.epoll /\ u.events_ = t.events_
         /\ u.ready = t.ready \cup {n \in t.epoll : t.file[n] = f}
<1>1. u = [t EXCEPT !.ready = t.ready \cup {n \in t.epoll : t.file[n] = f}]
  BY DEF EdgeOf
<1> QED
  BY <1>1 DEF Tables

\* From t to u, events_ and epoll get number n for object o, unless n is taken.
NumberAdded(t, u, o, n) ==
  /\ u.file = t.file /\ u.fd_ = t.fd_
  /\ \/ t.events_[n] # NoObject /\ u = t
     \/ /\ t.events_[n] = NoObject
        /\ u.events_ = [t.events_ EXCEPT ![n] = o]
        /\ u.epoll = t.epoll \cup {n}
        /\ u.ready \in {t.ready, t.ready \cup {n}}

LEMMA AddEventIs ==
  ASSUME NEW Files, NEW t \in Tables(Files), NEW o \in Objects, IsOpen(t, o),
         NEW now \in BOOLEAN, NEW n, n = t.fd_[o], NEW u, u = AddEvent(t, o, now)
  PROVE  u \in Tables(Files) /\ n \in Fds /\ NumberAdded(t, u, o, n)
<1> DEFINE v == [t EXCEPT !.events_[n] = o, !.epoll = t.epoll \cup {n}]
<1>1. n \in Fds
  BY DescriptorsAssumption DEF Tables, IsOpen
<1>2. CASE t.events_[n] # NoObject
  BY <1>1, <1>2 DEF AddEvent, NumberAdded
<1>3. CASE t.events_[n] = NoObject
  <2>1. u = Edge(v, n) \/ u = Edge(v, NoFd)
    BY <1>3 DEF AddEvent
  <2>2. /\ v \in Tables(Files) /\ v.file = t.file /\ v.fd_ = t.fd_ /\ v.ready = t.ready
        /\ v.epoll = t.epoll \cup {n} /\ v.events_ = [t.events_ EXCEPT ![n] = o]
    BY <1>1 DEF Tables
  <2> HIDE DEF v
  <2>3. u = v \/ u = [v EXCEPT !.ready = v.ready \cup {n}]
    BY <1>1, <2>1, <2>2, DescriptorsAssumption DEF Edge, Tables
  <2>4. /\ u \in Tables(Files) /\ u.file = v.file /\ u.fd_ = v.fd_
        /\ u.events_ = v.events_ /\ u.epoll = v.epoll
        /\ u.ready \in {v.ready, v.ready \cup {n}}
    BY <1>1, <2>2, <2>3 DEF Tables
  <2> QED
    BY <1>1, <1>3, <2>2, <2>4 DEF NumberAdded
<1> QED
  BY <1>2, <1>3

\* A socket that has something to report is on the ready list at once.
LEMMA AddEventNow ==
  ASSUME NEW Files, NEW t \in Tables(Files), NEW o \in Objects, IsOpen(t, o),
         NEW n, n = t.fd_[o], t.events_[n] = NoObject, NEW u, u = AddEvent(t, o, TRUE)
  PROVE  n \in u.ready
<1> DEFINE v == [t EXCEPT !.events_[n] = o, !.epoll = t.epoll \cup {n}]
<1>1. u = Edge(v, n)
  BY DEF AddEvent
<1>2. v.epoll = t.epoll \cup {n} /\ v.ready = t.ready
  BY DEF Tables
<1> HIDE DEF v
<1>3. u = [v EXCEPT !.ready = v.ready \cup {n}]
  BY <1>1, <1>2 DEF Edge
<1>4. "ready" \in DOMAIN v
  BY DEF Tables, v
<1> QED
  BY <1>3, <1>4

LEMMA DelEventIs ==
  ASSUME NEW Files, NEW t \in Tables(Files), NEW o \in Objects, NEW u, u = DelEvent(t, o)
  PROVE  /\ u \in Tables(Files) /\ u.file = t.file /\ u.fd_ = t.fd_
         /\ \/ ~ IsOpen(t, o) /\ u = t
            \/ IsOpen(t, o) /\ t.events_[t.fd_[o]] = NoObject /\ u = t
            \/ /\ IsOpen(t, o) /\ t.fd_[o] \in Fds
               /\ u.events_ = [t.events_ EXCEPT ![t.fd_[o]] = NoObject]
               /\ u.epoll = t.epoll \ {t.fd_[o]} /\ u.ready = t.ready \ {t.fd_[o]}
<1> DEFINE n == t.fd_[o]
<1>1. IsOpen(t, o) => n \in Fds
  BY DEF Tables, IsOpen
<1>2. CASE ~ IsOpen(t, o) \/ t.events_[n] = NoObject
  BY <1>2 DEF DelEvent
<1>3. CASE IsOpen(t, o) /\ t.events_[n] # NoObject
  <2>1. u = [t EXCEPT !.events_[n] = NoObject, !.epoll = t.epoll \ {n}, !.ready = t.ready \ {n}]
    BY <1>3 DEF DelEvent
  <2> HIDE DEF n
  <2>2. /\ u \in Tables(Files) /\ u.file = t.file /\ u.fd_ = t.fd_
        /\ u.events_ = [t.events_ EXCEPT ![n] = NoObject]
        /\ u.epoll = t.epoll \ {n} /\ u.ready = t.ready \ {n}
    <3>1. u = [file |-> t.file, epoll |-> t.epoll \ {n}, ready |-> t.ready \ {n},
               events_ |-> [t.events_ EXCEPT ![n] = NoObject], fd_ |-> t.fd_]
      BY ZenonT(40), <2>1, FieldsOfTable
    <3>2. [t.events_ EXCEPT ![n] = NoObject] \in [Fds -> Objects \cup {NoObject}]
          /\ t.epoll \ {n} \subseteq Fds /\ t.ready \ {n} \subseteq Fds
      BY FieldsOfTable
    <3> QED
      BY <3>1, <3>2, FieldsOfTable, TableOfFields
  <2> QED
    BY <1>1, <1>3, <2>2 DEF n
<1> QED
  BY <1>2, <1>3

\* From t to u, object o gets number n, open on f, and is registered for it
\* unless n is taken.
NumberOpened(t, u, o, f, n) ==
  /\ t.file[n] = NoFile
  /\ \A m \in Fds : u.file[m] = IF m = n THEN f ELSE t.file[m]
  /\ \A q \in Objects : u.fd_[q] = IF q = o THEN n ELSE t.fd_[q]
  /\ \A m \in Fds : u.events_[m] = IF m = n /\ t.events_[n] = NoObject THEN o
                                   ELSE t.events_[m]
  /\ \A m \in Fds : m \in u.epoll <=> m \in t.epoll \/ (m = n /\ t.events_[n] = NoObject)
  /\ t.ready \subseteq u.ready
  /\ \A m \in u.ready : m \in t.ready \/ (m = n /\ t.events_[n] = NoObject)

LEMMA OpenedIs ==
  ASSUME NEW Files, NEW t \in Tables(Files), NEW o \in Objects, NEW f \in Files,
         Free(t) # {}, NEW n, n = Min(Free(t)),
         NEW now \in BOOLEAN, NEW u, u = AddEvent(OpenAs(t, o, f), o, now)
  PROVE  n \in Fds /\ u \in Tables(Files) /\ NumberOpened(t, u, o, f, n)
<1> DEFINE v == OpenAs(t, o, f)
<1>1. v = OpenAs(t, o, f) /\ u = AddEvent(v, o, now)
  OBVIOUS
<1> HIDE DEF v
<1>g. n \in Fds /\ v \in Tables(Files) /\ NumberGiven(t, v, o, f, n)
  BY <1>1, OpenAsIs
<1>2. /\ n \in Fds /\ t.file[n] = NoFile
      /\ v \in Tables(Files)
      /\ v.file = [t.file EXCEPT ![n] = f] /\ v.fd_ = [t.fd_ EXCEPT ![o] = n]
      /\ v.epoll = t.epoll /\ v.ready = t.ready /\ v.events_ = t.events_
  BY <1>g DEF NumberGiven
<1>3. DOMAIN t.file = Fds /\ DOMAIN t.events_ = Fds /\ DOMAIN t.fd_ = Objects
  BY FieldsOfTable
<1>4. n = v.fd_[o] /\ IsOpen(v, o)
  BY <1>2, <1>3, DescriptorsAssumption DEF IsOpen
<1>a. u \in Tables(Files) /\ NumberAdded(v, u, o, n)
  BY <1>1, <1>2, <1>4, AddEventIs
<1>5. /\ u \in Tables(Files) /\ u.file = v.file /\ u.fd_ = v.fd_
      /\ \/ v.events_[n] # NoObject /\ u = v
         \/ /\ v.events_[n] = NoObject
            /\ u.events_ = [v.events_ EXCEPT ![n] = o]
            /\ u.epoll = v.epoll \cup {n}
            /\ u.ready \in {v.ready, v.ready \cup {n}}
  BY <1>a DEF NumberAdded
<1>6. /\ \A m \in Fds : u.file[m] = IF m = n THEN f ELSE t.file[m]
      /\ \A q \in Objects : u.fd_[q] = IF q = o THEN n ELSE t.fd_[q]
  BY <1>2, <1>3, <1>5
<1>7. CASE v.events_[n] # NoObject /\ u = v
  <2>1. /\ \A m \in Fds : u.events_[m] = IF m = n /\ t.events_[n] = NoObject THEN o
                                         ELSE t.events_[m]
        /\ \A m \in Fds : m \in u.epoll <=> m \in t.epoll
                                            \/ (m = n /\ t.events_[n] = NoObject)
        /\ u.ready = t.ready
    BY <1>2, <1>7
  <2> QED
    BY <1>2, <1>5, <1>6, <2>1 DEF NumberOpened
<1>8. CASE /\ v.events_[n] = NoObject
           /\ u.events_ = [v.events_ EXCEPT ![n] = o]
           /\ u.epoll = v.epoll \cup {n}
           /\ u.ready \in {v.ready, v.ready \cup {n}}
  <2>1. t.events_[n] = NoObject /\ u.events_ = [t.events_ EXCEPT ![n] = o]
    BY <1>2, <1>8
  <2>2. \A m \in Fds : u.events_[m] = IF m = n /\ t.events_[n] = NoObject THEN o
                                      ELSE t.events_[m]
    BY <1>3, <2>1
  <2>3. \A m \in Fds : m \in u.epoll <=> m \in t.epoll \/ (m = n /\ t.events_[n] = NoObject)
    BY <1>2, <1>8, <2>1
  <2>4. /\ t.ready \subseteq u.ready
        /\ \A m \in u.ready : m \in t.ready \/ (m = n /\ t.events_[n] = NoObject)
    BY <1>2, <1>8, <2>1
  <2> QED
    BY <1>2, <1>5, <1>6, <2>2, <2>3, <2>4 DEF NumberOpened
<1> QED
  BY <1>2, <1>5, <1>7, <1>8

LEMMA OpenedNow ==
  ASSUME NEW Files, NEW t \in Tables(Files), NEW o \in Objects, NEW f \in Files,
         Free(t) # {}, NEW n, n = Min(Free(t)), t.events_[n] = NoObject,
         NEW u, u = AddEvent(OpenAs(t, o, f), o, TRUE)
  PROVE  n \in u.ready
<1> DEFINE v == OpenAs(t, o, f)
<1>1. v = OpenAs(t, o, f) /\ u = AddEvent(v, o, TRUE)
  OBVIOUS
<1> HIDE DEF v
<1>2. n \in Fds /\ v \in Tables(Files) /\ NumberGiven(t, v, o, f, n)
  BY <1>1, OpenAsIs
<1>3. n = v.fd_[o] /\ IsOpen(v, o) /\ v.events_[n] = NoObject
  BY <1>2, FieldsOfTable, DescriptorsAssumption DEF IsOpen, NumberGiven
<1> QED
  BY <1>1, <1>2, <1>3, AddEventNow

\* A permutation of a finite set lists each of its members once.
LEMMA SeqsOfSet ==
  ASSUME NEW S, IsFiniteSet(S), NEW s \in SetToSeqs(S)
  PROVE  /\ s \in Seq(S)
         /\ \A i, j \in 1 .. Len(s) : i # j => s[i] # s[j]
         /\ \A x \in S : \E i \in 1 .. Len(s) : s[i] = x
<1> DEFINE k == Cardinality(S)
<1>1. k \in Nat
  BY FS_CardinalityType
<1> HIDE DEF k
<1>2. s \in [1 .. k -> S] /\ \A i, j \in 1 .. k : i # j => s[i] # s[j]
  BY DEF SetToSeqs, k
<1>3. s \in Seq(S) /\ Len(s) = k
  BY <1>1, <1>2
<1>4. s \in Injection(1 .. k, S)
  BY <1>2 DEF Injection, IsInjective
<1>5. IsFiniteSet(1 .. k) /\ Cardinality(1 .. k) = k
  <2>1. 0 + 1 \in Int /\ k \in Int
    BY <1>1
  <2>2. Cardinality(1 .. k) = IF 1 > k THEN 0 ELSE k - 1 + 1
    BY <2>1, FS_Interval
  <2> QED
    BY <1>1, <2>1, <2>2, FS_Interval
<1>6. s \in Surjection(1 .. k, S)
  BY <1>4, <1>5, FS_Injection DEF k
<1> QED
  BY <1>2, <1>3, <1>6 DEF Surjection
=============================================================================
