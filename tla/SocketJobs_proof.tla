-------------------------- MODULE SocketJobs_proof --------------------------
(***************************************************************************)
(* Proofs about SocketJobs, for any operations, lengths, buffer sizes and    *)
(* number of packets per writev, on plain and on secure sockets.  The first *)
(* part is about the list of jobs and the memory of the buffers.  The       *)
(* second shows that SocketJobs implements OutStream on a socket that is    *)
(* sent no files, and that SSL_write is called again as it must be.         *)
(***************************************************************************)
EXTENDS SocketJobs, SequenceTheorems, FiniteSetTheorems, TLAPS

\* Packets and jobs, with offsets that may be anything: the theorems do not
\* depend on them.
Part == [id : Id, len : Lens, off : Int]
Job == [on : BOOLEAN, types : SUBSET Types, packets : Seq(Part), file : Seq(Part)]

IdAt(s, p, k) == s[p].packets[k].id

\* A job that is only to send a file has one.
HasFile(j) == j.on /\ j.types = {"sendfile"} => j.file # <<>>
HaveFiles(s) == \A p \in 1..Len(s) : HasFile(s[p])

\* A packet of the operation is queued.
Has(s, id) == \E p \in 1..Len(s) : \E k \in 1..Len(s[p].packets) : IdAt(s, p, k) = id

FreeBehind(s, c) == \A p \in 1..Len(s) : p > c => ~s[p].on

\* No operation has a packet in two places.
OncePerQueue(s) ==
  \A p, q \in 1..Len(s) :
    \A k \in 1..Len(s[p].packets), l \in 1..Len(s[q].packets) :
      IdAt(s, p, k) = IdAt(s, q, l) => p = q /\ k = l

\* The job list is a list, with jobs.current in it and nothing behind that.
ListInv ==
  /\ slots \in Seq(Job)
  /\ cur \in 1..Len(slots)
  /\ unread \in Int
  /\ record \in [id : Id \cup {0}, off : Int]
  /\ n \in 0..MaxOps
  /\ FreeBehind(slots, cur)
  /\ HaveFiles(slots)

\* What is queued has been accepted, the last being operation m, has not been
\* freed, and is queued once.
IdsInv(s, m, fr) ==
  /\ \A p \in 1..Len(s) : \A k \in 1..Len(s[p].packets) :
       IdAt(s, p, k) <= m /\ fr[IdAt(s, p, k)] = 0
  /\ OncePerQueue(s)

FreedInv ==
  /\ freed \in [Id -> Nat]
  /\ \A id \in Id : freed[id] <= 1
  /\ \A id \in Id : id > n => freed[id] = 0
  /\ IdsInv(slots, n, freed)

Inv == ListInv /\ FreedInv

\* The packets of t are packets of s: those of queue p are those of queue f[p],
\* but for the first d[p].
Comes(t, s, f, d) ==
  /\ \A p \in 1..Len(t) : d[p] \in Int
  /\ \A p, q \in 1..Len(t) : f[p] = f[q] => p = q
  /\ \A p \in 1..Len(t) : \A k \in 1..Len(t[p].packets) :
       /\ f[p] \in 1..Len(s)
       /\ k + d[p] \in 1..Len(s[f[p]].packets)
       /\ IdAt(t, p, k) = IdAt(s, f[p], k + d[p])

-----------------------------------------------------------------------------
(* The job list.                                                            *)

LEMMA FreshIsJob == Fresh \in Job /\ Fresh.packets = <<>> /\ ~Fresh.on /\ HasFile(Fresh)
  BY DEF Fresh, Job, HasFile

\* A list in which one job is replaced.
LEMMA Replaced ==
  ASSUME NEW s \in Seq(Job), NEW p \in 1..Len(s), NEW j \in Job
  PROVE  /\ [s EXCEPT ![p] = j] \in Seq(Job)
         /\ Len([s EXCEPT ![p] = j]) = Len(s)
         /\ \A q \in 1..Len(s) : [s EXCEPT ![p] = j][q] = IF q = p THEN j ELSE s[q]
  BY ExceptSeq

\* ape_grow_pool leaves the jobs that are there, and adds free ones.
LEMMA GrownShape ==
  ASSUME slots \in Seq(Job), NEW p \in 1..(Len(slots) + 1)
  PROVE  /\ Grown(p) \in Seq(Job)
         /\ p \in 1..Len(Grown(p))
         /\ Len(Grown(p)) >= Len(slots)
         /\ \A q \in 1..Len(Grown(p)) :
              Grown(p)[q] = IF q <= Len(slots) THEN slots[q] ELSE Fresh
<1>1. Len(slots) \in Nat
  BY LenProperties
<1>2. CASE p <= Len(slots)
  BY <1>1, <1>2 DEF Grown
<1>3. CASE p > Len(slots)
  <2>1. /\ <<Fresh, Fresh>> \in Seq(Job)
        /\ Len(<<Fresh, Fresh>>) = 2
        /\ \A q \in 1..2 : <<Fresh, Fresh>>[q] = Fresh
    BY FreshIsJob
  <2>2. Grown(p) = slots \o <<Fresh, Fresh>>
    BY <1>3 DEF Grown
  <2>3. /\ slots \o <<Fresh, Fresh>> \in Seq(Job)
        /\ Len(slots \o <<Fresh, Fresh>>) = Len(slots) + 2
        /\ \A q \in 1..(Len(slots) + 2) : (slots \o <<Fresh, Fresh>>)[q] =
             IF q <= Len(slots) THEN slots[q] ELSE <<Fresh, Fresh>>[q - Len(slots)]
    BY <2>1, ConcatProperties
  <2> QED BY <1>1, <1>3, <2>1, <2>2, <2>3
<1> QED BY <1>1, <1>2, <1>3

\* ape_socket_job_get_slot sets the type and the active flag, and nothing else.
LEMMA ActiveJob ==
  ASSUME NEW r \in Job, NEW type \in Types
  PROVE  LET j == [r EXCEPT !.on = TRUE, !.types = @ \cup {type}] IN
         j \in Job /\ j.packets = r.packets /\ type \in j.types
  BY DEF Job

\* The slot is jobs.current or the one behind it; what else the list has is what
\* it had, and free jobs.
LEMMA ActivatedShape ==
  ASSUME slots \in Seq(Job), cur \in 1..Len(slots), NEW type \in Types
  PROVE  LET p == SlotFor(type)  a == Activated(type) IN
         /\ p \in {cur, cur + 1}
         /\ a \in Seq(Job)
         /\ p \in 1..Len(a)
         /\ Len(a) >= Len(slots)
         /\ \A q \in 1..Len(a) : q # p =>
              a[q] = IF q <= Len(slots) THEN slots[q] ELSE Fresh
         /\ a[p].packets = IF p <= Len(slots) THEN slots[p].packets ELSE <<>>
         /\ type \in a[p].types
<1> DEFINE p == SlotFor(type)
           g == Grown(p)
           j == [g[p] EXCEPT !.on = TRUE, !.types = @ \cup {type}]
<1>1. p \in {cur, cur + 1} /\ p \in 1..(Len(slots) + 1)
  BY LenProperties DEF SlotFor
<1>2. /\ g \in Seq(Job) /\ p \in 1..Len(g) /\ Len(g) >= Len(slots)
      /\ \A q \in 1..Len(g) : g[q] = IF q <= Len(slots) THEN slots[q] ELSE Fresh
  BY <1>1, GrownShape
<1>3. g[p] \in Job
  BY <1>2, ElementOfSeq
<1>4. j \in Job /\ j.packets = g[p].packets /\ type \in j.types
  BY <1>3, ActiveJob
<1>5. Activated(type) = [g EXCEPT ![p] = j]
  BY DEF Activated
<1>6. /\ [g EXCEPT ![p] = j] \in Seq(Job)
      /\ Len([g EXCEPT ![p] = j]) = Len(g)
      /\ \A q \in 1..Len(g) : [g EXCEPT ![p] = j][q] = IF q = p THEN j ELSE g[q]
  BY <1>2, <1>4, Replaced
<1>7. j.packets = IF p <= Len(slots) THEN slots[p].packets ELSE <<>>
  BY <1>2, <1>4, FreshIsJob
<1> HIDE DEF g, j, p
<1> QED BY <1>1, <1>2, <1>4, <1>5, <1>6, <1>7 DEF p

\* Two packets of one operation are one.
LEMMA OneOf ==
  ASSUME NEW s, OncePerQueue(s), NEW p \in 1..Len(s), NEW q \in 1..Len(s),
         NEW k \in 1..Len(s[p].packets), NEW l \in 1..Len(s[q].packets),
         IdAt(s, p, k) = IdAt(s, q, l)
  PROVE  p = q /\ k = l
  BY DEF OncePerQueue

\* A list that comes from another has what that has.
LEMMA IdsKept ==
  ASSUME NEW s, NEW t \in Seq(Job), NEW f, NEW d, NEW m, NEW fr,
         IdsInv(s, m, fr), Comes(t, s, f, d)
  PROVE  IdsInv(t, m, fr)
<1>1. OncePerQueue(s)
  BY DEF IdsInv
<1>2. OncePerQueue(t)
  <2> SUFFICES ASSUME NEW p \in 1..Len(t), NEW q \in 1..Len(t),
                      NEW k \in 1..Len(t[p].packets), NEW l \in 1..Len(t[q].packets),
                      IdAt(t, p, k) = IdAt(t, q, l)
               PROVE  p = q /\ k = l
    BY DEF OncePerQueue
  <2>1. f[p] \in 1..Len(s) /\ f[q] \in 1..Len(s)
    BY DEF Comes
  <2>2. /\ k + d[p] \in 1..Len(s[f[p]].packets)
        /\ l + d[q] \in 1..Len(s[f[q]].packets)
    BY DEF Comes
  <2>3. IdAt(s, f[p], k + d[p]) = IdAt(s, f[q], l + d[q])
    BY DEF Comes
  <2>4. f[p] = f[q] /\ k + d[p] = l + d[q]
    <3>1. PICK i, j, y, z : i = f[p] /\ j = f[q] /\ y = k + d[p] /\ z = l + d[q]
      OBVIOUS
    <3>2. /\ i \in 1..Len(s) /\ j \in 1..Len(s)
          /\ y \in 1..Len(s[i].packets) /\ z \in 1..Len(s[j].packets)
      BY <2>1, <2>2, <3>1
    <3>3. IdAt(s, i, y) = IdAt(s, j, z)
      BY <2>3, <3>1
    <3>4. i = j /\ y = z
      BY <1>1, <3>2, <3>3, OneOf
    <3> QED BY <3>1, <3>4
  <2>5. p = q
    BY <2>4 DEF Comes
  <2>6. Len(t[p].packets) \in Nat /\ Len(t[q].packets) \in Nat
    <3>1. t[p] \in Job /\ t[q] \in Job
      BY ElementOfSeq
    <3>2. t[p].packets \in Seq(Part) /\ t[q].packets \in Seq(Part)
      BY <3>1 DEF Job
    <3> QED BY <3>2, LenProperties
  <2>7. k \in Int /\ l \in Int /\ d[p] \in Int
    BY <2>6 DEF Comes
  <2> QED BY <2>4, <2>5, <2>7
<1>3. \A p \in 1..Len(t) : \A k \in 1..Len(t[p].packets) :
        IdAt(t, p, k) <= m /\ fr[IdAt(t, p, k)] = 0
  <2> SUFFICES ASSUME NEW p \in 1..Len(t), NEW k \in 1..Len(t[p].packets)
               PROVE  IdAt(t, p, k) <= m /\ fr[IdAt(t, p, k)] = 0
    OBVIOUS
  <2>1. /\ f[p] \in 1..Len(s) /\ k + d[p] \in 1..Len(s[f[p]].packets)
        /\ IdAt(t, p, k) = IdAt(s, f[p], k + d[p])
    BY DEF Comes
  <2>2. PICK q, l : q = f[p] /\ l = k + d[p]
    OBVIOUS
  <2>3. q \in 1..Len(s) /\ l \in 1..Len(s[q].packets) /\ IdAt(t, p, k) = IdAt(s, q, l)
    BY <2>1, <2>2
  <2>4. IdAt(s, q, l) <= m /\ fr[IdAt(s, q, l)] = 0
    BY <2>3 DEF IdsInv
  <2> QED BY <2>3, <2>4
<1> QED BY <1>2, <1>3 DEF IdsInv

\* The same, of a list that differs in its first job only.
LEMMA FirstKept ==
  ASSUME NEW s \in Seq(Job), NEW j \in Job, NEW m, NEW fr, NEW c \in 1..Len(s),
         IdsInv(s, m, fr), FreeBehind(s, c), HaveFiles(s), HasFile(j),
         Len(j.packets) = Len(s[1].packets),
         \A k \in 1..Len(j.packets) : j.packets[k].id = s[1].packets[k].id
  PROVE  LET t == [s EXCEPT ![1] = j] IN
         /\ t \in Seq(Job)
         /\ Len(t) = Len(s)
         /\ FreeBehind(t, c)
         /\ HaveFiles(t)
         /\ IdsInv(t, m, fr)
<1> DEFINE t == [s EXCEPT ![1] = j]
           f == [p \in 1..Len(s) |-> p]
           d == [p \in 1..Len(s) |-> 0]
<1>1. 1 \in 1..Len(s) /\ Len(s) \in Nat
  BY LenProperties
<1>2. /\ t \in Seq(Job)
      /\ Len(t) = Len(s)
      /\ \A q \in 1..Len(s) : t[q] = IF q = 1 THEN j ELSE s[q]
  BY <1>1, Replaced
<1> HIDE DEF t
<1>3. FreeBehind(t, c) /\ HaveFiles(t)
  BY <1>1, <1>2 DEF FreeBehind, HaveFiles
<1>4. Comes(t, s, f, d)
  BY <1>1, <1>2 DEF Comes, IdAt
<1>5. IdsInv(t, m, fr)
  BY <1>2, <1>4, IdsKept
<1> QED BY <1>2, <1>3, <1>5 DEF t

LEMMA ActivatedKeeps ==
  ASSUME ListInv, FreedInv, NEW type \in Types
  PROVE  LET p == SlotFor(type)  a == Activated(type) IN
         /\ a \in Seq(Job)
         /\ p \in 1..Len(a)
         /\ FreeBehind(a, p)
         /\ \A q \in 1..Len(a) : q # p => HasFile(a[q])
         /\ type \in a[p].types
         /\ IdsInv(a, n, freed)
<1> DEFINE p == SlotFor(type)
           a == Activated(type)
           f == [q \in 1..Len(a) |-> q]
           d == [q \in 1..Len(a) |-> 0]
<1>1. /\ p \in {cur, cur + 1}
      /\ a \in Seq(Job)
      /\ p \in 1..Len(a)
      /\ Len(a) >= Len(slots)
      /\ \A q \in 1..Len(a) : q # p => a[q] = IF q <= Len(slots) THEN slots[q] ELSE Fresh
      /\ a[p].packets = IF p <= Len(slots) THEN slots[p].packets ELSE <<>>
      /\ type \in a[p].types
  BY ActivatedShape DEF ListInv
<1>2. Len(slots) \in Nat /\ Len(a) \in Nat /\ cur \in 1..Len(slots)
  BY <1>1, LenProperties DEF ListInv
<1> HIDE DEF a, p
<1>3. FreeBehind(a, p)
  <2> SUFFICES ASSUME NEW q \in 1..Len(a), q > p
               PROVE  ~a[q].on
    BY DEF FreeBehind
  <2>1. q > cur /\ q # p
    BY <1>1, <1>2
  <2>2. q <= Len(slots) => ~slots[q].on
    BY <2>1, <1>2 DEF ListInv, FreeBehind
  <2> QED BY <1>1, <2>1, <2>2, FreshIsJob
<1>4. \A q \in 1..Len(a) : a[q].packets = IF q <= Len(slots) THEN slots[q].packets ELSE <<>>
  BY <1>1, FreshIsJob
<1>5. Comes(a, slots, f, d)
  <2>1. \A q \in 1..Len(a) : \A k \in 1..Len(a[q].packets) :
          q \in 1..Len(slots) /\ k \in Int /\ a[q].packets = slots[q].packets
    BY <1>2, <1>4
  <2> QED BY <2>1 DEF Comes, IdAt
<1>6. IdsInv(a, n, freed)
  BY <1>1, <1>5, IdsKept DEF FreedInv
<1>7. \A q \in 1..Len(a) : q # p => HasFile(a[q])
  BY <1>1, <1>2, FreshIsJob DEF ListInv, HaveFiles
<1> QED BY <1>1, <1>3, <1>6, <1>7 DEF a, p

\* ape_socket_queue_data, of a new operation.
LEMMA QueueKeeps ==
  ASSUME ListInv, FreedInv, NEW packet \in Part, n + 1 \in Id, packet.id = n + 1,
         Queue(packet)
  PROVE  /\ slots' \in Seq(Job)
         /\ cur' \in 1..Len(slots')
         /\ FreeBehind(slots', cur')
         /\ HaveFiles(slots')
         /\ IdsInv(slots', n + 1, freed)
<1> DEFINE p == SlotFor("writev")
           a == Activated("writev")
           j == [a[p] EXCEPT !.packets = Append(@, packet)]
           t == [a EXCEPT ![p] = j]
<1>1. /\ a \in Seq(Job)
      /\ p \in 1..Len(a)
      /\ FreeBehind(a, p)
      /\ \A q \in 1..Len(a) : q # p => HasFile(a[q])
      /\ "writev" \in a[p].types
      /\ IdsInv(a, n, freed)
  BY ActivatedKeeps DEF Types
<1>2. slots' = t /\ cur' = p
  BY DEF Queue
<1> HIDE DEF a, p
<1>3. a[p] \in Job /\ a[p].packets \in Seq(Part) /\ Len(a) \in Nat
  <2>1. a[p] \in Job
    BY <1>1, ElementOfSeq
  <2> QED BY <1>1, <2>1, LenProperties DEF Job
<1> DEFINE l == Len(a[p].packets)
<1>4. /\ j \in Job
      /\ j.packets = Append(a[p].packets, packet)
      /\ j.types = a[p].types
  BY <1>3, AppendProperties DEF Job
<1>5. /\ l \in Nat
      /\ Len(j.packets) = l + 1
      /\ \A k \in 1..l : j.packets[k] = a[p].packets[k]
      /\ j.packets[l + 1] = packet
  BY <1>3, <1>4, AppendProperties, LenProperties
<1>6. /\ t \in Seq(Job)
      /\ Len(t) = Len(a)
      /\ \A q \in 1..Len(a) : t[q] = IF q = p THEN j ELSE a[q]
  BY <1>1, <1>4, Replaced
<1> HIDE DEF j, t, l
<1>7. FreeBehind(t, p) /\ HaveFiles(t)
  BY <1>1, <1>3, <1>4, <1>6 DEF FreeBehind, HaveFiles, HasFile
<1>8. \A q \in 1..Len(t) : \A k \in 1..Len(t[q].packets) :
        \/ q = p /\ k = l + 1 /\ IdAt(t, q, k) = n + 1
        \/ k \in 1..Len(a[q].packets) /\ IdAt(t, q, k) = IdAt(a, q, k)
  <2> SUFFICES ASSUME NEW q \in 1..Len(t), NEW k \in 1..Len(t[q].packets)
               PROVE  \/ q = p /\ k = l + 1 /\ IdAt(t, q, k) = n + 1
                      \/ k \in 1..Len(a[q].packets) /\ IdAt(t, q, k) = IdAt(a, q, k)
    OBVIOUS
  <2>1. CASE q # p
    BY <1>6, <2>1 DEF IdAt
  <2>2. CASE q = p
    <3>1. t[q] = j /\ k \in 1..(l + 1)
      BY <1>5, <1>6, <2>2
    <3>2. k = l + 1 \/ k \in 1..l
      BY <1>5, <3>1
    <3> QED BY <1>5, <2>2, <3>1, <3>2 DEF IdAt, l
  <2> QED BY <2>1, <2>2
<1>9. /\ \A q \in 1..Len(a) : \A k \in 1..Len(a[q].packets) :
           IdAt(a, q, k) <= n /\ freed[IdAt(a, q, k)] = 0
      /\ OncePerQueue(a)
  BY <1>1 DEF IdsInv
<1>10. freed[n + 1] = 0 /\ n \in Nat
  BY DEF FreedInv, ListInv
<1>11. \A q \in 1..Len(a) : \A k \in 1..Len(a[q].packets) : IdAt(a, q, k) \in Int
  <2> SUFFICES ASSUME NEW q \in 1..Len(a), NEW k \in 1..Len(a[q].packets)
               PROVE  IdAt(a, q, k) \in Int
    OBVIOUS
  <2>1. a[q] \in Job
    BY <1>1, ElementOfSeq
  <2>2. a[q].packets \in Seq(Part)
    BY <2>1 DEF Job
  <2>3. a[q].packets[k] \in Part
    BY <2>2, ElementOfSeq
  <2> QED BY <2>3, BoundsArePositive DEF IdAt, Part, Id
<1>12. \A q \in 1..Len(t) : \A k \in 1..Len(t[q].packets) :
         IdAt(t, q, k) <= n + 1 /\ freed[IdAt(t, q, k)] = 0
  BY <1>6, <1>8, <1>9, <1>10, <1>11
<1>13. OncePerQueue(t)
  <2> SUFFICES ASSUME NEW q \in 1..Len(t), NEW r \in 1..Len(t),
                      NEW k \in 1..Len(t[q].packets), NEW m \in 1..Len(t[r].packets),
                      IdAt(t, q, k) = IdAt(t, r, m)
               PROVE  q = r /\ k = m
    BY DEF OncePerQueue
  <2>1. CASE IdAt(t, q, k) = n + 1
    <3>1. ~(k \in 1..Len(a[q].packets) /\ IdAt(t, q, k) = IdAt(a, q, k))
      BY <1>6, <1>9, <1>10, <1>11, <2>1
    <3>2. ~(m \in 1..Len(a[r].packets) /\ IdAt(t, r, m) = IdAt(a, r, m))
      BY <1>6, <1>9, <1>10, <1>11, <2>1
    <3> QED BY <1>8, <3>1, <3>2
  <2>2. CASE IdAt(t, q, k) # n + 1
    <3>1. /\ k \in 1..Len(a[q].packets) /\ IdAt(t, q, k) = IdAt(a, q, k)
          /\ m \in 1..Len(a[r].packets) /\ IdAt(t, r, m) = IdAt(a, r, m)
      BY <1>8, <2>2
    <3>2. q \in 1..Len(a) /\ r \in 1..Len(a)
      BY <1>6
    <3>3. IdAt(a, q, k) = IdAt(a, r, m) /\ OncePerQueue(a)
      BY <1>9, <3>1
    <3> QED BY <3>1, <3>2, <3>3, OneOf
  <2> QED BY <2>1, <2>2
<1>14. IdsInv(t, n + 1, freed)
  BY <1>12, <1>13 DEF IdsInv
<1> QED BY <1>1, <1>2, <1>6, <1>7, <1>14

\* A file takes a job, and what it pointed to.
LEMMA QueueFileKeeps ==
  ASSUME ListInv, FreedInv, NEW file \in Part, QueueFile(file)
  PROVE  /\ slots' \in Seq(Job)
         /\ cur' \in 1..Len(slots')
         /\ FreeBehind(slots', cur')
         /\ HaveFiles(slots')
         /\ IdsInv(slots', n, freed)
<1> DEFINE p == SlotFor("sendfile")
           a == Activated("sendfile")
           j == [a[p] EXCEPT !.packets = <<>>, !.file = <<file>>]
           t == [a EXCEPT ![p] = j]
           f == [q \in 1..Len(a) |-> q]
           d == [q \in 1..Len(a) |-> 0]
<1>1. /\ a \in Seq(Job)
      /\ p \in 1..Len(a)
      /\ FreeBehind(a, p)
      /\ \A q \in 1..Len(a) : q # p => HasFile(a[q])
      /\ IdsInv(a, n, freed)
  BY ActivatedKeeps DEF Types
<1>2. slots' = t /\ cur' = p
  BY DEF QueueFile
<1> HIDE DEF a, p
<1>3. a[p] \in Job /\ Len(a) \in Nat
  BY <1>1, ElementOfSeq, LenProperties
<1>4. j \in Job /\ j.packets = <<>> /\ j.file # <<>>
  <2>1. <<>> \in Seq(Part) /\ <<file>> \in Seq(Part)
    OBVIOUS
  <2> QED BY <1>3, <2>1 DEF Job
<1>5. /\ t \in Seq(Job)
      /\ Len(t) = Len(a)
      /\ \A q \in 1..Len(a) : t[q] = IF q = p THEN j ELSE a[q]
  BY <1>1, <1>4, Replaced
<1> HIDE DEF j, t
<1>6. FreeBehind(t, p) /\ HaveFiles(t)
  BY <1>1, <1>3, <1>4, <1>5 DEF FreeBehind, HaveFiles, HasFile
<1>7. \A q \in 1..Len(t) : \A k \in 1..Len(t[q].packets) :
        k \in Int /\ t[q] = a[q]
  <2> SUFFICES ASSUME NEW q \in 1..Len(t), NEW k \in 1..Len(t[q].packets)
               PROVE  k \in Int /\ t[q] = a[q]
    OBVIOUS
  <2>1. q # p
    BY <1>4, <1>5
  <2>2. t[q] = a[q] /\ a[q] \in Job
    BY <1>1, <1>5, <2>1, ElementOfSeq
  <2> QED BY <2>2, LenProperties DEF Job
<1>8. Comes(t, a, f, d)
  BY <1>5, <1>7 DEF Comes, IdAt
<1>9. IdsInv(t, n, freed)
  BY <1>1, <1>5, <1>8, IdsKept
<1> QED BY <1>1, <1>2, <1>5, <1>6, <1>9

\* ape_pool_head_to_current: the head becomes job cur, and those between move up.
LEMMA MovedShape ==
  ASSUME slots \in Seq(Job), cur \in 1..Len(slots), NEW j \in Job, HeadToCurrent(j)
  PROVE  /\ slots' \in Seq(Job)
         /\ Len(slots') = Len(slots)
         /\ \A q \in 1..Len(slots) :
              slots'[q] = IF q < cur THEN slots[q + 1] ELSE IF q = cur THEN j ELSE slots[q]
<1>1. Len(slots) \in Nat /\ 1 \in 1..Len(slots)
  BY LenProperties
<1>2. CASE cur = 1
  <2>1. slots' = [slots EXCEPT ![1] = j]
    BY <1>2 DEF HeadToCurrent
  <2> QED BY <1>1, <1>2, <2>1, Replaced
<1>3. CASE cur # 1
  <2> DEFINE u == SubSeq(slots, 2, cur)
             v == SubSeq(slots, cur + 1, Len(slots))
  <2>1. slots' = (u \o <<j>>) \o v
    BY <1>3 DEF HeadToCurrent
  <2>2. /\ u \in Seq(Job)
        /\ Len(u) = cur - 1
        /\ \A q \in 1..(cur - 1) : u[q] = slots[q + 1]
    BY <1>1, <1>3, SubSeqProperties
  <2>3. /\ v \in Seq(Job)
        /\ Len(v) = Len(slots) - cur
        /\ \A q \in 1..(Len(slots) - cur) : v[q] = slots[q + cur]
    BY <1>1, <1>3, SubSeqProperties
  <2> HIDE DEF u, v
  <2>4. <<j>> \in Seq(Job) /\ Len(<<j>>) = 1 /\ <<j>>[1] = j
    OBVIOUS
  <2> DEFINE w == u \o <<j>>
  <2>5. /\ w \in Seq(Job)
        /\ Len(w) = cur
        /\ \A q \in 1..cur : w[q] = IF q < cur THEN u[q] ELSE j
    BY <1>1, <1>3, <2>2, <2>4, ConcatProperties
  <2> HIDE DEF w
  <2>6. /\ w \o v \in Seq(Job)
        /\ Len(w \o v) = Len(slots)
        /\ \A q \in 1..Len(slots) : (w \o v)[q] = IF q <= cur THEN w[q] ELSE v[q - cur]
    <3>1. cur + (Len(slots) - cur) = Len(slots)
      BY <1>1
    <3>2. /\ w \o v \in Seq(Job)
          /\ Len(w \o v) = Len(w) + Len(v)
          /\ \A q \in 1..(Len(w) + Len(v)) :
               (w \o v)[q] = IF q <= Len(w) THEN w[q] ELSE v[q - Len(w)]
      <4>1. w \in Seq(Job) /\ v \in Seq(Job)
        BY <2>3, <2>5
      <4> HIDE DEF w
      <4> QED BY ONLY <4>1, ConcatProperties
    <3>3. Len(w) + Len(v) = Len(slots)
      BY <2>3, <2>5, <3>1
    <3>4. Len(w) = cur
      BY <2>5
    <3> QED BY ONLY <3>2, <3>3, <3>4
  <2>7. slots' = w \o v
    BY <2>1 DEF w
  <2> DEFINE x == w \o v
  <2> HIDE DEF x
  <2>8. \A q \in 1..Len(slots) :
          x[q] = IF q < cur THEN slots[q + 1] ELSE IF q = cur THEN j ELSE slots[q]
    <3> SUFFICES ASSUME NEW q \in 1..Len(slots)
                 PROVE  x[q] = IF q < cur THEN slots[q + 1]
                               ELSE IF q = cur THEN j ELSE slots[q]
      OBVIOUS
    <3>1. q \in Int /\ cur \in Int
      BY <1>1
    <3>2. CASE q < cur
      <4>1. x[q] = w[q] /\ q \in 1..cur /\ q \in 1..(cur - 1)
        BY <1>1, <2>6, <3>1, <3>2 DEF x
      <4> QED BY <2>2, <2>5, <3>2, <4>1
    <3>3. CASE q = cur
      <4>1. x[q] = w[q] /\ q \in 1..cur
        BY <1>1, <2>6, <3>1, <3>3 DEF x
      <4> QED BY <2>5, <3>1, <3>3, <4>1
    <3>4. CASE q > cur
      <4>1. x[q] = v[q - cur] /\ q - cur \in 1..(Len(slots) - cur)
        BY <1>1, <2>6, <3>1, <3>4 DEF x
      <4>2. v[q - cur] = slots[(q - cur) + cur]
        BY <2>3, <4>1
      <4> QED BY <3>1, <3>4, <4>1, <4>2
    <3> QED BY <3>1, <3>2, <3>3, <3>4
  <2> QED BY <2>6, <2>7, <2>8 DEF x
<1> QED BY <1>2, <1>3

LEMMA FinishedKeeps ==
  ASSUME ListInv, FreedInv, NEW job \in Job, job.packets = First.packets,
         Finished(job)
  PROVE  /\ slots' \in Seq(Job)
         /\ cur \in 1..Len(slots')
         /\ FreeBehind(slots', cur)
         /\ HaveFiles(slots')
         /\ IdsInv(slots', n, freed)
<1> DEFINE j == [job EXCEPT !.on = FALSE]
           t == slots'
           f == [q \in 1..Len(slots) |-> IF q < cur THEN q + 1
                                         ELSE IF q = cur THEN 1 ELSE q]
           d == [q \in 1..Len(slots) |-> 0]
<1>1. Len(slots) \in Nat /\ cur \in 1..Len(slots) /\ slots \in Seq(Job)
  BY LenProperties DEF ListInv
<1>2. j \in Job /\ j.packets = First.packets /\ ~j.on
  BY DEF Job
<1>3. HeadToCurrent(j)
  BY DEF Finished
<1> HIDE DEF j
<1>4. /\ t \in Seq(Job)
      /\ Len(t) = Len(slots)
      /\ \A q \in 1..Len(slots) :
           t[q] = IF q < cur THEN slots[q + 1] ELSE IF q = cur THEN j ELSE slots[q]
  BY <1>1, <1>2, <1>3, MovedShape
<1> HIDE DEF t
<1>5. FreeBehind(t, cur) /\ HaveFiles(t)
  <2>1. FreeBehind(t, cur)
    BY <1>1, <1>4 DEF ListInv, FreeBehind
  <2>2. HasFile(j)
    BY <1>2 DEF HasFile
  <2>3. \A q \in 1..Len(slots) : HasFile(slots[q])
    BY DEF ListInv, HaveFiles
  <2>4. \A q \in 1..Len(slots) : HasFile(t[q])
    BY <1>1, <1>4, <2>2, <2>3
  <2> QED BY <1>4, <2>1, <2>4 DEF HaveFiles
<1>6. \A q \in 1..Len(slots) : f[q] \in 1..Len(slots) /\ t[q].packets = slots[f[q]].packets
  BY <1>1, <1>2, <1>4 DEF First
<1>7. \A p, q \in 1..Len(slots) : f[p] = f[q] => p = q
  BY <1>1
<1>8. Comes(t, slots, f, d)
  <2>1. \A q \in 1..Len(t) : \A k \in 1..Len(t[q].packets) : k \in Int
    <3> SUFFICES ASSUME NEW q \in 1..Len(t)
                 PROVE  Len(t[q].packets) \in Nat
      OBVIOUS
    <3>1. t[q] \in Job
      BY <1>4, ElementOfSeq
    <3> QED BY <3>1, LenProperties DEF Job
  <2> QED BY <1>4, <1>6, <1>7, <2>1 DEF Comes, IdAt
<1>9. IdsInv(t, n, freed)
  BY <1>4, <1>8, IdsKept DEF FreedInv
<1> QED BY <1>1, <1>4, <1>5, <1>9 DEF t

\* The first packet is written, released, and gone.
LEMMA FirstGone ==
  ASSUME ListInv, FreedInv, First.packets # <<>>,
         slots' = [slots EXCEPT ![1] = [First EXCEPT !.packets = Tail(@)]],
         freed' = Released(Front.id)
  PROVE  /\ slots' \in Seq(Job)
         /\ cur \in 1..Len(slots')
         /\ FreeBehind(slots', cur)
         /\ HaveFiles(slots')
         /\ IdsInv(slots', n, freed')
         /\ freed' \in [Id -> Nat]
         /\ \A id \in Id : freed'[id] <= 1
         /\ \A id \in Id : id > n => freed'[id] = 0
<1> DEFINE j == [First EXCEPT !.packets = Tail(@)]
           t == slots'
           f == [q \in 1..Len(slots) |-> q]
           d == [q \in 1..Len(slots) |-> IF q = 1 THEN 1 ELSE 0]
<1>1. /\ slots \in Seq(Job) /\ Len(slots) \in Nat /\ 1 \in 1..Len(slots)
      /\ cur \in 1..Len(slots) /\ First \in Job
  BY LenProperties, ElementOfSeq DEF ListInv, First
<1>2. /\ First.packets \in Seq(Part)
      /\ Len(First.packets) \in Nat \ {0}
      /\ Tail(First.packets) \in Seq(Part)
      /\ Len(Tail(First.packets)) = Len(First.packets) - 1
      /\ \A k \in 1..(Len(First.packets) - 1) : Tail(First.packets)[k] = First.packets[k + 1]
  <2>1. First.packets \in Seq(Part)
    BY <1>1 DEF Job
  <2> QED BY <2>1, EmptySeq, LenProperties, HeadTailProperties
<1>3. /\ j \in Job /\ j.packets = Tail(First.packets)
      /\ j.on = First.on /\ j.types = First.types /\ j.file = First.file
  BY <1>1, <1>2 DEF Job
<1> HIDE DEF j
<1>4. /\ t \in Seq(Job)
      /\ Len(t) = Len(slots)
      /\ \A q \in 1..Len(slots) : t[q] = IF q = 1 THEN j ELSE slots[q]
  BY <1>1, <1>3, Replaced DEF j
<1> HIDE DEF t
<1>5. FreeBehind(t, cur) /\ HaveFiles(t)
  <2>1. FreeBehind(slots, cur) /\ HaveFiles(slots)
    BY DEF ListInv
  <2>2. \A q \in 1..Len(t) : /\ q \in 1..Len(slots) /\ t[q].on = slots[q].on
                            /\ t[q].types = slots[q].types /\ t[q].file = slots[q].file
    BY <1>1, <1>3, <1>4 DEF First
  <2>3. FreeBehind(t, cur)
    BY <2>1, <2>2 DEF FreeBehind
  <2>4. HaveFiles(t)
    BY <2>1, <2>2 DEF HaveFiles, HasFile
  <2> QED BY <2>3, <2>4
<1>6. Comes(t, slots, f, d)
  <2>1. \A q \in 1..Len(t) : \A k \in 1..Len(t[q].packets) : k \in Int
    <3> SUFFICES ASSUME NEW q \in 1..Len(t)
                 PROVE  Len(t[q].packets) \in Nat
      OBVIOUS
    <3>1. t[q] \in Job
      BY <1>4, ElementOfSeq
    <3> QED BY <3>1, LenProperties DEF Job
  <2>2. \A q \in 1..Len(t) : \A k \in 1..Len(t[q].packets) :
          /\ k + d[q] \in 1..Len(slots[q].packets)
          /\ IdAt(t, q, k) = IdAt(slots, q, k + d[q])
    <3> SUFFICES ASSUME NEW q \in 1..Len(t), NEW k \in 1..Len(t[q].packets)
                 PROVE  /\ k + d[q] \in 1..Len(slots[q].packets)
                        /\ IdAt(t, q, k) = IdAt(slots, q, k + d[q])
      OBVIOUS
    <3>1. k \in Int
      BY <2>1
    <3>2. CASE q = 1
      <4>1. t[q].packets = Tail(slots[q].packets) /\ d[q] = 1
        BY <1>1, <1>3, <1>4, <3>2 DEF First
      <4> QED BY <1>2, <3>1, <3>2, <4>1 DEF IdAt, First
    <3>3. CASE q # 1
      <4>1. t[q] = slots[q] /\ d[q] = 0
        BY <1>4, <3>3
      <4> QED BY <3>1, <4>1 DEF IdAt
    <3> QED BY <3>2, <3>3
  <2> QED BY <1>1, <1>4, <2>2 DEF Comes
<1>7. IdsInv(t, n, freed)
  BY <1>4, <1>6, IdsKept DEF FreedInv
<1>8. \A q \in 1..Len(t) : \A k \in 1..Len(t[q].packets) : IdAt(t, q, k) # Front.id
  <2> SUFFICES ASSUME NEW q \in 1..Len(t), NEW k \in 1..Len(t[q].packets),
                      IdAt(t, q, k) = Front.id
               PROVE  FALSE
    OBVIOUS
  <2>1. /\ q \in 1..Len(slots)
        /\ k + d[q] \in 1..Len(slots[q].packets)
        /\ IdAt(slots, q, k + d[q]) = IdAt(slots, 1, 1)
    BY <1>4, <1>6 DEF Comes, IdAt, Front, First
  <2>2. 1 \in 1..Len(slots[1].packets)
    BY <1>2 DEF First
  <2>3. OncePerQueue(slots)
    BY DEF FreedInv, IdsInv
  <2>4. q = 1 /\ k + d[q] = 1
    BY <1>1, <2>1, <2>2, <2>3, OneOf
  <2>5. k \in 1..Len(Tail(First.packets))
    BY <1>1, <1>3, <1>4, <2>4
  <2> QED BY <1>2, <2>4, <2>5, <1>1
<1>9. Front.id \in Id /\ freed[Front.id] = 0 /\ Front.id <= n
  <2>1. Front \in Part
    BY <1>2, ElementOfSeq DEF Front
  <2>2. 1 \in 1..Len(slots[1].packets) /\ Front.id = IdAt(slots, 1, 1)
    BY <1>2 DEF First, Front, IdAt
  <2> QED BY <1>1, <2>1, <2>2 DEF FreedInv, IdsInv, Part
<1>10. /\ freed' \in [Id -> Nat]
       /\ \A id \in Id : freed'[id] <= 1
       /\ \A id \in Id : id > n => freed'[id] = 0
       /\ \A id : id # Front.id => freed'[id] = freed[id]
  <2>1. CASE freed' = freed
    BY <2>1 DEF FreedInv
  <2>2. CASE freed' = [freed EXCEPT ![Front.id] = @ + 1]
    BY <1>9, <2>2, BoundsArePositive DEF FreedInv, ListInv, Id
  <2> QED BY <2>1, <2>2 DEF Released
<1>11. IdsInv(t, n, freed')
  BY <1>7, <1>8, <1>10 DEF IdsInv
<1> QED BY <1>1, <1>4, <1>5, <1>10, <1>11 DEF t

\* A part of the first packet is written.
LEMMA PartTakenShape ==
  ASSUME NEW ps \in Seq(Part), ps # <<>>, NEW k \in Int
  PROVE  /\ PartTaken(ps, k) \in Seq(Part)
         /\ PartTaken(ps, k) # <<>>
         /\ Len(PartTaken(ps, k)) = Len(ps)
         /\ \A i \in 1..Len(ps) : PartTaken(ps, k)[i].id = ps[i].id
<1>1. Len(ps) \in Nat \ {0} /\ 1 \in 1..Len(ps)
  BY EmptySeq, LenProperties
<1>2. ps[1] \in Part
  BY <1>1, ElementOfSeq
<1> DEFINE e == [ps[1] EXCEPT !.off = @ + k]
<1>3. e \in Part /\ e.id = ps[1].id
  BY <1>2 DEF Part
<1>4. PartTaken(ps, k) = [ps EXCEPT ![1] = e]
  BY DEF PartTaken
<1> HIDE DEF e
<1>5. /\ [ps EXCEPT ![1] = e] \in Seq(Part)
      /\ Len([ps EXCEPT ![1] = e]) = Len(ps)
      /\ \A i \in 1..Len(ps) : [ps EXCEPT ![1] = e][i] = IF i = 1 THEN e ELSE ps[i]
  BY <1>1, <1>3, ExceptSeq
<1>6. PartTaken(ps, k) # <<>>
  BY <1>1, <1>4, <1>5, EmptySeq
<1> QED BY <1>3, <1>4, <1>5, <1>6

\* The first job with a part of its packet or of its file written.
LEMMA TakenJob ==
  ASSUME ListInv, NEW k \in Int, NEW j,
         \/ First.packets # <<>> /\ j = [First EXCEPT !.packets = PartTaken(@, k)]
         \/ First.file # <<>> /\ j = [First EXCEPT !.file = PartTaken(@, k)]
  PROVE  /\ j \in Job /\ HasFile(j)
         /\ Len(j.packets) = Len(slots[1].packets)
         /\ \A i \in 1..Len(j.packets) : j.packets[i].id = slots[1].packets[i].id
<1>1. /\ slots \in Seq(Job) /\ Len(slots) \in Nat /\ 1 \in 1..Len(slots)
      /\ First \in Job
  BY LenProperties, ElementOfSeq DEF ListInv, First
<1>2. First.packets \in Seq(Part) /\ First.file \in Seq(Part)
  BY <1>1 DEF Job
<1>3. HasFile(First)
  BY <1>1 DEF ListInv, HaveFiles, First
<1>4. CASE First.packets # <<>> /\ j = [First EXCEPT !.packets = PartTaken(@, k)]
  <2> DEFINE x == PartTaken(First.packets, k)
  <2>1. /\ x \in Seq(Part) /\ Len(x) = Len(First.packets)
        /\ \A i \in 1..Len(First.packets) : x[i].id = First.packets[i].id
    BY <1>2, <1>4, PartTakenShape
  <2>2. j = [First EXCEPT !.packets = x]
    BY <1>4
  <2> HIDE DEF x
  <2>3. /\ j \in Job /\ j.packets = x /\ j.file = First.file
        /\ j.on = First.on /\ j.types = First.types
    BY <1>1, <2>1, <2>2 DEF Job
  <2> QED BY <1>3, <2>1, <2>3 DEF HasFile, First
<1>5. CASE First.file # <<>> /\ j = [First EXCEPT !.file = PartTaken(@, k)]
  <2> DEFINE x == PartTaken(First.file, k)
  <2>1. x \in Seq(Part) /\ x # <<>>
    BY <1>2, <1>5, PartTakenShape
  <2>2. j = [First EXCEPT !.file = x]
    BY <1>5
  <2> HIDE DEF x
  <2>3. j \in Job /\ j.packets = First.packets /\ j.file = x
    BY <1>1, <2>1, <2>2 DEF Job
  <2> QED BY <2>1, <2>3 DEF HasFile, First
<1> QED BY <1>4, <1>5

\* The list with that job.
LEMMA FirstTaken ==
  ASSUME ListInv, FreedInv, NEW k \in Int, NEW j,
         \/ First.packets # <<>> /\ j = [First EXCEPT !.packets = PartTaken(@, k)]
         \/ First.file # <<>> /\ j = [First EXCEPT !.file = PartTaken(@, k)],
         slots' = [slots EXCEPT ![1] = j]
  PROVE  /\ slots' \in Seq(Job)
         /\ cur \in 1..Len(slots')
         /\ FreeBehind(slots', cur)
         /\ HaveFiles(slots')
         /\ IdsInv(slots', n, freed)
<1>1. /\ slots \in Seq(Job) /\ Len(slots) \in Nat /\ 1 \in 1..Len(slots)
      /\ cur \in 1..Len(slots) /\ First \in Job
  BY LenProperties, ElementOfSeq DEF ListInv, First
<1>3. /\ j \in Job /\ HasFile(j)
      /\ Len(j.packets) = Len(slots[1].packets)
      /\ \A i \in 1..Len(j.packets) : j.packets[i].id = slots[1].packets[i].id
  BY TakenJob
<1> DEFINE t == [slots EXCEPT ![1] = j]
<1>4. /\ t \in Seq(Job)
      /\ Len(t) = Len(slots)
      /\ FreeBehind(t, cur)
      /\ HaveFiles(t)
      /\ IdsInv(t, n, freed)
  BY <1>1, <1>3, FirstKept DEF ListInv, FreedInv
<1> QED BY <1>1, <1>4

\* APE_socket_shutdown, as a job.
LEMMA ShutdownKeeps ==
  ASSUME ListInv, FreedInv
  PROVE  LET p == SlotFor("shutdown")  a == Activated("shutdown") IN
         /\ a \in Seq(Job)
         /\ p \in 1..Len(a)
         /\ FreeBehind(a, p)
         /\ HaveFiles(a)
         /\ IdsInv(a, n, freed)
<1> DEFINE p == SlotFor("shutdown")
           a == Activated("shutdown")
<1>1. /\ a \in Seq(Job)
      /\ p \in 1..Len(a)
      /\ FreeBehind(a, p)
      /\ \A q \in 1..Len(a) : q # p => HasFile(a[q])
      /\ "shutdown" \in a[p].types
      /\ IdsInv(a, n, freed)
  BY ActivatedKeeps DEF Types
<1> HIDE DEF a, p
<1>2. HasFile(a[p])
  BY <1>1 DEF HasFile
<1> QED BY <1>1, <1>2 DEF HaveFiles, a, p

-----------------------------------------------------------------------------
(* Operations.                                                              *)

\* A new operation has a number nothing has, and its data may be freed at once.
LEMMA NewOp ==
  ASSUME ListInv, FreedInv, n < MaxOps, n' = n + 1, NEW b \in BOOLEAN,
         freed' = [freed EXCEPT ![n'] = IF b THEN @ + 1 ELSE @]
  PROVE  /\ n + 1 \in Id /\ n' \in 0..MaxOps
         /\ freed' \in [Id -> Nat]
         /\ \A id \in Id : freed'[id] <= 1
         /\ \A id \in Id : id > n' => freed'[id] = 0
         /\ \A s \in Seq(Job) : IdsInv(s, n, freed) => IdsInv(s, n', freed')
<1>1. n + 1 \in Id /\ n' \in 0..MaxOps /\ n \in Nat
  BY BoundsArePositive DEF ListInv, Id
<1>2. /\ freed \in [Id -> Nat]
      /\ \A id \in Id : freed[id] <= 1
      /\ \A id \in Id : id > n => freed[id] = 0
  BY DEF FreedInv
<1>3. freed[n + 1] = 0
  BY <1>1, <1>2
<1>4. /\ freed' \in [Id -> Nat]
      /\ \A id \in Id : freed'[id] = IF id = n + 1 /\ b THEN 1 ELSE freed[id]
  BY <1>1, <1>2, <1>3
<1>5. /\ \A id \in Id : freed'[id] <= 1
      /\ \A id \in Id : id > n' => freed'[id] = 0
  BY <1>1, <1>2, <1>4, BoundsArePositive DEF Id
<1>6. ASSUME NEW s \in Seq(Job), IdsInv(s, n, freed)
      PROVE  IdsInv(s, n', freed')
  <2>1. \A p \in 1..Len(s) : \A k \in 1..Len(s[p].packets) : IdAt(s, p, k) \in Id
    <3> SUFFICES ASSUME NEW p \in 1..Len(s), NEW k \in 1..Len(s[p].packets)
                 PROVE  IdAt(s, p, k) \in Id
      OBVIOUS
    <3>1. s[p] \in Job
      BY ElementOfSeq
    <3>2. s[p].packets \in Seq(Part)
      BY <3>1 DEF Job
    <3>3. s[p].packets[k] \in Part
      BY <3>2, ElementOfSeq
    <3> QED BY <3>3 DEF IdAt, Part
  <2>2. \A id \in Id : id <= n => id <= n' /\ freed'[id] = freed[id]
    BY <1>1, <1>4, BoundsArePositive DEF Id
  <2> QED BY <1>6, <2>1, <2>2 DEF IdsInv
<1> QED BY <1>1, <1>4, <1>5, <1>6

\* Nothing new is freed when what is new is queued.
LEMMA NewQueued ==
  ASSUME ListInv, FreedInv, n < MaxOps, n' = n + 1, NEW len \in Lens, NEW off \in Int,
         NEW packet, packet = [id |-> n', len |-> len, off |-> off],
         Queue(packet), freed' = freed,
         unread' \in Int, record' \in [id : Id \cup {0}, off : Int]
  PROVE  ListInv' /\ FreedInv'
<1>1. n + 1 \in Id /\ n' \in 0..MaxOps /\ n \in Nat
  BY BoundsArePositive DEF ListInv, Id
<1>2. packet \in Part /\ packet.id = n + 1
  BY <1>1 DEF Part
<1>3. /\ slots' \in Seq(Job)
      /\ cur' \in 1..Len(slots')
      /\ FreeBehind(slots', cur')
      /\ HaveFiles(slots')
      /\ IdsInv(slots', n + 1, freed)
  BY <1>1, <1>2, QueueKeeps
<1>4. ListInv'
  BY <1>1, <1>3 DEF ListInv
<1>5. FreedInv'
  <2>1. \A id \in Id : id > n' => freed[id] = 0
    BY <1>1, BoundsArePositive DEF FreedInv, Id
  <2>2. freed \in [Id -> Nat] /\ \A id \in Id : freed[id] <= 1
    BY DEF FreedInv
  <2> QED BY <1>3, <2>1, <2>2 DEF FreedInv
<1> QED BY <1>4, <1>5

\* Nothing is queued.
LEMMA NewNotQueued ==
  ASSUME ListInv, FreedInv, n < MaxOps, n' = n + 1, NEW b \in BOOLEAN,
         freed' = [freed EXCEPT ![n'] = IF b THEN @ + 1 ELSE @],
         UNCHANGED <<slots, cur>>,
         unread' \in Int, record' \in [id : Id \cup {0}, off : Int]
  PROVE  ListInv' /\ FreedInv'
<1>1. /\ n + 1 \in Id /\ n' \in 0..MaxOps
      /\ freed' \in [Id -> Nat]
      /\ \A id \in Id : freed'[id] <= 1
      /\ \A id \in Id : id > n' => freed'[id] = 0
      /\ IdsInv(slots, n', freed')
  BY NewOp DEF ListInv, FreedInv
<1>2. ListInv'
  BY <1>1 DEF ListInv
<1>3. FreedInv'
  BY <1>1 DEF FreedInv
<1> QED BY <1>2, <1>3

\* The list changes and nothing else that the invariants are about, but for the
\* kernel's bytes.
LEMMA ListChanges ==
  ASSUME ListInv, FreedInv,
         slots' \in Seq(Job), cur' \in 1..Len(slots'), FreeBehind(slots', cur'),
         HaveFiles(slots'), IdsInv(slots', n, freed),
         UNCHANGED <<n, freed>>,
         unread' \in Int, record' \in [id : Id \cup {0}, off : Int]
  PROVE  ListInv' /\ FreedInv'
<1>1. ListInv'
  BY DEF ListInv
<1>2. FreedInv'
  BY DEF FreedInv
<1> QED BY <1>1, <1>2

LEMMA NothingChanges ==
  ASSUME ListInv, FreedInv, UNCHANGED <<slots, cur, n, freed>>,
         unread' \in Int, record' \in [id : Id \cup {0}, off : Int]
  PROVE  ListInv' /\ FreedInv'
<1>1. ListInv'
  BY DEF ListInv
<1>2. FreedInv'
  BY DEF FreedInv
<1> QED BY <1>1, <1>2

\* An operation of the kind that releases nothing.
LEMMA NewFree ==
  ASSUME FreedInv, ListInv, n < MaxOps, n' = n + 1, freed' = freed
  PROVE  freed' = [freed EXCEPT ![n'] = IF FALSE THEN @ + 1 ELSE @]
  BY BoundsArePositive DEF FreedInv, ListInv, Id

LEMMA Numbers ==
  ASSUME ListInv
  PROVE  /\ Room \in Int /\ unread \in Int /\ n \in Nat
         /\ record \in [id : Id \cup {0}, off : Int]
         /\ \A len \in Lens : len \in Int
         /\ \A x, y \in Int : Least(x, y) \in Int
  BY BoundsArePositive, LensArePositive DEF ListInv, Room, Least

LEMMA WriteRefusedStep ==
  ASSUME ListInv, FreedInv, NEW kind \in Kinds, write_refused(kind) \/ write_fails(kind)
  PROVE  ListInv' /\ FreedInv'
<1>1. /\ n < MaxOps /\ n' = n + 1
      /\ freed' = [freed EXCEPT ![n'] = IF kind = "autorelease" THEN @ + 1 ELSE @]
      /\ UNCHANGED <<slots, cur, unread, record>>
  BY DEF write_refused, write_fails, Calls, ssl, jobs, kernel
<1> QED BY <1>1, NewNotQueued, Numbers

LEMMA WriteQueuedStep ==
  ASSUME ListInv, FreedInv, NEW len \in Lens, NEW kind \in Kinds, write_queued(len, kind)
  PROVE  ListInv' /\ FreedInv'
<1>1. /\ n < MaxOps /\ n' = n + 1
      /\ Queue(Whole(n', len))
      /\ UNCHANGED <<freed, unread, record>>
  BY DEF write_queued, Calls, ssl, kernel
<1>2. Whole(n', len) = [id |-> n', len |-> len, off |-> 0]
  BY DEF Whole
<1> QED BY <1>1, <1>2, NewQueued, Numbers

LEMMA WriteNowStep ==
  ASSUME ListInv, FreedInv, NEW len \in Lens, NEW kind \in Kinds, write_now(len, kind)
  PROVE  ListInv' /\ FreedInv'
<1>1. /\ n < MaxOps /\ n' = n + 1
      /\ Take(n', 0, Least(len, Room))
      /\ record' = record
  BY DEF write_now, Calls, ssl
<1>2. unread' \in Int /\ record' \in [id : Id \cup {0}, off : Int] /\ Room \in Int
  BY <1>1, Numbers DEF Take
<1>3. CASE /\ freed' = [freed EXCEPT ![n'] = IF kind = "autorelease" THEN @ + 1 ELSE @]
           /\ UNCHANGED <<slots, cur>>
  BY <1>1, <1>2, <1>3, NewNotQueued
<1>4. CASE /\ Queue([Whole(n', len) EXCEPT !.off = Room])
           /\ freed' = freed
  <2>1. [Whole(n', len) EXCEPT !.off = Room] = [id |-> n', len |-> len, off |-> Room]
    BY DEF Whole
  <2> QED BY <1>1, <1>2, <1>4, <2>1, NewQueued
<1> QED BY <1>3, <1>4 DEF write_now

LEMMA SslWriteNowStep ==
  ASSUME ListInv, FreedInv, NEW len \in Lens, NEW kind \in Kinds, ssl_write_now(len, kind)
  PROVE  ListInv' /\ FreedInv'
<1>1. n < MaxOps /\ n' = n + 1
  BY DEF ssl_write_now, Calls
<1>2. n' \in Id
  BY <1>1, BoundsArePositive DEF ListInv, Id
<1>3. CASE /\ Take(n', 0, len)
           /\ freed' = [freed EXCEPT ![n'] = IF kind = "autorelease" THEN @ + 1 ELSE @]
           /\ UNCHANGED <<slots, cur, record>>
  <2>1. unread' \in Int
    BY <1>3, Numbers DEF Take
  <2> QED BY <1>1, <1>3, <2>1, NewNotQueued, Numbers
<1>4. CASE /\ Take(n', 0, Room)
           /\ record' = [id |-> n', off |-> Room]
           /\ Queue(Whole(n', len))
           /\ freed' = freed
  <2>1. unread' \in Int /\ record' \in [id : Id \cup {0}, off : Int]
    BY <1>2, <1>4, Numbers DEF Take
  <2>2. Whole(n', len) = [id |-> n', len |-> len, off |-> 0]
    BY DEF Whole
  <2> QED BY <1>1, <1>4, <2>1, <2>2, NewQueued
<1>5. CASE /\ Queue(Whole(n', len))
           /\ UNCHANGED <<record, unread, freed>>
  <2>1. Whole(n', len) = [id |-> n', len |-> len, off |-> 0]
    BY DEF Whole
  <2> QED BY <1>1, <1>5, <2>1, NewQueued, Numbers
<1> QED BY <1>3, <1>4, <1>5 DEF ssl_write_now

\* A file or a shutdown: the number is new, and nothing is queued or released
\* under it.
LEMMA NewJob ==
  ASSUME ListInv, FreedInv, n < MaxOps, n' = n + 1, freed' = freed,
         slots' \in Seq(Job), cur' \in 1..Len(slots'), FreeBehind(slots', cur'),
         HaveFiles(slots'), IdsInv(slots', n, freed),
         unread' \in Int, record' \in [id : Id \cup {0}, off : Int]
  PROVE  ListInv' /\ FreedInv'
<1>1. freed' = [freed EXCEPT ![n'] = IF FALSE THEN @ + 1 ELSE @]
  BY NewFree
<1>2. /\ n' \in 0..MaxOps
      /\ freed' \in [Id -> Nat]
      /\ \A id \in Id : freed'[id] <= 1
      /\ \A id \in Id : id > n' => freed'[id] = 0
      /\ IdsInv(slots', n', freed')
  BY <1>1, NewOp
<1>3. ListInv'
  BY <1>2 DEF ListInv
<1>4. FreedInv'
  BY <1>2 DEF FreedInv
<1> QED BY <1>3, <1>4

LEMMA SendfileStep ==
  ASSUME ListInv, FreedInv, NEW len \in Lens, sendfile_queued(len) \/ sendfile_now(len)
  PROVE  ListInv' /\ FreedInv'
<1>1. n < MaxOps /\ n' = n + 1 /\ n' \in Id /\ n \in Nat
  <2>1. n < MaxOps /\ n' = n + 1
    BY DEF sendfile_queued, sendfile_now, Calls
  <2> QED BY <2>1, BoundsArePositive DEF ListInv, Id
<1>2. freed' = freed /\ record' = record
  BY DEF sendfile_queued, sendfile_now, memory, ssl
<1>3. unread' \in Int
  <2>1. CASE sendfile_queued(len)
    BY <2>1, Numbers DEF sendfile_queued, kernel
  <2>2. CASE sendfile_now(len)
    BY <2>2, Numbers DEF sendfile_now, Take
  <2> QED BY <2>1, <2>2
<1>4. CASE \E off \in Int : QueueFile([id |-> n', len |-> len, off |-> off])
  <2>1. PICK off \in Int : QueueFile([id |-> n', len |-> len, off |-> off])
    BY <1>4
  <2>2. [id |-> n', len |-> len, off |-> off] \in Part
    BY <1>1 DEF Part
  <2>3. /\ slots' \in Seq(Job)
        /\ cur' \in 1..Len(slots')
        /\ FreeBehind(slots', cur')
        /\ HaveFiles(slots')
        /\ IdsInv(slots', n, freed)
    BY <2>1, <2>2, QueueFileKeeps
  <2> QED BY <1>1, <1>2, <1>3, <2>3, NewJob, Numbers
<1>5. CASE UNCHANGED <<slots, cur>>
  BY <1>1, <1>2, <1>3, <1>5, NewJob, Numbers DEF ListInv, FreedInv
<1>6. (\E off \in Int : QueueFile([id |-> n', len |-> len, off |-> off]))
      \/ UNCHANGED <<slots, cur>>
  <2>1. Whole(n', len) = [id |-> n', len |-> len, off |-> 0]
    BY DEF Whole
  <2>2. [Whole(n', len) EXCEPT !.off = Room] = [id |-> n', len |-> len, off |-> Room]
    BY DEF Whole
  <2>3. CASE sendfile_queued(len)
    BY <2>1, <2>3 DEF sendfile_queued
  <2>4. CASE sendfile_now(len)
    BY <2>2, <2>4, Numbers DEF sendfile_now
  <2> QED BY <2>3, <2>4
<1> QED BY <1>4, <1>5, <1>6

LEMMA ShutdownStep ==
  ASSUME ListInv, FreedInv, shutdown_queued \/ shutdown_now
  PROVE  ListInv' /\ FreedInv'
<1>1. /\ n < MaxOps /\ n' = n + 1
      /\ UNCHANGED <<freed, record, unread>>
  BY DEF shutdown_queued, shutdown_now, Calls, memory, ssl, kernel
<1>2. CASE shutdown_queued
  <2>1. slots' = Activated("shutdown") /\ cur' = SlotFor("shutdown")
    BY <1>2 DEF shutdown_queued
  <2>2. /\ slots' \in Seq(Job)
        /\ cur' \in 1..Len(slots')
        /\ FreeBehind(slots', cur')
        /\ HaveFiles(slots')
        /\ IdsInv(slots', n, freed)
    BY <2>1, ShutdownKeeps
  <2> QED BY <1>1, <2>2, NewJob, Numbers
<1>3. CASE shutdown_now
  <2>1. UNCHANGED <<slots, cur>>
    BY <1>3 DEF shutdown_now, jobs
  <2> QED BY <1>1, <2>1, NewJob, Numbers DEF ListInv, FreedInv
<1> QED BY <1>2, <1>3

LEMMA ProgramStep ==
  ASSUME ListInv, FreedInv, Program
  PROVE  ListInv' /\ FreedInv'
<1>1. CASE write_crashes
  <2>1. n < MaxOps /\ n' = n + 1 /\ UNCHANGED <<slots, cur, freed, unread, record>>
    BY <1>1 DEF write_crashes, ssl, jobs, kernel, memory, Calls
  <2> QED BY <2>1, NewJob, Numbers DEF ListInv, FreedInv
<1> QED BY <1>1, WriteRefusedStep, WriteQueuedStep, WriteNowStep, SslWriteNowStep,
           SendfileStep, ShutdownStep DEF Program

-----------------------------------------------------------------------------
(* The loop and the peer.                                                   *)

LEMMA FrontIsPart ==
  ASSUME ListInv
  PROVE  /\ First \in Job /\ HasFile(First)
         /\ First.packets # <<>> => Front \in Part /\ Takes \in Int
                                    /\ SslTakes \in Int /\ Written(Front.id) \in Int
<1>1. First \in Job /\ HasFile(First)
  <2>1. Len(slots) \in Nat /\ 1 \in 1..Len(slots)
    BY LenProperties DEF ListInv
  <2> QED BY <2>1, ElementOfSeq DEF ListInv, First, HaveFiles
<1>2. ASSUME First.packets # <<>>
      PROVE  Front \in Part /\ Takes \in Int /\ SslTakes \in Int
             /\ Written(Front.id) \in Int
  <2>1. First.packets \in Seq(Part)
    BY <1>1 DEF Job
  <2>2. 1 \in 1..Len(First.packets)
    BY <1>2, <2>1, EmptySeq, LenProperties
  <2>3. Front \in Part
    BY <2>1, <2>2, ElementOfSeq DEF Front
  <2>4. Front.len \in Int /\ Front.off \in Int /\ record.off \in Int /\ Room \in Int
    BY <2>3, Numbers DEF Part
  <2> QED BY <2>3, <2>4 DEF Takes, SslTakes, Written, Least
<1> QED BY <1>1, <1>2

\* The first packet of a writev, or of one SSL_write after another.
LEMMA PacketStep ==
  ASSUME ListInv, FreedInv, writev_packet \/ ssl_packet
  PROVE  ListInv' /\ FreedInv'
<1>1. /\ First.packets # <<>>
      /\ slots' = [slots EXCEPT ![1] = [First EXCEPT !.packets = Tail(@)]]
      /\ freed' = Released(Front.id)
      /\ UNCHANGED <<cur, n>>
  BY DEF writev_packet, ssl_packet
<1>2. unread' \in Int
  <2>1. CASE writev_packet
    BY <1>1, <2>1, FrontIsPart, Numbers DEF writev_packet, Take
  <2>2. CASE ssl_packet
    BY <1>1, <2>2, FrontIsPart, Numbers DEF ssl_packet, Take
  <2> QED BY <2>1, <2>2
<1>3. record' \in [id : Id \cup {0}, off : Int]
  BY Numbers DEF writev_packet, ssl_packet, ssl, NoRecord
<1>4. /\ slots' \in Seq(Job)
      /\ cur \in 1..Len(slots')
      /\ FreeBehind(slots', cur)
      /\ HaveFiles(slots')
      /\ IdsInv(slots', n, freed')
      /\ freed' \in [Id -> Nat]
      /\ \A id \in Id : freed'[id] <= 1
      /\ \A id \in Id : id > n => freed'[id] = 0
  BY <1>1, FirstGone
<1>5. ListInv'
  BY <1>1, <1>2, <1>3, <1>4 DEF ListInv
<1>6. FreedInv'
  BY <1>1, <1>4 DEF FreedInv
<1> QED BY <1>5, <1>6

\* A job that has to wait.
LEMMA BlocksStep ==
  ASSUME ListInv, FreedInv, writev_blocks \/ ssl_blocks
  PROVE  ListInv' /\ FreedInv'
<1>1. First.packets # <<>> /\ UNCHANGED <<cur, n, freed>>
  BY DEF writev_blocks, ssl_blocks, memory
<1>2. Front \in Part /\ Takes \in Int /\ SslTakes \in Int /\ Written(Front.id) \in Int
  BY <1>1, FrontIsPart
<1>3. unread' \in Int
  BY <1>2, Numbers DEF writev_blocks, ssl_blocks, Take
<1>4. record' \in [id : Id \cup {0}, off : Int]
  <2>1. CASE record' = record
    BY <2>1, Numbers
  <2>2. CASE record' = [id |-> Front.id, off |-> Written(Front.id) + SslTakes]
    BY <1>2, <2>2 DEF Part
  <2> QED BY <2>1, <2>2 DEF writev_blocks, ssl_blocks, ssl
<1>5. CASE slots' = slots
  BY <1>1, <1>3, <1>4, <1>5, NothingChanges
<1>6. CASE slots' = [slots EXCEPT ![1] = [First EXCEPT !.packets = PartTaken(@, Takes)]]
  <2>1. /\ slots' \in Seq(Job)
        /\ cur \in 1..Len(slots')
        /\ FreeBehind(slots', cur)
        /\ HaveFiles(slots')
        /\ IdsInv(slots', n, freed)
    BY <1>1, <1>2, <1>6, FirstTaken
  <2> QED BY <1>1, <1>3, <1>4, <2>1, ListChanges
<1> QED BY <1>5, <1>6 DEF writev_blocks, ssl_blocks

\* A job that is done.
LEMMA FinishedStep ==
  ASSUME ListInv, FreedInv, NEW job, job = First \/ job = [First EXCEPT !.file = <<>>],
         Finished(job), UNCHANGED <<cur, n, freed, record>>, unread' \in Int
  PROVE  ListInv' /\ FreedInv'
<1>1. First \in Job
  BY FrontIsPart
<1>2. job \in Job /\ job.packets = First.packets
  <2>1. <<>> \in Seq(Part)
    OBVIOUS
  <2> QED BY <1>1, <2>1 DEF Job
<1>3. /\ slots' \in Seq(Job)
      /\ cur \in 1..Len(slots')
      /\ FreeBehind(slots', cur)
      /\ HaveFiles(slots')
      /\ IdsInv(slots', n, freed)
  BY <1>2, FinishedKeeps
<1> QED BY <1>3, ListChanges, Numbers

LEMMA FileTakes ==
  ASSUME ListInv, sendfile_job
  PROVE  LET file == First.file[1] IN
         First.file # <<>> /\ Least(file.len - file.off, Room) \in Int
<1> DEFINE file == First.file[1]
           k == Least(file.len - file.off, Room)
<1>1. First.file \in Seq(Part) /\ First.file # <<>>
  BY FrontIsPart DEF sendfile_job, Running, HasFile, Job
<1>2. k \in Int
  <2>1. 1 \in 1..Len(First.file)
    BY <1>1, EmptySeq, LenProperties
  <2>2. file \in Part
    BY <1>1, <2>1, ElementOfSeq
  <2>3. file.len \in Int /\ file.off \in Int
    BY <2>2, Numbers DEF Part
  <2>4. Room \in Int
    BY Numbers
  <2> QED BY <2>3, <2>4 DEF Least
<1> QED BY <1>1, <1>2

LEMMA SendfileJobStep ==
  ASSUME ListInv, FreedInv, sendfile_job
  PROVE  ListInv' /\ FreedInv'
<1> DEFINE file == First.file[1]
           k == Least(file.len - file.off, Room)
<1>1. First.file # <<>>
  BY FileTakes
<1>2. k \in Int
  BY FileTakes
<1>3. UNCHANGED <<cur, n, freed, record>>
  BY DEF sendfile_job, memory, ssl
<1>4. unread' \in Int
  <2>1. unread' = unread + k \/ unread' = unread
    BY DEF sendfile_job, Take
  <2> QED BY <1>2, <2>1, Numbers
<1>5. CASE Finished([First EXCEPT !.file = <<>>])
  BY <1>3, <1>4, <1>5, FinishedStep
<1>6. CASE slots' = [slots EXCEPT ![1] = [First EXCEPT !.file = PartTaken(@, k)]]
  <2>1. /\ slots' \in Seq(Job)
        /\ cur \in 1..Len(slots')
        /\ FreeBehind(slots', cur)
        /\ HaveFiles(slots')
        /\ IdsInv(slots', n, freed)
    BY <1>1, <1>2, <1>6, FirstTaken
  <2> QED BY <1>3, <1>4, <2>1, ListChanges, Numbers
<1> QED BY <1>5, <1>6 DEF sendfile_job

LEMMA LoopStep ==
  ASSUME ListInv, FreedInv, Loop
  PROVE  ListInv' /\ FreedInv'
<1>1. CASE writev_done \/ mixed_job
  <2>1. Finished(First) /\ UNCHANGED <<cur, n, freed, record, unread>>
    BY <1>1 DEF writev_done, mixed_job, ssl, kernel, memory
  <2> QED BY <2>1, FinishedStep, Numbers
<1>2. CASE poll \/ handler_done \/ writev_cut \/ ssl_fails \/ shutdown_job \/ jobs_done
  <2>1. UNCHANGED <<slots, cur, n, freed, record, unread>>
    BY <1>2 DEF poll, handler_done, writev_cut, ssl_fails, shutdown_job, jobs_done,
                ssl, kernel, memory
  <2> QED BY <2>1, NothingChanges, Numbers
<1> QED BY <1>1, <1>2, PacketStep, BlocksStep, SendfileJobStep DEF Loop

LEMMA PeerStep ==
  ASSUME ListInv, FreedInv,
         peer_reads \/ peer_sends \/ handshake_done \/ peer_resets
  PROVE  ListInv' /\ FreedInv'
<1>1. UNCHANGED <<slots, cur, n, freed, record>>
  BY DEF peer_reads, peer_sends, handshake_done, peer_resets, ssl, jobs, memory
<1>2. unread' \in Int
  BY Numbers DEF peer_reads, peer_sends, handshake_done, peer_resets
<1> QED BY <1>1, <1>2, NothingChanges, Numbers

LEMMA InitInv == Init => Inv
<1> SUFFICES ASSUME Init
             PROVE  ListInv /\ FreedInv
  BY DEF Inv
<1>1. /\ slots \in Seq(Job) /\ Len(slots) = 2
      /\ \A p \in 1..2 : slots[p] = Fresh
  BY FreshIsJob DEF Init
<1>2. ListInv
  BY <1>1, FreshIsJob, BoundsArePositive
     DEF Init, ListInv, NoRecord, FreeBehind, HaveFiles
<1>3. IdsInv(slots, n, freed)
  BY <1>1, FreshIsJob DEF IdsInv, OncePerQueue
<1>4. FreedInv
  BY <1>3 DEF Init, FreedInv
<1> QED BY <1>2, <1>4

LEMMA NextInv == Inv /\ [Next]_vars => Inv'
<1> SUFFICES ASSUME ListInv, FreedInv, [Next]_vars
             PROVE  ListInv' /\ FreedInv'
  BY DEF Inv
<1>1. CASE Next
  BY <1>1, ProgramStep, LoopStep, PeerStep DEF Next
<1>2. CASE UNCHANGED vars
  <2>1. UNCHANGED <<slots, cur, n, freed, record, unread>>
    BY <1>2 DEF vars, jobs, ssl, kernel, memory
  <2> QED BY <2>1, NothingChanges, Numbers
<1> QED BY <1>1, <1>2

\* The inductive invariant.
THEOREM InvHolds == Spec => []Inv
  BY InitInv, NextInv, PTL DEF Spec

-----------------------------------------------------------------------------
(* The theorems.                                                            *)

\* Queued, over the lengths of the sequences.
LEMMA QueuedIsHas ==
  ASSUME ListInv, NEW id
  PROVE  Queued(id) <=> Has(slots, id)
<1>1. DOMAIN slots = 1..Len(slots)
  BY LenProperties DEF ListInv
<1>2. \A p \in 1..Len(slots) : DOMAIN slots[p].packets = 1..Len(slots[p].packets)
  <2> SUFFICES ASSUME NEW p \in 1..Len(slots)
               PROVE  DOMAIN slots[p].packets = 1..Len(slots[p].packets)
    OBVIOUS
  <2>1. slots[p] \in Job
    BY ElementOfSeq DEF ListInv
  <2>2. slots[p].packets \in Seq(Part)
    BY <2>1 DEF Job
  <2> QED BY <2>2, LenProperties
<1> QED BY <1>1, <1>2 DEF Queued, Has, IdAt

\* Behind jobs.current the list is free, whatever operations the program mixes:
\* ape_socket_job_get_slot never gives a waiting job away, though
\* ape_pool_head_to_current moves the jobs about.
THEOREM NextIsFreeHolds == Spec => []NextIsFree
<1>1. Inv => NextIsFree
  BY LenProperties DEF Inv, ListInv, FreeBehind, NextIsFree
<1> QED BY <1>1, InvHolds, PTL

\* Nothing is freed twice, and nothing while a job points to it: the packets of
\* an operation are in one job, once, and go when they are released.
THEOREM NotFreedEarlyHolds == Spec => []NotFreedEarly
<1>1. Inv => NotFreedEarly
  <2> SUFFICES ASSUME Inv, NEW id \in Id
               PROVE  freed[id] <= IF Queued(id) THEN 0 ELSE 1
    BY DEF NotFreedEarly
  <2>1. freed[id] \in Nat /\ freed[id] <= 1
    BY DEF Inv, FreedInv
  <2>2. Queued(id) => freed[id] = 0
    BY QueuedIsHas DEF Has, Inv, FreedInv, IdsInv
  <2> QED BY <2>1, <2>2
<1> QED BY <1>1, InvHolds, PTL

\* While the jobs run the socket is not blocked.
WakeInv == WillWake /\ (pc = "jobs" => ~block)

\* A socket that waits is woken by the kernel, as long as no file is queued behind
\* its jobs: APE_sendfile sets WOULD_BLOCK then without having been refused bytes.
THEOREM WillWakeHolds ==
  ASSUME "sendfile" \notin Ops
  PROVE  Spec => []WillWake
<1>1. Init => WakeInv
  BY DEF Init, WakeInv, WillWake
<1>2. WakeInv /\ [Next]_vars => WakeInv'
  <2> SUFFICES ASSUME WakeInv, [Next]_vars
               PROVE  WakeInv'
    OBVIOUS
  <2> USE DEF WakeInv, WillWake
  <2>1. ASSUME NEW kind \in Kinds, write_refused(kind) \/ write_fails(kind)
        PROVE  WakeInv'
    BY <2>1 DEF write_refused, write_fails, Calls, ShutDown, ssl, jobs, kernel, stream
  <2>2. ASSUME NEW len \in Lens, NEW kind \in Kinds, write_queued(len, kind)
        PROVE  WakeInv'
    BY <2>2 DEF write_queued, Calls, ssl, kernel
  <2>3. ASSUME NEW len \in Lens, NEW kind \in Kinds, write_now(len, kind)
        PROVE  WakeInv'
    BY <2>3 DEF write_now, Calls, ssl
  <2>4. ASSUME NEW len \in Lens, NEW kind \in Kinds, ssl_write_now(len, kind)
        PROVE  WakeInv'
    BY <2>4 DEF ssl_write_now, Calls
  <2>5. ASSUME NEW len \in Lens, sendfile_queued(len) \/ sendfile_now(len)
        PROVE  WakeInv'
    BY <2>5 DEF sendfile_queued, sendfile_now, Calls
  <2>6. CASE write_crashes
    BY <2>6 DEF write_crashes, Calls, ssl, jobs, kernel, stream
  <2>7. CASE shutdown_queued \/ shutdown_now
    BY <2>7 DEF shutdown_queued, shutdown_now, Calls, ShutDown, ssl, jobs, kernel, stream
  <2>8. CASE poll
    BY <2>8 DEF poll, ssl, stream
  <2>9. CASE handler_done
    BY <2>9 DEF handler_done, ssl, kernel, stream
  <2>10. CASE writev_packet \/ writev_blocks \/ writev_cut
    BY <2>10 DEF writev_packet, writev_blocks, writev_cut, Running, ssl, kernel, stream
  <2>11. CASE ssl_packet \/ ssl_blocks
    BY <2>11 DEF ssl_packet, ssl_blocks, Running
  <2>12. CASE ssl_fails \/ shutdown_job
    BY <2>12 DEF ssl_fails, shutdown_job, Running, ShutDown, ssl
  <2>13. CASE sendfile_job
    BY <2>13 DEF sendfile_job, Running, ssl
  <2>14. CASE writev_done \/ mixed_job \/ jobs_done
    BY <2>14 DEF writev_done, mixed_job, jobs_done, Running, ssl, kernel, stream
  <2>15. CASE peer_sends \/ handshake_done \/ peer_resets
    BY <2>15 DEF peer_sends, handshake_done, peer_resets, ssl, jobs, stream
  <2>16. CASE peer_reads
    <3>1. \/ nospace' = FALSE /\ ready' = (ready \/ nospace)
          \/ UNCHANGED <<nospace, ready>>
      BY <2>16 DEF peer_reads
    <3>2. nospace \/ ready => nospace' \/ ready'
      BY <3>1, Zenon
    <3>3. UNCHANGED <<st, block, broken, closed, chunks, pc, tls>>
      BY <2>16 DEF peer_reads, ssl, jobs, stream
    <3> QED BY <3>2, <3>3
  <2>17. CASE UNCHANGED vars
    BY <2>17 DEF vars, jobs, ssl, kernel, stream
  <2> QED BY <2>1, <2>2, <2>3, <2>4, <2>5, <2>6, <2>7, <2>8, <2>9, <2>10, <2>11, <2>12,
             <2>13, <2>14, <2>15, <2>16, <2>17 DEF Next, Program, Loop
<1>3. WakeInv => WillWake
  BY DEF WakeInv
<1> QED BY <1>1, <1>2, <1>3, PTL DEF Spec

-----------------------------------------------------------------------------
(* Without files no packet is lost.                                         *)

\* What the socket has to free is queued until it is freed.
MemInv ==
  /\ mem \in [Id -> {"none", "caller", "socket"}]
  /\ \A id \in Id : id > n => mem[id] = "none"
  /\ \A id \in Id : mem[id] # "socket" => freed[id] = 0
  /\ \A id \in Id : mem[id] = "socket" /\ freed[id] = 0 => Has(slots, id)

LEMMA ActivatedHas ==
  ASSUME ListInv, NEW type \in Types, NEW id, Has(slots, id)
  PROVE  Has(Activated(type), id)
<1> DEFINE p == SlotFor(type)
           a == Activated(type)
<1>1. /\ Len(a) >= Len(slots)
      /\ \A q \in 1..Len(a) : q # p => a[q] = IF q <= Len(slots) THEN slots[q] ELSE Fresh
      /\ a[p].packets = IF p <= Len(slots) THEN slots[p].packets ELSE <<>>
      /\ a \in Seq(Job)
  BY ActivatedShape DEF ListInv
<1>2. Len(slots) \in Nat /\ Len(a) \in Nat
  BY <1>1, LenProperties DEF ListInv
<1> HIDE DEF a, p
<1>3. PICK q \in 1..Len(slots) : \E k \in 1..Len(slots[q].packets) : IdAt(slots, q, k) = id
  BY DEF Has
<1>4. q \in 1..Len(a) /\ a[q].packets = slots[q].packets
  BY <1>1, <1>2
<1>5. \E k \in 1..Len(a[q].packets) : IdAt(a, q, k) = id
  BY <1>3, <1>4 DEF IdAt
<1> QED BY <1>4, <1>5 DEF Has, a

LEMMA QueueHas ==
  ASSUME ListInv, FreedInv, NEW packet \in Part, Queue(packet), NEW id,
         Has(slots, id) \/ id = packet.id
  PROVE  Has(slots', id)
<1> DEFINE p == SlotFor("writev")
           a == Activated("writev")
           j == [a[p] EXCEPT !.packets = Append(@, packet)]
           t == [a EXCEPT ![p] = j]
<1>1. a \in Seq(Job) /\ p \in 1..Len(a)
  BY ActivatedKeeps DEF Types
<1>2. Has(slots, id) => Has(a, id)
  BY ActivatedHas DEF Types
<1>3. slots' = t
  BY DEF Queue
<1> HIDE DEF a, p
<1>4. a[p] \in Job /\ a[p].packets \in Seq(Part)
  <2>1. a[p] \in Job
    BY <1>1, ElementOfSeq
  <2> QED BY <2>1 DEF Job
<1>5. j \in Job /\ j.packets = Append(a[p].packets, packet)
  BY <1>4, AppendProperties DEF Job
<1>6. /\ Len(a[p].packets) \in Nat
      /\ Len(j.packets) = Len(a[p].packets) + 1
      /\ \A k \in 1..Len(a[p].packets) : j.packets[k] = a[p].packets[k]
      /\ j.packets[Len(a[p].packets) + 1] = packet
  BY <1>4, <1>5, AppendProperties, LenProperties
<1>7. /\ Len(t) = Len(a)
      /\ \A q \in 1..Len(a) : t[q] = IF q = p THEN j ELSE a[q]
  BY <1>1, <1>5, Replaced
<1> HIDE DEF j, t
<1>8. CASE id = packet.id
  <2>1. /\ p \in 1..Len(t) /\ Len(j.packets) \in 1..Len(t[p].packets)
        /\ IdAt(t, p, Len(j.packets)) = id
    BY <1>1, <1>6, <1>7, <1>8 DEF IdAt
  <2> QED BY <1>3, <2>1 DEF Has
<1>9. CASE Has(slots, id)
  <2>1a. PICK q \in 1..Len(a) :
             \E k \in 1..Len(a[q].packets) : IdAt(a, q, k) = id
    BY <1>2, <1>9 DEF Has
  <2>1. PICK k \in 1..Len(a[q].packets) : IdAt(a, q, k) = id
    BY <2>1a
  <2>2. q \in 1..Len(t) /\ k \in 1..Len(t[q].packets) /\ IdAt(t, q, k) = id
    <3>1. CASE q = p
      BY <1>6, <1>7, <2>1, <3>1 DEF IdAt
    <3>2. CASE q # p
      BY <1>7, <2>1, <3>2 DEF IdAt
    <3> QED BY <3>1, <3>2
  <2> QED BY <1>3, <2>2 DEF Has
<1> QED BY <1>8, <1>9

LEMMA FinishedHas ==
  ASSUME ListInv, NEW job \in Job, job.packets = First.packets, Finished(job),
         NEW id, Has(slots, id)
  PROVE  Has(slots', id)
<1> DEFINE j == [job EXCEPT !.on = FALSE]
           t == slots'
<1>1. Len(slots) \in Nat /\ cur \in 1..Len(slots) /\ slots \in Seq(Job)
  BY LenProperties DEF ListInv
<1>2. j \in Job /\ j.packets = First.packets
  BY DEF Job
<1>3. HeadToCurrent(j)
  BY DEF Finished
<1> HIDE DEF j
<1>4. /\ Len(t) = Len(slots)
      /\ \A q \in 1..Len(slots) :
           t[q] = IF q < cur THEN slots[q + 1] ELSE IF q = cur THEN j ELSE slots[q]
  BY <1>1, <1>2, <1>3, MovedShape
<1> HIDE DEF t
<1>5a. PICK q \in 1..Len(slots) :
           \E k \in 1..Len(slots[q].packets) : IdAt(slots, q, k) = id
  BY DEF Has
<1>5. PICK k \in 1..Len(slots[q].packets) : IdAt(slots, q, k) = id
  BY <1>5a
<1> DEFINE r == IF q = 1 THEN cur ELSE IF q <= cur THEN q - 1 ELSE q
<1>6. r \in 1..Len(t) /\ t[r].packets = slots[q].packets
  <2>1. CASE q = 1
    BY <1>1, <1>2, <1>4, <2>1 DEF First
  <2>2. CASE q # 1 /\ q <= cur
    BY <1>1, <1>4, <2>2
  <2>3. CASE q # 1 /\ q > cur
    BY <1>1, <1>4, <2>3
  <2> QED BY <1>1, <2>1, <2>2, <2>3
<1> HIDE DEF r
<1>7. k \in 1..Len(t[r].packets) /\ IdAt(t, r, k) = id
  BY <1>5, <1>6 DEF IdAt
<1> QED BY <1>6, <1>7 DEF Has, t

LEMMA FirstTakenHas ==
  ASSUME ListInv, NEW j \in Job, Len(j.packets) = Len(slots[1].packets),
         \A i \in 1..Len(j.packets) : j.packets[i].id = slots[1].packets[i].id,
         slots' = [slots EXCEPT ![1] = j], NEW id, Has(slots, id)
  PROVE  Has(slots', id)
<1> DEFINE t == [slots EXCEPT ![1] = j]
<1>1. slots \in Seq(Job) /\ 1 \in 1..Len(slots)
  BY LenProperties DEF ListInv
<1>2. /\ Len(t) = Len(slots)
      /\ \A q \in 1..Len(slots) : t[q] = IF q = 1 THEN j ELSE slots[q]
  BY <1>1, Replaced
<1>3. slots' = t
  OBVIOUS
<1> HIDE DEF t
<1>4. PICK q \in 1..Len(slots) : \E i \in 1..Len(slots[q].packets) : IdAt(slots, q, i) = id
  BY DEF Has
<1>5. PICK i \in 1..Len(slots[q].packets) : IdAt(slots, q, i) = id
  BY <1>4
<1>6. q \in 1..Len(t) /\ i \in 1..Len(t[q].packets) /\ IdAt(t, q, i) = id
  BY <1>2, <1>5 DEF IdAt
<1> QED BY <1>3, <1>6 DEF Has

LEMMA FirstGoneHas ==
  ASSUME ListInv, First.packets # <<>>, NEW id, Has(slots, id), id # Front.id,
         slots' = [slots EXCEPT ![1] = [First EXCEPT !.packets = Tail(@)]]
  PROVE  Has(slots', id)
<1> DEFINE j == [First EXCEPT !.packets = Tail(@)]
           t == [slots EXCEPT ![1] = j]
<1>1. slots \in Seq(Job) /\ 1 \in 1..Len(slots) /\ First \in Job
  BY LenProperties, ElementOfSeq DEF ListInv, First
<1>2. /\ Len(First.packets) \in Nat
      /\ Tail(First.packets) \in Seq(Part)
      /\ Len(Tail(First.packets)) = Len(First.packets) - 1
      /\ \A i \in 1..(Len(First.packets) - 1) : Tail(First.packets)[i] = First.packets[i + 1]
  <2>1. First.packets \in Seq(Part)
    BY <1>1 DEF Job
  <2> QED BY <2>1, EmptySeq, LenProperties, HeadTailProperties
<1>3. slots' = t
  OBVIOUS
<1>4. j \in Job /\ j.packets = Tail(First.packets)
  BY <1>1, <1>2 DEF Job
<1> HIDE DEF j
<1>5. /\ Len(t) = Len(slots)
      /\ \A q \in 1..Len(slots) : t[q] = IF q = 1 THEN j ELSE slots[q]
  BY <1>1, <1>4, Replaced
<1> HIDE DEF t
<1>6a. PICK q \in 1..Len(slots) :
           \E k \in 1..Len(slots[q].packets) : IdAt(slots, q, k) = id
  BY DEF Has
<1>6. PICK k \in 1..Len(slots[q].packets) : IdAt(slots, q, k) = id
  BY <1>6a
<1>7. CASE q = 1
  <2>1. k # 1 /\ k \in 1..Len(First.packets)
    BY <1>6, <1>7 DEF IdAt, First, Front
  <2>2. k - 1 \in 1..(Len(First.packets) - 1) /\ (k - 1) + 1 = k
    BY <1>2, <2>1
  <2>3. Tail(First.packets)[k - 1] = First.packets[k]
    BY <1>2, <2>2
  <2>4. 1 \in 1..Len(t) /\ k - 1 \in 1..Len(t[1].packets) /\ IdAt(t, 1, k - 1) = id
    BY <1>1, <1>2, <1>4, <1>5, <1>6, <1>7, <2>2, <2>3 DEF IdAt, First
  <2> QED BY <1>3, <2>4 DEF Has
<1>8. CASE q # 1
  <2>1. q \in 1..Len(t) /\ k \in 1..Len(t[q].packets) /\ IdAt(t, q, k) = id
    BY <1>5, <1>6, <1>8 DEF IdAt
  <2> QED BY <1>3, <2>1 DEF Has
<1> QED BY <1>7, <1>8

\* Data that is refused, or written at once.
LEMMA MemNotQueued ==
  ASSUME ListInv, FreedInv, MemInv, n < MaxOps, n' = n + 1, NEW b \in BOOLEAN,
         mem' = [mem EXCEPT ![n'] = IF b THEN "socket" ELSE "caller"],
         freed' = [freed EXCEPT ![n'] = IF b THEN @ + 1 ELSE @],
         slots' = slots
  PROVE  MemInv'
<1>1. n + 1 \in Id /\ n \in Nat
  BY BoundsArePositive DEF ListInv, Id
<1>2. freed \in [Id -> Nat] /\ freed[n + 1] = 0
  BY <1>1 DEF FreedInv
<1>3. /\ freed' \in [Id -> Nat]
      /\ \A id \in Id : freed'[id] = IF id = n + 1 /\ b THEN 1 ELSE freed[id]
  BY <1>1, <1>2
<1>4. /\ mem' \in [Id -> {"none", "caller", "socket"}]
      /\ \A id \in Id : mem'[id] = IF id = n + 1 THEN IF b THEN "socket" ELSE "caller"
                                   ELSE mem[id]
  BY <1>1 DEF MemInv
<1>5. \A id \in Id : id > n' => mem'[id] = "none"
  BY <1>1, <1>4, BoundsArePositive DEF MemInv, Id
<1>6. \A id \in Id : mem'[id] # "socket" => freed'[id] = 0
  BY <1>2, <1>3, <1>4 DEF MemInv
<1>7. \A id \in Id : mem'[id] = "socket" /\ freed'[id] = 0 => Has(slots', id)
  BY <1>2, <1>3, <1>4 DEF MemInv
<1> QED BY <1>4, <1>5, <1>6, <1>7 DEF MemInv

\* Data that is queued.
LEMMA MemQueued ==
  ASSUME ListInv, FreedInv, MemInv, n < MaxOps, n' = n + 1,
         NEW len \in Lens, NEW off \in Int, NEW kind \in Kinds,
         NEW packet, packet = [id |-> n', len |-> len, off |-> off], Queue(packet),
         mem' = [mem EXCEPT ![n'] = Held(kind)], freed' = freed
  PROVE  MemInv'
<1>1. n + 1 \in Id /\ n \in Nat
  BY BoundsArePositive DEF ListInv, Id
<1>2. packet \in Part /\ packet.id = n + 1
  BY <1>1 DEF Part
<1>3. \A id : Has(slots, id) \/ id = n + 1 => Has(slots', id)
  BY <1>2, QueueHas
<1>4. /\ mem' \in [Id -> {"none", "caller", "socket"}]
      /\ \A id \in Id : id # n + 1 => mem'[id] = mem[id]
  BY <1>1 DEF MemInv, Held
<1>5. \A id \in Id : id > n' => mem'[id] = "none"
  BY <1>1, <1>4, BoundsArePositive DEF MemInv, Id
<1>6. freed[n + 1] = 0
  BY <1>1 DEF FreedInv
<1>7. \A id \in Id : mem'[id] # "socket" => freed'[id] = 0
  BY <1>4, <1>6 DEF MemInv
<1>8. \A id \in Id : mem'[id] = "socket" /\ freed'[id] = 0 => Has(slots', id)
  BY <1>3, <1>4 DEF MemInv
<1> QED BY <1>4, <1>5, <1>7, <1>8 DEF MemInv

\* Nothing is handed over or freed, and nothing leaves the jobs.
LEMMA MemKept ==
  ASSUME MemInv, ListInv, n' \in {n, n + 1}, UNCHANGED <<mem, freed>>,
         \A id : Has(slots, id) => Has(slots', id)
  PROVE  MemInv'
<1>1. \A id \in Id : id > n' => id > n
  BY BoundsArePositive DEF ListInv, Id
<1> QED BY <1>1 DEF MemInv

\* What is written from a job is freed if it is the socket's.
LEMMA MemPacket ==
  ASSUME ListInv, FreedInv, MemInv, writev_packet \/ ssl_packet
  PROVE  MemInv'
<1>1. /\ First.packets # <<>>
      /\ slots' = [slots EXCEPT ![1] = [First EXCEPT !.packets = Tail(@)]]
      /\ freed' = Released(Front.id)
      /\ UNCHANGED <<n, mem>>
  BY DEF writev_packet, ssl_packet
<1>2. \A id : Has(slots, id) /\ id # Front.id => Has(slots', id)
  BY <1>1, FirstGoneHas
<1>3. Front.id \in Id
  BY <1>1, FrontIsPart DEF Part
<1>4. freed \in [Id -> Nat]
  BY DEF FreedInv
<1>5. \A id \in Id :
        freed'[id] = IF id = Front.id /\ mem[id] = "socket" THEN freed[id] + 1 ELSE freed[id]
  BY <1>1, <1>3, <1>4 DEF Released
<1>6. \A id \in Id : mem[id] # "socket" => freed'[id] = 0
  BY <1>5 DEF MemInv
<1>7. \A id \in Id : mem[id] = "socket" /\ freed'[id] = 0 => Has(slots', id)
  <2> SUFFICES ASSUME NEW id \in Id, mem[id] = "socket", freed'[id] = 0
               PROVE  Has(slots', id)
    OBVIOUS
  <2>1. id # Front.id /\ freed[id] = 0
    BY <1>4, <1>5
  <2> QED BY <1>2, <2>1 DEF MemInv
<1> QED BY <1>1, <1>6, <1>7 DEF MemInv

LEMMA MemProgram ==
  ASSUME ListInv, FreedInv, MemInv, Program, "sendfile" \notin Ops
  PROVE  MemInv'
<1>1. ASSUME NEW kind \in Kinds, write_refused(kind) \/ write_fails(kind)
      PROVE  MemInv'
  <2>1. /\ n < MaxOps /\ n' = n + 1 /\ slots' = slots
        /\ mem' = [mem EXCEPT ![n'] = IF kind = "autorelease" THEN "socket" ELSE "caller"]
        /\ freed' = [freed EXCEPT ![n'] = IF kind = "autorelease" THEN @ + 1 ELSE @]
    BY <1>1 DEF write_refused, write_fails, Calls, jobs
  <2> QED BY <2>1, MemNotQueued
<1>2. ASSUME NEW len \in Lens, NEW kind \in Kinds,
             write_queued(len, kind) \/ write_now(len, kind) \/ ssl_write_now(len, kind)
      PROVE  MemInv'
  <2>1. n < MaxOps /\ n' = n + 1
    BY <1>2 DEF write_queued, write_now, ssl_write_now, Calls
  <2>2. CASE /\ slots' = slots
             /\ mem' = [mem EXCEPT ![n'] = IF kind = "autorelease" THEN "socket" ELSE "caller"]
             /\ freed' = [freed EXCEPT ![n'] = IF kind = "autorelease" THEN @ + 1 ELSE @]
    BY <2>1, <2>2, MemNotQueued
  <2>3. CASE /\ Queue(Whole(n', len))
             /\ mem' = [mem EXCEPT ![n'] = Held(kind)]
             /\ freed' = freed
    <3>1. Whole(n', len) = [id |-> n', len |-> len, off |-> 0]
      BY DEF Whole
    <3>2. 0 \in Int
      OBVIOUS
    <3> DEFINE packet == Whole(n', len)
    <3> HIDE DEF packet
    <3>3. packet = [id |-> n', len |-> len, off |-> 0] /\ Queue(packet)
      BY <2>3, <3>1 DEF packet
    <3> QED BY <2>1, <2>3, <3>2, <3>3, MemQueued
  <2>4. CASE /\ Queue([Whole(n', len) EXCEPT !.off = Room])
             /\ mem' = [mem EXCEPT ![n'] = Held(kind)]
             /\ freed' = freed
    <3>1. [Whole(n', len) EXCEPT !.off = Room] = [id |-> n', len |-> len, off |-> Room]
      BY DEF Whole
    <3>2. Room \in Int
      BY Numbers
    <3> QED BY <2>1, <2>4, <3>1, <3>2, MemQueued
  <2>5. CASE write_queued(len, kind)
    BY <2>3, <2>5 DEF write_queued
  <2>6. CASE write_now(len, kind)
    BY <2>2, <2>4, <2>6 DEF write_now
  <2>7. CASE ssl_write_now(len, kind)
    BY <2>2, <2>3, <2>7 DEF ssl_write_now
  <2> QED BY <1>2, <2>5, <2>6, <2>7
<1>3. ASSUME NEW len \in Lens, sendfile_queued(len) \/ sendfile_now(len)
      PROVE  MemInv'
  BY <1>3 DEF sendfile_queued, sendfile_now, Calls
<1>4. CASE shutdown_queued
  <2>1. slots' = Activated("shutdown") /\ n' = n + 1 /\ UNCHANGED <<mem, freed>>
    BY <1>4 DEF shutdown_queued, Calls, memory
  <2>2. \A id : Has(slots, id) => Has(slots', id)
    BY <2>1, ActivatedHas DEF Types
  <2> QED BY <2>1, <2>2, MemKept
<1>5. CASE shutdown_now \/ write_crashes
  BY <1>5, MemKept DEF shutdown_now, write_crashes, Calls, memory, jobs
<1> QED BY <1>1, <1>2, <1>3, <1>4, <1>5 DEF Program

LEMMA MemLoop ==
  ASSUME ListInv, FreedInv, MemInv, Loop
  PROVE  MemInv'
<1>1. CASE writev_packet \/ ssl_packet
  BY <1>1, MemPacket
<1>2. CASE writev_blocks \/ ssl_blocks
  <2>1. First.packets # <<>> /\ UNCHANGED <<n, mem, freed>>
    BY <1>2 DEF writev_blocks, ssl_blocks, memory
  <2>2. CASE slots' = slots
    BY <2>1, <2>2, MemKept
  <2>3. CASE slots' = [slots EXCEPT ![1] = [First EXCEPT !.packets = PartTaken(@, Takes)]]
    <3>1. \A id : Has(slots, id) => Has(slots', id)
      <4>1. Takes \in Int
        BY <2>1, FrontIsPart
      <4> DEFINE j == [First EXCEPT !.packets = PartTaken(@, Takes)]
      <4>2. /\ j \in Job
            /\ Len(j.packets) = Len(slots[1].packets)
            /\ \A i \in 1..Len(j.packets) : j.packets[i].id = slots[1].packets[i].id
        BY <2>1, <4>1, TakenJob
      <4> HIDE DEF j
      <4> QED BY <2>3, <4>2, FirstTakenHas DEF j
    <3> QED BY <2>1, <3>1, MemKept
  <2> QED BY <1>2, <2>2, <2>3 DEF writev_blocks, ssl_blocks
<1>3. CASE writev_done \/ mixed_job
  <2>1. Finished(First) /\ UNCHANGED <<n, mem, freed>>
    BY <1>3 DEF writev_done, mixed_job, memory
  <2>2. \A id : Has(slots, id) => Has(slots', id)
    BY <2>1, FrontIsPart, FinishedHas
  <2> QED BY <2>1, <2>2, MemKept
<1>4. CASE sendfile_job
  <2> DEFINE file == First.file[1]
             k == Least(file.len - file.off, Room)
  <2>1. UNCHANGED <<n, mem, freed>>
    BY <1>4 DEF sendfile_job, memory
  <2>2. CASE Finished([First EXCEPT !.file = <<>>])
    <3> DEFINE job == [First EXCEPT !.file = <<>>]
    <3>1. job \in Job /\ job.packets = First.packets
      BY FrontIsPart, EmptySeq DEF Job
    <3>2. \A id : Has(slots, id) => Has(slots', id)
      BY <2>2, <3>1, FinishedHas
    <3> QED BY <2>1, <3>2, MemKept
  <2>3. CASE slots' = [slots EXCEPT ![1] = [First EXCEPT !.file = PartTaken(@, k)]]
    <3>1. k \in Int /\ First.file # <<>>
      BY <1>4, FileTakes
    <3> DEFINE j == [First EXCEPT !.file = PartTaken(@, k)]
    <3>2. /\ j \in Job
          /\ Len(j.packets) = Len(slots[1].packets)
          /\ \A i \in 1..Len(j.packets) : j.packets[i].id = slots[1].packets[i].id
      BY <3>1, TakenJob
    <3> HIDE DEF j
    <3>3. \A id : Has(slots, id) => Has(slots', id)
      BY <2>3, <3>2, FirstTakenHas DEF j
    <3> QED BY <2>1, <3>3, MemKept
  <2> QED BY <1>4, <2>2, <2>3 DEF sendfile_job
<1>5. CASE poll \/ handler_done \/ writev_cut \/ ssl_fails \/ shutdown_job \/ jobs_done
  <2>1. UNCHANGED <<slots, n, mem, freed>>
    BY <1>5 DEF poll, handler_done, writev_cut, ssl_fails, shutdown_job, jobs_done, memory
  <2> QED BY <2>1, MemKept
<1> QED BY <1>1, <1>2, <1>3, <1>4, <1>5 DEF Loop

\* On a socket that is sent no files, data handed over to it or copied by it is
\* freed once, when its last byte is written or it is refused: no way through the
\* jobs loses a packet or releases it twice.
THEOREM ReleasedOnceHolds ==
  ASSUME "sendfile" \notin Ops
  PROVE  Spec => []ReleasedOnce
<1>1. Init => MemInv
  BY BoundsArePositive DEF Init, MemInv
<1>2. Inv /\ MemInv /\ [Next]_vars => MemInv'
  <2> SUFFICES ASSUME ListInv, FreedInv, MemInv, [Next]_vars
               PROVE  MemInv'
    BY DEF Inv
  <2>1. CASE Program
    BY <2>1, MemProgram
  <2>2. CASE Loop
    BY <2>2, MemLoop
  <2>3. CASE peer_reads \/ peer_sends \/ handshake_done \/ peer_resets \/ UNCHANGED vars
    <3>1. UNCHANGED <<slots, n, mem, freed>>
      BY <2>3 DEF peer_reads, peer_sends, handshake_done, peer_resets, vars, jobs, memory
    <3> QED BY <3>1, MemKept
  <2> QED BY <2>1, <2>2, <2>3 DEF Next
<1>3. Inv /\ MemInv => ReleasedOnce
  <2> SUFFICES ASSUME Inv, MemInv, NEW id \in Id
               PROVE  freed[id] = IF mem[id] = "socket" /\ ~Queued(id) THEN 1 ELSE 0
    BY DEF ReleasedOnce
  <2>1. freed[id] \in Nat /\ freed[id] <= 1
    BY DEF Inv, FreedInv
  <2>2. mem[id] # "socket" => freed[id] = 0
    BY DEF MemInv
  <2>3. Queued(id) <=> Has(slots, id)
    BY QueuedIsHas DEF Inv
  <2>4. Has(slots, id) => freed[id] = 0
    BY DEF Has, Inv, FreedInv, IdsInv
  <2>5. mem[id] = "socket" /\ freed[id] = 0 => Has(slots, id)
    BY DEF MemInv
  <2>6. freed[id] = 0 \/ freed[id] = 1
    BY <2>1
  <2> QED BY <2>2, <2>3, <2>4, <2>5, <2>6
<1> QED BY <1>1, <1>2, <1>3, InvHolds, PTL DEF Spec

-----------------------------------------------------------------------------
(* The bytes that leave. *)

\* How many bytes are to leave.
Bound == IF limit = None THEN Len(sent) ELSE limit

\* What the kernel has of a packet, OpenSSL holding record r: SSL_write keeps the
\* count on its own side.
Gone(r, packet) == IF r.id = packet.id THEN r.off ELSE packet.off

\* Packet number k of a job stands for the bytes of s from at[k] + 1 on, none of
\* them behind byte b; only the first may be cut.
Holds(packets, at, s, b) ==
  \A k \in 1..Len(packets) :
    /\ at[k] + packets[k].len <= b
    /\ \A i \in 1..packets[k].len : s[at[k] + i] = <<packets[k].id, i>>
    /\ k > 1 => packets[k].off = 0

\* The packets follow each other, up to byte b.
Follow(packets, at, b) ==
  \A k \in 1..Len(packets) :
    at[k] + packets[k].len = IF k = Len(packets) THEN b ELSE at[k + 1]

\* The bytes gone are those before the packets, and what is gone of the first.
StartsAt(packets, at, b, gone, r) ==
  /\ packets = <<>> => gone = b /\ r = NoRecord
  /\ packets # <<>> =>
       /\ gone = at[1] + Gone(r, packets[1])
       /\ Gone(r, packets[1]) \in 0..packets[1].len
       /\ r.id \in {0, packets[1].id}

\* The packets are the bytes from gone + 1 to b of s, and nothing else.
Line(packets, s, b, gone, r) ==
  \E at \in [1..Len(packets) -> 0..Len(s)] :
    Holds(packets, at, s, b) /\ Follow(packets, at, b) /\ StartsAt(packets, at, b, gone, r)

\* No shutdown was asked for, and all that waits is in one job.
OneJob ==
  /\ limit = None
  /\ cur = 1
  /\ First.types \subseteq {"writev"}
  /\ First.on => First.types = {"writev"}
  /\ ~First.on => First.packets = <<>> /\ ~block
  /\ \A p \in 2..Len(slots) : slots[p].types = {}

\* A shutdown waits behind the packets.
ThenShutdown ==
  /\ limit # None
  /\ cur >= 2
  /\ First.on /\ First.types = {"writev"}
  /\ slots[2].on /\ slots[2].types = {"shutdown"}

\* The shutdown is what comes next.
NowShutdown ==
  /\ limit # None
  /\ First.on /\ First.types = {"shutdown"}
  /\ Len(wire) = limit
  /\ record = NoRecord

FirstLine ==
  /\ Line(First.packets, sent, Bound, Len(wire), record)
  /\ Secure => \A k \in 1..Len(First.packets) : First.packets[k].off = 0

Waiting ==
  \/ NowShutdown
  \/ /\ OneJob \/ ThenShutdown
     /\ FirstLine

OrderInv ==
  /\ sent \in Seq(Byte)
  /\ wire \in Seq(Byte)
  /\ limit \in Nat \cup {None}
  /\ closed \in BOOLEAN
  /\ unread \in 0..Cap
  /\ record.id = 0 => record = NoRecord
  /\ Secure \/ record = NoRecord
  /\ Len(wire) <= Bound
  /\ Bound <= Len(sent)
  /\ \A k \in 1..Len(wire) : wire[k] = sent[k]

StreamInv ==
  /\ OrderInv
  /\ closed => limit # None /\ Len(wire) = limit /\ record = NoRecord
  /\ pc = "jobs" => st = "online" /\ ~block /\ ~closed
  /\ st = "online" /\ ~closed => Waiting

-----------------------------------------------------------------------------
(* The bytes.                                                               *)

\* A sequence extends another if it agrees with it wherever that is defined.
LEMMA ExtendsIf ==
  ASSUME NEW s \in Seq(Byte), NEW t \in Seq(Byte), Len(s) <= Len(t),
         \A k \in 1..Len(s) : t[k] = s[k]
  PROVE  Stream!Extends(t, s)
<1>1. Len(s) \in Nat /\ Len(t) \in Nat
  BY LenProperties
<1>2. \A k \in 1..Len(s) : t[k] \in Byte
  BY <1>1, ElementOfSeq
<1>3. /\ SubSeq(t, 1, Len(s)) \in Seq(Byte)
      /\ Len(SubSeq(t, 1, Len(s))) = Len(s)
      /\ \A k \in 1..Len(s) : SubSeq(t, 1, Len(s))[k] = t[k]
  <2>1. /\ 1 \in Int /\ Len(s) \in Int
        /\ \A k \in 1..Len(s) : t[k] \in Byte
        /\ (IF 1 <= Len(s) THEN Len(s) - 1 + 1 ELSE 0) = Len(s)
        /\ \A k \in 1..Len(s) : 1 + k - 1 = k
    BY <1>1, <1>2
  <2> QED BY <1>1, <2>1, SubSeqProperties
<1>4. SubSeq(t, 1, Len(s)) = s
  BY <1>1, <1>3, SeqEqual
<1> QED BY <1>4 DEF Stream!Extends

\* The bytes of a packet.
LEMMA BytesShape ==
  ASSUME NEW id \in Id, NEW from \in Nat, NEW k \in Nat
  PROVE  /\ Bytes(id, from, from + k) \in Seq(Byte)
         /\ Len(Bytes(id, from, from + k)) = k
         /\ \A i \in 1..k : Bytes(id, from, from + k)[i] = <<id, from + i>>
<1>1. Bytes(id, from, from + k) = [i \in 1..k |-> <<id, from + i>>]
  <2>1. (from + k) - from = k
    OBVIOUS
  <2> QED BY <2>1 DEF Bytes
<1>2. \A i \in 1..k : <<id, from + i>> \in Byte
  BY DEF Byte
<1> DEFINE b == [i \in 1..k |-> <<id, from + i>>]
<1>3. /\ b \in [1..k -> Byte] /\ DOMAIN b = 1..k
      /\ \A i \in 1..k : b[i] = <<id, from + i>>
  BY <1>2
<1> HIDE DEF b
<1>4. b \in Seq(Byte)
  BY <1>3, SeqDef
<1>5. Len(b) = k
  BY <1>3, <1>4, LenProperties
<1> QED BY <1>1, <1>3, <1>4, <1>5 DEF b

\* A sequence to which the bytes of a packet are added.
LEMMA BytesAdded ==
  ASSUME NEW s \in Seq(Byte), NEW id \in Id, NEW from \in Nat, NEW k \in Nat
  PROVE  LET t == s \o Bytes(id, from, from + k) IN
         /\ t \in Seq(Byte)
         /\ Len(t) = Len(s) + k
         /\ \A i \in 1..Len(s) : t[i] = s[i]
         /\ \A i \in 1..k : t[Len(s) + i] = <<id, from + i>>
<1> DEFINE b == Bytes(id, from, from + k)
           t == s \o b
<1>1. /\ b \in Seq(Byte) /\ Len(b) = k
      /\ \A i \in 1..k : b[i] = <<id, from + i>>
  BY BytesShape
<1>2. t = s \o b
  OBVIOUS
<1> HIDE DEF b, t
<1>3. /\ t \in Seq(Byte)
      /\ Len(t) = Len(s) + Len(b)
      /\ \A i \in 1..(Len(s) + Len(b)) : t[i] = IF i <= Len(s) THEN s[i] ELSE b[i - Len(s)]
  <2>1. /\ s \o b \in Seq(Byte)
        /\ Len(s \o b) = Len(s) + Len(b)
        /\ \A i \in 1..(Len(s) + Len(b)) : (s \o b)[i] = IF i <= Len(s) THEN s[i] ELSE b[i - Len(s)]
    BY <1>1, ConcatProperties
  <2> QED BY ONLY <1>2, <2>1
<1>4. Len(s) \in Nat
  BY LenProperties
<1>5. \A i \in 1..k : t[Len(s) + i] = <<id, from + i>>
  <2> SUFFICES ASSUME NEW i \in 1..k
               PROVE  t[Len(s) + i] = <<id, from + i>>
    OBVIOUS
  <2>1. Len(s) + i \in 1..(Len(s) + Len(b)) /\ ~(Len(s) + i <= Len(s))
        /\ (Len(s) + i) - Len(s) = i
    BY <1>1, <1>4
  <2>2. t[Len(s) + i] = b[i]
    BY <1>3, <2>1
  <2> QED BY <1>1, <2>2
<1>6. /\ t \in Seq(Byte) /\ Len(t) = Len(s) + k
      /\ \A i \in 1..Len(s) : t[i] = s[i]
  BY <1>1, <1>3, <1>4
<1>7. t = s \o Bytes(id, from, from + k)
  BY DEF t, b
<1> QED BY ONLY <1>5, <1>6, <1>7

\* Whatever is written continues what the kernel has as the accepted bytes do: a
\* step of the stream.
LEMMA Sends ==
  ASSUME sent \in Seq(Byte), wire \in Seq(Byte), sent' \in Seq(Byte), wire' \in Seq(Byte),
         Len(sent) <= Len(sent'), \A k \in 1..Len(sent) : sent'[k] = sent[k],
         Len(wire) <= Len(wire'), \A k \in 1..Len(wire) : wire'[k] = wire[k],
         Len(wire') <= Len(sent'), \A k \in 1..Len(wire') : wire'[k] = sent'[k],
         wire' = wire \/ (~closed /\ Len(wire') <= Bound'),
         limit' = limit, closed' = closed
  PROVE  Stream!Send
<1>1. Stream!Extends(sent', sent)
  BY ExtendsIf
<1>2. Stream!Extends(wire', wire)
  BY ExtendsIf
<1>3. Stream!Extends(sent', wire')
  <2>1. \A k \in 1..Len(wire') : sent'[k] = wire'[k]
    OBVIOUS
  <2> QED BY <2>1, ExtendsIf
<1>4. wire' # wire => ~closed /\ (limit # None => Len(wire') <= limit)
  BY DEF Bound
<1> QED BY <1>1, <1>2, <1>3, <1>4 DEF Stream!Send

-----------------------------------------------------------------------------
(* The packets of a job as bytes.                                           *)

\* What all the lemmas on lines need of their packets.
LEMMA PacketAt ==
  ASSUME NEW ps \in Seq(Part), NEW k \in 1..Len(ps)
  PROVE  /\ ps[k] \in Part /\ ps[k].id \in Id /\ ps[k].id # 0
         /\ ps[k].len \in Nat \ {0} /\ ps[k].off \in Int
<1>1. ps[k] \in Part
  BY ElementOfSeq
<1>2. ps[k].id \in Id /\ ps[k].len \in Nat \ {0} /\ ps[k].off \in Int
  BY <1>1, LensArePositive DEF Part
<1>3. ps[k].id # 0
  BY <1>2, BoundsArePositive DEF Id
<1> QED BY <1>1, <1>2, <1>3

\* No packets: everything is gone, and OpenSSL holds nothing.
LEMMA EmptyLine ==
  ASSUME NEW s, NEW b, NEW gone, NEW r
  PROVE  Line(<<>>, s, b, gone, r) <=> gone = b /\ r = NoRecord
<1>1. Len(<<>>) = 0 /\ 1..Len(<<>>) = {}
  OBVIOUS
<1>2. ASSUME gone = b /\ r = NoRecord
      PROVE  Line(<<>>, s, b, gone, r)
  <2> DEFINE at == [k \in 1..Len(<<>>) |-> 0]
  <2>1. at \in [1..Len(<<>>) -> 0..Len(s)]
    BY <1>1
  <2> HIDE DEF at
  <2>2. Holds(<<>>, at, s, b) /\ Follow(<<>>, at, b)
    BY <1>1 DEF Holds, Follow
  <2>3. StartsAt(<<>>, at, b, gone, r)
    BY <1>2 DEF StartsAt
  <2> QED BY <2>1, <2>2, <2>3 DEF Line
<1>3. Line(<<>>, s, b, gone, r) => gone = b /\ r = NoRecord
  BY DEF Line, StartsAt
<1> QED BY <1>2, <1>3

\* More bytes are accepted behind those of the line.
LEMMA SameLine ==
  ASSUME NEW ps \in Seq(Part), NEW s \in Seq(Byte), NEW t \in Seq(Byte), NEW b \in Nat,
         NEW gone, NEW r,
         Line(ps, s, b, gone, r), b <= Len(s), Len(s) <= Len(t),
         \A k \in 1..Len(s) : t[k] = s[k]
  PROVE  Line(ps, t, b, gone, r)
<1>1. Len(s) \in Nat /\ Len(t) \in Nat /\ Len(ps) \in Nat
  BY LenProperties
<1>2. PICK at \in [1..Len(ps) -> 0..Len(s)] :
        Holds(ps, at, s, b) /\ Follow(ps, at, b) /\ StartsAt(ps, at, b, gone, r)
  BY DEF Line
<1>3. at \in [1..Len(ps) -> 0..Len(t)]
  BY <1>1
<1>4. Holds(ps, at, t, b)
  <2> SUFFICES ASSUME NEW k \in 1..Len(ps)
               PROVE  /\ at[k] + ps[k].len <= b
                      /\ \A i \in 1..ps[k].len : t[at[k] + i] = <<ps[k].id, i>>
                      /\ k > 1 => ps[k].off = 0
    BY DEF Holds
  <2>1. /\ at[k] + ps[k].len <= b
        /\ \A i \in 1..ps[k].len : s[at[k] + i] = <<ps[k].id, i>>
        /\ k > 1 => ps[k].off = 0
    BY <1>2 DEF Holds
  <2>2. at[k] \in Nat /\ ps[k].len \in Nat
    BY <1>1, PacketAt, SMTT(30)
  <2>3. ASSUME NEW i \in 1..ps[k].len
        PROVE  t[at[k] + i] = <<ps[k].id, i>>
    <3>1. at[k] + i \in 1..Len(s)
      BY <1>1, <2>1, <2>2
    <3>2. t[at[k] + i] = s[at[k] + i]
      BY <3>1
    <3> QED BY <2>1, <3>2
  <2> QED BY <2>1, <2>3
<1> QED BY <1>2, <1>3, <1>4 DEF Line

\* What is next to leave: the rest of the first packet.
LEMMA NextBytes ==
  ASSUME NEW ps \in Seq(Part), NEW s \in Seq(Byte), NEW b, NEW gone, NEW r,
         Line(ps, s, b, gone, r), ps # <<>>
  PROVE  LET g == Gone(r, ps[1]) IN
         /\ ps[1] \in Part /\ ps[1].id \in Id /\ ps[1].len \in Nat
         /\ g \in 0..ps[1].len
         /\ gone \in Nat
         /\ gone + (ps[1].len - g) <= b
         /\ \A i \in 1..(ps[1].len - g) : s[gone + i] = <<ps[1].id, g + i>>
         /\ r.id \in {0, ps[1].id}
<1>1. Len(s) \in Nat /\ Len(ps) \in Nat \ {0} /\ 1 \in 1..Len(ps)
  BY LenProperties, EmptySeq
<1>2. PICK at \in [1..Len(ps) -> 0..Len(s)] :
        Holds(ps, at, s, b) /\ Follow(ps, at, b) /\ StartsAt(ps, at, b, gone, r)
  BY DEF Line
<1> DEFINE g == Gone(r, ps[1])
<1>3. /\ ps[1] \in Part /\ ps[1].id \in Id /\ ps[1].len \in Nat
  BY <1>1, PacketAt
<1>4. gone = at[1] + g /\ g \in 0..ps[1].len /\ r.id \in {0, ps[1].id}
  BY <1>2 DEF StartsAt
<1> HIDE DEF g
<1>5. at[1] \in Nat
  BY <1>1
<1>6. /\ at[1] + ps[1].len <= b
      /\ \A i \in 1..ps[1].len : s[at[1] + i] = <<ps[1].id, i>>
  BY <1>1, <1>2 DEF Holds
<1>7. gone \in Nat /\ gone + (ps[1].len - g) = at[1] + ps[1].len
  BY <1>3, <1>4, <1>5
<1>8. ASSUME NEW i \in 1..(ps[1].len - g)
      PROVE  s[gone + i] = <<ps[1].id, g + i>>
  <2>1. ps[1].len \in Nat /\ g \in Nat /\ i \in Nat /\ i >= 1 /\ i <= ps[1].len - g
    BY <1>3, <1>4
  <2>2. g + i \in 1..ps[1].len /\ at[1] + (g + i) = gone + i
    BY <1>4, <1>5, <2>1, SMTT(30)
  <2>3. s[at[1] + (g + i)] = <<ps[1].id, g + i>>
    BY <1>6, <2>2
  <2> QED BY <2>2, <2>3
<1> QED BY <1>3, <1>4, <1>6, <1>7, <1>8 DEF g

\* A part of the first packet leaves; how much is noted in the packet or by OpenSSL.
LEMMA LinePart ==
  ASSUME NEW ps \in Seq(Part), NEW qs \in Seq(Part), NEW s \in Seq(Byte), NEW b, NEW gone,
         NEW r, NEW q, NEW k \in Int,
         Line(ps, s, b, gone, r), ps # <<>>, Len(qs) = Len(ps),
         \A i \in 1..Len(ps) : qs[i].id = ps[i].id /\ qs[i].len = ps[i].len
                               /\ (i > 1 => qs[i].off = ps[i].off),
         Gone(q, qs[1]) = Gone(r, ps[1]) + k, Gone(q, qs[1]) \in 0..ps[1].len,
         q.id \in {0, ps[1].id}
  PROVE  Line(qs, s, b, gone + k, q)
<1>1. Len(s) \in Nat /\ Len(ps) \in Nat \ {0} /\ 1 \in 1..Len(ps) /\ qs # <<>>
  BY LenProperties, EmptySeq
<1>2. PICK at \in [1..Len(ps) -> 0..Len(s)] :
        Holds(ps, at, s, b) /\ Follow(ps, at, b) /\ StartsAt(ps, at, b, gone, r)
  BY DEF Line
<1>3. at \in [1..Len(qs) -> 0..Len(s)]
  OBVIOUS
<1>4. Holds(qs, at, s, b)
  <2> SUFFICES ASSUME NEW i \in 1..Len(qs)
               PROVE  /\ at[i] + qs[i].len <= b
                      /\ \A j \in 1..qs[i].len : s[at[i] + j] = <<qs[i].id, j>>
                      /\ i > 1 => qs[i].off = 0
    BY DEF Holds
  <2>1. /\ at[i] + ps[i].len <= b
        /\ \A j \in 1..ps[i].len : s[at[i] + j] = <<ps[i].id, j>>
        /\ i > 1 => ps[i].off = 0
    BY <1>2 DEF Holds
  <2>2. qs[i].id = ps[i].id /\ qs[i].len = ps[i].len /\ (i > 1 => qs[i].off = ps[i].off)
    OBVIOUS
  <2> QED BY <2>1, <2>2
<1>5. Follow(qs, at, b)
  <2> SUFFICES ASSUME NEW i \in 1..Len(qs)
               PROVE  at[i] + qs[i].len = IF i = Len(qs) THEN b ELSE at[i + 1]
    BY DEF Follow
  <2>1. at[i] + ps[i].len = IF i = Len(ps) THEN b ELSE at[i + 1]
    BY <1>2 DEF Follow
  <2> QED BY <2>1
<1>6. StartsAt(qs, at, b, gone + k, q)
  <2>1. /\ gone = at[1] + Gone(r, ps[1]) /\ Gone(r, ps[1]) \in 0..ps[1].len
        /\ at[1] \in Nat /\ ps[1].len \in Nat
    <3>1. at[1] \in Nat
      BY <1>1
    <3>2. ps[1].len \in Nat
      BY <1>1, PacketAt
    <3> QED BY <1>2, <3>1, <3>2 DEF StartsAt
  <2> DEFINE g == Gone(r, ps[1])
             h == Gone(q, qs[1])
  <2>2. h = g + k /\ gone = at[1] + g /\ g \in Int
    BY <2>1
  <2> HIDE DEF g, h
  <2>3. gone + k = at[1] + h
    BY <2>1, <2>2
  <2>4. qs[1].id = ps[1].id /\ qs[1].len = ps[1].len
    BY <1>1
  <2> QED BY <1>1, <2>3, <2>4 DEF StartsAt, h
<1> QED BY <1>3, <1>4, <1>5, <1>6 DEF Line


\* The rest of the first packet leaves, and OpenSSL holds nothing of it.
LEMMA LineTail ==
  ASSUME NEW ps \in Seq(Part), NEW s \in Seq(Byte), NEW b, NEW gone, NEW r,
         Line(ps, s, b, gone, r), ps # <<>>
  PROVE  /\ Tail(ps) \in Seq(Part)
         /\ Len(Tail(ps)) = Len(ps) - 1
         /\ \A k \in 1..Len(Tail(ps)) : Tail(ps)[k] = ps[k + 1]
         /\ Line(Tail(ps), s, b, gone + (ps[1].len - Gone(r, ps[1])), NoRecord)
<1> DEFINE qs == Tail(ps)
<1>1. Len(s) \in Nat /\ Len(ps) \in Nat \ {0} /\ 1 \in 1..Len(ps)
  BY LenProperties, EmptySeq
<1>2. PICK at \in [1..Len(ps) -> 0..Len(s)] :
        Holds(ps, at, s, b) /\ Follow(ps, at, b) /\ StartsAt(ps, at, b, gone, r)
  BY DEF Line
<1>3. /\ qs \in Seq(Part)
      /\ Len(qs) = Len(ps) - 1
      /\ \A k \in 1..Len(qs) : qs[k] = ps[k + 1]
  BY HeadTailProperties
<1> HIDE DEF qs
<1>4. gone + (ps[1].len - Gone(r, ps[1])) = at[1] + ps[1].len
  <2>1. at[1] \in Nat
    BY <1>1
  <2>2. ps[1].len \in Nat
    BY <1>1, PacketAt
  <2>3. gone = at[1] + Gone(r, ps[1]) /\ Gone(r, ps[1]) \in 0..ps[1].len
    BY <1>2 DEF StartsAt
  <2> DEFINE g == Gone(r, ps[1])
  <2>4. gone = at[1] + g /\ g \in Nat
    BY <2>2, <2>3
  <2> HIDE DEF g
  <2>5. gone + (ps[1].len - g) = at[1] + ps[1].len
    BY <2>1, <2>2, <2>4
  <2> QED BY <2>5 DEF g
<1> DEFINE m == [k \in 1..Len(qs) |-> at[k + 1]]
<1>5. ASSUME NEW k \in 1..Len(qs)
      PROVE  k + 1 \in 1..Len(ps) /\ m[k] = at[k + 1] /\ qs[k] = ps[k + 1]
  BY <1>1, <1>3
<1>6. m \in [1..Len(qs) -> 0..Len(s)]
  BY <1>5
<1> HIDE DEF m
<1>7. Holds(qs, m, s, b)
  <2> SUFFICES ASSUME NEW k \in 1..Len(qs)
               PROVE  /\ m[k] + qs[k].len <= b
                      /\ \A i \in 1..qs[k].len : s[m[k] + i] = <<qs[k].id, i>>
                      /\ k > 1 => qs[k].off = 0
    BY DEF Holds
  <2>1. k + 1 \in 1..Len(ps) /\ m[k] = at[k + 1] /\ qs[k] = ps[k + 1]
    BY <1>5
  <2>2. /\ at[k + 1] + ps[k + 1].len <= b
        /\ \A i \in 1..ps[k + 1].len : s[at[k + 1] + i] = <<ps[k + 1].id, i>>
        /\ k + 1 > 1 => ps[k + 1].off = 0
    BY <1>2, <2>1 DEF Holds
  <2> QED BY <2>1, <2>2
<1>8. Follow(qs, m, b)
  <2> SUFFICES ASSUME NEW k \in 1..Len(qs)
               PROVE  m[k] + qs[k].len = IF k = Len(qs) THEN b ELSE m[k + 1]
    BY DEF Follow
  <2>1. k + 1 \in 1..Len(ps) /\ m[k] = at[k + 1] /\ qs[k] = ps[k + 1]
    BY <1>5
  <2>2. at[k + 1] + ps[k + 1].len = IF k + 1 = Len(ps) THEN b ELSE at[(k + 1) + 1]
    BY <1>2, <2>1 DEF Follow
  <2>3. k + 1 = Len(ps) <=> k = Len(qs)
    BY <1>1, <1>3
  <2>4. k # Len(qs) => k + 1 \in 1..Len(qs) /\ m[k + 1] = at[(k + 1) + 1]
    BY <1>1, <1>3, <1>5
  <2> QED BY <2>1, <2>2, <2>3, <2>4
<1>9. StartsAt(qs, m, b, at[1] + ps[1].len, NoRecord)
  <2>1. at[1] + ps[1].len = IF 1 = Len(ps) THEN b ELSE at[2]
    <3>1. at[1] + ps[1].len = IF 1 = Len(ps) THEN b ELSE at[1 + 1]
      BY <1>1, <1>2 DEF Follow
    <3> QED BY <3>1
  <2>2. CASE qs = <<>>
    <3>1. Len(ps) = 1
      BY <1>1, <1>3, <2>2
    <3> QED BY <2>1, <2>2, <3>1 DEF StartsAt
  <2>3. CASE qs # <<>>
    <3>1. Len(qs) \in Nat \ {0} /\ 1 \in 1..Len(qs)
      BY <1>3, <2>3, EmptySeq, LenProperties
    <3>2. m[1] = at[2] /\ qs[1] = ps[2] /\ 2 \in 1..Len(ps)
      BY <1>5, <3>1
    <3>3. ps[2].off = 0 /\ ps[2].id # 0 /\ ps[2].len \in Nat
      BY <1>2, <3>2, PacketAt DEF Holds
    <3>4. Gone(NoRecord, qs[1]) = 0
      BY <3>2, <3>3 DEF Gone, NoRecord
    <3>5. at[1] + ps[1].len = m[1] /\ m[1] \in Nat
      BY <1>1, <1>3, <1>6, <2>1, <3>1, <3>2
    <3> QED BY <2>3, <3>2, <3>3, <3>4, <3>5 DEF StartsAt, NoRecord
  <2> QED BY <2>2, <2>3
<1>10. Line(qs, s, b, at[1] + ps[1].len, NoRecord)
  BY <1>6, <1>7, <1>8, <1>9 DEF Line
<1> QED BY <1>3, <1>4, <1>10 DEF qs

\* A packet is queued behind those that wait, as its bytes are accepted behind those
\* that were; if none waits, a part of it may have left.
LEMMA LineAppend ==
  ASSUME NEW ps \in Seq(Part), NEW packet \in Part, NEW s \in Seq(Byte), NEW t \in Seq(Byte),
         NEW gone, NEW r, NEW went, NEW q,
         Line(ps, s, Len(s), gone, r),
         Len(t) = Len(s) + packet.len, \A k \in 1..Len(s) : t[k] = s[k],
         \A i \in 1..packet.len : t[Len(s) + i] = <<packet.id, i>>,
         \/ ps # <<>> /\ packet.off = 0 /\ went = gone /\ q = r
         \/ /\ ps = <<>> /\ went = Len(s) + Gone(q, packet)
            /\ Gone(q, packet) \in 0..packet.len /\ q.id \in {0, packet.id}
  PROVE  Line(Append(ps, packet), t, Len(t), went, q)
<1> DEFINE qs == Append(ps, packet)
           l == Len(ps)
<1>1. Len(s) \in Nat /\ Len(t) \in Nat /\ l \in Nat
  BY LenProperties
<1>2. PICK at \in [1..Len(ps) -> 0..Len(s)] :
        Holds(ps, at, s, Len(s)) /\ Follow(ps, at, Len(s))
        /\ StartsAt(ps, at, Len(s), gone, r)
  BY DEF Line
<1>3. packet.len \in Nat \ {0}
  BY LensArePositive DEF Part
<1>4. /\ qs \in Seq(Part)
      /\ Len(qs) = l + 1
      /\ \A k \in 1..l : qs[k] = ps[k]
      /\ qs[l + 1] = packet
      /\ qs # <<>>
  BY <1>1, AppendProperties
<1> DEFINE e(k) == IF k = l + 1 THEN Len(s) ELSE at[k]
           m == [k \in 1..Len(qs) |-> e(k)]
<1>5. \A k \in 1..l : k \in 1..Len(qs) /\ m[k] = at[k] /\ at[k] \in 0..Len(s)
  <2> SUFFICES ASSUME NEW k \in 1..l
               PROVE  k \in 1..Len(qs) /\ m[k] = at[k] /\ at[k] \in 0..Len(s)
    OBVIOUS
  <2>1. k \in 1..Len(qs) /\ k # l + 1
    BY <1>1, <1>4
  <2>2. m[k] = e(k) /\ e(k) = at[k]
    BY <2>1
  <2> QED BY <2>1, <2>2
<1>6. m[l + 1] = Len(s)
  BY <1>1, <1>4
<1>7. m \in [1..Len(qs) -> 0..Len(t)]
  <2>1. ASSUME NEW k \in 1..Len(qs)
        PROVE  e(k) \in 0..Len(t)
    <3>1. CASE k = l + 1
      BY <1>1, <1>3, <3>1
    <3>2. CASE k # l + 1
      <4>1. k \in 1..l
        BY <1>1, <1>4, <3>2
      <4>2. e(k) = at[k] /\ at[k] \in 0..Len(s)
        BY <1>5, <3>2, <4>1
      <4> QED BY <1>1, <1>3, <4>2
    <3> QED BY <3>1, <3>2
  <2> QED BY <2>1
<1> HIDE DEF qs, l, m, e
<1>8. \A k \in 1..Len(qs) : k \in 1..l \/ k = l + 1
  BY <1>1, <1>4
<1>9. Holds(qs, m, t, Len(t))
  <2> SUFFICES ASSUME NEW k \in 1..Len(qs)
               PROVE  /\ m[k] + qs[k].len <= Len(t)
                      /\ \A i \in 1..qs[k].len : t[m[k] + i] = <<qs[k].id, i>>
                      /\ k > 1 => qs[k].off = 0
    BY DEF Holds
  <2>1. CASE k \in 1..l
    <3>1. k \in 1..Len(ps) /\ m[k] = at[k] /\ qs[k] = ps[k] /\ at[k] \in Nat
      BY <1>4, <1>5, <2>1 DEF l
    <3>2. /\ at[k] + ps[k].len <= Len(s)
          /\ \A i \in 1..ps[k].len : s[at[k] + i] = <<ps[k].id, i>>
          /\ k > 1 => ps[k].off = 0
      BY <1>2, <3>1 DEF Holds
    <3>3. ps[k].len \in Nat
      BY <3>1, PacketAt
    <3>4. ASSUME NEW i \in 1..ps[k].len
          PROVE  t[at[k] + i] = <<ps[k].id, i>>
      <4>1. at[k] + i \in 1..Len(s)
        BY <1>1, <3>1, <3>2, <3>3
      <4> QED BY <3>2, <4>1
    <3>5. at[k] + ps[k].len <= Len(t)
      BY <1>1, <1>3, <3>1, <3>2, <3>3
    <3> QED BY <3>1, <3>2, <3>4, <3>5
  <2>2. CASE k = l + 1
    <3>1. m[k] = Len(s) /\ qs[k] = packet
      BY <1>4, <1>6, <2>2
    <3>2. k > 1 => packet.off = 0
      <4>1. k > 1 => l # 0
        BY <1>1, <2>2
      <4>2. ps = <<>> => l = 0
        BY DEF l
      <4> QED BY <4>1, <4>2
    <3> QED BY <1>1, <1>3, <3>1, <3>2
  <2> QED BY <1>8, <2>1, <2>2
<1>10. Follow(qs, m, Len(t))
  <2> SUFFICES ASSUME NEW k \in 1..Len(qs)
               PROVE  m[k] + qs[k].len = IF k = Len(qs) THEN Len(t) ELSE m[k + 1]
    BY DEF Follow
  <2>1. CASE k \in 1..l
    <3>1. k \in 1..Len(ps) /\ m[k] = at[k] /\ qs[k] = ps[k] /\ k # Len(qs)
      BY <1>1, <1>4, <1>5, <2>1 DEF l
    <3>2. at[k] + ps[k].len = IF k = l THEN Len(s) ELSE at[k + 1]
      BY <1>2, <3>1 DEF Follow, l
    <3>3. m[k + 1] = IF k = l THEN Len(s) ELSE at[k + 1]
      <4>1. k # l => k + 1 \in 1..l
        BY <1>1, <2>1
      <4> QED BY <1>5, <1>6, <4>1
    <3> QED BY <3>1, <3>2, <3>3
  <2>2. CASE k = l + 1
    BY <1>4, <1>6, <2>2
  <2> QED BY <1>8, <2>1, <2>2
<1>11. StartsAt(qs, m, Len(t), went, q)
  <2>1. CASE ps # <<>> /\ packet.off = 0 /\ went = gone /\ q = r
    <3>1. l \in Nat \ {0} /\ 1 \in 1..l
      BY <1>1, <2>1, EmptySeq DEF l
    <3>2. m[1] = at[1] /\ qs[1] = ps[1]
      BY <1>4, <1>5, <3>1
    <3> QED BY <1>2, <1>4, <2>1, <3>2 DEF StartsAt
  <2>2. CASE /\ ps = <<>> /\ went = Len(s) + Gone(q, packet)
             /\ Gone(q, packet) \in 0..packet.len /\ q.id \in {0, packet.id}
    <3>1. l = 0
      BY <2>2 DEF l
    <3>2. m[1] = Len(s) /\ qs[1] = packet
      BY <1>4, <1>6, <3>1
    <3> QED BY <1>4, <2>2, <3>2 DEF StartsAt
  <2> QED BY <2>1, <2>2
<1> QED BY <1>7, <1>9, <1>10, <1>11 DEF Line, qs


-----------------------------------------------------------------------------
(* The job list.                                                            *)

LEMMA FirstShape ==
  ASSUME ListInv
  PROVE  /\ slots \in Seq(Job) /\ Len(slots) \in Nat /\ 1 \in 1..Len(slots)
         /\ First = slots[1] /\ First \in Job /\ First.packets \in Seq(Part)
         /\ cur \in 1..Len(slots) /\ cur \in Nat
<1>1. slots \in Seq(Job) /\ Len(slots) \in Nat /\ 1 \in 1..Len(slots)
  BY LenProperties DEF ListInv
<1>2. First = slots[1] /\ First \in Job
  BY <1>1, ElementOfSeq DEF First
<1>3. First.packets \in Seq(Part)
  BY <1>2 DEF Job
<1> QED BY <1>1, <1>2, <1>3 DEF ListInv

\* The slot that is taken is active, with the types of its earlier uses and the
\* new one.
LEMMA ActivatedJob ==
  ASSUME ListInv, NEW type \in Types
  PROVE  LET p == SlotFor(type)  a == Activated(type) IN
         /\ p \in {cur, cur + 1} /\ p \in 1..Len(a) /\ Len(a) \in Nat
         /\ a \in Seq(Job) /\ a[p] \in Job /\ a[p].packets \in Seq(Part)
         /\ \A q \in 1..Len(a) : q # p =>
              a[q] = IF q <= Len(slots) THEN slots[q] ELSE Fresh
         /\ Len(a) >= Len(slots)
         /\ a[p].on = TRUE
         /\ a[p].types = (IF p <= Len(slots) THEN slots[p].types ELSE {}) \cup {type}
         /\ a[p].packets = IF p <= Len(slots) THEN slots[p].packets ELSE <<>>
<1> DEFINE p == SlotFor(type)
           a == Activated(type)
           g == Grown(p)
           j == [g[p] EXCEPT !.on = TRUE, !.types = @ \cup {type}]
<1>1. slots \in Seq(Job) /\ cur \in 1..Len(slots)
  BY DEF ListInv
<1>2. /\ p \in {cur, cur + 1} /\ a \in Seq(Job) /\ p \in 1..Len(a) /\ Len(a) >= Len(slots)
      /\ \A q \in 1..Len(a) : q # p =>
           a[q] = IF q <= Len(slots) THEN slots[q] ELSE Fresh
      /\ a[p].packets = IF p <= Len(slots) THEN slots[p].packets ELSE <<>>
  BY <1>1, ActivatedShape
<1>3. p \in 1..(Len(slots) + 1)
  BY <1>1, <1>2, LenProperties
<1>4. /\ g \in Seq(Job) /\ p \in 1..Len(g)
      /\ \A q \in 1..Len(g) : g[q] = IF q <= Len(slots) THEN slots[q] ELSE Fresh
  BY <1>1, <1>3, GrownShape
<1>5. g[p] \in Job
  BY <1>4, ElementOfSeq
<1>6. j \in Job /\ j.on = TRUE /\ j.types = g[p].types \cup {type}
  <2>1. type \in Types
    OBVIOUS
  <2> QED BY <1>5, <2>1 DEF Job
<1>7. a = [g EXCEPT ![p] = j]
  BY DEF Activated
<1> HIDE DEF p, a, g, j
<1>8. a[p] = j
  <2>1. \A q \in 1..Len(g) : [g EXCEPT ![p] = j][q] = IF q = p THEN j ELSE g[q]
    BY <1>4, <1>6, Replaced
  <2> QED BY <1>4, <1>7, <2>1
<1>9. g[p].types = IF p <= Len(slots) THEN slots[p].types ELSE {}
  <2>1. g[p] = IF p <= Len(slots) THEN slots[p] ELSE Fresh
    BY <1>4
  <2>2. Fresh.types = {}
    BY DEF Fresh
  <2> QED BY <2>1, <2>2
<1>10. Len(a) \in Nat /\ a[p] \in Job
  BY <1>2, ElementOfSeq, LenProperties
<1>11. a[p].packets \in Seq(Part)
  BY <1>10 DEF Job
<1> QED BY <1>2, <1>6, <1>8, <1>9, <1>10, <1>11 DEF p, a

\* A packet is queued in the one job there is.
LEMMA QueueFirst ==
  ASSUME ListInv, OneJob, NEW packet \in Part, Queue(packet)
  PROVE  /\ cur' = 1
         /\ slots'[1].on /\ slots'[1].types = {"writev"}
         /\ slots'[1].packets = Append(First.packets, packet)
         /\ \A p \in 2..Len(slots') : slots'[p].types = {}
<1> DEFINE p == SlotFor("writev")
           a == Activated("writev")
           j == [a[p] EXCEPT !.packets = Append(@, packet)]
<1>1. slots \in Seq(Job) /\ Len(slots) \in Nat /\ 1 \in 1..Len(slots) /\ First = slots[1]
  BY FirstShape
<1>2. p = 1
  BY <1>1 DEF OneJob, SlotFor
<1>3. /\ p \in 1..Len(a) /\ Len(a) \in Nat
      /\ a \in Seq(Job) /\ a[p] \in Job /\ a[p].packets \in Seq(Part)
      /\ \A q \in 1..Len(a) : q # p =>
           a[q] = IF q <= Len(slots) THEN slots[q] ELSE Fresh
      /\ a[p].on = TRUE
      /\ a[p].types = (IF p <= Len(slots) THEN slots[p].types ELSE {}) \cup {"writev"}
      /\ a[p].packets = IF p <= Len(slots) THEN slots[p].packets ELSE <<>>
  BY ActivatedJob DEF Types
<1>4. slots' = [a EXCEPT ![p] = j] /\ cur' = p
  BY DEF Queue
<1> HIDE DEF p, a
<1>5. a[p].types = {"writev"} /\ a[p].packets = First.packets
  BY <1>1, <1>2, <1>3 DEF OneJob
<1>6. Append(a[p].packets, packet) \in Seq(Part)
  BY <1>3, AppendProperties
<1>7. /\ j \in Job /\ j.on = TRUE /\ j.types = {"writev"}
      /\ j.packets = Append(First.packets, packet)
  BY <1>3, <1>5, <1>6 DEF Job
<1> HIDE DEF j
<1>8. /\ Len(slots') = Len(a)
      /\ \A q \in 1..Len(a) : slots'[q] = IF q = p THEN j ELSE a[q]
  BY <1>3, <1>4, <1>7, Replaced
<1>9. ASSUME NEW q \in 2..Len(slots')
      PROVE  slots'[q].types = {}
  <2>1. q \in 1..Len(a) /\ q # p
    BY <1>2, <1>3, <1>8
  <2>2. slots'[q] = IF q <= Len(slots) THEN slots[q] ELSE Fresh
    BY <1>3, <1>8, <2>1
  <2>3. q <= Len(slots) => slots[q].types = {}
    BY <1>1, <1>3, <1>8 DEF OneJob
  <2> QED BY <2>2, <2>3 DEF Fresh
<1> QED BY <1>2, <1>3, <1>4, <1>7, <1>8, <1>9

\* Once a shutdown is queued, nothing joins the jobs before it, nor its own.
LEMMA BehindShutdown ==
  ASSUME ListInv, ThenShutdown \/ NowShutdown, NEW type \in Types
  PROVE  LET p == SlotFor(type)  a == Activated(type) IN
         /\ p >= 2 /\ a[1] = slots[1]
         /\ ThenShutdown => p >= 3 /\ a[2] = slots[2]
<1> DEFINE p == SlotFor(type)
           a == Activated(type)
<1>1. /\ slots \in Seq(Job) /\ Len(slots) \in Nat /\ 1 \in 1..Len(slots) /\ First = slots[1]
      /\ cur \in 1..Len(slots)
  BY FirstShape
<1>2. /\ p \in {cur, cur + 1} /\ p \in 1..Len(a) /\ Len(a) \in Nat /\ Len(a) >= Len(slots)
      /\ \A q \in 1..Len(a) : q # p =>
           a[q] = IF q <= Len(slots) THEN slots[q] ELSE Fresh
  BY ActivatedJob
<1>3. slots[cur].on /\ ~("writev" \in slots[cur].types) => p = cur + 1
  BY DEF SlotFor
<1> HIDE DEF p, a
<1>4. CASE ThenShutdown
  <2>1. cur >= 2 /\ slots[2].on /\ slots[2].types = {"shutdown"}
    BY <1>4 DEF ThenShutdown
  <2>2. p >= 3
    <3>1. CASE cur = 2
      BY <1>3, <2>1, <3>1
    <3>2. CASE cur # 2
      BY <1>1, <1>2, <2>1, <3>2
    <3> QED BY <3>1, <3>2
  <2>3. 1 \in 1..Len(a) /\ 2 \in 1..Len(a) /\ 1 # p /\ 2 # p /\ 1 <= Len(slots)
        /\ 2 <= Len(slots)
    BY <1>1, <1>2, <2>1, <2>2
  <2> QED BY <1>2, <2>2, <2>3 DEF p, a
<1>5. CASE ~ThenShutdown
  <2>1. slots[1].on /\ slots[1].types = {"shutdown"}
    BY <1>1, <1>5 DEF NowShutdown
  <2>2. p >= 2
    <3>1. CASE cur = 1
      BY <1>3, <2>1, <3>1
    <3>2. CASE cur # 1
      BY <1>1, <1>2, <3>2
    <3> QED BY <3>1, <3>2
  <2>3. 1 \in 1..Len(a) /\ 1 # p /\ 1 <= Len(slots)
    BY <1>1, <1>2, <2>2
  <2> QED BY <1>2, <1>5, <2>2, <2>3 DEF p, a
<1> QED BY <1>4, <1>5


-----------------------------------------------------------------------------
(* What each kind of step leaves of the invariant.                          *)

\* The step is one the stream allows, or it does not see it.
Allowed == Stream!Next \/ UNCHANGED Stream!vars

\* The bytes of an operation are accepted.
LEMMA NewBytes ==
  ASSUME OrderInv, NEW id \in Id, NEW len \in Nat, sent' = sent \o Bytes(id, 0, len)
  PROVE  /\ Len(sent) \in Nat /\ sent' \in Seq(Byte) /\ Len(sent') = Len(sent) + len
         /\ \A i \in 1..Len(sent) : sent'[i] = sent[i]
         /\ \A i \in 1..len : sent'[Len(sent) + i] = <<id, i>>
<1> DEFINE t == sent \o Bytes(id, 0, 0 + len)
<1>1. sent \in Seq(Byte) /\ 0 \in Nat /\ id \in Id /\ len \in Nat
  BY DEF OrderInv
<1>2. sent' = t
  <2>1. 0 + len = len
    OBVIOUS
  <2> QED BY <2>1
<1>3. /\ t \in Seq(Byte) /\ Len(t) = Len(sent) + len
      /\ \A i \in 1..Len(sent) : t[i] = sent[i]
      /\ \A i \in 1..len : t[Len(sent) + i] = <<id, 0 + i>>
  BY ONLY <1>1, BytesAdded, Zenon
<1> HIDE DEF t
<1>4. ASSUME NEW i \in 1..len
      PROVE  sent'[Len(sent) + i] = <<id, i>>
  <2>1. 0 + i = i
    OBVIOUS
  <2>2. t[Len(sent) + i] = <<id, 0 + i>>
    BY <1>3
  <2> QED BY <1>2, <2>1, <2>2
<1> QED BY <1>1, <1>2, <1>3, <1>4, LenProperties

\* Bytes are accepted behind the others; none leave.
LEMMA Accepts ==
  ASSUME OrderInv, NEW id \in Id, NEW len \in Nat, sent' = sent \o Bytes(id, 0, len),
         wire' = wire, limit' = limit, closed' = closed, unread' = unread,
         record' = record, tls' = tls
  PROVE  OrderInv' /\ Stream!Send
<1>1. /\ sent' \in Seq(Byte) /\ Len(sent') = Len(sent) + len
      /\ \A i \in 1..Len(sent) : sent'[i] = sent[i]
  BY NewBytes
<1>2. /\ sent \in Seq(Byte) /\ wire \in Seq(Byte) /\ Len(sent) \in Nat /\ Len(wire) \in Nat
      /\ Len(wire) <= Bound /\ Bound <= Len(sent) /\ Bound \in Nat
      /\ \A k \in 1..Len(wire) : wire[k] = sent[k]
  BY LenProperties DEF OrderInv, Bound
<1>3. /\ wire' \in Seq(Byte) /\ Len(wire') <= Bound' /\ Bound' <= Len(sent')
      /\ Len(sent) <= Len(sent') /\ Len(wire') <= Len(sent')
  BY <1>1, <1>2 DEF Bound
<1>4. \A k \in 1..Len(wire') : wire'[k] = sent'[k]
  BY <1>1, <1>2
<1>5. Stream!Send
  BY <1>1, <1>2, <1>3, <1>4, Sends
<1>6. Secure' <=> Secure
  BY DEF Secure
<1> QED BY <1>1, <1>3, <1>4, <1>5, <1>6 DEF OrderInv

\* The kernel takes k bytes, which are the next ones.
LEMMA KernelTakes ==
  ASSUME OrderInv, NEW id \in Id, NEW off \in Nat, NEW k \in Nat, k <= Room,
         Take(id, off, k),
         sent' \in Seq(Byte), Len(sent) <= Len(sent'),
         \A i \in 1..Len(sent) : sent'[i] = sent[i],
         Len(wire) + k <= Bound',
         \A i \in 1..k : sent'[Len(wire) + i] = <<id, off + i>>,
         limit' = limit, ~closed, closed' = closed,
         record'.id = 0 => record' = NoRecord, Secure \/ record' = NoRecord, tls' = tls
  PROVE  OrderInv' /\ Stream!Send /\ Len(wire') = Len(wire) + k
<1>1. /\ sent \in Seq(Byte) /\ wire \in Seq(Byte) /\ Len(sent) \in Nat /\ Len(wire) \in Nat
      /\ Len(sent') \in Nat /\ Bound <= Len(sent) /\ Bound \in Nat /\ Len(wire) <= Bound
      /\ \A i \in 1..Len(wire) : wire[i] = sent[i]
  BY LenProperties DEF OrderInv, Bound
<1>2. /\ wire' \in Seq(Byte) /\ Len(wire') = Len(wire) + k
      /\ \A i \in 1..Len(wire) : wire'[i] = wire[i]
      /\ \A i \in 1..k : wire'[Len(wire) + i] = <<id, off + i>>
  <2> DEFINE t == wire \o Bytes(id, off, off + k)
  <2>1. wire' = t
    BY DEF Take
  <2>2. /\ t \in Seq(Byte) /\ Len(t) = Len(wire) + k
        /\ \A i \in 1..Len(wire) : t[i] = wire[i]
        /\ \A i \in 1..k : t[Len(wire) + i] = <<id, off + i>>
    <3>1. wire \in Seq(Byte) /\ id \in Id /\ off \in Nat /\ k \in Nat
      BY <1>1
    <3> QED BY ONLY <3>1, BytesAdded, Zenon
  <2> HIDE DEF t
  <2> QED BY <2>1, <2>2
<1>3. unread' \in 0..Cap
  BY BoundsArePositive DEF Take, Room, OrderInv
<1>4. Bound' <= Len(sent') /\ Bound' \in Nat
  BY <1>1 DEF Bound
<1>5. Len(wire') <= Bound' /\ Len(wire') <= Len(sent') /\ Len(wire) <= Len(wire')
  BY <1>1, <1>2, <1>4
<1>6. \A i \in 1..Len(wire') : wire'[i] = sent'[i]
  <2> SUFFICES ASSUME NEW i \in 1..Len(wire')
               PROVE  wire'[i] = sent'[i]
    OBVIOUS
  <2>1. CASE i <= Len(wire)
    BY <1>1, <1>2, <2>1
  <2>2. CASE i > Len(wire)
    <3>1. i - Len(wire) \in 1..k /\ Len(wire) + (i - Len(wire)) = i
      BY <1>1, <1>2, <2>2
    <3> DEFINE j == i - Len(wire)
    <3>2. wire'[Len(wire) + j] = <<id, off + j>> /\ sent'[Len(wire) + j] = <<id, off + j>>
      BY <1>2, <3>1
    <3> QED BY <3>1, <3>2
  <2> QED BY <1>1, <2>1, <2>2
<1>7. Stream!Send
  BY <1>1, <1>2, <1>5, <1>6, Sends
<1>8. Secure' <=> Secure
  BY DEF Secure
<1> QED BY <1>2, <1>3, <1>4, <1>5, <1>6, <1>7, <1>8 DEF OrderInv


\* A packet behind the shutdown.
LEMMA QueueBehind ==
  ASSUME ListInv, ThenShutdown \/ NowShutdown, NEW packet \in Part, Queue(packet)
  PROVE  /\ slots'[1] = slots[1]
         /\ ThenShutdown => cur' >= 2 /\ slots'[2] = slots[2]
<1> DEFINE p == SlotFor("writev")
           a == Activated("writev")
           j == [a[p] EXCEPT !.packets = Append(@, packet)]
<1>1. /\ p >= 2 /\ a[1] = slots[1]
      /\ ThenShutdown => p >= 3 /\ a[2] = slots[2]
  BY BehindShutdown DEF Types
<1>2. /\ p \in 1..Len(a) /\ Len(a) \in Nat
      /\ a \in Seq(Job) /\ a[p] \in Job /\ a[p].packets \in Seq(Part)
  BY ActivatedJob DEF Types
<1>3. slots' = [a EXCEPT ![p] = j] /\ cur' = p
  BY DEF Queue
<1> HIDE DEF p, a
<1>4. Append(a[p].packets, packet) \in Seq(Part)
  BY <1>2, AppendProperties
<1>5. j \in Job
  BY <1>2, <1>4 DEF Job
<1> HIDE DEF j
<1>6. \A q \in 1..Len(a) : slots'[q] = IF q = p THEN j ELSE a[q]
  BY <1>2, <1>3, <1>5, Replaced
<1>7. 1 \in 1..Len(a) /\ (p >= 3 => 2 \in 1..Len(a))
  BY <1>1, <1>2
<1> QED BY <1>1, <1>2, <1>3, <1>6, <1>7

\* A job is added, and what waits is still what waits.
LEMMA QueueWaits ==
  ASSUME ListInv, OrderInv, Waiting, NEW packet \in Part, Queue(packet),
         sent' = sent \o Bytes(packet.id, 0, packet.len), limit' = limit,
         tls' = tls, Secure => packet.off = 0,
         \/ First.on /\ packet.off = 0 /\ wire' = wire /\ record' = record
         \/ /\ ~First.on /\ Len(wire') = Len(sent) + Gone(record', packet)
            /\ Gone(record', packet) \in 0..packet.len /\ record'.id \in {0, packet.id}
  PROVE  Waiting'
<1>1. /\ slots \in Seq(Job) /\ Len(slots) \in Nat /\ 1 \in 1..Len(slots) /\ First = slots[1]
      /\ First.packets \in Seq(Part)
  BY FirstShape
<1>2. packet.id \in Id /\ packet.id # 0 /\ packet.len \in Nat \ {0}
  <2>1. packet.id \in Id /\ packet.len \in Lens
    BY DEF Part
  <2>2. packet.len \in Nat \ {0}
    BY <2>1, LensArePositive
  <2>3. packet.id # 0
    BY <2>1, BoundsArePositive DEF Id
  <2> QED BY <2>1, <2>2, <2>3
<1>3. /\ sent \in Seq(Byte) /\ Len(sent) \in Nat /\ Len(wire) \in Nat
      /\ Bound <= Len(sent) /\ Bound \in Nat
  BY LenProperties DEF OrderInv, Bound
<1>4. /\ sent' \in Seq(Byte) /\ Len(sent') = Len(sent) + packet.len
      /\ \A i \in 1..Len(sent) : sent'[i] = sent[i]
      /\ \A i \in 1..packet.len : sent'[Len(sent) + i] = <<packet.id, i>>
  BY <1>2, NewBytes
<1>5. Secure' <=> Secure
  BY DEF Secure
<1>6. CASE OneJob
  <2>1. /\ cur' = 1
        /\ slots'[1].on /\ slots'[1].types = {"writev"}
        /\ slots'[1].packets = Append(First.packets, packet)
        /\ \A p \in 2..Len(slots') : slots'[p].types = {}
    BY <1>6, QueueFirst
  <2>2. OneJob'
    BY <1>6, <2>1 DEF OneJob, First
  <2>3. FirstLine
    <3>1. ~NowShutdown
      BY <1>6 DEF OneJob, NowShutdown
    <3> QED BY <3>1 DEF Waiting
  <2> DEFINE ps == First.packets
             qs == Append(ps, packet)
  <2>4. Line(ps, sent, Len(sent), Len(wire), record)
    BY <1>6, <2>3 DEF FirstLine, Bound, OneJob
  <2>5. \/ ps # <<>> /\ packet.off = 0 /\ Len(wire') = Len(wire) /\ record' = record
        \/ /\ ps = <<>> /\ Len(wire') = Len(sent) + Gone(record', packet)
           /\ Gone(record', packet) \in 0..packet.len /\ record'.id \in {0, packet.id}
    <3>1. CASE ~First.on
      <4>1. ps = <<>>
        BY <1>6, <3>1 DEF OneJob
      <4> QED BY <3>1, <4>1
    <3>2. CASE First.on /\ ps # <<>>
      BY <3>2
    <3>3. CASE First.on /\ ps = <<>>
      <4>1. Len(wire) = Len(sent) /\ record = NoRecord
        BY <2>4, <3>3, EmptyLine
      <4>2. packet.off = 0 /\ wire' = wire /\ record' = record
        BY <3>3
      <4>3. Gone(record', packet) = 0 /\ record'.id = 0
        BY <1>2, <4>1, <4>2 DEF Gone, NoRecord
      <4> QED BY <1>2, <1>3, <3>3, <4>1, <4>2, <4>3
    <3> QED BY <3>1, <3>2, <3>3
  <2> HIDE DEF ps
  <2>6. Line(qs, sent', Len(sent'), Len(wire'), record')
    <3>1. ps \in Seq(Part)
      BY <1>1 DEF ps
    <3> QED BY <1>3, <1>4, <2>4, <2>5, <3>1, LineAppend
  <2>7. Secure => \A k \in 1..Len(qs) : qs[k].off = 0
    <3>1. Secure => \A k \in 1..Len(ps) : ps[k].off = 0
      BY <2>3 DEF FirstLine, ps
    <3>2. /\ Len(ps) \in Nat /\ Len(qs) = Len(ps) + 1
          /\ \A k \in 1..Len(ps) : qs[k] = ps[k]
          /\ qs[Len(ps) + 1] = packet
      BY <1>1, AppendProperties, LenProperties DEF ps
    <3> HIDE DEF qs
    <3>3. \A k \in 1..Len(qs) : k \in 1..Len(ps) \/ k = Len(ps) + 1
      BY <3>2
    <3> QED BY <3>1, <3>2, <3>3
  <2>8. (First.packets)' = qs /\ Bound' = Len(sent')
    BY <1>6, <2>1 DEF First, ps, Bound, OneJob
  <2> HIDE DEF qs
  <2>9. FirstLine'
    BY <1>5, <2>6, <2>7, <2>8 DEF FirstLine
  <2> QED BY <2>2, <2>9 DEF Waiting
<1>7. CASE ThenShutdown \/ NowShutdown
  <2>1. First.on /\ packet.off = 0 /\ wire' = wire /\ record' = record
    BY <1>7 DEF ThenShutdown, NowShutdown
  <2>2. slots'[1] = slots[1] /\ (ThenShutdown => cur' >= 2 /\ slots'[2] = slots[2])
    BY <1>7, QueueBehind
  <2>3. First' = First
    BY <1>1, <2>2 DEF First
  <2>4. CASE NowShutdown
    <3>1. NowShutdown'
      BY <2>1, <2>3, <2>4 DEF NowShutdown
    <3> QED BY <3>1 DEF Waiting
  <2>5. CASE ~NowShutdown
    <3>1. ThenShutdown /\ FirstLine /\ limit # None
      BY <1>7, <2>5 DEF Waiting, ThenShutdown
    <3>2. ThenShutdown'
      BY <2>2, <2>3, <3>1 DEF ThenShutdown
    <3>3. Line(First.packets, sent, Bound, Len(wire), record) /\ Bound' = Bound
      BY <3>1 DEF FirstLine, Bound
    <3>4. Line(First.packets, sent', Bound, Len(wire), record)
      <4>1. Len(sent) <= Len(sent')
        BY <1>2, <1>3, <1>4
      <4> QED BY <1>1, <1>3, <1>4, <3>3, <4>1, SameLine
    <3>5. FirstLine'
      BY <1>5, <2>1, <2>3, <3>1, <3>3, <3>4 DEF FirstLine
    <3> QED BY <3>2, <3>5 DEF Waiting
  <2> QED BY <2>4, <2>5
<1> QED BY <1>6, <1>7 DEF Waiting

\* Nothing the stream sees changes, and the jobs neither while they matter.
LEMMA NothingLeaves ==
  ASSUME StreamInv, record' = record, Secure' <=> Secure, unread' \in 0..Cap,
         UNCHANGED <<sent, wire, limit, closed>>,
         st' = "online" => st = "online" /\ UNCHANGED <<slots, cur>>,
         block' => block \/ First.on,
         pc' = "jobs" => st' = "online" /\ ~block' /\ ~closed
  PROVE  StreamInv' /\ Allowed
<1>1. Bound' = Bound
  BY DEF Bound
<1>2. OrderInv'
  BY <1>1 DEF StreamInv, OrderInv
<1>3. ASSUME st' = "online" /\ ~closed'
      PROVE  Waiting'
  <2>1. Waiting /\ First' = First /\ UNCHANGED <<slots, cur>>
    BY <1>3 DEF StreamInv, First
  <2>2. NowShutdown => NowShutdown'
    BY <2>1 DEF NowShutdown
  <2>3. ThenShutdown => ThenShutdown'
    BY <2>1 DEF ThenShutdown
  <2>4. OneJob => OneJob'
    BY <2>1 DEF OneJob
  <2>5. FirstLine => FirstLine'
    BY <1>1, <2>1 DEF FirstLine
  <2> QED BY <2>1, <2>2, <2>3, <2>4, <2>5 DEF Waiting
<1>4. Allowed
  BY DEF Allowed, Stream!vars
<1> QED BY <1>2, <1>3, <1>4 DEF StreamInv

\* On a socket that is open and not busy nothing waits.
LEMMA NotBusy ==
  ASSUME ListInv, StreamInv, st = "online", ~closed, ~Busy
  PROVE  /\ OneJob /\ FirstLine /\ First.packets = <<>> /\ limit = None
         /\ Len(wire) = Len(sent) /\ record = NoRecord
<1>1. ~First.on
  BY DEF Busy
<1>2. OneJob /\ FirstLine
  BY <1>1 DEF StreamInv, Waiting, NowShutdown, ThenShutdown
<1>3. limit = None /\ First.packets = <<>>
  BY <1>1, <1>2 DEF OneJob
<1>4. Line(<<>>, sent, Bound, Len(wire), record)
  BY <1>2, <1>3 DEF FirstLine
<1> QED BY <1>2, <1>3, <1>4, EmptyLine DEF Bound


-----------------------------------------------------------------------------
(* The program.                                                             *)

\* The number of an operation, and the packet that holds its bytes.
LEMMA NewPacket ==
  ASSUME ListInv, NEW op, Calls(op), NEW len \in Lens, NEW off \in Nat
  PROVE  LET packet == [Whole(n', len) EXCEPT !.off = off] IN
         /\ n' \in Id /\ n' # 0 /\ len \in Nat \ {0}
         /\ packet \in Part /\ packet.id = n' /\ packet.len = len /\ packet.off = off
         /\ off = 0 => packet = Whole(n', len)
<1>1. n' \in Id /\ n' # 0
  BY BoundsArePositive DEF ListInv, Calls, Id
<1>2. len \in Nat \ {0}
  BY LensArePositive
<1>3. Whole(n', len) = [id |-> n', len |-> len, off |-> 0]
  BY DEF Whole
<1>4. [Whole(n', len) EXCEPT !.off = off] = [id |-> n', len |-> len, off |-> off]
  BY <1>3
<1> QED BY <1>1, <1>2, <1>3, <1>4 DEF Part

LEMMA QueuedStep ==
  ASSUME ListInv, StreamInv, NEW len \in Lens, NEW kind \in Kinds, write_queued(len, kind)
  PROVE  StreamInv' /\ Allowed
<1> DEFINE packet == Whole(n', len)
<1>1. /\ Calls("write") /\ st = "online" /\ Busy /\ Queue(packet)
      /\ sent' = sent \o Bytes(n', 0, len)
      /\ UNCHANGED <<tls, record, block, pc, st, unread, wire, limit, closed>>
  BY DEF write_queued, ssl, kernel
<1>2. /\ n' \in Id /\ n' # 0 /\ len \in Nat \ {0}
      /\ packet \in Part /\ packet.id = n' /\ packet.len = len /\ packet.off = 0
  <2>1. 0 \in Nat
    OBVIOUS
  <2> QED BY <1>1, <2>1, NewPacket
<1> HIDE DEF packet
<1>3. OrderInv' /\ Stream!Send
  <2>1. OrderInv /\ n' \in Id /\ len \in Nat
    BY <1>2 DEF StreamInv
  <2> QED BY <1>1, <2>1, Accepts
<1>4. ASSUME ~closed
      PROVE  Waiting'
  <2>1. Waiting /\ OrderInv
    BY <1>1, <1>4 DEF StreamInv
  <2>2. First.on
    BY <1>1, <2>1 DEF Busy, Waiting, OneJob, ThenShutdown, NowShutdown
  <2>3. sent' = sent \o Bytes(packet.id, 0, packet.len)
    BY <1>1, <1>2
  <2> QED BY <1>1, <1>2, <2>1, <2>2, <2>3, QueueWaits
<1>5. pc' # "jobs"
  BY <1>1 DEF Calls
<1> QED BY <1>1, <1>3, <1>4, <1>5 DEF StreamInv, Allowed, Stream!Next

\* What all the writes that reach the kernel have in common: nothing waits, and the
\* kernel takes the first k bytes.
LEMMA WriteTakes ==
  ASSUME ListInv, StreamInv, NEW len \in Lens, Calls("write"), st = "online", ~Busy,
         ~closed, sent' = sent \o Bytes(n', 0, len), NEW k \in 0..len, k <= Room,
         Take(n', 0, k), limit' = limit, closed' = closed, tls' = tls,
         record'.id = 0 => record' = NoRecord, Secure \/ record' = NoRecord
  PROVE  OrderInv' /\ Stream!Send /\ Len(wire') = Len(sent) + k /\ Len(sent) \in Nat
<1>1. OrderInv /\ n' \in Id /\ len \in Nat
  <2>1. 0 \in Nat
    OBVIOUS
  <2> QED BY <2>1, NewPacket DEF StreamInv
<1>2. limit = None /\ Len(wire) = Len(sent)
  BY NotBusy
<1>3. /\ Len(sent) \in Nat /\ sent' \in Seq(Byte) /\ Len(sent') = Len(sent) + len
      /\ \A i \in 1..Len(sent) : sent'[i] = sent[i]
      /\ \A i \in 1..len : sent'[Len(sent) + i] = <<n', i>>
  BY <1>1, NewBytes
<1>4. k \in Nat /\ 0 \in Nat /\ Len(sent) <= Len(sent')
  BY <1>1, <1>3
<1>5. Len(wire) + k <= Bound'
  BY <1>1, <1>2, <1>3 DEF Bound
<1>6. ASSUME NEW i \in 1..k
      PROVE  sent'[Len(wire) + i] = <<n', 0 + i>>
  BY <1>1, <1>2, <1>3
<1> QED BY <1>1, <1>2, <1>3, <1>4, <1>5, <1>6, KernelTakes

\* All of it: nothing waits afterwards either.
LEMMA WrittenWhole ==
  ASSUME ListInv, StreamInv, st = "online", ~closed, ~Busy,
         UNCHANGED <<slots, cur, block, limit>>, record' = NoRecord,
         Len(wire') = Len(sent')
  PROVE  Waiting'
<1>1. OneJob /\ FirstLine /\ First.packets = <<>> /\ limit = None
  BY NotBusy
<1>2. OneJob' /\ (First.packets)' = <<>> /\ Bound' = Len(sent')
  BY <1>1 DEF OneJob, First, Bound
<1>3. Line(<<>>, sent', Bound', Len(wire'), record')
  BY <1>2, EmptyLine
<1>4. Len(<<>>) = 0
  OBVIOUS
<1>5. FirstLine'
  BY <1>2, <1>3, <1>4 DEF FirstLine
<1> QED BY <1>2, <1>5 DEF Waiting

\* A part of it: the packet waits alone.
LEMMA WrittenPart ==
  ASSUME ListInv, StreamInv, NEW len \in Lens, Calls("write"), st = "online", ~Busy,
         ~closed, sent' = sent \o Bytes(n', 0, len), NEW off \in Nat,
         Queue([Whole(n', len) EXCEPT !.off = off]), limit' = limit, tls' = tls,
         Secure => off = 0, NEW k \in 0..len, Len(wire') = Len(sent) + k,
         \/ record' = NoRecord /\ off = k
         \/ record' = [id |-> n', off |-> k]
  PROVE  Waiting'
<1> DEFINE packet == [Whole(n', len) EXCEPT !.off = off]
<1>1. /\ n' \in Id /\ n' # 0 /\ len \in Nat \ {0}
      /\ packet \in Part /\ packet.id = n' /\ packet.len = len /\ packet.off = off
  BY NewPacket
<1>2. Queue(packet)
  OBVIOUS
<1> HIDE DEF packet
<1>3. OrderInv /\ Waiting /\ ~First.on
  BY DEF StreamInv, Busy
<1>4. Gone(record', packet) = k /\ record'.id \in {0, packet.id}
  BY <1>1 DEF Gone, NoRecord
<1>5. sent' = sent \o Bytes(packet.id, 0, packet.len)
  BY <1>1
<1> QED BY <1>1, <1>2, <1>3, <1>4, <1>5, QueueWaits


\* write() takes what there is room for.
LEMMA WriteNow ==
  ASSUME ListInv, StreamInv, NEW len \in Lens, NEW kind \in Kinds, write_now(len, kind)
  PROVE  StreamInv' /\ Allowed
<1> DEFINE k == Least(len, Room)
<1>1. /\ Calls("write") /\ st = "online" /\ ~Busy /\ ~Secure /\ ~closed
      /\ sent' = sent \o Bytes(n', 0, len)
      /\ Take(n', 0, k)
      /\ UNCHANGED <<tls, record, pc, st, limit, closed>>
  BY DEF write_now, ssl
<1>2. /\ Len(wire) = Len(sent) /\ record = NoRecord
  BY <1>1, NotBusy
<1>3. Room \in Nat /\ len \in Nat
  BY BoundsArePositive, LensArePositive DEF StreamInv, OrderInv, Room
<1>4. k \in 0..len /\ k <= Room /\ k \in Nat
  BY <1>3 DEF Least
<1> HIDE DEF k
<1>5. OrderInv' /\ Stream!Send /\ Len(wire') = Len(sent) + k /\ Len(sent) \in Nat
  BY <1>1, <1>2, <1>4, WriteTakes
<1>6. \/ len <= Room /\ UNCHANGED <<slots, cur, block>>
      \/ len > Room /\ Queue([Whole(n', len) EXCEPT !.off = Room])
  BY DEF write_now
<1>7. CASE len <= Room /\ UNCHANGED <<slots, cur, block>>
  <2>1. k = len
    BY <1>3, <1>7 DEF k, Least
  <2>2. Len(sent') = Len(sent) + len
    <3>1. n' \in Id /\ OrderInv
      BY <1>1, NewPacket DEF StreamInv
    <3> QED BY <1>1, <1>3, <3>1, NewBytes
  <2> QED BY <1>1, <1>2, <1>5, <1>7, <2>1, <2>2, WrittenWhole
          DEF StreamInv, Allowed, Stream!Next, Calls
<1>8. CASE len > Room /\ Queue([Whole(n', len) EXCEPT !.off = Room])
  <2>1. k = Room
    BY <1>3, <1>8 DEF k, Least
  <2>2. Waiting'
    <3>1. record' = NoRecord /\ Len(wire') = Len(sent) + Room /\ Room \in 0..len
      BY <1>1, <1>2, <1>4, <1>5, <2>1
    <3> QED BY <1>1, <1>3, <1>8, <3>1, WrittenPart
  <2> QED BY <1>1, <1>2, <1>5, <2>2 DEF StreamInv, Allowed, Stream!Next, Calls
<1> QED BY <1>6, <1>7, <1>8

\* SSL_write takes all, or the packet is queued whole while OpenSSL knows what of it
\* has left.
LEMMA SslWriteNow ==
  ASSUME ListInv, StreamInv, NEW len \in Lens, NEW kind \in Kinds, ssl_write_now(len, kind)
  PROVE  StreamInv' /\ Allowed
<1>1. /\ Calls("write") /\ st = "online" /\ ~Busy /\ Secure /\ ~closed
      /\ sent' = sent \o Bytes(n', 0, len)
      /\ UNCHANGED <<tls, pc, st, limit, closed>>
      /\ record = NoRecord
  BY DEF ssl_write_now
<1>2. n' \in Id /\ n' # 0 /\ Whole(n', len) = [Whole(n', len) EXCEPT !.off = 0]
  <2>1. 0 \in Nat
    OBVIOUS
  <2> QED BY <1>1, <2>1, NewPacket
<1>3. Room \in Nat /\ len \in Nat /\ 0 \in 0..len /\ len \in 0..len /\ 0 \in Nat
  BY BoundsArePositive, LensArePositive DEF StreamInv, OrderInv, Room
<1>4. /\ Len(sent) \in Nat /\ Len(sent') = Len(sent) + len
  BY <1>1, <1>2, <1>3, NewBytes DEF StreamInv
<1>5. Len(wire) = Len(sent)
  BY <1>1, NotBusy
<1>6. \/ /\ len <= Room /\ Take(n', 0, len) /\ UNCHANGED <<slots, cur, block, record>>
      \/ /\ len > Room /\ Take(n', 0, Room)
         /\ record' = [id |-> n', off |-> Room]
         /\ Queue(Whole(n', len))
      \/ Queue(Whole(n', len)) /\ UNCHANGED <<record, unread, wire>>
  BY DEF ssl_write_now
<1>7. CASE len <= Room /\ Take(n', 0, len) /\ UNCHANGED <<slots, cur, block, record>>
  <2>1. OrderInv' /\ Stream!Send /\ Len(wire') = Len(sent) + len
    BY <1>1, <1>3, <1>7, WriteTakes
  <2>2. Waiting'
    BY <1>1, <1>4, <1>7, <2>1, WrittenWhole
  <2> QED BY <1>1, <2>1, <2>2 DEF StreamInv, Allowed, Stream!Next, Calls
<1>8. CASE /\ len > Room /\ Take(n', 0, Room)
           /\ record' = [id |-> n', off |-> Room]
           /\ Queue(Whole(n', len))
  <2>1. Room \in 0..len /\ Room <= Room /\ record'.id # 0
    BY <1>2, <1>3, <1>8
  <2>2. OrderInv' /\ Stream!Send /\ Len(wire') = Len(sent) + Room
    BY <1>1, <1>8, <2>1, WriteTakes
  <2>3. Queue([Whole(n', len) EXCEPT !.off = 0])
    BY <1>2, <1>8
  <2>4. Waiting'
    BY <1>1, <1>3, <1>8, <2>1, <2>2, <2>3, WrittenPart
  <2> QED BY <1>1, <2>2, <2>4 DEF StreamInv, Allowed, Stream!Next, Calls
<1>9. CASE Queue(Whole(n', len)) /\ UNCHANGED <<record, unread, wire>>
  <2>1. OrderInv' /\ Stream!Send
    BY <1>1, <1>2, <1>3, <1>9, Accepts DEF StreamInv
  <2>2. Queue([Whole(n', len) EXCEPT !.off = 0])
    BY <1>2, <1>9
  <2>3. Len(wire') = Len(sent) + 0 /\ record' = NoRecord /\ (Secure => 0 = 0)
    BY <1>1, <1>4, <1>5, <1>9
  <2>4. Waiting'
    BY <1>1, <1>3, <2>2, <2>3, WrittenPart
  <2> QED BY <1>1, <2>1, <2>4 DEF StreamInv, Allowed, Stream!Next, Calls
<1> QED BY <1>6, <1>7, <1>8, <1>9

\* A write that fails does so on a connection that is broken or shut down: SSL_write
\* holds no part of another packet.
LEMMA WriteFails ==
  ASSUME ListInv, StreamInv, NEW kind,
         write_refused(kind) \/ write_fails(kind) \/ write_crashes
  PROVE  StreamInv' /\ Allowed
<1>1. /\ UNCHANGED <<record, tls, slots, cur, block, pc, unread, sent, wire, limit>>
      /\ pc # "jobs"
      /\ st' = "online" => st = "online"
  BY DEF write_refused, write_fails, write_crashes, ssl, jobs, kernel, stream, Calls, ShutDown
<1>2. closed' = closed
  <2>1. CASE write_fails(kind)
    <3>1. st = "online" /\ ~Busy /\ (broken \/ closed \/ record # NoRecord) /\ ShutDown
      BY <2>1 DEF write_fails
    <3>2. closed \in BOOLEAN
      BY DEF StreamInv, OrderInv
    <3>3. ~closed => record = NoRecord
      BY <3>1, NotBusy
    <3> QED BY <3>1, <3>2, <3>3 DEF ShutDown
  <2>2. CASE write_refused(kind) \/ write_crashes
    BY <2>2 DEF write_refused, write_crashes, stream
  <2> QED BY <2>1, <2>2
<1>3. (Secure' <=> Secure) /\ unread' \in 0..Cap
  BY <1>1 DEF Secure, StreamInv, OrderInv
<1> QED BY <1>1, <1>2, <1>3, NothingLeaves

\* A shutdown is asked for while something waits.
LEMMA ShutdownQueued ==
  ASSUME ListInv, StreamInv, shutdown_queued
  PROVE  StreamInv' /\ Allowed
<1> DEFINE p == SlotFor("shutdown")
           a == Activated("shutdown")
<1>1. /\ Calls("shutdown") /\ st = "online" /\ Busy
      /\ slots' = a /\ cur' = p
      /\ limit' = IF limit = None THEN Len(sent) ELSE limit
      /\ UNCHANGED <<tls, record, block, pc, st, unread, sent, wire, closed>>
  BY DEF shutdown_queued, ssl, kernel
<1>2. /\ p \in {cur, cur + 1} /\ p \in 1..Len(a) /\ Len(a) \in Nat
      /\ \A q \in 1..Len(a) : q # p =>
           a[q] = IF q <= Len(slots) THEN slots[q] ELSE Fresh
      /\ Len(a) >= Len(slots)
      /\ a[p].on = TRUE
      /\ a[p].types = (IF p <= Len(slots) THEN slots[p].types ELSE {}) \cup {"shutdown"}
  BY ActivatedJob DEF Types
<1>3. /\ ThenShutdown \/ NowShutdown => p >= 2 /\ a[1] = slots[1]
      /\ ThenShutdown => p >= 3 /\ a[2] = slots[2]
  BY BehindShutdown DEF Types
<1>4. /\ slots \in Seq(Job) /\ Len(slots) \in Nat /\ 1 \in 1..Len(slots) /\ First = slots[1]
  BY FirstShape
<1>5. OrderInv /\ Len(sent) \in Nat /\ (closed => limit # None)
  BY LenProperties DEF StreamInv, OrderInv
<1>6. Bound' = Bound /\ limit' # None /\ limit' \in Nat
  BY <1>1, <1>5, NoneIsNoLength DEF Bound, OrderInv
<1>7. OrderInv'
  BY <1>1, <1>5, <1>6 DEF OrderInv, Secure
<1>8. ASSUME ~closed
      PROVE  Waiting'
  <2>1. Waiting
    BY <1>1, <1>8 DEF StreamInv
  <2>2. CASE OneJob
    <3>1. First.on /\ First.types = {"writev"} /\ cur = 1
      BY <1>1, <2>2 DEF OneJob, Busy
    <3>2. p = 2
      BY <1>4, <3>1 DEF SlotFor
    <3> HIDE DEF p, a
    <3>3. 1 \in 1..Len(a) /\ 1 # p /\ 1 <= Len(slots)
      BY <1>2, <1>4, <3>2
    <3>4. a[1] = slots[1]
      BY <1>2, <3>3
    <3>5. 2 <= Len(slots) => slots[2].types = {}
      BY <1>4, <2>2 DEF OneJob
    <3>6. a[2].on /\ a[2].types = {"shutdown"}
      BY <1>2, <3>2, <3>5
    <3>7. First' = First
      BY <1>1, <1>4, <3>4 DEF First
    <3>8. ThenShutdown'
      BY <1>1, <1>6, <3>1, <3>2, <3>6, <3>7 DEF ThenShutdown
    <3>9. FirstLine
      BY <2>1, <2>2 DEF Waiting, NowShutdown, OneJob
    <3>10. FirstLine'
      BY <1>1, <1>6, <3>7, <3>9 DEF FirstLine, Secure
    <3> QED BY <3>8, <3>10 DEF Waiting
  <2>3. CASE ThenShutdown /\ FirstLine
    <3> HIDE DEF p, a
    <3>1. First' = First /\ slots'[2] = slots[2] /\ cur' >= 2
      BY <1>1, <1>2, <1>3, <1>4, <2>3 DEF First
    <3>2. ThenShutdown'
      BY <1>6, <2>3, <3>1 DEF ThenShutdown
    <3>3. FirstLine'
      BY <1>1, <1>6, <2>3, <3>1 DEF FirstLine, Secure
    <3> QED BY <3>2, <3>3 DEF Waiting
  <2>4. CASE NowShutdown
    <3> HIDE DEF p, a
    <3>1. First' = First /\ limit' = limit
      BY <1>1, <1>3, <1>4, <2>4 DEF First, NowShutdown
    <3>2. NowShutdown'
      BY <1>1, <1>6, <2>4, <3>1 DEF NowShutdown
    <3> QED BY <3>2 DEF Waiting
  <2> QED BY <2>1, <2>2, <2>3, <2>4 DEF Waiting
<1>9. Allowed
  <2>1. CASE limit = None
    <3>1. Stream!Ask
      BY <1>1, <1>5, <2>1 DEF Stream!Ask
    <3> QED BY <3>1 DEF Allowed, Stream!Next
  <2>2. CASE limit # None
    BY <1>1, <2>2 DEF Allowed, Stream!vars
  <2> QED BY <2>1, <2>2
<1> QED BY <1>1, <1>5, <1>6, <1>7, <1>8, <1>9 DEF StreamInv, Calls

\* A shutdown is asked for while nothing waits, and carried out.
LEMMA ShutdownNow ==
  ASSUME ListInv, StreamInv, shutdown_now
  PROVE  StreamInv' /\ Allowed
<1>1. /\ Calls("shutdown") /\ st = "online" /\ ~Busy /\ ShutDown
      /\ limit' = IF limit = None THEN Len(sent) ELSE limit
      /\ UNCHANGED <<tls, record, slots, cur, block, pc, unread, sent, wire>>
  BY DEF shutdown_now, ssl, jobs
<1>2. OrderInv /\ Len(sent) \in Nat /\ (closed => limit # None) /\ closed \in BOOLEAN
  BY LenProperties DEF StreamInv, OrderInv
<1>3. st' = "online" => st = "online"
  BY <1>1
<1>4. CASE closed
  <2>1. closed' = closed /\ limit' = limit
    BY <1>1, <1>2, <1>4 DEF ShutDown
  <2>2. (Secure' <=> Secure) /\ unread' \in 0..Cap /\ pc' # "jobs"
    BY <1>1, <1>2 DEF Secure, OrderInv, Calls
  <2> QED BY <1>1, <1>3, <2>1, <2>2, NothingLeaves
<1>5. CASE ~closed
  <2>1. limit = None /\ Len(wire) = Len(sent) /\ record = NoRecord
    BY <1>1, <1>5, NotBusy
  <2>2. limit' = Len(sent) /\ limit' \in Nat /\ limit' # None
    BY <1>1, <1>2, <2>1, NoneIsNoLength
  <2>3. closed' \in BOOLEAN /\ (st' = "online" => closed')
    BY <1>1, <1>2 DEF ShutDown
  <2>4. OrderInv'
    BY <1>1, <1>2, <2>1, <2>2, <2>3 DEF OrderInv, Secure, Bound
  <2>5. Stream!Ask
    BY <1>1, <2>1, <2>2 DEF Stream!Ask
  <2> QED BY <1>1, <2>1, <2>2, <2>3, <2>4, <2>5
          DEF StreamInv, Allowed, Stream!Next, Calls
<1> QED BY <1>2, <1>4, <1>5

LEMMA ProgramAllowed ==
  ASSUME "sendfile" \notin Ops, ListInv, StreamInv, Program
  PROVE  StreamInv' /\ Allowed
<1>1. ASSUME NEW len \in Lens, sendfile_queued(len) \/ sendfile_now(len)
      PROVE  FALSE
  BY <1>1 DEF sendfile_queued, sendfile_now, Calls
<1>2. write_crashes => StreamInv' /\ Allowed
  BY WriteFails
<1> QED BY <1>1, <1>2, WriteFails, QueuedStep, WriteNow, SslWriteNow, ShutdownQueued, ShutdownNow
        DEF Program


-----------------------------------------------------------------------------
(* The loop and the peer.                                                   *)

\* The jobs run on an open socket.
LEMMA WhileRunning ==
  ASSUME ListInv, StreamInv, pc = "jobs"
  PROVE  /\ st = "online" /\ ~block /\ ~closed /\ Waiting /\ OrderInv
         /\ OneJob \/ ThenShutdown => FirstLine
         /\ Room \in Nat
<1>1. st = "online" /\ ~block /\ ~closed /\ Waiting /\ OrderInv
  BY DEF StreamInv
<1>2. OneJob \/ ThenShutdown => FirstLine
  BY <1>1 DEF Waiting, OneJob, ThenShutdown, NowShutdown
<1>3. Room \in Nat
  BY <1>1, BoundsArePositive DEF OrderInv, Room
<1> QED BY <1>1, <1>2, <1>3

\* A packet is written: what the loop, writev and SSL_write are looking at.
LEMMA RunningFront ==
  ASSUME ListInv, StreamInv, Running({"writev"}), First.packets # <<>>
  PROVE  LET g == Gone(record, Front) IN
         /\ OneJob \/ ThenShutdown
         /\ FirstLine
         /\ Front \in Part /\ Front.id \in Id /\ Front.id # 0 /\ Front.len \in Nat
         /\ g \in 0..Front.len
         /\ Len(wire) \in Nat
         /\ Len(wire) + (Front.len - g) <= Bound
         /\ \A i \in 1..(Front.len - g) : sent[Len(wire) + i] = <<Front.id, g + i>>
         /\ record.id \in {0, Front.id}
         /\ g = IF Secure THEN Written(Front.id) ELSE Front.off
<1>1. Waiting /\ OrderInv /\ (OneJob \/ ThenShutdown => FirstLine)
  BY WhileRunning DEF Running
<1>2. ~NowShutdown
  BY DEF NowShutdown, Running
<1>3. (OneJob \/ ThenShutdown) /\ FirstLine
  BY <1>1, <1>2 DEF Waiting
<1>4. First.packets \in Seq(Part) /\ 1 \in 1..Len(First.packets) /\ Front = First.packets[1]
  BY FirstShape, EmptySeq, LenProperties DEF Front
<1>5. sent \in Seq(Byte) /\ wire \in Seq(Byte) /\ Len(wire) \in Nat
  BY <1>1, LenProperties DEF OrderInv
<1>6. Line(First.packets, sent, Bound, Len(wire), record)
  BY <1>3 DEF FirstLine
<1> DEFINE g == Gone(record, Front)
<1>7. /\ Front \in Part /\ Front.id \in Id /\ Front.len \in Nat
      /\ g \in 0..Front.len
      /\ Len(wire) + (Front.len - g) <= Bound
      /\ \A i \in 1..(Front.len - g) : sent[Len(wire) + i] = <<Front.id, g + i>>
      /\ record.id \in {0, Front.id}
  <2> DEFINE ps == First.packets
             h == Gone(record, ps[1])
  <2>1. /\ ps[1] \in Part /\ ps[1].id \in Id /\ ps[1].len \in Nat
        /\ h \in 0..ps[1].len
        /\ Len(wire) + (ps[1].len - h) <= Bound
        /\ \A i \in 1..(ps[1].len - h) : sent[Len(wire) + i] = <<ps[1].id, h + i>>
        /\ record.id \in {0, ps[1].id}
    <3>1. PICK qs, s, b, o, r : /\ qs = First.packets /\ s = sent /\ b = Bound
                                /\ o = Len(wire) /\ r = record
      OBVIOUS
    <3>2. qs \in Seq(Part) /\ qs # <<>> /\ s \in Seq(Byte) /\ Line(qs, s, b, o, r)
      BY <1>4, <1>5, <1>6, <3>1
    <3>3. LET i == Gone(r, qs[1]) IN
          /\ qs[1] \in Part /\ qs[1].id \in Id /\ qs[1].len \in Nat
          /\ i \in 0..qs[1].len
          /\ o + (qs[1].len - i) <= b
          /\ \A k \in 1..(qs[1].len - i) : s[o + k] = <<qs[1].id, i + k>>
          /\ r.id \in {0, qs[1].id}
      BY <3>2, NextBytes
    <3> QED BY <3>1, <3>3
  <2> QED BY <1>4, <2>1
<1>8. Front.id # 0
  BY <1>7, BoundsArePositive DEF Id
<1>9. g = IF Secure THEN Written(Front.id) ELSE Front.off
  <2>1. CASE Secure
    <3>1. Front.off = 0
      BY <1>3, <1>4, <2>1 DEF FirstLine
    <3> QED BY <2>1, <3>1 DEF Gone, Written
  <2>2. CASE ~Secure
    <3>1. record = NoRecord
      BY <1>1, <2>2 DEF OrderInv
    <3> QED BY <1>8, <2>2, <3>1 DEF Gone, NoRecord
  <2> QED BY <2>1, <2>2
<1> HIDE DEF g
<1> QED BY <1>3, <1>5, <1>7, <1>8, <1>9 DEF g

\* The kernel takes k bytes of the first packet.
LEMMA FrontTaken ==
  ASSUME ListInv, StreamInv, Running({"writev"}), First.packets # <<>>, ~closed,
         NEW off, off = Gone(record, Front), NEW k \in Nat, k <= Front.len - off, k <= Room,
         Take(Front.id, off, k), UNCHANGED <<sent, limit, closed, tls>>,
         record'.id = 0 => record' = NoRecord, Secure \/ record' = NoRecord
  PROVE  OrderInv' /\ Stream!Send /\ Len(wire') = Len(wire) + k
<1>1. /\ Front.id \in Id /\ Front.len \in Nat
      /\ off \in 0..Front.len
      /\ Len(wire) \in Nat
      /\ Len(wire) + (Front.len - off) <= Bound
      /\ \A i \in 1..(Front.len - off) : sent[Len(wire) + i] = <<Front.id, off + i>>
  BY RunningFront
<1>2. OrderInv /\ sent' \in Seq(Byte) /\ Bound' = Bound /\ Bound \in Nat /\ Len(sent) \in Nat
      /\ Len(sent) <= Len(sent')
  BY LenProperties DEF StreamInv, OrderInv, Bound
<1>3. \A i \in 1..Len(sent) : sent'[i] = sent[i]
  OBVIOUS
<1>4. off \in Nat /\ Len(wire) + k <= Bound'
  BY <1>1, <1>2
<1>5. ASSUME NEW i \in 1..k
      PROVE  sent'[Len(wire) + i] = <<Front.id, off + i>>
  <2>1. i \in 1..(Front.len - off)
    BY <1>1
  <2> QED BY <1>1, <2>1
<1> QED BY <1>1, <1>2, <1>3, <1>4, <1>5, KernelTakes


\* Only the packets of the first job change.
LEMMA FirstReplaced ==
  ASSUME ListInv, OneJob \/ ThenShutdown, First.on, NEW ps \in Seq(Part),
         slots' = [slots EXCEPT ![1] = [First EXCEPT !.packets = ps]],
         UNCHANGED <<cur, limit>>
  PROVE  (First.packets)' = ps /\ (OneJob \/ ThenShutdown)'
<1> DEFINE j == [First EXCEPT !.packets = ps]
<1>1. /\ slots \in Seq(Job) /\ Len(slots) \in Nat /\ 1 \in 1..Len(slots) /\ First = slots[1]
      /\ First \in Job /\ cur \in 1..Len(slots)
  BY FirstShape
<1>2. j \in Job /\ j.packets = ps /\ j.on = First.on /\ j.types = First.types
  BY <1>1 DEF Job
<1>3. slots' = [slots EXCEPT ![1] = j]
  OBVIOUS
<1> HIDE DEF j
<1>4. /\ Len(slots') = Len(slots)
      /\ \A q \in 1..Len(slots) : slots'[q] = IF q = 1 THEN j ELSE slots[q]
  BY <1>1, <1>2, <1>3, Replaced
<1>5. First' = j
  BY <1>1, <1>4 DEF First
<1>6. ASSUME OneJob
      PROVE  OneJob'
  <2>1. \A q \in 2..Len(slots') : slots'[q].types = {}
    BY <1>1, <1>4, <1>6 DEF OneJob
  <2> QED BY <1>2, <1>5, <1>6, <2>1 DEF OneJob
<1>7. ASSUME ThenShutdown
      PROVE  ThenShutdown'
  <2>1. 2 \in 1..Len(slots)
    BY <1>1, <1>7 DEF ThenShutdown
  <2>2. slots'[2] = slots[2]
    BY <1>4, <2>1
  <2> QED BY <1>2, <1>5, <1>7, <2>2 DEF ThenShutdown
<1> QED BY <1>2, <1>5, <1>6, <1>7

\* A packet is written to its end.
LEMMA PacketAllowed ==
  ASSUME ListInv, StreamInv, writev_packet \/ ssl_packet
  PROVE  StreamInv' /\ Allowed
<1> DEFINE g == Gone(record, Front)
           k == Front.len - g
           ps == First.packets
<1>1. /\ Running({"writev"}) /\ ps # <<>>
      /\ slots' = [slots EXCEPT ![1] = [First EXCEPT !.packets = Tail(ps)]]
      /\ UNCHANGED <<cur, block, pc, st, sent, limit, closed, tls>>
  BY DEF writev_packet, ssl_packet, ssl
<1>2. /\ OneJob \/ ThenShutdown
      /\ FirstLine
      /\ Front.len \in Nat /\ g \in 0..Front.len
      /\ g = IF Secure THEN Written(Front.id) ELSE Front.off
  BY <1>1, RunningFront
<1>3. st = "online" /\ ~block /\ ~closed /\ OrderInv /\ Room \in Nat
  BY <1>1, WhileRunning DEF Running
<1>4. Take(Front.id, g, k) /\ k <= Room /\ record' = NoRecord
  <2>1. CASE writev_packet
    <3>1. ~Secure /\ Front.len - Front.off <= Room /\ Take(Front.id, Front.off, Takes)
          /\ record' = record
      BY <2>1 DEF writev_packet, ssl
    <3>2. record = NoRecord
      BY <1>3, <3>1 DEF OrderInv
    <3>3. g = Front.off
      BY <1>2, <3>1
    <3> HIDE DEF g
    <3>4. Takes = k
      <4>1. Front.len - Front.off \in Int /\ Room \in Nat /\ k = Front.len - Front.off
        BY <1>2, <1>3, <3>3
      <4> QED BY <3>1, <4>1 DEF Takes, Least
    <3> QED BY <3>1, <3>2, <3>3, <3>4
  <2>2. CASE ssl_packet
    <3>1. tls = "up" /\ Front.len - Written(Front.id) <= Room
          /\ Take(Front.id, Written(Front.id), SslTakes)
          /\ record' = NoRecord
      BY <2>2 DEF ssl_packet
    <3>2. g = Written(Front.id)
      BY <1>2, <3>1 DEF Secure
    <3> HIDE DEF g
    <3>3. SslTakes = k
      <4>1. Front.len - Written(Front.id) \in Int /\ Room \in Nat
            /\ k = Front.len - Written(Front.id)
        BY <1>2, <1>3, <3>2
      <4> QED BY <3>1, <4>1 DEF SslTakes, Least
    <3> QED BY <3>1, <3>2, <3>3
  <2> QED BY <2>1, <2>2
<1>5. k \in Nat
  BY <1>2
<1>6. OrderInv' /\ Stream!Send /\ Len(wire') = Len(wire) + k
  <2>1. k <= Front.len - g
    BY <1>2
  <2>2. record'.id = 0 => record' = NoRecord
    BY <1>4
  <2> QED BY <1>1, <1>3, <1>4, <1>5, <2>1, <2>2, FrontTaken
<1>7. /\ sent \in Seq(Byte) /\ ps \in Seq(Part) /\ Front = ps[1]
      /\ Line(ps, sent, Bound, Len(wire), record)
      /\ Secure => \A i \in 1..Len(ps) : ps[i].off = 0
  BY <1>2, <1>3, FirstShape DEF OrderInv, FirstLine, Front
<1> HIDE DEF ps, g
<1>8. /\ Tail(ps) \in Seq(Part)
      /\ Len(Tail(ps)) = Len(ps) - 1
      /\ \A i \in 1..Len(Tail(ps)) : Tail(ps)[i] = ps[i + 1]
      /\ Line(Tail(ps), sent, Bound, Len(wire) + k, NoRecord)
  <2>1. Line(Tail(ps), sent, Bound, Len(wire) + (ps[1].len - Gone(record, ps[1])), NoRecord)
        /\ Tail(ps) \in Seq(Part)
        /\ Len(Tail(ps)) = Len(ps) - 1
        /\ \A i \in 1..Len(Tail(ps)) : Tail(ps)[i] = ps[i + 1]
    BY <1>1, <1>7, LineTail
  <2> QED BY <1>7, <2>1 DEF g
<1>9. (First.packets)' = Tail(ps) /\ (OneJob \/ ThenShutdown)'
  <2>1. First.on
    BY <1>1 DEF Running
  <2> QED BY <1>1, <1>2, <1>8, <2>1, FirstReplaced
<1>10. Secure => \A i \in 1..Len(Tail(ps)) : Tail(ps)[i].off = 0
  <2> SUFFICES ASSUME Secure, NEW i \in 1..Len(Tail(ps))
               PROVE  Tail(ps)[i].off = 0
    OBVIOUS
  <2>1. Len(ps) \in Nat
    BY <1>7, LenProperties
  <2>2. i + 1 \in 1..Len(ps)
    BY <1>8, <2>1
  <2> QED BY <1>7, <1>8, <2>2
<1>11. FirstLine'
  <2>1. Bound' = Bound /\ (Secure' <=> Secure)
    BY <1>1 DEF Bound, Secure
  <2> QED BY <1>1, <1>4, <1>6, <1>8, <1>9, <1>10, <2>1 DEF FirstLine
<1> QED BY <1>1, <1>3, <1>6, <1>9, <1>11 DEF StreamInv, Waiting, Allowed, Stream!Next, Running

\* The kernel takes a part of a packet, all there is room for.
LEMMA BlocksAllowed ==
  ASSUME ListInv, StreamInv, writev_blocks \/ ssl_blocks
  PROVE  StreamInv' /\ Allowed
<1> DEFINE g == Gone(record, Front)
           ps == First.packets
<1>1. /\ Running({"writev"}) /\ ps # <<>>
      /\ pc' = "idle"
      /\ UNCHANGED <<cur, st, sent, limit, closed, tls>>
  BY DEF writev_blocks, ssl_blocks, ssl
<1>2. /\ OneJob \/ ThenShutdown
      /\ FirstLine
      /\ Front.id # 0 /\ Front.len \in Nat /\ g \in 0..Front.len
      /\ record.id \in {0, Front.id}
      /\ g = IF Secure THEN Written(Front.id) ELSE Front.off
  BY <1>1, RunningFront
<1>3. st = "online" /\ ~closed /\ OrderInv /\ Room \in Nat
  BY <1>1, WhileRunning DEF Running
<1>4. /\ sent \in Seq(Byte) /\ ps \in Seq(Part) /\ Front = ps[1]
      /\ Line(ps, sent, Bound, Len(wire), record)
      /\ 1 \in 1..Len(ps) /\ Len(ps) \in Nat
  BY <1>1, <1>2, <1>3, FirstShape, EmptySeq, LenProperties DEF OrderInv, FirstLine, Front
<1>5. Bound' = Bound /\ (Secure' <=> Secure) /\ First.on
  BY <1>1 DEF Bound, Secure, Running
<1>6. \/ UNCHANGED <<slots, unread, wire, record>>
      \/ /\ ~Secure /\ Front.len - Front.off > Room
         /\ Take(Front.id, Front.off, Takes)
         /\ slots' = [slots EXCEPT ![1] = [First EXCEPT !.packets = PartTaken(ps, Takes)]]
         /\ record' = record
      \/ /\ Secure /\ Front.len - Written(Front.id) > Room
         /\ Take(Front.id, Written(Front.id), SslTakes)
         /\ record' = [id |-> Front.id, off |-> Written(Front.id) + SslTakes]
         /\ slots' = slots
  BY DEF writev_blocks, ssl_blocks, ssl, Secure
<1>7. CASE UNCHANGED <<slots, unread, wire, record>>
  <2>1. unread' \in 0..Cap
    BY <1>3, <1>7 DEF OrderInv
  <2> QED BY <1>1, <1>3, <1>5, <1>7, <2>1, NothingLeaves
<1>8. CASE /\ ~Secure /\ Front.len - Front.off > Room
           /\ Take(Front.id, Front.off, Takes)
           /\ slots' = [slots EXCEPT ![1] = [First EXCEPT !.packets = PartTaken(ps, Takes)]]
           /\ record' = record
  <2>1. g = Front.off /\ record = NoRecord /\ Takes = Room
    BY <1>2, <1>3, <1>8 DEF Takes, Least, OrderInv
  <2> HIDE DEF g, ps
  <2>2. OrderInv' /\ Stream!Send /\ Len(wire') = Len(wire) + Room
    <3>1. Room <= Front.len - g /\ Room <= Room /\ Take(Front.id, g, Room)
          /\ (record'.id = 0 => record' = NoRecord)
      BY <1>2, <1>3, <1>8, <2>1
    <3>2. First.packets # <<>> /\ g = Gone(record, Front) /\ (Secure \/ record' = NoRecord)
      BY <1>1, <1>8, <2>1 DEF g, ps
    <3> QED BY <1>1, <1>3, <3>1, <3>2, FrontTaken
  <2> DEFINE e == [ps[1] EXCEPT !.off = @ + Room]
             qs == [ps EXCEPT ![1] = e]
  <2>3. PartTaken(ps, Takes) = qs
    BY <2>1 DEF PartTaken
  <2>4. /\ ps[1] \in Part /\ ps[1].off \in Int
    BY <1>4, PacketAt
  <2>5. e \in Part /\ e.id = ps[1].id /\ e.len = ps[1].len /\ e.off = g + Room
    <3>1. Room \in Int /\ ps[1].off = g
      BY <1>3, <1>4, <2>1
    <3>2. PICK packet \in Part : packet = ps[1]
      BY <2>4
    <3>3. PICK o \in Int : o = packet.off + Room /\ o = g + Room
      BY <2>4, <3>1, <3>2
    <3>4. e = [packet EXCEPT !.off = o]
      BY <3>2, <3>3
    <3>5. e \in Part /\ e.id = packet.id /\ e.len = packet.len /\ e.off = o
      BY <3>4 DEF Part
    <3> QED BY <3>2, <3>3, <3>5
  <2> HIDE DEF e
  <2>6. /\ qs \in Seq(Part) /\ Len(qs) = Len(ps) /\ qs[1] = e
        /\ \A i \in 1..Len(ps) : i # 1 => qs[i] = ps[i]
    BY <1>4, <2>5, ExceptSeq
  <2> HIDE DEF qs
  <2>7. Line(qs, sent, Bound, Len(wire) + Room, NoRecord)
    <3>1. Gone(NoRecord, qs[1]) = g + Room /\ Gone(record, ps[1]) = g
      <4>1. Gone(NoRecord, qs[1]) = e.off
        BY <1>2, <1>4, <2>5, <2>6 DEF Gone, NoRecord
      <4>2. Gone(record, ps[1]) = g
        BY <1>4 DEF g
      <4> QED BY <2>5, <4>1, <4>2
    <3>2. \A i \in 1..Len(ps) : qs[i].id = ps[i].id /\ qs[i].len = ps[i].len
                                /\ (i > 1 => qs[i].off = ps[i].off)
      BY <2>5, <2>6
    <3>3. Gone(NoRecord, qs[1]) \in 0..ps[1].len
      BY <1>2, <1>3, <1>4, <1>8, <2>1, <3>1
    <3>4. NoRecord.id \in {0, ps[1].id} /\ Room \in Int
      BY <1>3 DEF NoRecord
    <3>5. Gone(NoRecord, qs[1]) = Gone(record, ps[1]) + Room
      BY <3>1
    <3>6. ps # <<>>
      BY <1>1 DEF ps
    <3> QED BY <1>4, <2>6, <3>2, <3>3, <3>4, <3>5, <3>6, LinePart
  <2>8. (First.packets)' = qs /\ (OneJob \/ ThenShutdown)'
    BY <1>1, <1>2, <1>5, <1>8, <2>3, <2>6, FirstReplaced
  <2>9. FirstLine'
    BY <1>1, <1>5, <1>8, <2>1, <2>2, <2>7, <2>8 DEF FirstLine
  <2> QED BY <1>1, <1>3, <2>2, <2>8, <2>9 DEF StreamInv, Waiting, Allowed, Stream!Next
<1>9. CASE /\ Secure /\ Front.len - Written(Front.id) > Room
           /\ Take(Front.id, Written(Front.id), SslTakes)
           /\ record' = [id |-> Front.id, off |-> Written(Front.id) + SslTakes]
           /\ slots' = slots
  <2>1. g = Written(Front.id) /\ SslTakes = Room
    BY <1>2, <1>3, <1>9 DEF SslTakes, Least
  <2> HIDE DEF g, ps
  <2>2. OrderInv' /\ Stream!Send /\ Len(wire') = Len(wire) + Room
    <3>1. Room <= Front.len - g /\ Room <= Room /\ Take(Front.id, g, Room)
          /\ (record'.id = 0 => record' = NoRecord)
      BY <1>2, <1>3, <1>9, <2>1
    <3>2. First.packets # <<>> /\ g = Gone(record, Front)
      BY <1>1 DEF g, ps
    <3> QED BY <1>1, <1>3, <1>9, <3>1, <3>2, FrontTaken
  <2>3. Line(ps, sent, Bound, Len(wire) + Room, record')
    <3>1. Gone(record', ps[1]) = g + Room /\ Gone(record, ps[1]) = g
      BY <1>4, <1>9, <2>1 DEF Gone, g
    <3>2. Gone(record', ps[1]) \in 0..ps[1].len /\ record'.id \in {0, ps[1].id}
      BY <1>2, <1>3, <1>4, <1>9, <2>1, <3>1
    <3>3. Gone(record', ps[1]) = Gone(record, ps[1]) + Room /\ Room \in Int
      BY <1>3, <3>1
    <3>4. ps # <<>>
      BY <1>1 DEF ps
    <3> QED BY <1>4, <3>2, <3>3, <3>4, LinePart
  <2>4. First' = First /\ (OneJob \/ ThenShutdown)'
    BY <1>1, <1>2, <1>5, <1>9 DEF First, OneJob, ThenShutdown
  <2>5. FirstLine'
    BY <1>1, <1>2, <1>5, <2>2, <2>3, <2>4 DEF FirstLine, ps
  <2> QED BY <1>1, <1>3, <2>2, <2>4, <2>5 DEF StreamInv, Waiting, Allowed, Stream!Next
<1> QED BY <1>6, <1>7, <1>8, <1>9


\* The packets are written: the job goes behind the others, and a shutdown that
\* waited comes next.
LEMMA DoneAllowed ==
  ASSUME ListInv, StreamInv, writev_done
  PROVE  StreamInv' /\ Allowed
<1> DEFINE j == [First EXCEPT !.on = FALSE]
<1>1. /\ Running({"writev"}) /\ First.packets = <<>> /\ HeadToCurrent(j)
      /\ UNCHANGED <<tls, record, cur, block, pc, st, unread, sent, wire, limit, closed>>
  BY DEF writev_done, Finished, ssl, kernel, stream
<1>2. /\ slots \in Seq(Job) /\ Len(slots) \in Nat /\ 1 \in 1..Len(slots) /\ First = slots[1]
      /\ First \in Job /\ cur \in 1..Len(slots)
  BY FirstShape
<1>3. /\ st = "online" /\ ~block /\ ~closed /\ Waiting /\ OrderInv
      /\ OneJob \/ ThenShutdown => FirstLine
  BY <1>1, WhileRunning DEF Running
<1>4. OneJob \/ ThenShutdown
  BY <1>1, <1>3 DEF Waiting, NowShutdown, Running
<1>5. Len(wire) = Bound /\ record = NoRecord
  BY <1>1, <1>3, <1>4, EmptyLine DEF FirstLine
<1>6. j \in Job /\ ~j.on /\ j.packets = <<>> /\ j.types = {"writev"}
  BY <1>1, <1>2 DEF Job, Running
<1> HIDE DEF j
<1>7. /\ Len(slots') = Len(slots)
      /\ \A q \in 1..Len(slots) :
           slots'[q] = IF q < cur THEN slots[q + 1] ELSE IF q = cur THEN j ELSE slots[q]
  BY <1>1, <1>2, <1>6, MovedShape
<1>8. Bound' = Bound
  BY <1>1 DEF Bound
<1>9. ASSUME OneJob
      PROVE  Waiting'
  <2>1. First' = j
    BY <1>2, <1>7, <1>9 DEF First, OneJob
  <2>2. ASSUME NEW q \in 2..Len(slots')
        PROVE  slots'[q].types = {}
    BY <1>2, <1>7, <1>9 DEF OneJob
  <2>3. OneJob'
    BY <1>1, <1>3, <1>6, <1>9, <2>1, <2>2 DEF OneJob
  <2>4. Line(<<>>, sent', Bound', Len(wire'), record')
    BY <1>1, <1>5, <1>8, EmptyLine
  <2>5. Len(<<>>) = 0
    OBVIOUS
  <2>6. (First.packets)' = <<>>
    BY <1>6, <2>1
  <2>7. FirstLine'
    BY <2>4, <2>5, <2>6 DEF FirstLine
  <2> QED BY <2>3, <2>7 DEF Waiting
<1>10. ASSUME ThenShutdown
       PROVE  Waiting'
  <2>1. 1 < cur /\ slots'[1] = slots[2]
    <3>1. 1 < cur /\ 1 \in 1..Len(slots)
      BY <1>2, <1>10 DEF ThenShutdown
    <3>2. slots'[1] = slots[1 + 1]
      BY <1>7, <3>1
    <3> QED BY <3>1, <3>2
  <2>2. First' = slots[2]
    BY <2>1 DEF First
  <2>3. Len(wire) = limit
    BY <1>5, <1>10 DEF Bound, ThenShutdown
  <2>4. NowShutdown'
    BY <1>1, <1>5, <1>10, <2>2, <2>3 DEF ThenShutdown, NowShutdown
  <2> QED BY <2>4 DEF Waiting
<1>11. Waiting'
  BY <1>4, <1>9, <1>10
<1>12. OrderInv'
  BY <1>1, <1>3, <1>8 DEF OrderInv, Secure
<1> QED BY <1>1, <1>3, <1>11, <1>12 DEF StreamInv, Allowed, Stream!vars

\* SSL_write fails only because the connection is broken; the shutdown that waited
\* is carried out after what was accepted before it.
LEMMA ShutdownsAllowed ==
  ASSUME ListInv, StreamInv, ssl_fails \/ shutdown_job
  PROVE  StreamInv' /\ Allowed
<1>1. /\ pc = "jobs" /\ pc' = "idle" /\ ShutDown
      /\ UNCHANGED <<tls, record, slots, cur, block, unread, sent, wire, limit>>
  BY DEF ssl_fails, shutdown_job, Running, ssl
<1>2. st = "online" /\ ~block /\ ~closed /\ Waiting /\ OrderInv
  BY <1>1, WhileRunning
<1>3. (Secure' <=> Secure) /\ unread' \in 0..Cap
  BY <1>1, <1>2 DEF Secure, OrderInv
<1>4. CASE broken
  <2>1. closed' = closed
    BY <1>1, <1>4 DEF ShutDown
  <2> QED BY <1>1, <1>2, <1>3, <2>1, NothingLeaves
<1>5. CASE ~broken
  <2>1. closed' = TRUE /\ st' = st
    BY <1>1, <1>5 DEF ShutDown
  <2>2. shutdown_job
    <3>1. CASE ssl_fails
      <4>1. Running({"writev"}) /\ First.packets # <<>> /\ (broken \/ closed \/ ~MayRetry)
        BY <3>1 DEF ssl_fails
      <4>2. MayRetry
        BY <4>1, RunningFront DEF MayRetry
      <4> QED BY <1>2, <1>5, <4>1, <4>2
    <3> QED BY <3>1
  <2>3. First.types = {"shutdown"} /\ "shutdown" # "writev"
    BY <2>2 DEF shutdown_job, Running
  <2>4. NowShutdown
    BY <1>2, <2>3 DEF Waiting, OneJob, ThenShutdown
  <2>5. limit # None /\ Len(wire) = limit /\ record = NoRecord
    BY <2>4 DEF NowShutdown
  <2>6. Stream!Close
    BY <1>1, <2>1, <2>5 DEF Stream!Close
  <2>7. OrderInv'
    BY <1>1, <1>2, <1>3, <2>1 DEF OrderInv, Bound
  <2> QED BY <1>1, <2>1, <2>5, <2>6, <2>7 DEF StreamInv, Allowed, Stream!Next
<1> QED BY <1>4, <1>5

\* No job has two types, and none sends a file.
LEMMA NoOtherJob ==
  ASSUME ListInv, StreamInv
  PROVE  ~sendfile_job /\ ~mixed_job
<1>1. ASSUME pc = "jobs", First.on
      PROVE  First.types = {"writev"} \/ First.types = {"shutdown"}
  BY <1>1, WhileRunning DEF Waiting, OneJob, ThenShutdown, NowShutdown
<1>2. ~sendfile_job
  BY <1>1 DEF sendfile_job, Running
<1>3. ~mixed_job
  <2>1. Cardinality({"writev"}) = 1 /\ Cardinality({"shutdown"}) = 1
    BY FS_Singleton
  <2> QED BY <1>1, <2>1 DEF mixed_job
<1> QED BY <1>2, <1>3

\* The steps the stream does not see.
LEMMA QuietAllowed ==
  ASSUME StreamInv,
         \/ poll \/ handler_done \/ writev_cut \/ jobs_done
         \/ peer_reads \/ peer_sends \/ handshake_done \/ peer_resets
         \/ UNCHANGED vars
  PROVE  StreamInv' /\ Allowed
<1>1. UNCHANGED <<record, sent, wire, limit, closed, slots, cur>>
  BY DEF poll, handler_done, writev_cut, jobs_done, peer_reads, peer_sends, handshake_done,
         peer_resets, vars, ssl, jobs, stream
<1>2. st' = "online" => st = "online"
  BY DEF poll, handler_done, writev_cut, jobs_done, peer_reads, peer_sends, handshake_done,
         peer_resets, vars
<1>3. block' => block \/ First.on
  BY DEF poll, handler_done, writev_cut, jobs_done, peer_reads, peer_sends, handshake_done,
         peer_resets, vars, jobs, Running
<1>4. Secure' <=> Secure
  BY DEF poll, handler_done, writev_cut, jobs_done, peer_reads, peer_sends, handshake_done,
         peer_resets, vars, ssl, Secure
<1>5. unread' \in 0..Cap
  <2>1. unread \in 0..Cap
    BY DEF StreamInv, OrderInv
  <2>2. CASE peer_reads
    BY <2>1, <2>2, BoundsArePositive DEF peer_reads
  <2>3. CASE ~peer_reads
    BY <2>1, <2>3 DEF poll, handler_done, writev_cut, jobs_done, peer_sends, handshake_done,
         peer_resets, vars, kernel
  <2> QED BY <2>2, <2>3
<1>6. pc' = "jobs" => st' = "online" /\ ~block' /\ ~closed
  <2>1. CASE handler_done
    BY <2>1 DEF handler_done
  <2>2. CASE ~handler_done
    BY <2>2 DEF poll, writev_cut, jobs_done, peer_reads, peer_sends, handshake_done,
         peer_resets, vars, jobs, StreamInv
  <2> QED BY <2>1, <2>2
<1> QED BY <1>1, <1>2, <1>3, <1>4, <1>5, <1>6, NothingLeaves

-----------------------------------------------------------------------------
(* The theorems.                                                            *)

LEMMA StreamInit == Init => StreamInv /\ Stream!Init
<1> SUFFICES ASSUME Init
             PROVE  StreamInv /\ Stream!Init
  OBVIOUS
<1>1. Stream!Init
  BY DEF Init, Stream!Init
<1>2. /\ First = Fresh /\ Len(slots) = 2 /\ slots[2] = Fresh
  BY DEF Init, First
<1>3. OneJob
  BY <1>2 DEF Init, OneJob, Fresh
<1>4. Len(sent) = 0 /\ Len(wire) = 0 /\ Bound = 0 /\ record = NoRecord
  BY DEF Init, Bound
<1>5. First.packets = <<>> /\ Len(<<>>) = 0
  BY <1>2 DEF Fresh
<1>6. FirstLine
  <2>1. Line(<<>>, sent, Bound, Len(wire), record)
    BY <1>4, EmptyLine
  <2> QED BY <1>5, <2>1 DEF FirstLine
<1>7. OrderInv
  <2>1. /\ sent = <<>> /\ wire = <<>> /\ limit = None /\ closed = FALSE /\ unread = 0
        /\ record = NoRecord
    BY DEF Init
  <2>2. sent \in Seq(Byte) /\ wire \in Seq(Byte)
    BY <2>1, EmptySeq
  <2>3. \A k \in 1..Len(wire) : wire[k] = sent[k]
    BY <2>1
  <2>4. unread \in 0..Cap
    BY <2>1, BoundsArePositive
  <2>5. closed \in BOOLEAN /\ limit \in Nat \cup {None}
    BY <2>1
  <2>6. Len(wire) <= Bound /\ Bound <= Len(sent)
    BY ONLY <1>4
  <2> QED BY <2>1, <2>2, <2>3, <2>4, <2>5, <2>6 DEF OrderInv
<1> QED BY <1>1, <1>3, <1>6, <1>7 DEF StreamInv, Waiting, Init

LEMMA StreamNext ==
  ASSUME "sendfile" \notin Ops
  PROVE  ListInv /\ StreamInv /\ [Next]_vars => StreamInv' /\ [Stream!Next]_(Stream!vars)
<1> SUFFICES ASSUME ListInv, StreamInv, [Next]_vars
             PROVE  StreamInv' /\ Allowed
  BY DEF Allowed
<1>1. CASE Program
  BY <1>1, ProgramAllowed
<1>2. CASE Loop
  BY <1>2, NoOtherJob, PacketAllowed, BlocksAllowed, DoneAllowed, ShutdownsAllowed,
     QuietAllowed DEF Loop
<1>3. CASE peer_reads \/ peer_sends \/ handshake_done \/ peer_resets \/ UNCHANGED vars
  BY <1>3, QuietAllowed
<1> QED BY <1>1, <1>2, <1>3 DEF Next

LEMMA StreamInvHolds ==
  ASSUME "sendfile" \notin Ops
  PROVE  Spec => [](ListInv /\ StreamInv)
<1>1. Inv => ListInv
  BY DEF Inv
<1>2. Init => StreamInv
  BY StreamInit
<1>3. ListInv /\ StreamInv /\ [Next]_vars => StreamInv'
  BY StreamNext
<1> QED BY <1>1, <1>2, <1>3, InvHolds, PTL DEF Spec

\* SSL_write is called again with the packet it could not finish, at its full length,
\* before it is called with any other (ape_socket_do_jobs, ape_socket_write_ssl): on a
\* socket that is sent no files the packet stays in front until it has left.
THEOREM RetriesSameHolds ==
  ASSUME "sendfile" \notin Ops
  PROVE  Spec => []RetriesSame
<1>1. ListInv /\ StreamInv => RetriesSame
  <2> SUFFICES ASSUME ListInv, StreamInv, st = "online", record # NoRecord
               PROVE  /\ First.on /\ First.types = {"writev"} /\ First.packets # <<>>
                      /\ Front.id = record.id /\ Front.off = 0
    BY DEF RetriesSame
  <2>1. ~closed /\ Waiting /\ OrderInv /\ ~NowShutdown
    BY DEF StreamInv, NowShutdown
  <2>2. (OneJob \/ ThenShutdown) /\ FirstLine
    BY <2>1 DEF Waiting
  <2>3. Secure /\ record.id # 0
    BY <2>1 DEF OrderInv
  <2>4. First.packets \in Seq(Part) /\ sent \in Seq(Byte)
    BY <2>1, FirstShape DEF OrderInv
  <2>5. First.packets # <<>>
    BY <2>2, EmptyLine DEF FirstLine
  <2>6. First.on /\ First.types = {"writev"}
    BY <2>2, <2>5 DEF OneJob, ThenShutdown
  <2>7. record.id \in {0, First.packets[1].id}
    BY <2>2, <2>4, <2>5, NextBytes DEF FirstLine
  <2>8. 1 \in 1..Len(First.packets)
    BY <2>4, <2>5, EmptySeq, LenProperties
  <2> QED BY <2>2, <2>3, <2>5, <2>6, <2>7, <2>8 DEF FirstLine, Front
<1> QED BY <1>1, StreamInvHolds, PTL

\* APE_socket_write, APE_socket_shutdown and ape_socket_do_jobs together keep what
\* OutStream promises, whatever the kernel and the peer do: the bytes accepted leave in
\* order, none twice and none left out, and the shutdown comes right after those that
\* were accepted before it was asked for.
THEOREM ImplementsStreamHolds ==
  ASSUME "sendfile" \notin Ops
  PROVE  Spec => ImplementsStream
<1>1. Init => Stream!Init
  BY StreamInit
<1>2. ListInv /\ StreamInv /\ [Next]_vars => [Stream!Next]_(Stream!vars)
  BY StreamNext
<1> QED BY <1>1, <1>2, StreamInvHolds, PTL DEF Spec, ImplementsStream, Stream!Spec
=============================================================================
