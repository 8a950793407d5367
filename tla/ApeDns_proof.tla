---------------------------- MODULE ApeDns_proof ----------------------------
(***************************************************************************)
(* Proofs about ApeDns, for any number of lookups, servers, attempts,      *)
(* descriptors and table entries.                                          *)
(***************************************************************************)
EXTENDS ApeDns, SequenceTheorems, FiniteSetTheorems, TLAPS

QueryAt == {"send", "next", "end", "callback"}
IoAt == {"read", "timeouts"}

\* The lookups that a call of one of these kinds on stack s is about.
In(s, A) == {l \in Lookups : \E i \in 1..Len(s) : s[i].at \in A /\ s[i].l = l}
Busy(s) == In(s, QueryAt)

\* The shape of the stack, open being the queries that have not been freed: the
\* event loop made the first call, handle_error can only be the second, a query
\* is in at most one function, and it exists as long as it is in one.
StackInv(s, open) ==
  /\ s \in Seq(Calls)
  /\ \A i \in 1..Len(s) : s[i].at \in IoAt => i = 1
  /\ \A i \in 1..Len(s) : s[i].at = "error" =>
       i = 2 /\ s[i].moved \subseteq open /\ s[i].moved \cap Busy(s) = {}
  /\ \A i, j \in 1..Len(s) :
       s[i].at \in QueryAt /\ s[j].at \in QueryAt /\ s[i].l = s[j].l => i = j
  /\ Busy(s) \subseteq open

\* Attempts and calls of a query whose state is known.
QueryInv(q, s, c, l) ==
  /\ q[l].state # "done" /\ q[l].try >= NServers * Tries => l \in In(s, {"end", "callback"})
  /\ c[l] = IF q[l].state = "done" \/ l \in In(s, {"callback"}) THEN 1 ELSE 0

\* The table: no descriptor is listed twice, what epoll points to is in use, and
\* as long as slot 0 is unused, or there are enough slots for all descriptors, it
\* is the slot of that descriptor.
TableInv(t) ==
  /\ t.list \in [Slots -> Fds \cup {0}]
  /\ t.watch \in [Fds -> Slots \cup {Bad}]
  /\ \A i, j \in Slots : t.list[i] = t.list[j] /\ t.list[i] # 0 => i = j
  /\ \A f \in Fds : t.watch[f] # Bad => t.list[t.watch[f]] # 0
  /\ t.list[0] = 0 \/ MaxFd <= TableSize =>
       \A f \in Fds : t.watch[f] # Bad => t.list[t.watch[f]] = f

OpenLookups == {l \in Lookups : Open(l)}

\* The sockets: no two servers share one, what epoll reports is one of them, and
\* when no lookup is left those that are still open are about to be closed.
SocketInv ==
  /\ \A v, w \in Servers : sock[v] = sock[w] /\ sock[v] # Bad => v = w
  /\ \A f \in Fds : watch[f] # Bad => \E v \in Servers : sock[v] = f
  /\ OpenLookups = {} => \A v \in Servers :
       sock[v] # Bad => Running("close") /\ Top.v <= v

DnsInv ==
  /\ TypeOK
  /\ StackInv(stack, OpenLookups)
  /\ \A l \in Lookups : QueryInv(query, stack, called, l)
  /\ due \subseteq OpenLookups
  /\ TableInv(Table)
  /\ SocketInv
  /\ \A e \in batch : list[e.slot] # 0

-----------------------------------------------------------------------------
(* Facts about the operators of the model                                   *)

LEMMA LeastExists ==
  ASSUME NEW S, S \subseteq Nat, S # {}
  PROVE  \E i \in S : \A j \in S : i <= j
<1> DEFINE R == OpToRel(<, Nat)
<1>1. \E i \in S : \A j \in S : ~ (<<j, i>> \in R)
  BY NatLessThanWellFounded, WFMin
<1>2. \A i, j \in S : ~ (<<j, i>> \in R) => i <= j
  BY DEF OpToRel
<1> QED BY <1>1, <1>2

\* The kernel's choice is a descriptor nobody has.
LEMMA NewFdIsFree ==
  ASSUME FreeFds # {}
  PROVE  NewFd \in FreeFds
<1>1. FreeFds \subseteq Nat
  BY SizesAreNats DEF FreeFds, Fds
<1> QED BY <1>1, LeastExists DEF NewFd

\* A slot is found, an unused one among 1, 2, ... if there is one.
LEMMA FreeSlotFound ==
  ASSUME NEW ls
  PROVE  /\ FreeSlot(ls) \in Slots
         /\ (\E i \in Slots \ {0} : ls[i] = 0) =>
              FreeSlot(ls) # 0 /\ ls[FreeSlot(ls)] = 0
         /\ ~(\E i \in Slots \ {0} : ls[i] = 0) => FreeSlot(ls) = 0
<1> DEFINE unused == {i \in Slots \ {0} : ls[i] = 0}
<1>1. unused \subseteq Nat /\ unused \subseteq Slots /\ 0 \in Slots
  BY SizesAreNats DEF Slots
<1>2. unused # {} => FreeSlot(ls) \in unused
  <2> SUFFICES ASSUME unused # {} PROVE FreeSlot(ls) \in unused
    OBVIOUS
  <2>1. \E i \in unused : \A j \in unused : i <= j
    BY <1>1, LeastExists
  <2> QED BY <2>1 DEF FreeSlot
<1>3. unused = {} => FreeSlot(ls) = 0
  BY DEF FreeSlot
<1> QED BY <1>1, <1>2, <1>3

\* With as many slots as descriptors, a descriptor that is not listed finds an
\* unused slot, so that no slot in use is overwritten.
LEMMA EnoughSlots ==
  ASSUME NEW ls \in [Slots -> Fds \cup {0}], NEW f \in Fds,
         MaxFd <= TableSize,
         \A i, j \in Slots : ls[i] = ls[j] /\ ls[i] # 0 => i = j,
         ~Listed(ls, f)
  PROVE  ls[FreeSlot(ls)] = 0
<1> SUFFICES ASSUME ls[FreeSlot(ls)] # 0 PROVE FALSE
  OBVIOUS
<1>1. \A i \in Slots : ls[i] # 0
  <2>1. ~(\E i \in Slots \ {0} : ls[i] = 0)
    BY FreeSlotFound
  <2>2. FreeSlot(ls) = 0
    BY <2>1, FreeSlotFound
  <2> QED BY <2>1, <2>2
<1>2. ls \in [Slots -> Fds \ {f}]
  BY <1>1 DEF Listed
<1>3. IsFiniteSet(Slots) /\ Cardinality(Slots) = TableSize
  BY FS_Interval, SizesAreNats DEF Slots
<1>4. IsFiniteSet(Fds) /\ Cardinality(Fds) = MaxFd
  BY FS_Interval, SizesAreNats DEF Fds
<1>5. IsFiniteSet(Fds \ {f}) /\ Cardinality(Fds \ {f}) = MaxFd - 1
  BY <1>4, FS_RemoveElement
<1>6. Cardinality(Fds \ {f}) < Cardinality(Slots)
  BY <1>3, <1>5, SizesAreNats
<1>7. \E i, j \in Slots : i # j /\ ls[i] = ls[j]
  BY <1>2, <1>3, <1>5, <1>6, FS_PigeonHole
<1> QED BY <1>1, <1>7

\* What the callback makes of the table: the descriptor is listed, and if it is
\* the socket of a server that was not registered it is now.
LEMMA CallbackKeepsTable ==
  ASSUME NEW t, TableInv(t), t = [list |-> t.list, watch |-> t.watch],
         NEW f \in Fds
  PROVE  LET u == ares_socket_cb(t, f)
         IN  /\ TableInv(u)
             /\ u = [list |-> u.list, watch |-> u.watch]
             /\ \A g \in Fds \ {f} : u.watch[g] = t.watch[g]
             /\ \A i \in Slots : t.list[i] # 0 => u.list[i] # 0
<1>1. CASE Listed(t.list, f)
  BY <1>1 DEF ares_socket_cb
<1>2. CASE ~Listed(t.list, f)
  <2> DEFINE p == FreeSlot(t.list)
             u == ares_socket_cb(t, f)
  <2>1. p \in Slots
    BY FreeSlotFound
  <2>2. /\ t.list \in [Slots -> Fds \cup {0}]
        /\ t.watch \in [Fds -> Slots \cup {Bad}]
        /\ f # 0
    BY SizesAreNats DEF TableInv, Fds
  <2>3. u = [list |-> [t.list EXCEPT ![p] = f],
             watch |-> IF t.watch[f] = Bad THEN [t.watch EXCEPT ![f] = p]
                       ELSE t.watch]
    BY <1>2 DEF ares_socket_cb
  <2>4. /\ u.list = [t.list EXCEPT ![p] = f]
        /\ u.list \in [Slots -> Fds \cup {0}]
        /\ \A i \in Slots : u.list[i] = IF i = p THEN f ELSE t.list[i]
    <3> HIDE DEF p
    <3> QED BY <2>1, <2>2, <2>3
  <2>5. /\ u.watch = IF t.watch[f] = Bad THEN [t.watch EXCEPT ![f] = p]
                     ELSE t.watch
        /\ u.watch \in [Fds -> Slots \cup {Bad}]
        /\ \A g \in Fds : u.watch[g] = IF g = f /\ t.watch[f] = Bad THEN p
                                       ELSE t.watch[g]
    <3> HIDE DEF p
    <3> QED BY <2>1, <2>2, <2>3
  <2>6. \A i, j \in Slots : u.list[i] = u.list[j] /\ u.list[i] # 0 => i = j
    <3> HIDE DEF p, u
    <3> QED BY <1>2, <2>1, <2>4 DEF TableInv, Listed
  <2>7. \A g \in Fds : u.watch[g] # Bad => u.list[u.watch[g]] # 0
    <3> HIDE DEF p, u
    <3> QED BY <2>1, <2>2, <2>4, <2>5 DEF TableInv
  <2>8. u.list[0] = 0 \/ MaxFd <= TableSize =>
          \A g \in Fds : u.watch[g] # Bad => u.list[u.watch[g]] = g
    <3> SUFFICES ASSUME u.list[0] = 0 \/ MaxFd <= TableSize, NEW g \in Fds,
                        u.watch[g] # Bad
                 PROVE  u.list[u.watch[g]] = g
      OBVIOUS
    <3>1. 0 \in Slots
      BY SizesAreNats DEF Slots
    <3>2. t.list[p] = 0
      <4>1. CASE MaxFd <= TableSize
        BY <1>2, <2>2, <4>1, EnoughSlots DEF TableInv
      <4>2. CASE u.list[0] = 0
        <5>1. p # 0
          BY <2>2, <2>4, <3>1, <4>2
        <5> QED BY <5>1, FreeSlotFound
      <4> QED BY <4>1, <4>2
    <3>3. t.list[0] = 0 \/ MaxFd <= TableSize
      BY <2>2, <2>4, <3>1
    <3> HIDE DEF p, u
    <3>4. \A h \in Fds : t.watch[h] # Bad => t.list[t.watch[h]] = h
      BY <3>3 DEF TableInv
    <3>5. CASE t.watch[g] = Bad
      <4>1. g = f /\ u.watch[g] = p
        BY <2>5, <3>5
      <4> QED BY <2>1, <2>4, <4>1
    <3>6. CASE t.watch[g] # Bad
      <4>1. u.watch[g] = t.watch[g]
        BY <2>5, <3>6
      <4>2. t.list[t.watch[g]] = g /\ t.watch[g] \in Slots /\ g # 0
        BY <2>2, <3>4, <3>6, SizesAreNats DEF Fds
      <4> QED BY <2>4, <3>2, <4>1, <4>2
    <3> QED BY <3>5, <3>6
  <2>9. \A i \in Slots : t.list[i] # 0 => u.list[i] # 0
    BY <2>2, <2>4
  <2>10. TableInv(u)
    <3> HIDE DEF p, u
    <3> QED BY <2>4, <2>5, <2>6, <2>7, <2>8 DEF TableInv
  <2>11. u = [list |-> u.list, watch |-> u.watch]
    BY <2>3
  <2>12. \A g \in Fds \ {f} : u.watch[g] = t.watch[g]
    BY <2>5
  <2> QED BY <2>9, <2>10, <2>11, <2>12
<1> QED BY <1>1, <1>2

\* What closing a descriptor makes of the table.
LEMMA ClosingKeepsTable ==
  ASSUME NEW t, TableInv(t), t = [list |-> t.list, watch |-> t.watch],
         NEW f \in Fds \cup {Bad}
  PROVE  LET u == Closed(t, f)
         IN  /\ TableInv(u)
             /\ u = [list |-> u.list, watch |-> u.watch]
             /\ \A g \in Fds : u.watch[g] = IF g = f THEN Bad ELSE t.watch[g]
             /\ \A i \in Slots : t.list[i] # 0 => u.list[i] # 0
<1>1. CASE f = Bad
  <2>1. \A g \in Fds : g # Bad
    BY SizesAreNats DEF Fds, Bad
  <2> QED BY <1>1, <2>1 DEF Closed
<1>2. CASE f # Bad
  <2> DEFINE c == ares_socket_cb(t, f)
             u == Closed(t, f)
  <2>0. f \in Fds
    BY <1>2
  <2>1. /\ TableInv(c)
        /\ \A g \in Fds \ {f} : c.watch[g] = t.watch[g]
        /\ \A i \in Slots : t.list[i] # 0 => c.list[i] # 0
    BY <2>0, CallbackKeepsTable
  <2>2. u = [list |-> c.list, watch |-> [c.watch EXCEPT ![f] = Bad]]
    BY <1>2 DEF Closed
  <2> HIDE DEF c, u
  <2>3. /\ u.list = c.list
        /\ u.watch = [c.watch EXCEPT ![f] = Bad]
        /\ u.watch \in [Fds -> Slots \cup {Bad}]
        /\ \A g \in Fds : u.watch[g] = IF g = f THEN Bad ELSE c.watch[g]
    BY <2>0, <2>1, <2>2 DEF TableInv
  <2>4. TableInv(u)
    BY <2>1, <2>3 DEF TableInv
  <2>5. \A g \in Fds : u.watch[g] = IF g = f THEN Bad ELSE t.watch[g]
    BY <2>1, <2>3
  <2> QED BY <2>1, <2>2, <2>3, <2>4, <2>5 DEF u
<1> QED BY <1>1, <1>2

-----------------------------------------------------------------------------
(* The stack                                                                *)

\* What the tag of a call says of it.
LEMMA CallKinds ==
  ASSUME NEW c \in Calls
  PROVE  /\ c.at \in QueryAt \cup IoAt \cup {"error", "close"}
         /\ c.at \in QueryAt => c \in QueryCalls /\ c.l \in Lookups
         /\ c.at \in IoAt => c \in IoCalls /\ c.fd \in Fds
         /\ c.at = "error" =>
              c \in ErrorCalls /\ c.v \in Servers /\ c.moved \subseteq Lookups
         /\ c.at = "close" => c \in CloseCalls /\ c.v \in Servers
  BY DEF Calls, QueryCalls, IoCalls, ErrorCalls, CloseCalls, QueryAt, IoAt

LEMMA CallTypes ==
  /\ \A l \in Lookups, at \in QueryAt :
       Call(at, l) \in Calls /\ Call(at, l).at = at /\ Call(at, l).l = l
  /\ \A f \in Fds, at \in IoAt :
       Io(at, f) \in Calls /\ Io(at, f).at = at /\ Io(at, f).fd = f
  /\ \A v \in Servers, m \in SUBSET Lookups :
       /\ Error(v, m) \in Calls /\ Error(v, m).at = "error"
       /\ Error(v, m).v = v /\ Error(v, m).moved = m
  /\ \A v \in Servers :
       Close(v) \in Calls /\ Close(v).at = "close" /\ Close(v).v = v
  BY DEF Calls, QueryCalls, IoCalls, ErrorCalls, CloseCalls, QueryAt, IoAt,
         Call, Io, Error, Close

\* A call is made.
LEMMA EnterCall ==
  ASSUME NEW s \in Seq(Calls), NEW c \in Calls
  PROVE  LET t == Append(s, c)
         IN  /\ t \in Seq(Calls) /\ Len(t) = Len(s) + 1
             /\ t[Len(t)] = c
             /\ \A i \in 1..Len(t) : t[i] = IF i = Len(s) + 1 THEN c ELSE s[i]
             /\ \A A \in SUBSET QueryAt :
                  In(t, A) = In(s, A) \cup (IF c.at \in A THEN {c.l} ELSE {})
<1> DEFINE t == Append(s, c)
<1>1. /\ t \in Seq(Calls) /\ Len(t) = Len(s) + 1 /\ t[Len(t)] = c
      /\ \A i \in 1..Len(t) : t[i] = IF i = Len(s) + 1 THEN c ELSE s[i]
      /\ Len(s) \in Nat
  BY AppendProperties, LenProperties
<1> HIDE DEF t
<1>2. ASSUME NEW A \in SUBSET QueryAt
      PROVE  In(t, A) = In(s, A) \cup (IF c.at \in A THEN {c.l} ELSE {})
  <2>1. c.at \in A => c.l \in Lookups
    BY CallKinds
  <2>2. \A i \in 1..Len(s) : i \in 1..Len(t) /\ t[i] = s[i]
    BY <1>1
  <2>3. Len(t) \in 1..Len(t)
    BY <1>1
  <2>4. \A i \in 1..Len(t) : i \in 1..Len(s) \/ i = Len(t)
    BY <1>1
  <2> QED BY <1>1, <2>1, <2>2, <2>3, <2>4 DEF In
<1> QED BY <1>1, <1>2 DEF t

\* The innermost call becomes another.
LEMMA ReplaceCall ==
  ASSUME NEW s \in Seq(Calls), s # <<>>, NEW c \in Calls,
         \A i \in 1..Len(s) : s[i].at \in QueryAt /\ s[Len(s)].at \in QueryAt
                              /\ s[i].l = s[Len(s)].l => i = Len(s)
  PROVE  LET t == [s EXCEPT ![Len(s)] = c]
             o == s[Len(s)]
         IN  /\ t \in Seq(Calls) /\ Len(t) = Len(s) /\ t # <<>>
             /\ t[Len(t)] = c
             /\ \A i \in 1..Len(t) : t[i] = IF i = Len(s) THEN c ELSE s[i]
             /\ \A A \in SUBSET QueryAt :
                  In(t, A) = (In(s, A) \ (IF o.at \in QueryAt THEN {o.l} ELSE {}))
                             \cup (IF c.at \in A THEN {c.l} ELSE {})
<1> DEFINE t == [s EXCEPT ![Len(s)] = c]
           o == s[Len(s)]
<1>1. Len(s) \in Nat \ {0} /\ Len(s) \in 1..Len(s)
  BY LenProperties, EmptySeq
<1>2. /\ t \in Seq(Calls) /\ Len(t) = Len(s) /\ t[Len(t)] = c /\ t # <<>>
      /\ \A i \in 1..Len(t) : t[i] = IF i = Len(s) THEN c ELSE s[i]
  BY <1>1, ExceptSeq
<1> HIDE DEF t, o
<1>3. ASSUME NEW A \in SUBSET QueryAt
      PROVE  In(t, A) = (In(s, A) \ (IF o.at \in QueryAt THEN {o.l} ELSE {}))
                        \cup (IF c.at \in A THEN {c.l} ELSE {})
  <2>1. c.at \in A => c.l \in Lookups
    BY CallKinds
  <2>2. \A i \in 1..Len(s) : s[i].at \in A /\ i # Len(s) /\ o.at \in QueryAt
                             => s[i].l # o.l
    BY <1>1 DEF o
  <2>3. \A l : l \in In(t, A) <=>
           \/ c.at \in A /\ l = c.l
           \/ l \in Lookups /\ \E i \in 1..Len(s) : i # Len(s) /\ s[i].at \in A /\ s[i].l = l
    BY <1>1, <1>2, <2>1 DEF In
  <2>4. \A l : l \in In(s, A) \ (IF o.at \in QueryAt THEN {o.l} ELSE {}) <=>
           l \in Lookups /\ \E i \in 1..Len(s) : i # Len(s) /\ s[i].at \in A /\ s[i].l = l
    BY <1>1, <2>2 DEF In, o
  <2> QED BY <2>3, <2>4
<1> QED BY <1>2, <1>3 DEF t, o

\* The innermost call returns.
LEMMA LeaveCall ==
  ASSUME NEW s \in Seq(Calls), s # <<>>,
         \A i \in 1..Len(s) : s[i].at \in QueryAt /\ s[Len(s)].at \in QueryAt
                              /\ s[i].l = s[Len(s)].l => i = Len(s)
  PROVE  LET t == SubSeq(s, 1, Len(s) - 1)
             o == s[Len(s)]
         IN  /\ t \in Seq(Calls) /\ Len(t) = Len(s) - 1
             /\ \A i \in 1..Len(t) : t[i] = s[i]
             /\ \A A \in SUBSET QueryAt :
                  In(t, A) = In(s, A) \ (IF o.at \in QueryAt THEN {o.l} ELSE {})
<1> DEFINE t == SubSeq(s, 1, Len(s) - 1)
           o == s[Len(s)]
<1>1. Len(s) \in Nat \ {0} /\ Len(s) \in 1..Len(s)
  BY LenProperties, EmptySeq
<1>2. /\ t \in Seq(Calls) /\ Len(t) = Len(s) - 1
      /\ \A i \in 1..Len(t) : t[i] = s[i]
  <2>1. PICK n \in Nat : n = Len(s) - 1
    BY <1>1
  <2>2. \A i \in 1..n : s[i] \in Calls
    BY <1>1, <2>1
  <2>3. /\ SubSeq(s, 1, n) \in Seq(Calls) /\ Len(SubSeq(s, 1, n)) = n
        /\ \A i \in 1..n : SubSeq(s, 1, n)[i] = s[i]
    BY <2>1, <2>2, SubSeqProperties
  <2> QED BY <2>1, <2>3
<1> HIDE DEF t, o
<1>3. ASSUME NEW A \in SUBSET QueryAt
      PROVE  In(t, A) = In(s, A) \ (IF o.at \in QueryAt THEN {o.l} ELSE {})
  <2>2. \A i \in 1..Len(s) : s[i].at \in A /\ i # Len(s) /\ o.at \in QueryAt
                             => s[i].l # o.l
    BY <1>1 DEF o
  <2>3. \A l : l \in In(t, A) <=>
           l \in Lookups /\ \E i \in 1..Len(s) : i # Len(s) /\ s[i].at \in A /\ s[i].l = l
    BY <1>1, <1>2 DEF In
  <2>4. \A l : l \in In(s, A) \ (IF o.at \in QueryAt THEN {o.l} ELSE {}) <=>
           l \in Lookups /\ \E i \in 1..Len(s) : i # Len(s) /\ s[i].at \in A /\ s[i].l = l
    BY <1>1, <2>2 DEF In, o
  <2> QED BY <2>3, <2>4
<1> QED BY <1>2, <1>3 DEF t, o

\* The innermost call is the only one about its lookup.
LEMMA TopAlone ==
  ASSUME NEW s, NEW o \in SUBSET Lookups, StackInv(s, o), s # <<>>
  PROVE  /\ Len(s) \in Nat \ {0} /\ Len(s) \in 1..Len(s)
         /\ s[Len(s)] \in Calls
         /\ \A i \in 1..Len(s) : s[i].at \in QueryAt /\ s[Len(s)].at \in QueryAt
                                 /\ s[i].l = s[Len(s)].l => i = Len(s)
         /\ s[Len(s)].at \in QueryAt => s[Len(s)].l \in Busy(s)
<1>1. s \in Seq(Calls)
  BY DEF StackInv
<1>2. Len(s) \in Nat \ {0} /\ Len(s) \in 1..Len(s)
  BY <1>1, LenProperties, EmptySeq
<1>3. s[Len(s)] \in Calls
  BY <1>1, <1>2, ElementOfSeq
<1>4. s[Len(s)].at \in QueryAt => s[Len(s)].l \in Busy(s)
  BY <1>2, <1>3, CallKinds DEF Busy, In
<1>5. \A i \in 1..Len(s) : s[i].at \in QueryAt /\ s[Len(s)].at \in QueryAt
                           /\ s[i].l = s[Len(s)].l => i = Len(s)
  BY <1>2 DEF StackInv
<1> QED BY <1>2, <1>3, <1>4, <1>5

\* While the event loop's own call is the innermost, no query is in a function.
LEMMA IoIsAlone ==
  ASSUME NEW s, NEW o \in SUBSET Lookups, StackInv(s, o), s # <<>>,
         s[Len(s)].at \in IoAt
  PROVE  /\ Len(s) = 1
         /\ \A A \in SUBSET QueryAt : In(s, A) = {}
         /\ \A i \in 1..Len(s) : s[i].at # "error"
<1>1. Len(s) \in 1..Len(s)
  BY TopAlone
<1>2. Len(s) = 1
  BY <1>1 DEF StackInv
<1>3. \A i \in 1..Len(s) : s[i].at \in IoAt
  BY <1>1, <1>2
<1> QED BY <1>2, <1>3 DEF In, IoAt, QueryAt

LEMMA EnterKeeps ==
  ASSUME NEW s, NEW o \in SUBSET Lookups, StackInv(s, o), NEW c \in Calls,
         c.at \in QueryAt =>
           /\ c.l \in o /\ c.l \notin Busy(s)
           /\ \A i \in 1..Len(s) : s[i].at = "error" => c.l \notin s[i].moved,
         c.at \in IoAt => Len(s) = 0,
         c.at = "error" => Len(s) = 1 /\ c.moved \subseteq o /\ c.moved \cap Busy(s) = {}
  PROVE  LET t == Append(s, c)
         IN  /\ StackInv(t, o) /\ t # <<>> /\ t[Len(t)] = c
             /\ \A A \in SUBSET QueryAt :
                  In(t, A) = In(s, A) \cup (IF c.at \in A THEN {c.l} ELSE {})
<1> DEFINE t == Append(s, c)
<1>1. s \in Seq(Calls) /\ Len(s) \in Nat
  BY LenProperties DEF StackInv
<1>2. /\ t \in Seq(Calls) /\ Len(t) = Len(s) + 1 /\ t[Len(t)] = c
      /\ \A i \in 1..Len(t) : t[i] = IF i = Len(s) + 1 THEN c ELSE s[i]
      /\ \A A \in SUBSET QueryAt :
           In(t, A) = In(s, A) \cup (IF c.at \in A THEN {c.l} ELSE {})
  BY <1>1, EnterCall
<1> HIDE DEF t
<1>3. t # <<>>
  BY <1>1, <1>2, EmptySeq
<1>4. Busy(t) = Busy(s) \cup (IF c.at \in QueryAt THEN {c.l} ELSE {})
  BY <1>2 DEF Busy
<1>5. \A i \in 1..Len(t) : i \in 1..Len(s) \/ i = Len(s) + 1
  BY <1>1, <1>2
<1>6. \A i \in 1..Len(t) : t[i].at \in IoAt => i = 1
  BY <1>1, <1>2, <1>5 DEF StackInv
<1>7. ASSUME NEW i \in 1..Len(t), t[i].at = "error"
      PROVE  i = 2 /\ t[i].moved \subseteq o /\ t[i].moved \cap Busy(t) = {}
  <2>1. CASE i = Len(s) + 1
    <3>1. t[i] = c
      BY <1>2, <2>1
    <3>2. Len(s) = 1 /\ c.moved \subseteq o /\ c.moved \cap Busy(s) = {}
      BY <1>7, <3>1
    <3>3. c.at \notin QueryAt
      BY <1>7, <3>1 DEF QueryAt
    <3> QED BY <1>4, <2>1, <3>1, <3>2, <3>3
  <2>2. CASE i \in 1..Len(s)
    <3>1. t[i] = s[i]
      BY <1>1, <1>2, <2>2
    <3> QED BY <1>4, <1>7, <2>2, <3>1 DEF StackInv
  <2> QED BY <1>5, <2>1, <2>2
<1>8. ASSUME NEW i \in 1..Len(t), NEW j \in 1..Len(t),
             t[i].at \in QueryAt, t[j].at \in QueryAt, t[i].l = t[j].l
      PROVE  i = j
  <2>1. \A k \in 1..Len(s) : s[k].at \in QueryAt => s[k].l \in Busy(s)
    <3> TAKE k \in 1..Len(s)
    <3>1. s[k] \in Calls
      BY <1>1, ElementOfSeq
    <3> QED BY <3>1, CallKinds DEF Busy, In
  <2>2. \A k \in 1..Len(s) : t[k] = s[k]
    BY <1>1, <1>2
  <2>3. CASE i \in 1..Len(s) /\ j \in 1..Len(s)
    BY <1>8, <2>2, <2>3 DEF StackInv
  <2>4. CASE i = Len(s) + 1 /\ j \in 1..Len(s)
    BY <1>2, <1>8, <2>1, <2>2, <2>4
  <2>5. CASE i \in 1..Len(s) /\ j = Len(s) + 1
    BY <1>2, <1>8, <2>1, <2>2, <2>5
  <2> QED BY <1>5, <2>3, <2>4, <2>5
<1>9. Busy(t) \subseteq o
  BY <1>4 DEF StackInv
<1>10. StackInv(t, o)
  BY <1>2, <1>6, <1>7, <1>8, <1>9 DEF StackInv
<1> QED BY <1>2, <1>3, <1>10 DEF t

LEMMA ReplaceKeeps ==
  ASSUME NEW s, NEW o \in SUBSET Lookups, StackInv(s, o), s # <<>>, NEW c \in Calls,
         c.at \in QueryAt => s[Len(s)].at \in QueryAt /\ c.l = s[Len(s)].l,
         c.at \in IoAt => s[Len(s)].at \in IoAt,
         c.at = "error" => s[Len(s)].at = "error" /\ c.moved \subseteq s[Len(s)].moved
  PROVE  LET t == [s EXCEPT ![Len(s)] = c]
             gone == IF s[Len(s)].at \in QueryAt THEN {s[Len(s)].l} ELSE {}
         IN  /\ StackInv(t, o) /\ t # <<>> /\ t[Len(t)] = c /\ Len(t) = Len(s)
             /\ c.at \notin QueryAt => StackInv(t, o \ gone)
             /\ \A i \in 1..Len(t) : t[i] = IF i = Len(s) THEN c ELSE s[i]
             /\ \A A \in SUBSET QueryAt :
                  In(t, A) = (In(s, A) \ gone) \cup (IF c.at \in A THEN {c.l} ELSE {})
<1> DEFINE t == [s EXCEPT ![Len(s)] = c]
           gone == IF s[Len(s)].at \in QueryAt THEN {s[Len(s)].l} ELSE {}
<1>1. s \in Seq(Calls) /\ Len(s) \in Nat \ {0} /\ Len(s) \in 1..Len(s)
  BY TopAlone DEF StackInv
<1>2. /\ t \in Seq(Calls) /\ Len(t) = Len(s) /\ t[Len(t)] = c /\ t # <<>>
      /\ \A i \in 1..Len(t) : t[i] = IF i = Len(s) THEN c ELSE s[i]
      /\ \A A \in SUBSET QueryAt :
           In(t, A) = (In(s, A) \ gone) \cup (IF c.at \in A THEN {c.l} ELSE {})
  BY <1>1, TopAlone, ReplaceCall
<1>3. gone \subseteq Busy(s)
  BY TopAlone
<1> HIDE DEF t
<1>4. Busy(t) = (Busy(s) \ gone) \cup (IF c.at \in QueryAt THEN {c.l} ELSE {})
  BY <1>2 DEF Busy
<1>5. Busy(t) \subseteq Busy(s)
  BY <1>3, <1>4
<1>6. \A i \in 1..Len(t) : t[i].at \in IoAt => i = 1
  BY <1>1, <1>2 DEF StackInv
<1>7. ASSUME NEW i \in 1..Len(t), t[i].at = "error"
      PROVE  i = 2 /\ t[i].moved \subseteq o \ gone /\ t[i].moved \cap Busy(t) = {}
  <2>1. PICK j \in 1..Len(s) : j = i /\ s[j].at = "error" /\ t[i].moved \subseteq s[j].moved
    BY <1>1, <1>2, <1>7
  <2>2. j = 2 /\ s[j].moved \subseteq o /\ s[j].moved \cap Busy(s) = {}
    BY <2>1 DEF StackInv
  <2> QED BY <1>3, <1>5, <2>1, <2>2
<1>8. ASSUME NEW i \in 1..Len(t), NEW j \in 1..Len(t),
             t[i].at \in QueryAt, t[j].at \in QueryAt, t[i].l = t[j].l
      PROVE  i = j
  <2>1. s[i].at \in QueryAt /\ s[i].l = t[i].l
    BY <1>1, <1>2, <1>8
  <2>2. s[j].at \in QueryAt /\ s[j].l = t[j].l
    BY <1>1, <1>2, <1>8
  <2> QED BY <1>2, <1>8, <2>1, <2>2 DEF StackInv
<1>9. Busy(t) \subseteq o /\ (c.at \notin QueryAt => Busy(t) \subseteq o \ gone)
  BY <1>4, <1>5 DEF StackInv
<1>10. StackInv(t, o)
  BY <1>2, <1>6, <1>7, <1>8, <1>9 DEF StackInv
<1>11. c.at \notin QueryAt => StackInv(t, o \ gone)
  BY <1>2, <1>6, <1>7, <1>8, <1>9 DEF StackInv
<1> QED BY <1>2, <1>10, <1>11 DEF t

LEMMA LeaveKeeps ==
  ASSUME NEW s, NEW o \in SUBSET Lookups, StackInv(s, o), s # <<>>
  PROVE  LET t == SubSeq(s, 1, Len(s) - 1)
             gone == IF s[Len(s)].at \in QueryAt THEN {s[Len(s)].l} ELSE {}
         IN  /\ StackInv(t, o) /\ StackInv(t, o \ gone)
             /\ \A A \in SUBSET QueryAt : In(t, A) = In(s, A) \ gone
<1> DEFINE t == SubSeq(s, 1, Len(s) - 1)
           gone == IF s[Len(s)].at \in QueryAt THEN {s[Len(s)].l} ELSE {}
<1>1. s \in Seq(Calls) /\ Len(s) \in Nat \ {0} /\ Len(s) \in 1..Len(s)
  BY TopAlone DEF StackInv
<1>2. /\ t \in Seq(Calls) /\ Len(t) = Len(s) - 1
      /\ \A i \in 1..Len(t) : t[i] = s[i]
      /\ \A A \in SUBSET QueryAt : In(t, A) = In(s, A) \ gone
  BY <1>1, TopAlone, LeaveCall
<1>3. gone \subseteq Busy(s)
  BY TopAlone
<1> HIDE DEF t
<1>4. Busy(t) = Busy(s) \ gone
  BY <1>2 DEF Busy
<1>5. \A i \in 1..Len(t) : i \in 1..Len(s) /\ t[i] = s[i]
  BY <1>1, <1>2
<1>6. \A i \in 1..Len(t) : t[i].at \in IoAt => i = 1
  BY <1>5 DEF StackInv
<1>7. \A i \in 1..Len(t) : t[i].at = "error" =>
        i = 2 /\ t[i].moved \subseteq o \ gone /\ t[i].moved \cap Busy(t) = {}
  BY <1>3, <1>4, <1>5 DEF StackInv
<1>8. \A i, j \in 1..Len(t) :
        t[i].at \in QueryAt /\ t[j].at \in QueryAt /\ t[i].l = t[j].l => i = j
  BY <1>5 DEF StackInv
<1>9. Busy(t) \subseteq o \ gone
  BY <1>4 DEF StackInv
<1>10. StackInv(t, o)
  BY <1>2, <1>6, <1>7, <1>8, <1>9 DEF StackInv
<1>11. StackInv(t, o \ gone)
  BY <1>2, <1>6, <1>7, <1>8, <1>9 DEF StackInv
<1> QED BY <1>2, <1>10, <1>11 DEF t

-----------------------------------------------------------------------------
(* The queries                                                              *)

LEMMA Bounds ==
  /\ NServers \in Nat \ {0} /\ 0 \in Servers
  /\ NServers * Tries \in Nat \ {0}
  /\ \A v \in Servers : (v + 1) % NServers \in Servers
  /\ NoQuery \in Queries
  /\ Bad \notin Fds /\ 0 \notin Fds
<1>1. NServers \in Nat \ {0} /\ Tries \in Nat \ {0} /\ 0 \in Servers
  BY ServersAreAsked DEF Servers
<1>2. NServers * Tries \in Nat \ {0}
  BY <1>1
<1>3. \A v \in Servers : (v + 1) % NServers \in Servers
  BY <1>1 DEF Servers
<1>4. NoQuery \in Queries
  BY <1>1, <1>2 DEF NoQuery, Queries
<1>5. Bad \notin Fds /\ 0 \notin Fds
  BY SizesAreNats DEF Bad, Fds
<1> QED BY <1>1, <1>2, <1>3, <1>4, <1>5

LEMMA SkipShape ==
  ASSUME NEW q \in Queries, NEW v \in Servers
  PROVE  /\ Skip(q, v) \in Queries
         /\ Skip(q, v).state = q.state
         /\ Skip(q, v).try = q.try
         /\ Skip(q, v).server = q.server
  BY DEF Queries, Skip

\* A query changes, and is open afterwards.
LEMMA QueryBecomes ==
  ASSUME query \in [Lookups -> Queries], NEW l \in Lookups, NEW r \in Queries,
         query' = [query EXCEPT ![l] = r]
  PROVE  /\ query' \in [Lookups -> Queries]
         /\ query'[l] = r
         /\ \A k \in Lookups : k # l => query'[k] = query[k]
         /\ r.state = "open" => OpenLookups' = OpenLookups \cup {l}
         /\ r.state # "open" => OpenLookups' = OpenLookups \ {l}
<1>1. query' \in [Lookups -> Queries]
  OBVIOUS
<1>2. query'[l] = r /\ \A k \in Lookups : k # l => query'[k] = query[k]
  OBVIOUS
<1> QED BY <1>1, <1>2 DEF OpenLookups, Open

\* What is known when a query's function is the innermost call.
LEMMA TopQuery ==
  ASSUME DnsInv, NEW at \in QueryAt, Running(at)
  PROVE  LET l == Top.l
         IN  /\ stack # <<>> /\ Top = stack[Len(stack)]
             /\ l \in Lookups /\ l \in OpenLookups
             /\ query[l] \in Queries /\ query[l].state = "open"
             /\ query[l].server \in Servers /\ query[l].try \in Nat
             /\ \A A \in SUBSET QueryAt : l \in In(stack, A) <=> at \in A
             /\ at \notin {"end", "callback"} => query[l].try < NServers * Tries
             /\ called[l] = IF at = "callback" THEN 1 ELSE 0
<1> DEFINE l == Top.l
<1>1. StackInv(stack, OpenLookups) /\ OpenLookups \in SUBSET Lookups
  BY DEF DnsInv, OpenLookups
<1>2. stack # <<>> /\ Top = stack[Len(stack)] /\ Top.at = at
  BY DEF Running, Top
<1>3. /\ Len(stack) \in 1..Len(stack)
      /\ \A i \in 1..Len(stack) : stack[i].at \in QueryAt /\ stack[i].l = l => i = Len(stack)
      /\ l \in Busy(stack)
  BY <1>1, <1>2, TopAlone
<1>4. l \in Lookups /\ l \in OpenLookups
  BY <1>1, <1>3 DEF StackInv
<1>5. \A A \in SUBSET QueryAt : l \in In(stack, A) <=> at \in A
  BY <1>2, <1>3, <1>4 DEF In
<1>6. query[l] \in Queries /\ query[l].state = "open"
  BY <1>4 DEF DnsInv, TypeOK, OpenLookups, Open
<1>7. query[l].server \in Servers /\ query[l].try \in Nat
  BY <1>6, Bounds DEF Queries
<1>8. QueryInv(query, stack, called, l)
  BY <1>4 DEF DnsInv
<1>9. l \in In(stack, {"end", "callback"}) <=> at \in {"end", "callback"}
  BY <1>5 DEF QueryAt
<1>10. l \in In(stack, {"callback"}) <=> at = "callback"
  BY <1>5 DEF QueryAt
<1>11. at \notin {"end", "callback"} => query[l].try < NServers * Tries
  BY <1>6, <1>7, <1>8, <1>9, Bounds DEF QueryInv
<1>12. called[l] = IF at = "callback" THEN 1 ELSE 0
  BY <1>6, <1>8, <1>10 DEF QueryInv
<1> QED BY <1>2, <1>4, <1>5, <1>6, <1>7, <1>11, <1>12

-----------------------------------------------------------------------------
(* One step at a time                                                       *)

\* A step that is about one query leaves the others as they were.
LEMMA OtherQueries ==
  ASSUME \A k \in Lookups : QueryInv(query, stack, called, k),
         NEW l \in Lookups,
         \A A \in SUBSET QueryAt : In(stack', A) \ {l} = In(stack, A) \ {l},
         \A k \in Lookups : k # l => query'[k] = query[k] /\ called'[k] = called[k],
         QueryInv(query', stack', called', l)
  PROVE  \A k \in Lookups : QueryInv(query', stack', called', k)
<1> SUFFICES ASSUME NEW k \in Lookups, k # l
             PROVE  QueryInv(query', stack', called', k)
  OBVIOUS
<1>1. k \in In(stack', {"end", "callback"}) <=> k \in In(stack, {"end", "callback"})
  <2>1. {"end", "callback"} \in SUBSET QueryAt
    BY DEF QueryAt
  <2> QED BY <2>1
<1>2. k \in In(stack', {"callback"}) <=> k \in In(stack, {"callback"})
  <2>1. {"callback"} \in SUBSET QueryAt
    BY DEF QueryAt
  <2> QED BY <2>1
<1>3. QueryInv(query, stack, called, k)
  OBVIOUS
<1>4. query'[k] = query[k] /\ called'[k] = called[k]
  OBVIOUS
<1> QED BY ONLY <1>1, <1>2, <1>3, <1>4 DEF QueryInv

\* A step that leaves sockets and table alone while a query is open.
LEMMA SocketsKept ==
  ASSUME DnsInv, UNCHANGED <<sock, list, watch>>, OpenLookups' # {}
  PROVE  SocketInv' /\ TableInv(Table)' /\ Table' = Table
<1>1. \A v, w \in Servers : sock'[v] = sock'[w] /\ sock'[v] # Bad => v = w
  BY DEF DnsInv, SocketInv
<1>2. \A f \in Fds : watch'[f] # Bad => \E v \in Servers : sock'[v] = f
  BY DEF DnsInv, SocketInv
<1>3. SocketInv'
  BY <1>1, <1>2 DEF SocketInv
<1>4. Table' = Table
  BY DEF Table
<1> QED BY <1>3, <1>4 DEF DnsInv

\* A query that is written moves out of the function that sent it.
LEMMA SendReturns ==
  ASSUME DnsInv, Running("send"), Return, UNCHANGED <<query, called>>,
         due' = due \ {Top.l}
  PROVE  /\ StackInv(stack', OpenLookups') /\ OpenLookups' = OpenLookups
         /\ Top.l \in OpenLookups'
         /\ \A l \in Lookups : QueryInv(query', stack', called', l)
         /\ due' \subseteq OpenLookups'
         /\ stack' \in Seq(Calls)
<1> DEFINE l == Top.l
<1>0. "send" \in QueryAt
  BY DEF QueryAt
<1>1. /\ stack # <<>> /\ Top = stack[Len(stack)]
      /\ l \in Lookups /\ l \in OpenLookups
      /\ query[l] \in Queries /\ query[l].state = "open" /\ query[l].try \in Nat
      /\ \A A \in SUBSET QueryAt : l \in In(stack, A) <=> "send" \in A
      /\ query[l].try < NServers * Tries
      /\ called[l] = 0
  BY <1>0, TopQuery
<1>2. StackInv(stack, OpenLookups) /\ OpenLookups \in SUBSET Lookups
  BY DEF DnsInv, OpenLookups
<1>3. OpenLookups' = OpenLookups
  BY DEF OpenLookups, Open
<1>4. Top.at = "send"
  BY DEF Running
<1>5. /\ StackInv(stack', OpenLookups)
      /\ \A A \in SUBSET QueryAt : In(stack', A) = In(stack, A) \ {l}
  BY <1>0, <1>1, <1>2, <1>4, LeaveKeeps, ZenonT(30) DEF Return
<1>6. QueryInv(query', stack', called', l)
  <2>1. l \notin In(stack', {"callback"})
    BY <1>5 DEF QueryAt
  <2>2. ~(query[l].try >= NServers * Tries)
    BY <1>1, Bounds
  <2> QED BY <1>1, <2>1, <2>2 DEF QueryInv
<1>7. \A k \in Lookups : QueryInv(query', stack', called', k)
  BY <1>1, <1>5, <1>6, OtherQueries DEF DnsInv
<1>8. stack' \in Seq(Calls)
  BY <1>5 DEF StackInv
<1> QED BY <1>1, <1>3, <1>5, <1>7, <1>8 DEF DnsInv

LEMMA StepSendWritten ==
  ASSUME DnsInv, send_written
  PROVE  DnsInv'
<1>1. /\ Running("send") /\ Return /\ due' = due \ {Top.l}
      /\ UNCHANGED <<query, sock, list, watch, others, inbox, refused, batch, called>>
      /\ asked' = [asked EXCEPT ![query[Top.l].server] = @ \cup {Top.l}]
  BY DEF send_written
<1>2. /\ StackInv(stack', OpenLookups') /\ OpenLookups' = OpenLookups
      /\ Top.l \in OpenLookups'
      /\ \A l \in Lookups : QueryInv(query', stack', called', l)
      /\ due' \subseteq OpenLookups'
      /\ stack' \in Seq(Calls)
  BY <1>1, SendReturns
<1>3. SocketInv' /\ TableInv(Table)'
  BY <1>1, <1>2, SocketsKept
<1>4. asked' \in [Servers -> SUBSET Lookups]
  BY <1>1, <1>2 DEF DnsInv, TypeOK, OpenLookups
<1>5. TypeOK'
  BY <1>1, <1>2, <1>4 DEF DnsInv, TypeOK
<1> QED BY <1>1, <1>2, <1>3, <1>5 DEF DnsInv

LEMMA StepSendOpens ==
  ASSUME DnsInv, send_opens
  PROVE  DnsInv'
<1> DEFINE v == query[Top.l].server
<1>1. /\ Running("send") /\ Return /\ due' = due \ {Top.l}
      /\ UNCHANGED <<query, others, inbox, refused, batch, called>>
      /\ sock[v] = Bad /\ FreeFds # {}
      /\ sock' = [sock EXCEPT ![v] = NewFd]
      /\ TableBecomes(ares_socket_cb(Table, NewFd))
      /\ asked' = [asked EXCEPT ![v] = {Top.l}]
  BY DEF send_opens
<1>2. /\ StackInv(stack', OpenLookups') /\ OpenLookups' = OpenLookups
      /\ Top.l \in OpenLookups'
      /\ \A l \in Lookups : QueryInv(query', stack', called', l)
      /\ due' \subseteq OpenLookups'
      /\ stack' \in Seq(Calls)
  BY <1>1, SendReturns
<1>3. NewFd \in FreeFds /\ NewFd \in Fds /\ NewFd # Bad
  BY <1>1, NewFdIsFree, Bounds DEF FreeFds
<1>4. v \in Servers
  <2>1. "send" \in QueryAt
    BY DEF QueryAt
  <2> QED BY <1>1, <2>1, TopQuery
<1> DEFINE u == ares_socket_cb(Table, NewFd)
<1>5. /\ TableInv(u) /\ u = [list |-> u.list, watch |-> u.watch]
      /\ \A g \in Fds \ {NewFd} : u.watch[g] = watch[g]
      /\ \A i \in Slots : list[i] # 0 => u.list[i] # 0
  <2>1. TableInv(Table) /\ Table = [list |-> Table.list, watch |-> Table.watch]
        /\ Table.list = list /\ Table.watch = watch
    BY DEF DnsInv, Table
  <2>2. LET w == ares_socket_cb(Table, NewFd)
         IN  /\ TableInv(w)
             /\ w = [list |-> w.list, watch |-> w.watch]
             /\ \A g \in Fds \ {NewFd} : w.watch[g] = Table.watch[g]
             /\ \A i \in Slots : Table.list[i] # 0 => w.list[i] # 0
    BY <1>3, <2>1, CallbackKeepsTable
  <2> QED BY <2>1, <2>2
<1>6. list' = u.list /\ watch' = u.watch /\ Table' = u
  BY <1>1, <1>5 DEF TableBecomes, Table
<1> HIDE DEF u, v
<1>7. TableInv(Table)'
  BY <1>5, <1>6 DEF TableInv
<1>8. sock \in [Servers -> Fds \cup {Bad}]
  BY DEF DnsInv, TypeOK
<1>9. /\ sock' \in [Servers -> Fds \cup {Bad}]
      /\ \A w \in Servers : sock'[w] = IF w = v THEN NewFd ELSE sock[w]
  BY <1>1, <1>3, <1>4, <1>8
<1>10. SocketInv'
  <2>1. \A w \in Servers : sock[w] # NewFd
    BY <1>3 DEF FreeFds
  <2>2. \A w, x \in Servers : sock'[w] = sock'[x] /\ sock'[w] # Bad => w = x
    BY <1>4, <1>9, <2>1 DEF DnsInv, SocketInv
  <2>3. ASSUME NEW f \in Fds, watch'[f] # Bad
        PROVE  \E w \in Servers : sock'[w] = f
    <3>1. CASE f = NewFd
      BY <1>4, <1>9, <3>1
    <3>2. CASE f # NewFd
      <4>1. watch[f] # Bad
        BY <1>5, <1>6, <2>3, <3>2
      <4>2. PICK w \in Servers : sock[w] = f
        BY <4>1 DEF DnsInv, SocketInv
      <4>3. w # v
        BY <1>1, <4>2, Bounds DEF v
      <4> QED BY <1>9, <4>2, <4>3
    <3> QED BY <3>1, <3>2
  <2> QED BY <1>2, <2>2, <2>3 DEF SocketInv
<1>11. asked' \in [Servers -> SUBSET Lookups]
  BY <1>1, <1>2, <1>4 DEF DnsInv, TypeOK, OpenLookups
<1>12. list' \in [Slots -> Fds \cup {0}] /\ watch' \in [Fds -> Slots \cup {Bad}]
  BY <1>5, <1>6 DEF TableInv
<1>13. TypeOK'
  BY <1>1, <1>2, <1>9, <1>11, <1>12 DEF DnsInv, TypeOK
<1>14. \A e \in batch' : list'[e.slot] # 0
  BY <1>1, <1>5, <1>6 DEF DnsInv, TypeOK, Events
<1> QED BY <1>2, <1>7, <1>10, <1>13, <1>14 DEF DnsInv

\* A query goes from one function into another.
LEMMA QueryGoesOn ==
  ASSUME DnsInv, NEW from \in QueryAt, Running(from), NEW at \in QueryAt,
         NEW r \in Queries, r.state = "open",
         query' = [query EXCEPT ![Top.l] = r],
         Replace(Call(at, Top.l)),
         \A k \in Lookups : k # Top.l => called'[k] = called[k],
         at \in {"end", "callback"} \/ r.try < NServers * Tries,
         called'[Top.l] = IF at = "callback" THEN 1 ELSE 0,
         UNCHANGED <<sock, list, watch, due, batch>>,
         asked' = asked, inbox' = inbox, refused' \subseteq refused,
         called' \in [Lookups -> Nat], others' = others
  PROVE  DnsInv'
<1> DEFINE l == Top.l
<1>1. /\ stack # <<>> /\ Top = stack[Len(stack)]
      /\ l \in Lookups /\ l \in OpenLookups
  BY TopQuery
<1>2. StackInv(stack, OpenLookups) /\ OpenLookups \in SUBSET Lookups
  BY DEF DnsInv, OpenLookups
<1>3. /\ query' \in [Lookups -> Queries]
      /\ query'[l] = r
      /\ \A k \in Lookups : k # l => query'[k] = query[k]
      /\ OpenLookups' = OpenLookups
  <2>1. query \in [Lookups -> Queries] /\ query' = [query EXCEPT ![l] = r]
    BY DEF DnsInv, TypeOK
  <2> HIDE DEF l
  <2>2. OpenLookups' = OpenLookups \cup {l}
    BY <1>1, <2>1, QueryBecomes
  <2> QED BY <1>1, <2>1, <2>2
<1>4. Top.at = from /\ Call(at, l) \in Calls /\ Call(at, l).at = at /\ Call(at, l).l = l
  BY <1>1, CallTypes DEF Running
<1>5. at \notin IoAt /\ at # "error"
  BY DEF QueryAt, IoAt
<1>6. /\ StackInv(stack', OpenLookups)
      /\ \A A \in SUBSET QueryAt :
           In(stack', A) = (In(stack, A) \ {l}) \cup (IF at \in A THEN {l} ELSE {})
  <2> DEFINE c == Call(at, l)
  <2>1. /\ c \in Calls /\ c.at = at /\ c.l = l
        /\ stack' = [stack EXCEPT ![Len(stack)] = c]
    BY <1>4 DEF Replace
  <2> HIDE DEF c
  <2>2. StackInv(stack', OpenLookups)
    BY <1>1, <1>2, <1>4, <1>5, <2>1, ReplaceKeeps
  <2>3. \A A \in SUBSET QueryAt :
          In(stack', A) = (In(stack, A) \ {l}) \cup (IF at \in A THEN {l} ELSE {})
    BY <1>1, <1>2, <1>4, <1>5, <2>1, ReplaceKeeps
  <2> QED BY <2>2, <2>3
<1>7. QueryInv(query', stack', called', l)
  <2>1. l \in In(stack', {"callback"}) <=> at = "callback"
    BY <1>6 DEF QueryAt
  <2>2. l \in In(stack', {"end", "callback"}) <=> at \in {"end", "callback"}
    BY <1>6 DEF QueryAt
  <2>3. r.try >= NServers * Tries => at \in {"end", "callback"}
    BY Bounds DEF Queries
  <2> QED BY <1>3, <2>1, <2>2, <2>3 DEF QueryInv
<1>8. \A k \in Lookups : QueryInv(query', stack', called', k)
  <2>1. \A A \in SUBSET QueryAt : In(stack', A) \ {l} = In(stack, A) \ {l}
    BY <1>6
  <2> QED BY <1>1, <1>3, <1>7, <2>1, OtherQueries DEF DnsInv
<1>9. stack' \in Seq(Calls)
  BY <1>6 DEF StackInv
<1>10. SocketInv' /\ TableInv(Table)'
  BY <1>1, <1>3, SocketsKept
<1>11. TypeOK'
  BY <1>3, <1>9 DEF DnsInv, TypeOK
<1> QED BY <1>3, <1>6, <1>8, <1>10, <1>11 DEF DnsInv

LEMMA StepSendFails ==
  ASSUME DnsInv, send_fails
  PROVE  DnsInv'
<1> DEFINE l == Top.l
           v == query[l].server
           r == Skip(query[l], v)
<1>1. /\ Running("send") /\ query' = [query EXCEPT ![l] = r]
      /\ Replace(Call("next", l))
      /\ refused' = refused \ {v}
      /\ UNCHANGED <<sock, list, watch, others, asked, inbox, due, batch, called>>
  BY DEF send_fails
<1>2. "send" \in QueryAt /\ "next" \in QueryAt
  BY DEF QueryAt
<1>3. /\ l \in Lookups /\ query[l] \in Queries /\ query[l].state = "open"
      /\ v \in Servers /\ query[l].try < NServers * Tries /\ called[l] = 0
  BY <1>1, <1>2, TopQuery
<1>4. r \in Queries /\ r.state = "open" /\ r.try < NServers * Tries
  BY <1>3, SkipShape
<1>5. called' \in [Lookups -> Nat]
  BY <1>1 DEF DnsInv, TypeOK
<1> HIDE DEF r, v
<1> QED BY <1>1, <1>2, <1>3, <1>4, <1>5, QueryGoesOn

LEMMA StepNextServer ==
  ASSUME DnsInv, next_server
  PROVE  DnsInv'
<1> DEFINE l == Top.l
           n == query[l].try + 1
           v == (query[l].server + 1) % NServers
<1>1. /\ Running("next")
      /\ UNCHANGED <<sock, list, watch, others, asked, inbox, refused, due, batch, called>>
  BY DEF next_server, network
<1>2. QueryAt = {"send", "next", "end", "callback"}
  BY DEF QueryAt
<1>3. /\ l \in Lookups /\ query[l] \in Queries /\ query[l].state = "open"
      /\ query[l].server \in Servers /\ query[l].try \in Nat
      /\ query[l].try < NServers * Tries /\ called[l] = 0
  BY <1>1, <1>2, TopQuery
<1>4. v \in Servers /\ n \in 0..(NServers * Tries)
  BY <1>3, Bounds
<1>5. called' \in [Lookups -> Nat]
  BY <1>1 DEF DnsInv, TypeOK
<1>6. CASE Left(n)
  <2> DEFINE r == [query[l] EXCEPT !.try = n, !.server = v]
             at == IF v \in query[l].skip THEN "next" ELSE "send"
  <2>1. query' = [query EXCEPT ![l] = r] /\ Replace(Call(at, l))
    BY <1>6 DEF next_server
  <2>2. r \in Queries /\ r.state = "open" /\ r.try = n
    <3> HIDE DEF n, v
    <3> QED BY <1>3, <1>4 DEF Queries
  <2>3. n < NServers * Tries
    BY <1>6 DEF Left
  <2>4. at \in QueryAt /\ at \notin {"end", "callback"}
    BY <1>2
  <2> HIDE DEF r, at, n, v
  <2> QED BY <1>1, <1>2, <1>3, <1>5, <2>1, <2>2, <2>3, <2>4, QueryGoesOn
<1>7. CASE ~Left(n)
  <2> DEFINE r == [query[l] EXCEPT !.try = n]
  <2>1. query' = [query EXCEPT ![l] = r] /\ Replace(Call("end", l))
    BY <1>7 DEF next_server
  <2>2. r \in Queries /\ r.state = "open"
    <3> HIDE DEF n
    <3> QED BY <1>3, <1>4 DEF Queries
  <2> HIDE DEF r
  <2> QED BY <1>1, <1>2, <1>3, <1>5, <2>1, <2>2, QueryGoesOn
<1> QED BY <1>6, <1>7

LEMMA StepEndQuery ==
  ASSUME DnsInv, end_query
  PROVE  DnsInv'
<1> DEFINE l == Top.l
<1>1. /\ Running("end") /\ Replace(Call("callback", l))
      /\ called' = [called EXCEPT ![l] = @ + 1]
      /\ UNCHANGED <<query, sock, list, watch, others, asked, inbox, refused, due, batch>>
  BY DEF end_query, network
<1>2. "end" \in QueryAt /\ "callback" \in QueryAt
  BY DEF QueryAt
<1>3. /\ l \in Lookups /\ query[l] \in Queries /\ query[l].state = "open"
      /\ called[l] = 0
  BY <1>1, <1>2, TopQuery
<1>4. called \in [Lookups -> Nat] /\ query \in [Lookups -> Queries]
  BY DEF DnsInv, TypeOK
<1>5. /\ called' \in [Lookups -> Nat]
      /\ called'[l] = 1
      /\ \A k \in Lookups : k # l => called'[k] = called[k]
  BY <1>1, <1>3, <1>4
<1>6. query' = [query EXCEPT ![l] = query[l]]
  BY <1>1, <1>4
<1> HIDE DEF l
<1>7. Replace(Call("callback", Top.l)) /\ l = Top.l
  BY <1>1 DEF l
<1> QED BY <1>1, <1>2, <1>3, <1>5, <1>6, <1>7, QueryGoesOn

LEMMA StepGethostbyname ==
  ASSUME DnsInv, NEW l \in Lookups, ape_gethostbyname(l)
  PROVE  DnsInv'
<1> DEFINE r == [NoQuery EXCEPT !.state = "open"]
           c == Call("send", l)
<1>1. /\ query[l].state = "none"
      /\ query' = [query EXCEPT ![l] = r] /\ stack' = Append(stack, c)
      /\ UNCHANGED <<sock, list, watch, others, asked, inbox, refused, due, batch, called>>
  BY DEF ape_gethostbyname, Enter, network
<1>2. r \in Queries /\ r.state = "open" /\ r.try = 0
  BY Bounds DEF NoQuery, Queries
<1>3. c \in Calls /\ c.at = "send" /\ c.l = l /\ "send" \in QueryAt
  BY CallTypes DEF QueryAt
<1> HIDE DEF r, c
<1>4. /\ query' \in [Lookups -> Queries]
      /\ query'[l] = r
      /\ \A k \in Lookups : k # l => query'[k] = query[k]
      /\ OpenLookups' = OpenLookups \cup {l}
  BY <1>1, <1>2, QueryBecomes DEF DnsInv, TypeOK
<1>5. l \notin OpenLookups
  BY <1>1 DEF OpenLookups, Open
<1> DEFINE o == OpenLookups \cup {l}
<1>6. o \in SUBSET Lookups /\ StackInv(stack, o) /\ l \notin Busy(stack)
      /\ \A i \in 1..Len(stack) : stack[i].at = "error" => l \notin stack[i].moved
  BY <1>5 DEF DnsInv, StackInv, OpenLookups
<1> HIDE DEF o
<1>7. /\ StackInv(stack', o)
      /\ \A A \in SUBSET QueryAt :
           In(stack', A) = In(stack, A) \cup (IF "send" \in A THEN {l} ELSE {})
  <2>1. l \in o
    BY DEF o
  <2>2. "send" \notin IoAt /\ "send" # "error"
    BY DEF IoAt
  <2> QED BY <1>1, <1>3, <1>6, <2>1, <2>2, EnterKeeps
<1>8. QueryInv(query', stack', called', l)
  <2>1. l \notin In(stack, {"callback"})
    BY <1>6 DEF Busy, In, QueryAt
  <2>2. l \notin In(stack', {"callback"})
    BY <1>7, <2>1 DEF QueryAt
  <2>3. called[l] = 0
    BY <1>1, <2>1 DEF DnsInv, QueryInv
  <2> QED BY <1>1, <1>2, <1>4, <2>2, <2>3, Bounds DEF QueryInv
<1>9. \A k \in Lookups : QueryInv(query', stack', called', k)
  <2>1. \A A \in SUBSET QueryAt : In(stack', A) \ {l} = In(stack, A) \ {l}
    BY <1>7
  <2> QED BY <1>1, <1>4, <1>8, <2>1, OtherQueries DEF DnsInv
<1>10. SocketInv' /\ TableInv(Table)'
  BY <1>1, <1>4, SocketsKept
<1>11. TypeOK'
  BY <1>1, <1>4, <1>7 DEF DnsInv, TypeOK, StackInv
<1>12. due' \subseteq OpenLookups'
  BY <1>1, <1>4 DEF DnsInv
<1>13. \A e \in batch' : list'[e.slot] # 0
  BY <1>1 DEF DnsInv
<1> QED BY <1>4, <1>7, <1>9, <1>10, <1>11, <1>12, <1>13 DEF DnsInv, o

\* A step that moves no query.
LEMMA QueriesKept ==
  ASSUME DnsInv, UNCHANGED <<query, called>>,
         \A A \in SUBSET QueryAt : In(stack', A) = In(stack, A)
  PROVE  /\ OpenLookups' = OpenLookups
         /\ \A k \in Lookups : QueryInv(query', stack', called', k)
<1>1. OpenLookups' = OpenLookups
  BY DEF OpenLookups, Open
<1>2. /\ In(stack', {"end", "callback"}) = In(stack, {"end", "callback"})
      /\ In(stack', {"callback"}) = In(stack, {"callback"})
  BY DEF QueryAt
<1>3. \A k \in Lookups : QueryInv(query', stack', called', k)
  BY <1>2 DEF DnsInv, QueryInv
<1> QED BY <1>1, <1>3

LEMMA StepCallbackReturns ==
  ASSUME DnsInv, callback_returns
  PROVE  DnsInv'
<1> DEFINE l == Top.l
           r == [NoQuery EXCEPT !.state = "done"]
<1>1. /\ Running("callback") /\ query' = [query EXCEPT ![l] = r]
      /\ due' = due \ {l}
      /\ IF LastOne(l) THEN Replace(Close(0)) ELSE Return
      /\ UNCHANGED <<sock, list, watch, others, asked, inbox, refused, batch, called>>
  BY DEF callback_returns, network
<1>2. "callback" \in QueryAt
  BY DEF QueryAt
<1>3. /\ stack # <<>> /\ Top = stack[Len(stack)] /\ Top.at = "callback"
      /\ l \in Lookups /\ l \in OpenLookups /\ called[l] = 1
  BY <1>1, <1>2, TopQuery DEF Running
<1>4. r \in Queries /\ r.state = "done"
  BY Bounds DEF NoQuery, Queries
<1>5. query \in [Lookups -> Queries]
  BY DEF DnsInv, TypeOK
<1> HIDE DEF r, l
<1>6. /\ query' \in [Lookups -> Queries]
      /\ query'[l] = r
      /\ \A k \in Lookups : k # l => query'[k] = query[k]
      /\ OpenLookups' = OpenLookups \ {l}
  BY <1>1, <1>3, <1>4, <1>5, QueryBecomes
<1>7. StackInv(stack, OpenLookups) /\ OpenLookups \in SUBSET Lookups
  BY DEF DnsInv, OpenLookups
<1>8. stack[Len(stack)].at \in QueryAt /\ stack[Len(stack)].l = l
  BY <1>2, <1>3 DEF l
<1>9. /\ StackInv(stack', OpenLookups \ {l})
      /\ \A A \in SUBSET QueryAt : In(stack', A) = In(stack, A) \ {l}
      /\ LastOne(l) => stack' # <<>> /\ stack'[Len(stack')] = Close(0)
  <2>1. CASE LastOne(l)
    <3> DEFINE c == Close(0)
    <3>1. c \in Calls /\ c.at = "close" /\ stack' = [stack EXCEPT ![Len(stack)] = c]
      BY <1>1, <2>1, CallTypes, Bounds DEF Replace
    <3>2. "close" \notin QueryAt /\ "close" \notin IoAt /\ "close" # "error"
      BY DEF QueryAt, IoAt
    <3>3. c = Close(0)
      OBVIOUS
    <3> HIDE DEF c
    <3>4. c.at \notin QueryAt /\ c.at \notin IoAt /\ c.at # "error"
      BY <3>1, <3>2
    <3>5. LET t == [stack EXCEPT ![Len(stack)] = c]
              gone == IF stack[Len(stack)].at \in QueryAt THEN {stack[Len(stack)].l} ELSE {}
          IN  /\ t # <<>> /\ t[Len(t)] = c
              /\ c.at \notin QueryAt => StackInv(t, OpenLookups \ gone)
              /\ \A A \in SUBSET QueryAt :
                   In(t, A) = (In(stack, A) \ gone) \cup (IF c.at \in A THEN {c.l} ELSE {})
      BY <1>3, <1>7, <3>1, <3>4, ReplaceKeeps
    <3>6. \A A \in SUBSET QueryAt : c.at \notin A
      BY <3>1, <3>2
    <3> QED BY <1>8, <3>1, <3>2, <3>3, <3>5, <3>6
  <2>2. CASE ~LastOne(l)
    <3>1. stack' = SubSeq(stack, 1, Len(stack) - 1)
      BY <1>1, <2>2 DEF Return
    <3> QED BY <1>3, <1>7, <1>8, <2>2, <3>1, LeaveKeeps
  <2> QED BY <2>1, <2>2
<1>10. QueryInv(query', stack', called', l)
  BY <1>1, <1>3, <1>4, <1>6 DEF QueryInv
<1>11. \A k \in Lookups : QueryInv(query', stack', called', k)
  <2>1. \A A \in SUBSET QueryAt : In(stack', A) \ {l} = In(stack, A) \ {l}
    BY <1>9
  <2> QED BY <1>1, <1>3, <1>6, <1>10, <2>1, OtherQueries DEF DnsInv
<1>12. Table' = Table /\ TableInv(Table)'
  BY <1>1 DEF DnsInv, Table
<1>13. SocketInv'
  <2>1. CASE LastOne(l)
    <3>1. Running("close")' /\ Top'.v = 0
      BY <1>9, <2>1, CallTypes, Bounds DEF Running, Top
    <3>2. \A v \in Servers : 0 <= v
      BY Bounds DEF Servers
    <3>3. OpenLookups' = {} => \A v \in Servers :
            sock'[v] # Bad => Running("close")' /\ Top'.v <= v
      BY <3>1, <3>2
    <3>4. /\ \A v, w \in Servers : sock'[v] = sock'[w] /\ sock'[v] # Bad => v = w
          /\ \A f \in Fds : watch'[f] # Bad => \E v \in Servers : sock'[v] = f
      BY <1>1 DEF DnsInv, SocketInv
    <3> QED BY <3>3, <3>4 DEF SocketInv
  <2>2. CASE ~LastOne(l)
    <3>1. PICK k \in Lookups \ {l} : Open(k)
      BY <2>2 DEF LastOne
    <3>2. k \in OpenLookups'
      BY <1>6, <3>1 DEF OpenLookups
    <3> QED BY <1>1, <3>2, SocketsKept
  <2> QED BY <2>1, <2>2
<1>14. TypeOK'
  BY <1>1, <1>6, <1>9 DEF DnsInv, TypeOK, StackInv
<1>15. due' \subseteq OpenLookups'
  BY <1>1, <1>6 DEF DnsInv
<1>16. \A e \in batch' : list'[e.slot] # 0
  BY <1>1 DEF DnsInv
<1> QED BY <1>6, <1>9, <1>11, <1>12, <1>13, <1>14, <1>15, <1>16 DEF DnsInv

\* What closing a server's socket does.
LEMMA SocketCloses ==
  ASSUME DnsInv, NEW v \in Servers, ares__close_sockets(v), batch' = batch
  PROVE  /\ TableInv(Table)'
         /\ list' \in [Slots -> Fds \cup {0}] /\ watch' \in [Fds -> Slots \cup {Bad}]
         /\ sock' \in [Servers -> Fds \cup {Bad}]
         /\ \A w \in Servers : sock'[w] = IF w = v THEN Bad ELSE sock[w]
         /\ asked' \in [Servers -> SUBSET Lookups]
         /\ inbox' \in [Servers -> SUBSET (Lookups \X Kinds)]
         /\ refused' \subseteq Servers
         /\ \A x, w \in Servers : sock'[x] = sock'[w] /\ sock'[x] # Bad => x = w
         /\ \A f \in Fds : watch'[f] # Bad => \E w \in Servers : sock'[w] = f
         /\ \A e \in batch' : list'[e.slot] # 0
<1> DEFINE u == Closed(Table, sock[v])
<1>1. /\ TableBecomes(u)
      /\ sock' = [sock EXCEPT ![v] = Bad]
      /\ asked' = [asked EXCEPT ![v] = {}]
      /\ inbox' = [inbox EXCEPT ![v] = {}]
      /\ refused' = refused \ {v}
  BY DEF ares__close_sockets
<1>2. sock \in [Servers -> Fds \cup {Bad}] /\ sock[v] \in Fds \cup {Bad}
  BY DEF DnsInv, TypeOK
<1>3. /\ TableInv(u) /\ u = [list |-> u.list, watch |-> u.watch]
      /\ \A g \in Fds : u.watch[g] = IF g = sock[v] THEN Bad ELSE watch[g]
      /\ \A i \in Slots : list[i] # 0 => u.list[i] # 0
  <2>1. TableInv(Table) /\ Table = [list |-> Table.list, watch |-> Table.watch]
        /\ Table.list = list /\ Table.watch = watch
    BY DEF DnsInv, Table
  <2>2. LET w == Closed(Table, sock[v])
         IN  /\ TableInv(w)
             /\ w = [list |-> w.list, watch |-> w.watch]
             /\ \A g \in Fds : w.watch[g] = IF g = sock[v] THEN Bad ELSE Table.watch[g]
             /\ \A i \in Slots : Table.list[i] # 0 => w.list[i] # 0
    BY <1>2, <2>1, ClosingKeepsTable
  <2> QED BY <2>1, <2>2
<1> HIDE DEF u
<1>4. list' = u.list /\ watch' = u.watch /\ Table' = u
  BY <1>1, <1>3 DEF TableBecomes, Table
<1>5. TableInv(Table)'
  BY <1>3, <1>4 DEF TableInv
<1>6. list' \in [Slots -> Fds \cup {0}] /\ watch' \in [Fds -> Slots \cup {Bad}]
  BY <1>3, <1>4 DEF TableInv
<1>7. /\ sock' \in [Servers -> Fds \cup {Bad}]
      /\ \A w \in Servers : sock'[w] = IF w = v THEN Bad ELSE sock[w]
  BY <1>1, <1>2
<1>8. /\ asked' \in [Servers -> SUBSET Lookups]
      /\ inbox' \in [Servers -> SUBSET (Lookups \X Kinds)]
      /\ refused' \subseteq Servers
  BY <1>1 DEF DnsInv, TypeOK
<1>9. \A x, w \in Servers : sock'[x] = sock'[w] /\ sock'[x] # Bad => x = w
  BY <1>7 DEF DnsInv, SocketInv
<1>10. ASSUME NEW f \in Fds, watch'[f] # Bad
       PROVE  \E w \in Servers : sock'[w] = f
  <2>1. f # sock[v] /\ watch[f] # Bad
    BY <1>3, <1>4, <1>10
  <2>2. PICK w \in Servers : sock[w] = f
    BY <2>1 DEF DnsInv, SocketInv
  <2> QED BY <1>7, <2>1, <2>2
<1>11. \A e \in batch' : list'[e.slot] # 0
  BY <1>3, <1>4 DEF DnsInv, TypeOK, Events
<1> QED BY <1>5, <1>6, <1>7, <1>8, <1>9, <1>10, <1>11

LEMMA StepCloseSockets ==
  ASSUME DnsInv, close_sockets
  PROVE  DnsInv'
<1> DEFINE v == Top.v
           c == Close(v + 1)
<1>1. /\ Running("close") /\ ares__close_sockets(v)
      /\ IF v + 1 < NServers THEN Replace(c) ELSE Return
      /\ UNCHANGED <<query, others, due, batch, called>>
  BY DEF close_sockets
<1>2. StackInv(stack, OpenLookups) /\ OpenLookups \in SUBSET Lookups
  BY DEF DnsInv, OpenLookups
<1>3. stack # <<>> /\ Top = stack[Len(stack)] /\ Top.at = "close" /\ Top \in Calls
  BY <1>1, <1>2, TopAlone DEF Running, Top
<1>4. v \in Servers /\ "close" \notin QueryAt /\ "close" \notin IoAt /\ "close" # "error"
  BY <1>3, CallKinds DEF QueryAt, IoAt
<1>5. v + 1 < NServers => v + 1 \in Servers /\ c \in Calls /\ c.at = "close" /\ c.v = v + 1
  BY <1>4, Bounds, CallTypes DEF Servers
<1> HIDE DEF c, v
<1>6. /\ TableInv(Table)'
      /\ list' \in [Slots -> Fds \cup {0}] /\ watch' \in [Fds -> Slots \cup {Bad}]
      /\ sock' \in [Servers -> Fds \cup {Bad}]
      /\ \A w \in Servers : sock'[w] = IF w = v THEN Bad ELSE sock[w]
      /\ asked' \in [Servers -> SUBSET Lookups]
      /\ inbox' \in [Servers -> SUBSET (Lookups \X Kinds)]
      /\ refused' \subseteq Servers
      /\ \A x, w \in Servers : sock'[x] = sock'[w] /\ sock'[x] # Bad => x = w
      /\ \A f \in Fds : watch'[f] # Bad => \E w \in Servers : sock'[w] = f
      /\ \A e \in batch' : list'[e.slot] # 0
  BY <1>1, <1>4, SocketCloses
<1>7. /\ StackInv(stack', OpenLookups)
      /\ \A A \in SUBSET QueryAt : In(stack', A) = In(stack, A)
      /\ v + 1 < NServers => stack' # <<>> /\ stack'[Len(stack')] = c
  <2>1. CASE v + 1 < NServers
    <3>1. stack' = [stack EXCEPT ![Len(stack)] = c] /\ c \in Calls /\ c.at = "close"
      BY <1>1, <1>5, <2>1 DEF Replace
    <3>2. stack[Len(stack)].at = "close"
      BY <1>3
    <3>3. c.at \notin QueryAt /\ c.at \notin IoAt /\ c.at # "error"
      BY <1>4, <3>1
    <3>4. LET t == [stack EXCEPT ![Len(stack)] = c]
              gone == IF stack[Len(stack)].at \in QueryAt THEN {stack[Len(stack)].l} ELSE {}
          IN  /\ StackInv(t, OpenLookups) /\ t # <<>> /\ t[Len(t)] = c
              /\ \A A \in SUBSET QueryAt :
                   In(t, A) = (In(stack, A) \ gone) \cup (IF c.at \in A THEN {c.l} ELSE {})
      BY <1>2, <1>3, <3>1, <3>3, ReplaceKeeps
    <3>5. \A A \in SUBSET QueryAt : c.at \notin A
      BY <1>4, <3>1
    <3> QED BY <1>4, <3>1, <3>2, <3>4, <3>5
  <2>2. CASE ~(v + 1 < NServers)
    <3>1. stack' = SubSeq(stack, 1, Len(stack) - 1) /\ stack[Len(stack)].at = "close"
      BY <1>1, <1>3, <2>2 DEF Return
    <3> QED BY <1>2, <1>3, <1>4, <2>2, <3>1, LeaveKeeps
  <2> QED BY <2>1, <2>2
<1>8. /\ OpenLookups' = OpenLookups
      /\ \A k \in Lookups : QueryInv(query', stack', called', k)
  BY <1>1, <1>7, QueriesKept
<1>9. ASSUME OpenLookups' = {}, NEW w \in Servers, sock'[w] # Bad
      PROVE  Running("close")' /\ Top'.v <= w
  <2>1. w # v /\ sock[w] # Bad
    BY <1>6, <1>9
  <2>2. v <= w
    BY <1>8, <1>9, <2>1 DEF DnsInv, SocketInv, v
  <2>3. v + 1 < NServers /\ v + 1 <= w
    BY <1>4, <2>1, <2>2, Bounds DEF Servers
  <2>4. stack' # <<>> /\ stack'[Len(stack')] = c /\ c.at = "close" /\ c.v = v + 1
    BY <1>5, <1>7, <2>3
  <2> QED BY <2>3, <2>4 DEF Running, Top
<1>10. SocketInv'
  BY <1>6, <1>9 DEF SocketInv
<1>11. TypeOK'
  BY <1>1, <1>6, <1>7 DEF DnsInv, TypeOK, StackInv
<1>12. due' \subseteq OpenLookups'
  BY <1>1, <1>8 DEF DnsInv
<1> QED BY <1>6, <1>7, <1>8, <1>10, <1>11, <1>12 DEF DnsInv

\* A step below which only the event loop's own call is running, and which leaves
\* the sockets alone; with no query left they have been closed.
LEMMA SocketsKeptByIo ==
  ASSUME DnsInv, UNCHANGED <<sock, list, watch>>, OpenLookups' = OpenLookups,
         ~Running("close")
  PROVE  SocketInv' /\ TableInv(Table)'
<1>1. CASE OpenLookups # {}
  BY <1>1, SocketsKept
<1>2. CASE OpenLookups = {}
  <2>1. \A v \in Servers : sock'[v] = Bad
    BY <1>2 DEF DnsInv, SocketInv
  <2>2. \A f \in Fds : watch'[f] # Bad => \E v \in Servers : sock'[v] = f
    BY DEF DnsInv, SocketInv
  <2>3. Table' = Table
    BY DEF Table
  <2>4. TableInv(Table)'
    BY <2>3 DEF DnsInv
  <2>5. SocketInv'
    BY <2>1, <2>2 DEF SocketInv
  <2> QED BY <2>4, <2>5
<1> QED BY <1>1, <1>2

\* What is known while the event loop's own call is the innermost.
LEMMA TopIo ==
  ASSUME DnsInv, NEW at \in IoAt, Running(at)
  PROVE  /\ StackInv(stack, OpenLookups) /\ OpenLookups \in SUBSET Lookups
         /\ stack # <<>> /\ Top = stack[Len(stack)] /\ Top.at = at
         /\ Top.fd \in Fds /\ Len(stack) = 1
         /\ \A A \in SUBSET QueryAt : In(stack, A) = {}
         /\ \A i \in 1..Len(stack) : stack[i].at # "error"
         /\ ~Running("close")
<1>1. StackInv(stack, OpenLookups) /\ OpenLookups \in SUBSET Lookups
  BY DEF DnsInv, OpenLookups
<1>2. stack # <<>> /\ Top = stack[Len(stack)] /\ Top.at = at
  BY DEF Running, Top
<1>3. Top \in Calls
  BY <1>1, <1>2, TopAlone
<1>4. Top.fd \in Fds
  BY <1>2, <1>3, CallKinds
<1>5. /\ Len(stack) = 1
      /\ \A A \in SUBSET QueryAt : In(stack, A) = {}
      /\ \A i \in 1..Len(stack) : stack[i].at # "error"
  BY <1>1, <1>2, IoIsAlone
<1>6. ~Running("close")
  BY <1>2 DEF Running, IoAt
<1> QED BY <1>1, <1>2, <1>4, <1>5, <1>6

\* A query that waits is entered by a function of c-ares.
LEMMA QueryIsEntered ==
  ASSUME DnsInv, NEW s, StackInv(s, OpenLookups), NEW l \in OpenLookups,
         NEW at \in {"next", "end"},
         l \notin Busy(s),
         \A A \in SUBSET QueryAt : In(s, A) = In(stack, A),
         \A i \in 1..Len(s) : s[i].at = "error" => l \notin s[i].moved,
         stack' = Append(s, Call(at, l)),
         NEW r \in Queries, r.state = "open", r.try = query[l].try,
         query' = [query EXCEPT ![l] = r],
         UNCHANGED called
  PROVE  /\ StackInv(stack', OpenLookups')
         /\ OpenLookups' = OpenLookups
         /\ query' \in [Lookups -> Queries]
         /\ \A k \in Lookups : QueryInv(query', stack', called', k)
<1> DEFINE c == Call(at, l)
<1>1. OpenLookups \in SUBSET Lookups /\ l \in Lookups
  BY DEF OpenLookups
<1>2. c \in Calls /\ c.at = at /\ c.l = l /\ at \in QueryAt
      /\ at \notin IoAt /\ at # "error" /\ at # "callback"
  BY <1>1, CallTypes DEF QueryAt, IoAt
<1> HIDE DEF c
<1>3. /\ StackInv(stack', OpenLookups)
      /\ \A A \in SUBSET QueryAt :
           In(stack', A) = In(s, A) \cup (IF c.at \in A THEN {c.l} ELSE {})
  <2>1. stack' = Append(s, c)
    BY DEF c
  <2> QED BY <1>1, <1>2, <2>1, EnterKeeps
<1>4. /\ query' \in [Lookups -> Queries] /\ query'[l] = r
      /\ \A k \in Lookups : k # l => query'[k] = query[k]
      /\ OpenLookups' = OpenLookups
  <2>1. query \in [Lookups -> Queries]
    BY DEF DnsInv, TypeOK
  <2>2. OpenLookups' = OpenLookups \cup {l}
    BY <1>1, <2>1, QueryBecomes
  <2> QED BY <1>1, <2>1, <2>2
<1>5. QueryInv(query', stack', called', l)
  <2>1. QueryInv(query, stack, called, l) /\ query[l].state = "open"
    BY <1>1 DEF DnsInv, OpenLookups, Open
  <2>2. l \notin In(s, {"callback"}) /\ l \notin In(s, {"end", "callback"})
    BY DEF Busy, In, QueryAt
  <2>3. l \notin In(stack, {"callback"}) /\ l \notin In(stack, {"end", "callback"})
    BY <2>2 DEF QueryAt
  <2>4. l \notin In(stack', {"callback"})
    BY <1>2, <1>3, <2>2 DEF QueryAt
  <2> QED BY <1>4, <2>1, <2>3, <2>4 DEF QueryInv
<1>6. \A k \in Lookups : QueryInv(query', stack', called', k)
  <2>1. \A A \in SUBSET QueryAt : In(stack', A) \ {l} = In(stack, A) \ {l}
    BY <1>2, <1>3
  <2> QED BY <1>1, <1>4, <1>5, <2>1, OtherQueries DEF DnsInv
<1> QED BY <1>3, <1>4, <1>6

LEMMA StepReadAnswer ==
  ASSUME DnsInv, read_answer
  PROVE  DnsInv'
<1>1. /\ Running("read")
      /\ UNCHANGED <<sock, list, watch, others, asked, refused, due, batch, called>>
  BY DEF read_answer
<1>2. "read" \in IoAt
  BY DEF IoAt
<1>3. /\ StackInv(stack, OpenLookups) /\ OpenLookups \in SUBSET Lookups
      /\ \A A \in SUBSET QueryAt : In(stack, A) = {}
      /\ \A i \in 1..Len(stack) : stack[i].at # "error"
      /\ ~Running("close")
  BY <1>1, <1>2, TopIo
<1>4. PICK v \in Servers :
        \E a \in inbox[v] :
          LET l == a[1]
          IN  /\ inbox' = [inbox EXCEPT ![v] = @ \ {a}]
              /\ query' = IF Known(l) /\ a[2] = "failure"
                            THEN [query EXCEPT ![l] = Skip(query[l], v)] ELSE query
              /\ stack' = CASE Known(l) /\ a[2] = "answer" -> Append(stack, Call("end", l))
                            [] Known(l) /\ a[2] = "failure" /\ query[l].server = v
                                 -> Append(stack, Call("next", l))
                            [] OTHER -> stack
  BY DEF read_answer
<1>5. PICK a \in inbox[v] :
        /\ inbox' = [inbox EXCEPT ![v] = @ \ {a}]
        /\ query' = IF Known(a[1]) /\ a[2] = "failure"
                      THEN [query EXCEPT ![a[1]] = Skip(query[a[1]], v)] ELSE query
        /\ stack' = CASE Known(a[1]) /\ a[2] = "answer" -> Append(stack, Call("end", a[1]))
                      [] Known(a[1]) /\ a[2] = "failure" /\ query[a[1]].server = v
                           -> Append(stack, Call("next", a[1]))
                      [] OTHER -> stack
  BY <1>4
<1> DEFINE l == a[1]
           r == IF a[2] = "failure" THEN Skip(query[l], v) ELSE query[l]
<1>6. l \in Lookups /\ a[2] \in Kinds /\ inbox \in [Servers -> SUBSET (Lookups \X Kinds)]
      /\ query \in [Lookups -> Queries] /\ query[l] \in Queries
  BY DEF DnsInv, TypeOK
<1>7. inbox' \in [Servers -> SUBSET (Lookups \X Kinds)]
  BY <1>5, <1>6
<1>8. /\ StackInv(stack', OpenLookups')
      /\ OpenLookups' = OpenLookups
      /\ query' \in [Lookups -> Queries]
      /\ \A k \in Lookups : QueryInv(query', stack', called', k)
  <2>1. CASE ~Known(l)
    <3>1. query' = query /\ stack' = stack
      BY <1>5, <2>1
    <3> QED BY <1>1, <1>3, <1>6, <3>1, QueriesKept
  <2>2. CASE Known(l)
    <3>1. l \in OpenLookups /\ query[l].state = "open"
      BY <1>6, <2>2 DEF Known, OpenLookups, Open
    <3>2. r \in Queries /\ r.state = "open" /\ r.try = query[l].try
      BY <1>6, <3>1, SkipShape
    <3>3. query' = [query EXCEPT ![l] = r]
      <4>1. CASE a[2] = "failure"
        BY <1>5, <2>2, <4>1
      <4>2. CASE a[2] # "failure"
        BY <1>5, <1>6, <4>2
      <4> QED BY <4>1, <4>2
    <3>4. l \notin Busy(stack)
      BY <1>3 DEF Busy
    <3> HIDE DEF l, r
    <3>5. ASSUME NEW at \in {"next", "end"}, stack' = Append(stack, Call(at, l))
          PROVE  /\ StackInv(stack', OpenLookups')
                 /\ OpenLookups' = OpenLookups
                 /\ query' \in [Lookups -> Queries]
                 /\ \A k \in Lookups : QueryInv(query', stack', called', k)
      BY <1>1, <1>3, <3>1, <3>2, <3>3, <3>4, <3>5, QueryIsEntered
    <3>6. CASE stack' = stack
      <4>1. OpenLookups' = OpenLookups /\ query' \in [Lookups -> Queries]
            /\ query'[l] = r /\ \A k \in Lookups : k # l => query'[k] = query[k]
        <5>1. OpenLookups' = OpenLookups \cup {l}
          <6>1. l \in Lookups /\ query \in [Lookups -> Queries]
            BY <1>6 DEF l
          <6> QED BY <3>2, <3>3, <6>1, QueryBecomes
        <5> QED BY <1>6, <3>1, <3>2, <3>3, <5>1, QueryBecomes
      <4>2. QueryInv(query', stack', called', l)
        <5>1. QueryInv(query, stack, called, l)
          BY <1>3, <3>1 DEF DnsInv
        <5> QED BY <1>1, <3>1, <3>2, <3>6, <4>1, <5>1 DEF QueryInv
      <4>3. l \in Lookups
        BY <1>3, <3>1
      <4>4. \A k \in Lookups : QueryInv(query', stack', called', k)
        BY <1>1, <3>6, <4>1, <4>2, <4>3, OtherQueries DEF DnsInv
      <4> QED BY <1>3, <3>6, <4>1, <4>4
    <3>7. \/ stack' = stack
          \/ stack' = Append(stack, Call("end", l))
          \/ stack' = Append(stack, Call("next", l))
      BY <1>5 DEF l
    <3> QED BY <3>5, <3>6, <3>7
  <2> QED BY <2>1, <2>2
<1>9. SocketInv' /\ TableInv(Table)'
  BY <1>1, <1>3, <1>8, SocketsKeptByIo
<1>10. TypeOK'
  BY <1>1, <1>7, <1>8 DEF DnsInv, TypeOK, StackInv
<1>11. due' \subseteq OpenLookups' /\ \A e \in batch' : list'[e.slot] # 0
  BY <1>1, <1>8 DEF DnsInv
<1> QED BY <1>8, <1>9, <1>10, <1>11 DEF DnsInv

\* The event loop's call goes on to the timeouts.
LEMMA IoGoesOn ==
  ASSUME DnsInv, NEW at \in IoAt, Running(at)
  PROVE  LET s == [stack EXCEPT ![Len(stack)] = Io("timeouts", Top.fd)]
         IN  /\ StackInv(s, OpenLookups) /\ Len(s) = 1
             /\ \A A \in SUBSET QueryAt : In(s, A) = {}
             /\ \A i \in 1..Len(s) : s[i].at # "error"
<1> DEFINE c == Io("timeouts", Top.fd)
           s == [stack EXCEPT ![Len(stack)] = c]
<1>1. /\ StackInv(stack, OpenLookups) /\ OpenLookups \in SUBSET Lookups
      /\ stack # <<>> /\ stack[Len(stack)].at = at
      /\ Top.fd \in Fds /\ Len(stack) = 1
      /\ \A A \in SUBSET QueryAt : In(stack, A) = {}
  BY TopIo
<1>2. c \in Calls /\ c.at = "timeouts" /\ c.at \in IoAt
  BY <1>1, CallTypes DEF IoAt
<1>3. c.at \notin QueryAt /\ c.at # "error"
  BY <1>2 DEF QueryAt
<1> HIDE DEF c
<1>4. StackInv(s, OpenLookups) /\ s # <<>> /\ s[Len(s)] = c /\ Len(s) = Len(stack)
  BY <1>1, <1>2, <1>3, ReplaceKeeps
<1> HIDE DEF s
<1>5. /\ \A A \in SUBSET QueryAt : In(s, A) = {}
      /\ \A i \in 1..Len(s) : s[i].at # "error"
  BY <1>1, <1>2, <1>4, IoIsAlone
<1> QED BY <1>1, <1>4, <1>5 DEF s, c

LEMMA StepReadError ==
  ASSUME DnsInv, read_error
  PROVE  DnsInv'
<1> DEFINE s == [stack EXCEPT ![Len(stack)] = Io("timeouts", Top.fd)]
<1>1. Running("read") /\ UNCHANGED <<query, others, due, batch, called>>
  BY DEF read_error
<1>2. PICK v \in Servers :
        /\ ares__close_sockets(v)
        /\ stack' = Append(s, Error(v, {l \in Lookups : Open(l) /\ query[l].server = v}))
  BY DEF read_error
<1> DEFINE m == {l \in Lookups : Open(l) /\ query[l].server = v}
           c == Error(v, m)
<1>3. "read" \in IoAt
  BY DEF IoAt
<1>4. /\ OpenLookups \in SUBSET Lookups
      /\ \A A \in SUBSET QueryAt : In(stack, A) = {}
      /\ ~Running("close")
  BY <1>1, <1>3, TopIo
<1>5. /\ StackInv(s, OpenLookups) /\ Len(s) = 1
      /\ \A A \in SUBSET QueryAt : In(s, A) = {}
  BY <1>1, <1>3, IoGoesOn
<1> HIDE DEF s
<1>6. c \in Calls /\ c.at = "error" /\ c.moved = m
  BY CallTypes
<1>7. c.at \notin QueryAt /\ c.at \notin IoAt
  BY <1>6 DEF QueryAt, IoAt
<1>8. c.moved \subseteq OpenLookups /\ c.moved \cap Busy(s) = {}
  BY <1>5, <1>6 DEF OpenLookups, Busy
<1>9. stack' = Append(s, c)
  BY <1>2
<1> HIDE DEF c, m
<1>10. /\ StackInv(stack', OpenLookups)
       /\ \A A \in SUBSET QueryAt :
            In(stack', A) = In(s, A) \cup (IF c.at \in A THEN {c.l} ELSE {})
  BY <1>4, <1>5, <1>6, <1>7, <1>8, <1>9, EnterKeeps
<1>11. \A A \in SUBSET QueryAt : In(stack', A) = In(stack, A)
  BY <1>4, <1>5, <1>7, <1>10
<1>12. /\ OpenLookups' = OpenLookups
       /\ \A k \in Lookups : QueryInv(query', stack', called', k)
  BY <1>1, <1>11, QueriesKept
<1>13. /\ TableInv(Table)'
       /\ list' \in [Slots -> Fds \cup {0}] /\ watch' \in [Fds -> Slots \cup {Bad}]
       /\ sock' \in [Servers -> Fds \cup {Bad}]
       /\ \A w \in Servers : sock'[w] = IF w = v THEN Bad ELSE sock[w]
       /\ asked' \in [Servers -> SUBSET Lookups]
       /\ inbox' \in [Servers -> SUBSET (Lookups \X Kinds)]
       /\ refused' \subseteq Servers
       /\ \A x, w \in Servers : sock'[x] = sock'[w] /\ sock'[x] # Bad => x = w
       /\ \A f \in Fds : watch'[f] # Bad => \E w \in Servers : sock'[w] = f
       /\ \A e \in batch' : list'[e.slot] # 0
  BY <1>1, <1>2, SocketCloses
<1>14. OpenLookups' = {} => \A w \in Servers : sock'[w] = Bad
  BY <1>4, <1>12, <1>13 DEF DnsInv, SocketInv
<1>15. SocketInv'
  BY <1>13, <1>14 DEF SocketInv
<1>16. TypeOK'
  BY <1>1, <1>10, <1>13 DEF DnsInv, TypeOK, StackInv
<1>17. due' \subseteq OpenLookups'
  BY <1>1, <1>12 DEF DnsInv
<1> QED BY <1>10, <1>12, <1>13, <1>15, <1>16, <1>17 DEF DnsInv

\* What is known while handle_error is the innermost call.
LEMMA TopError ==
  ASSUME DnsInv, Running("error")
  PROVE  /\ StackInv(stack, OpenLookups) /\ OpenLookups \in SUBSET Lookups
         /\ stack # <<>> /\ Top = stack[Len(stack)] /\ Top.at = "error"
         /\ Top.v \in Servers /\ Len(stack) = 2
         /\ Top.moved \subseteq OpenLookups /\ Top.moved \cap Busy(stack) = {}
         /\ ~Running("close")
<1>1. StackInv(stack, OpenLookups) /\ OpenLookups \in SUBSET Lookups
  BY DEF DnsInv, OpenLookups
<1>2. stack # <<>> /\ Top = stack[Len(stack)] /\ Top.at = "error"
  BY DEF Running, Top
<1>3. Top \in Calls /\ Len(stack) \in 1..Len(stack)
  BY <1>1, <1>2, TopAlone
<1>4. Top.v \in Servers
  BY <1>2, <1>3, CallKinds
<1>5. Len(stack) = 2 /\ Top.moved \subseteq OpenLookups /\ Top.moved \cap Busy(stack) = {}
  BY <1>1, <1>2, <1>3 DEF StackInv
<1>6. ~Running("close")
  BY <1>2 DEF Running
<1> QED BY <1>1, <1>2, <1>4, <1>5, <1>6

LEMMA StepMoveOn ==
  ASSUME DnsInv, move_on
  PROVE  DnsInv'
<1>1. /\ Running("error")
      /\ UNCHANGED <<sock, list, watch, others, asked, inbox, refused, due, batch, called>>
  BY DEF move_on, network
<1>2. PICK l \in Top.moved :
        /\ query' = [query EXCEPT ![l] = Skip(query[l], Top.v)]
        /\ stack' = Append([stack EXCEPT ![Len(stack)] = Error(Top.v, Top.moved \ {l})],
                           Call("next", l))
  BY DEF move_on
<1> DEFINE c == Error(Top.v, Top.moved \ {l})
           s == [stack EXCEPT ![Len(stack)] = c]
           r == Skip(query[l], Top.v)
<1>3. /\ StackInv(stack, OpenLookups) /\ OpenLookups \in SUBSET Lookups
      /\ stack # <<>> /\ Top = stack[Len(stack)] /\ Top.at = "error"
      /\ Top.v \in Servers /\ Len(stack) = 2
      /\ Top.moved \subseteq OpenLookups /\ Top.moved \cap Busy(stack) = {}
      /\ ~Running("close")
  BY <1>1, TopError
<1>4. l \in OpenLookups /\ l \in Lookups /\ l \notin Busy(stack)
  BY <1>3
<1>5. c \in Calls /\ c.at = "error" /\ c.moved = Top.moved \ {l}
  <2>1. Top.moved \ {l} \in SUBSET Lookups
    BY <1>3
  <2> QED BY <1>3, <2>1, CallTypes
<1>6. c.at \notin QueryAt /\ c.at \notin IoAt
  BY <1>5 DEF QueryAt, IoAt
<1>7. stack' = Append(s, Call("next", l)) /\ query' = [query EXCEPT ![l] = r]
  BY <1>2
<1>8. r \in Queries /\ r.state = "open" /\ r.try = query[l].try
  BY <1>3, <1>4, SkipShape DEF DnsInv, TypeOK, OpenLookups, Open
<1>9. stack[Len(stack)].at = "error" /\ c.moved \subseteq stack[Len(stack)].moved
  BY <1>3, <1>5
<1> HIDE DEF c, r
<1>10. LET gone == IF stack[Len(stack)].at \in QueryAt THEN {stack[Len(stack)].l} ELSE {}
       IN  /\ StackInv(s, OpenLookups) /\ Len(s) = Len(stack)
           /\ \A i \in 1..Len(s) : s[i] = IF i = Len(stack) THEN c ELSE stack[i]
           /\ \A A \in SUBSET QueryAt :
                In(s, A) = (In(stack, A) \ gone) \cup (IF c.at \in A THEN {c.l} ELSE {})
  BY <1>3, <1>5, <1>6, <1>9, ReplaceKeeps, ZenonT(30)
<1> HIDE DEF s
<1>11. "error" \notin QueryAt
  BY DEF QueryAt
<1>12. \A A \in SUBSET QueryAt : In(s, A) = In(stack, A)
  BY <1>6, <1>9, <1>10, <1>11
<1>13. l \notin Busy(s)
  BY <1>4, <1>12 DEF Busy
<1>14. ASSUME NEW i \in 1..Len(s), s[i].at = "error"
       PROVE  l \notin s[i].moved
  <2>1. i = 2
    BY <1>10, <1>14 DEF StackInv
  <2> QED BY <1>3, <1>5, <1>10, <2>1
<1>15. /\ StackInv(stack', OpenLookups')
       /\ OpenLookups' = OpenLookups
       /\ query' \in [Lookups -> Queries]
       /\ \A k \in Lookups : QueryInv(query', stack', called', k)
  BY <1>1, <1>4, <1>7, <1>8, <1>10, <1>12, <1>13, <1>14, QueryIsEntered
<1>16. SocketInv' /\ TableInv(Table)'
  BY <1>1, <1>4, <1>15, SocketsKept
<1>17. TypeOK'
  BY <1>1, <1>15 DEF DnsInv, TypeOK, StackInv
<1>18. due' \subseteq OpenLookups' /\ \A e \in batch' : list'[e.slot] # 0
  BY <1>1, <1>15 DEF DnsInv
<1> QED BY <1>15, <1>16, <1>17, <1>18 DEF DnsInv

\* A call that is about no query returns, or becomes another such call.
LEMMA NothingMoves ==
  ASSUME DnsInv, ~Running("close"),
         StackInv(stack', OpenLookups),
         \A A \in SUBSET QueryAt : In(stack', A) = In(stack, A),
         UNCHANGED <<query, sock, list, watch, called>>,
         others' \subseteq Fds, asked' \in [Servers -> SUBSET Lookups],
         inbox' \in [Servers -> SUBSET (Lookups \X Kinds)], refused' \subseteq Servers,
         due' \subseteq OpenLookups, batch' \subseteq Events,
         \A e \in batch' : list[e.slot] # 0
  PROVE  DnsInv'
<1>1. /\ OpenLookups' = OpenLookups
      /\ \A k \in Lookups : QueryInv(query', stack', called', k)
  BY QueriesKept
<1>2. SocketInv' /\ TableInv(Table)'
  BY <1>1, SocketsKeptByIo
<1>3. due' \subseteq Lookups
  BY DEF OpenLookups
<1>4. TypeOK'
  BY <1>3 DEF DnsInv, TypeOK, StackInv
<1> QED BY <1>1, <1>2, <1>4 DEF DnsInv

\* The parts of the state a step of NothingMoves usually leaves alone.
LEMMA TypesKept ==
  ASSUME DnsInv
  PROVE  /\ others \subseteq Fds /\ asked \in [Servers -> SUBSET Lookups]
         /\ inbox \in [Servers -> SUBSET (Lookups \X Kinds)] /\ refused \subseteq Servers
         /\ due \subseteq OpenLookups /\ batch \subseteq Events
         /\ \A e \in batch : list[e.slot] # 0
  BY DEF DnsInv, TypeOK

LEMMA StepAllMoved ==
  ASSUME DnsInv, all_moved
  PROVE  DnsInv'
<1>1. /\ Running("error") /\ stack' = SubSeq(stack, 1, Len(stack) - 1)
      /\ UNCHANGED <<query, sock, list, watch, others, asked, inbox, refused, due, batch, called>>
  BY DEF all_moved, network, Return
<1>2. /\ StackInv(stack, OpenLookups) /\ OpenLookups \in SUBSET Lookups
      /\ stack # <<>> /\ stack[Len(stack)].at = "error"
      /\ ~Running("close")
  BY <1>1, TopError
<1>3. "error" \notin QueryAt
  BY DEF QueryAt
<1>4. /\ StackInv(stack', OpenLookups)
      /\ \A A \in SUBSET QueryAt : In(stack', A) = In(stack, A)
  BY <1>1, <1>2, <1>3, LeaveKeeps
<1> QED BY <1>1, <1>2, <1>4, TypesKept, NothingMoves

LEMMA StepReadNothing ==
  ASSUME DnsInv, read_nothing
  PROVE  DnsInv'
<1>1. /\ Running("read")
      /\ stack' = [stack EXCEPT ![Len(stack)] = Io("timeouts", Top.fd)]
      /\ UNCHANGED <<query, sock, list, watch, others, asked, inbox, refused, due, batch, called>>
  BY DEF read_nothing, network, Replace
<1>2. "read" \in IoAt
  BY DEF IoAt
<1>3. (\A A \in SUBSET QueryAt : In(stack, A) = {}) /\ ~Running("close")
  BY <1>1, <1>2, TopIo
<1>4. /\ StackInv(stack', OpenLookups)
      /\ \A A \in SUBSET QueryAt : In(stack', A) = {}
  BY <1>1, <1>2, IoGoesOn
<1>5. \A A \in SUBSET QueryAt : In(stack', A) = In(stack, A)
  BY <1>3, <1>4
<1> QED BY <1>1, <1>3, <1>4, <1>5, TypesKept, NothingMoves

LEMMA StepProcessTimeout ==
  ASSUME DnsInv, process_timeout
  PROVE  DnsInv'
<1>1. /\ Running("timeouts")
      /\ UNCHANGED <<query, sock, list, watch, others, asked, inbox, refused, batch, called>>
  BY DEF process_timeout, network
<1>2. PICK l \in due : due' = due \ {l} /\ stack' = Append(stack, Call("next", l))
  BY DEF process_timeout, Enter
<1>3. "timeouts" \in IoAt
  BY DEF IoAt
<1>4. /\ StackInv(stack, OpenLookups) /\ OpenLookups \in SUBSET Lookups
      /\ \A A \in SUBSET QueryAt : In(stack, A) = {}
      /\ \A i \in 1..Len(stack) : stack[i].at # "error"
      /\ ~Running("close")
  BY <1>1, <1>3, TopIo
<1>5. l \in OpenLookups /\ l \notin Busy(stack)
  BY <1>4 DEF DnsInv, Busy
<1>6. /\ query[l] \in Queries /\ query[l].state = "open"
      /\ query' = [query EXCEPT ![l] = query[l]]
  BY <1>1, <1>4, <1>5 DEF DnsInv, TypeOK, OpenLookups, Open
<1>7. /\ StackInv(stack', OpenLookups')
      /\ OpenLookups' = OpenLookups
      /\ query' \in [Lookups -> Queries]
      /\ \A k \in Lookups : QueryInv(query', stack', called', k)
  BY <1>1, <1>2, <1>4, <1>5, <1>6, QueryIsEntered
<1>8. SocketInv' /\ TableInv(Table)'
  BY <1>1, <1>5, <1>7, SocketsKept
<1>9. TypeOK'
  BY <1>1, <1>2, <1>7 DEF DnsInv, TypeOK, StackInv
<1>10. due' \subseteq OpenLookups' /\ \A e \in batch' : list'[e.slot] # 0
  BY <1>1, <1>2, <1>7 DEF DnsInv
<1> QED BY <1>7, <1>8, <1>9, <1>10 DEF DnsInv

LEMMA StepTimeoutsDone ==
  ASSUME DnsInv, timeouts_done
  PROVE  DnsInv'
<1>1. /\ Running("timeouts") /\ stack' = SubSeq(stack, 1, Len(stack) - 1)
      /\ UNCHANGED <<query, sock, list, watch, others, asked, inbox, refused, due, batch, called>>
  BY DEF timeouts_done, network, Return
<1>2. "timeouts" \in IoAt /\ "timeouts" \notin QueryAt
  BY DEF IoAt, QueryAt
<1>3. /\ StackInv(stack, OpenLookups) /\ OpenLookups \in SUBSET Lookups
      /\ stack # <<>> /\ stack[Len(stack)].at = "timeouts"
      /\ ~Running("close")
  BY <1>1, <1>2, TopIo
<1>4. /\ StackInv(stack', OpenLookups)
      /\ \A A \in SUBSET QueryAt : In(stack', A) = In(stack, A)
  BY <1>1, <1>2, <1>3, LeaveKeeps
<1> QED BY <1>1, <1>3, <1>4, TypesKept, NothingMoves

LEMMA StepLoop ==
  ASSUME DnsInv, Loop
  PROVE  DnsInv'
<1>1. StackInv(stack, OpenLookups) /\ OpenLookups \in SUBSET Lookups
  BY DEF DnsInv, OpenLookups
<1>2. TableInv(Table) /\ Table.list = list /\ Table.watch = watch
  BY DEF DnsInv, Table
<1>3. CASE poll
  <2>1. /\ stack = <<>>
        /\ batch' = {[slot |-> watch[f], read |-> Readable(f)] : f \in Watched}
        /\ UNCHANGED <<query, sock, list, watch, others, asked, inbox, refused, due, stack, called>>
    BY <1>3 DEF poll, Reported, network
  <2>2. ~Running("close")
    BY <2>1 DEF Running
  <2>3. \A f \in Watched : watch[f] \in Slots /\ Readable(f) \in BOOLEAN
    BY <1>2 DEF Watched, Readable, TableInv
  <2>4. batch' \subseteq Events
    BY <2>1, <2>3 DEF Events
  <2>5. \A e \in batch' : list[e.slot] # 0
    BY <1>2, <2>1 DEF Watched, TableInv
  <2>6. StackInv(stack', OpenLookups)
        /\ \A A \in SUBSET QueryAt : In(stack', A) = In(stack, A)
    BY <1>1, <2>1
  <2> QED BY <2>1, <2>2, <2>4, <2>5, <2>6, TypesKept, NothingMoves
<1>4. CASE ares_io
  <2>1. /\ stack = <<>>
        /\ UNCHANGED <<query, sock, list, watch, others, asked, inbox, refused, due, called>>
    BY <1>4 DEF ares_io, network
  <2>2. PICK e \in batch :
          /\ batch' = batch \ {e}
          /\ stack' = <<Io(IF e.read THEN "read" ELSE "timeouts", list[e.slot])>>
    BY <1>4 DEF ares_io
  <2> DEFINE at == IF e.read THEN "read" ELSE "timeouts"
             c == Io(at, list[e.slot])
  <2>3. list[e.slot] \in Fds /\ at \in IoAt
    BY <1>2 DEF DnsInv, TypeOK, Events, TableInv, IoAt
  <2>4. c \in Calls /\ c.at \in IoAt
    BY <2>3, CallTypes
  <2>5. c.at \notin QueryAt /\ c.at # "error"
    BY <2>4 DEF QueryAt, IoAt
  <2>6. ~Running("close")
    BY <2>1 DEF Running
  <2> HIDE DEF c, at
  <2>7. stack' = Append(stack, c) /\ Len(stack) = 0
    <3>1. stack' = <<c>>
      BY <2>2 DEF c, at
    <3> QED BY <2>1, <3>1
  <2>8. /\ StackInv(stack', OpenLookups)
        /\ \A A \in SUBSET QueryAt :
             In(stack', A) = In(stack, A) \cup (IF c.at \in A THEN {c.l} ELSE {})
    BY <1>1, <2>4, <2>5, <2>7, EnterKeeps
  <2>9. \A A \in SUBSET QueryAt : In(stack', A) = In(stack, A)
    BY <2>5, <2>8
  <2>10. batch' \subseteq Events /\ \A x \in batch' : list[x.slot] # 0
    BY <2>2, TypesKept
  <2> QED BY <2>1, <2>6, <2>8, <2>9, <2>10, TypesKept, NothingMoves
<1> QED BY <1>3, <1>4 DEF Loop

\* The environment leaves queries, sockets, table and stack alone.  It may act
\* while the sockets are being closed.
LEMMA OutsideKeeps ==
  ASSUME DnsInv, UNCHANGED <<query, sock, list, watch, batch, stack, called>>,
         others' \subseteq Fds, asked' \in [Servers -> SUBSET Lookups],
         inbox' \in [Servers -> SUBSET (Lookups \X Kinds)], refused' \subseteq Servers,
         due' \subseteq OpenLookups
  PROVE  DnsInv'
<1>1. /\ OpenLookups' = OpenLookups
      /\ \A k \in Lookups : QueryInv(query', stack', called', k)
  BY QueriesKept
<1>2. SocketInv' /\ Table' = Table
  BY <1>1 DEF DnsInv, SocketInv, Table, Running, Top
<1>3. due' \subseteq Lookups
  BY DEF OpenLookups
<1>4. TypeOK'
  BY <1>3 DEF DnsInv, TypeOK
<1>5. StackInv(stack', OpenLookups')
  BY <1>1 DEF DnsInv
<1> QED BY <1>1, <1>2, <1>4, <1>5 DEF DnsInv

LEMMA StepEnvironment ==
  ASSUME DnsInv, Environment
  PROVE  DnsInv'
<1>1. ASSUME NEW l \in Lookups, ape_gethostbyname(l) PROVE DnsInv'
  BY <1>1, StepGethostbyname
<1>2. ASSUME NEW l \in Lookups, time_passes(l) PROVE DnsInv'
  <2>1. l \in OpenLookups
    BY <1>2 DEF time_passes, OpenLookups
  <2> QED BY <1>2, <2>1, TypesKept, OutsideKeeps DEF time_passes, network
<1>3. ASSUME NEW v \in Servers, NEW l \in Lookups, NEW k \in Kinds, server_answers(v, l, k)
      PROVE  DnsInv'
  <2>1. /\ inbox' = [inbox EXCEPT ![v] = @ \cup {<<l, k>>}]
        /\ asked' = [asked EXCEPT ![v] = @ \ {l}]
        /\ UNCHANGED <<query, sock, list, watch, others, refused, due, batch, stack, called>>
    BY <1>3 DEF server_answers
  <2>2. inbox' \in [Servers -> SUBSET (Lookups \X Kinds)]
    BY <2>1, TypesKept
  <2>3. asked' \in [Servers -> SUBSET Lookups]
    BY <2>1, TypesKept
  <2> QED BY <2>1, <2>2, <2>3, TypesKept, OutsideKeeps
<1>4. ASSUME NEW v \in Servers, server_refuses(v) PROVE DnsInv'
  <2>1. /\ refused' = refused \cup {v} /\ asked' = [asked EXCEPT ![v] = {}]
        /\ UNCHANGED <<query, sock, list, watch, others, inbox, due, batch, stack, called>>
    BY <1>4 DEF server_refuses
  <2>2. asked' \in [Servers -> SUBSET Lookups]
    BY <2>1, TypesKept
  <2> QED BY <2>1, <2>2, TypesKept, OutsideKeeps
<1>5. ASSUME others_open PROVE DnsInv'
  <2>1. NewFd \in Fds
    BY <1>5, NewFdIsFree DEF others_open, FreeFds
  <2> QED BY <1>5, <2>1, TypesKept, OutsideKeeps DEF others_open, network
<1>6. ASSUME NEW f \in Fds, others_close(f) PROVE DnsInv'
  BY <1>6, TypesKept, OutsideKeeps DEF others_close, network
<1> QED BY <1>1, <1>2, <1>3, <1>4, <1>5, <1>6 DEF Environment

LEMMA StepKeepsInv ==
  ASSUME DnsInv, [Next]_vars
  PROVE  DnsInv'
<1>1. CASE Cares
  BY <1>1, StepSendOpens, StepSendWritten, StepSendFails, StepNextServer,
     StepEndQuery, StepCallbackReturns, StepCloseSockets, StepReadAnswer,
     StepReadError, StepMoveOn, StepAllMoved, StepReadNothing,
     StepProcessTimeout, StepTimeoutsDone DEF Cares
<1>2. CASE Loop
  BY <1>2, StepLoop
<1>3. CASE Environment
  BY <1>3, StepEnvironment
<1>4. CASE UNCHANGED vars
  BY <1>4, TypesKept, OutsideKeeps DEF vars
<1> QED BY <1>1, <1>2, <1>3, <1>4 DEF Next

LEMMA InitInv ==
  ASSUME Init
  PROVE  DnsInv
<1>1. OpenLookups = {}
  BY DEF Init, OpenLookups, Open, NoQuery
<1>2. TypeOK
  BY Bounds DEF Init, TypeOK, Slots, network
<1>3. stack = <<>> /\ Len(stack) = 0 /\ stack \in Seq(Calls)
  BY DEF Init
<1>4. \A A : In(stack, A) = {}
  BY <1>3 DEF In
<1>5. StackInv(stack, OpenLookups)
  BY <1>3, <1>4 DEF StackInv, Busy
<1>6. \A l \in Lookups : QueryInv(query, stack, called, l)
  BY <1>4, Bounds DEF Init, QueryInv, NoQuery
<1>7. TableInv(Table)
  BY SizesAreNats DEF Init, TableInv, Table, Slots, Bad
<1>8. SocketInv
  BY DEF Init, SocketInv
<1>9. due \subseteq OpenLookups /\ \A e \in batch : list[e.slot] # 0
  BY DEF Init
<1> QED BY <1>2, <1>5, <1>6, <1>7, <1>8, <1>9 DEF DnsInv

LEMMA Invariant == Spec => []DnsInv
<1>1. Init => DnsInv
  BY InitInv
<1>2. DnsInv /\ [Next]_vars => DnsInv'
  BY StepKeepsInv
<1> QED BY <1>1, <1>2, PTL DEF Spec

-----------------------------------------------------------------------------
(* What follows                                                             *)

\* The state of c-ares, of the table and of the kernel stays well formed: among
\* other things, the loop hands ares_io a descriptor, never an unused slot, and
\* no attempt is counted beyond NServers * Tries.
THEOREM TypeCorrect == Spec => []TypeOK
<1>1. DnsInv => TypeOK
  BY DEF DnsInv
<1> QED BY <1>1, Invariant, PTL

\* Whatever crosses what, the callback of a lookup is called at most once, and
\* it has been called when the lookup has ended (end_query, ares_gethostbyname_cb).
THEOREM CalledOnceHolds == Spec => []CalledOnce
<1>1. DnsInv => CalledOnce
  <2> SUFFICES ASSUME DnsInv, NEW l \in Lookups
               PROVE  called[l] <= 1 /\ (Done(l) => called[l] = 1)
    BY DEF CalledOnce
  <2>1. QueryInv(query, stack, called, l)
    BY DEF DnsInv
  <2> QED BY <2>1 DEF QueryInv, Done
<1> QED BY <1>1, Invariant, PTL

\* When no lookup is open, and c-ares has closed its sockets, none is left and
\* epoll reports no descriptor of c-ares.
THEOREM ClosedWhenIdleHolds == Spec => []ClosedWhenIdle
<1>1. DnsInv => ClosedWhenIdle
  <2> SUFFICES ASSUME DnsInv, \A l \in Lookups : ~Open(l), ~Running("close")
               PROVE  (\A v \in Servers : sock[v] = Bad) /\ Watched = {}
    BY DEF ClosedWhenIdle
  <2>1. OpenLookups = {}
    BY DEF OpenLookups
  <2>2. \A v \in Servers : sock[v] = Bad
    BY <2>1 DEF DnsInv, SocketInv
  <2>3. Watched = {}
    BY <2>2, Bounds DEF DnsInv, SocketInv, Watched
  <2> QED BY <2>2, <2>3
<1> QED BY <1>1, Invariant, PTL

\* As long as slot 0, which is taken last, is unused, an event is handled for the
\* descriptor it is about, however many descriptors the process has.
THEOREM RightUntilFull == Spec => [](list[0] = 0 => RightDescriptor)
<1>1. DnsInv => (list[0] = 0 => RightDescriptor)
  BY DEF DnsInv, TableInv, Table, RightDescriptor
<1> QED BY <1>1, Invariant, PTL

\* With no more descriptors than slots it always is.
THEOREM RightDescriptorHolds ==
  ASSUME MaxFd <= TableSize
  PROVE  Spec => []RightDescriptor
<1>1. DnsInv => RightDescriptor
  BY DEF DnsInv, TableInv, Table, RightDescriptor
<1> QED BY <1>1, Invariant, PTL

=============================================================================
