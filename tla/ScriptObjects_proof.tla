------------------------- MODULE ScriptObjects_proof -------------------------
(***************************************************************************)
(* Proofs about ScriptObjects and the array that holds its listeners, for   *)
(* any number of sockets, names, listeners, timers and nested calls and     *)
(* any sizes of the arrays.                                                *)
(***************************************************************************)
EXTENDS ScriptObjects, ApeArray_proof, FiniteSetTheorems

(* Positions                                                                *)

LEMMA LastOfIsGreatest ==
  ASSUME NEW N \in Nat, NEW S, S \subseteq 1..N, S # {}
  PROVE  LastOf(S) \in S /\ \A q \in S : q <= LastOf(S)
BY GreatestExists DEF LastOf

LEMMA LastOfIs ==
  ASSUME NEW N \in Nat, NEW S, S \subseteq 1..N, NEW p \in S, \A q \in S : q <= p
  PROVE  LastOf(S) = p
<1> DEFINE l == LastOf(S)
<1>1. l \in S /\ p <= l
  BY LastOfIsGreatest
<1> HIDE DEF l
<1>2. l = p
  <2>1. l \in Nat /\ p \in Nat /\ l <= p
    BY <1>1
  <2> QED BY <1>1, <2>1
<1> QED BY <1>2 DEF l

(* Arrays to which items are only added                                     *)

\* What a new value does: the item is the same but for the value.
LEMMA HeldValue ==
  ASSUME NEW Ks, NEW Vs, NEW a \in ArrayOf(Ks, Vs), Filled(a), NEW p \in UsedIn(a), NEW value \in Vs
  PROVE  LET r == Holds(a, p, value)
         IN  /\ r \in ArrayOf(Ks, Vs)
             /\ Filled(r)
             /\ UsedIn(r) = UsedIn(a)
             /\ r.slots[p].key = a.slots[p].key /\ r.slots[p].value = value
             /\ \A q \in UsedIn(a) : q # p => r.slots[q] = a.slots[q]
<1> DEFINE S == {Unused} \cup [used : {TRUE}, key : Ks, value : Vs]
           item == [a.slots[p] EXCEPT !.value = value]
           slots == [a.slots EXCEPT ![p] = item]
           r == [slots |-> slots, current |-> a.current]
<1>1. /\ Len(a.slots) \in Nat /\ DOMAIN a.slots = 1..Len(a.slots) /\ a.current \in Nat
      /\ a.slots \in Seq(S) /\ a = [slots |-> a.slots, current |-> a.current]
  BY ArrayTypes
<1>2. Holds(a, p, value) = r
  <2>1. [a EXCEPT !.slots = slots] = r
    <3> HIDE DEF slots
    <3> QED BY <1>1
  <2> QED BY <2>1 DEF Holds
<1>3. p \in 1..Len(a.slots) /\ a.slots[p].used
  BY <1>1 DEF UsedIn
<1>4. a.slots[p] \in [used : {TRUE}, key : Ks, value : Vs]
  <2>1. a.slots[p] \in S
    BY <1>1, <1>3, ElementOfSeq
  <2>2. a.slots[p] # Unused
    BY <1>3 DEF Unused
  <2> QED BY <2>1, <2>2
<1>5. item \in [used : {TRUE}, key : Ks, value : Vs]
  BY <1>4
<1>6. item.key = a.slots[p].key /\ item.value = value /\ item.used = TRUE
  BY <1>4
<1> HIDE DEF S
<1>7. /\ slots \in Seq(S) /\ Len(slots) = Len(a.slots) /\ DOMAIN slots = 1..Len(a.slots)
      /\ \A j \in 1..Len(a.slots) : slots[j] = IF j = p THEN item ELSE a.slots[j]
  <2>1. item \in S
    BY <1>5 DEF S
  <2> HIDE DEF item
  <2>2. /\ slots \in Seq(S) /\ Len(slots) = Len(a.slots)
        /\ \A j \in 1..Len(a.slots) : slots[j] = IF j = p THEN item ELSE a.slots[j]
    BY <1>1, <1>3, <2>1, ExceptSeq
  <2> HIDE DEF slots
  <2> QED BY <2>2, LenProperties
<1> HIDE DEF slots, item
<1>8. r \in ArrayOf(Ks, Vs)
  BY <1>1, <1>7 DEF ArrayOf, S
<1>9. \A q \in 1..Len(a.slots) : slots[q].used = a.slots[q].used
  <2>1. a.slots[p].used = TRUE
    BY <1>4
  <2> QED BY <1>3, <1>6, <1>7, <2>1
<1>10. Filled(r)
  BY <1>1, <1>7, <1>9 DEF Filled
<1>11. UsedIn(r) = UsedIn(a)
  <2>1. UsedIn(r) = {q \in 1..Len(a.slots) : slots[q].used}
    BY <1>7 DEF UsedIn
  <2>2. UsedIn(a) = {q \in 1..Len(a.slots) : a.slots[q].used}
    BY <1>1 DEF UsedIn
  <2> QED BY <1>9, <2>1, <2>2
<1>12. slots[p].key = a.slots[p].key /\ slots[p].value = value
  BY <1>3, <1>6, <1>7
<1>13. \A q \in UsedIn(a) : q # p => slots[q] = a.slots[q]
  BY <1>1, <1>7 DEF UsedIn
<1> QED BY <1>2, <1>8, <1>10, <1>11, <1>12, <1>13

(* Listeners                                                                *)

Registration == [object : Objects, key : Key, cell : Cell]

\* In the history r: the registrations with this object and key, and the cell of
\* the last of some.
Heard(r, o, key) == {n \in DOMAIN r : r[n].object = o /\ r[n].key = key}
LastCell(r, positions) == IF positions = {} THEN 0 ELSE r[LastOf(positions)].cell

\* An array of listeners has one item for each name that was registered, in the
\* order in which these came first, and its value is the last listener.
ArrayInv(a, r, o) ==
  /\ Filled(a)
  /\ \A p \in UsedIn(a) :
       /\ Heard(r, o, a.slots[p].key) # {}
       /\ a.slots[p].value = LastCell(r, Heard(r, o, a.slots[p].key))
  /\ \A p, q \in UsedIn(a) : p < q =>
       \E n \in Heard(r, o, a.slots[p].key) : \A m \in Heard(r, o, a.slots[q].key) : n < m
  /\ \A n \in DOMAIN r : r[n].object = o => \E p \in UsedIn(a) : a.slots[p].key = r[n].key

\* Each listener is in front of the one before it, and its cell is in use.
LinksInv(r, nx, fn) ==
  \A n \in DOMAIN r :
    /\ fn[r[n].cell] # "none"
    /\ nx[r[n].cell] = LastCell(r, {m \in Heard(r, r[n].object, r[n].key) : m < n})

\* What a call still owes are the listeners of one name up to some registration,
\* the last of which is running.
OwesRest(c, r) ==
  c.what \in Events =>
    \E key \in Key, b \in 0..Len(r) :
      /\ c.owed = {m \in Heard(r, c.this, key) : m <= b}
      /\ c.at = LastCell(r, c.owed)

LEMMA HeardTypes ==
  ASSUME NEW r \in Seq(Registration), NEW o, NEW key
  PROVE  /\ Len(r) \in Nat /\ DOMAIN r = 1..Len(r)
         /\ Heard(r, o, key) \subseteq 1..Len(r)
         /\ \A n \in 1..Len(r) : r[n].object \in Objects /\ r[n].key \in Key /\ r[n].cell \in Cell
<1>1. Len(r) \in Nat /\ DOMAIN r = 1..Len(r)
  BY LenProperties
<1>2. \A n \in 1..Len(r) : r[n] \in Registration
  BY ElementOfSeq
<1> QED BY <1>1, <1>2 DEF Heard, Registration

LEMMA LastCellTypes ==
  ASSUME NEW r \in Seq(Registration), NEW S, S \subseteq 1..Len(r)
  PROVE  /\ LastCell(r, S) \in Cell \cup {0}
         /\ LastCell(r, S) = 0 <=> S = {}
<1>1. CASE S = {}
  BY <1>1 DEF LastCell
<1>2. CASE S # {}
  <2>1. LastOf(S) \in 1..Len(r)
    BY <1>2, HeardTypes, LastOfIsGreatest
  <2>2. LastCell(r, S) \in Cell
    BY <1>2, <2>1, HeardTypes DEF LastCell
  <2>3. 0 \notin Cell
    BY BoundsAreNatural DEF Cell
  <2> QED BY <1>2, <2>2, <2>3
<1> QED BY <1>1, <1>2

\* One more registration.
LEMMA OneMore ==
  ASSUME NEW r \in Seq(Registration), NEW x \in Registration
  PROVE  LET t == Append(r, x)
             N == Len(r)
         IN  /\ t \in Seq(Registration) /\ Len(t) = N + 1 /\ DOMAIN t = 1..(N + 1)
             /\ \A n \in 1..N : t[n] = r[n]
             /\ t[N + 1] = x
             /\ \A o, key : Heard(t, o, key) = IF x.object = o /\ x.key = key
                                               THEN Heard(r, o, key) \cup {N + 1}
                                               ELSE Heard(r, o, key)
             /\ \A S \in SUBSET (1..N) : LastCell(t, S) = LastCell(r, S)
             /\ \A S \in SUBSET (1..N) : LastCell(t, S \cup {N + 1}) = x.cell
<1> DEFINE t == Append(r, x)
           N == Len(r)
<1>1. N \in Nat /\ DOMAIN r = 1..N
  BY HeardTypes
<1>2. /\ t \in Seq(Registration) /\ Len(t) = N + 1
      /\ \A n \in 1..N : t[n] = r[n]
      /\ t[N + 1] = x
  BY AppendProperties
<1> HIDE DEF t
<1>3. DOMAIN t = 1..(N + 1)
  BY <1>2, LenProperties
<1> HIDE DEF N
<1>4. ASSUME NEW o, NEW key
      PROVE  Heard(t, o, key) = IF x.object = o /\ x.key = key
                                THEN Heard(r, o, key) \cup {N + 1} ELSE Heard(r, o, key)
  <2>1. \A n : n \in 1..(N + 1) <=> n \in 1..N \/ n = N + 1
    BY <1>1
  <2>2. ~ (N + 1 \in 1..N)
    BY <1>1
  <2> QED BY <1>1, <1>2, <1>3, <2>1, <2>2 DEF Heard
<1>5. ASSUME NEW S \in SUBSET (1..N)
      PROVE  LastCell(t, S) = LastCell(r, S)
  <2>1. CASE S = {}
    BY <2>1 DEF LastCell
  <2>2. CASE S # {}
    <3>1. LastOf(S) \in 1..N
      BY <1>1, <2>2, LastOfIsGreatest
    <3> QED BY <1>2, <2>2, <3>1 DEF LastCell
  <2> QED BY <2>1, <2>2
<1>6. ASSUME NEW S \in SUBSET (1..N)
      PROVE  LastCell(t, S \cup {N + 1}) = x.cell
  <2>1. S \cup {N + 1} \subseteq 1..(N + 1) /\ N + 1 \in Nat
    BY <1>1
  <2>2. \A q \in S \cup {N + 1} : q <= N + 1
    BY <1>1
  <2>3. LastOf(S \cup {N + 1}) = N + 1
    <3>1. N + 1 \in S \cup {N + 1}
      OBVIOUS
    <3>2. PICK M, T : M = N + 1 /\ T = S \cup {N + 1}
      OBVIOUS
    <3>3. M \in Nat /\ T \subseteq 1..M /\ M \in T /\ \A q \in T : q <= M
      BY <2>1, <2>2, <3>1, <3>2
    <3>4. LastOf(T) = M
      BY <3>3, LastOfIs
    <3> QED BY <3>2, <3>4
  <2>4. S \cup {N + 1} # {}
    OBVIOUS
  <2> QED BY <1>2, <2>3, <2>4 DEF LastCell
<1> QED BY <1>2, <1>3, <1>4, <1>5, <1>6 DEF t, N

\* No two items have the same name.
LEMMA NamesDifferIn ==
  ASSUME NEW a \in ArrayOf(Key, Cell), NEW r \in Seq(Registration), NEW o, ArrayInv(a, r, o)
  PROVE  \A p, q \in UsedIn(a) : a.slots[p].key = a.slots[q].key => p = q
<1> SUFFICES ASSUME NEW p \in UsedIn(a), NEW q \in UsedIn(a), a.slots[p].key = a.slots[q].key, p # q
             PROVE  FALSE
  OBVIOUS
<1>1. p \in Nat /\ q \in Nat
  BY UsedInFilled DEF ArrayInv
<1>2. ASSUME NEW i \in UsedIn(a), NEW j \in UsedIn(a), i < j, a.slots[i].key = a.slots[j].key
      PROVE  FALSE
  <2>1. PICK n \in Heard(r, o, a.slots[i].key) : \A m \in Heard(r, o, a.slots[j].key) : n < m
    BY <1>2 DEF ArrayInv
  <2>2. n < n
    BY <1>2, <2>1
  <2>3. n \in Nat
    BY HeardTypes
  <2> QED BY <2>2, <2>3
<1>3. p < q \/ q < p
  BY <1>1
<1> QED BY <1>2, <1>3

\* The item of a name leads to its last listener.
LEMMA ItemIsLast ==
  ASSUME NEW a \in ArrayOf(Key, Cell), NEW r \in Seq(Registration), NEW o, ArrayInv(a, r, o),
         NEW key
  PROVE  LET p == ape_array_lookup_item(a, key)
         IN  /\ p \in UsedIn(a) \cup {0}
             /\ p = 0 => Heard(r, o, key) = {} /\ \A q \in UsedIn(a) : a.slots[q].key # key
             /\ p # 0 => p \in UsedIn(a) /\ a.slots[p].key = key
             /\ (IF p = 0 THEN 0 ELSE a.slots[p].value) = LastCell(r, Heard(r, o, key))
<1> DEFINE p == ape_array_lookup_item(a, key)
<1>1. Filled(a)
  BY DEF ArrayInv
<1>2. /\ p = 0 <=> \A q \in UsedIn(a) : a.slots[q].key # key
      /\ \A q \in UsedIn(a) : a.slots[q].key = key => p = q
      /\ p \in UsedIn(a) \cup {0}
  BY <1>1, NamesDifferIn, ItemFound
<1> HIDE DEF p
<1>3. 0 \notin UsedIn(a)
  BY <1>1, UsedInFilled
<1>4. CASE p = 0
  <2>1. Heard(r, o, key) = {}
    BY <1>2, <1>4 DEF ArrayInv, Heard
  <2>2. LastCell(r, Heard(r, o, key)) = 0
    BY <2>1 DEF LastCell
  <2> QED BY <1>2, <1>4, <2>1, <2>2 DEF p
<1>5. CASE p # 0
  <2>1. p \in UsedIn(a) /\ a.slots[p].key = key
    BY <1>2, <1>5
  <2>2. a.slots[p].value = LastCell(r, Heard(r, o, key))
    BY <2>1 DEF ArrayInv
  <2> QED BY <1>5, <2>1, <2>2 DEF p
<1> QED BY <1>4, <1>5

LEMMA FreshArray ==
  ASSUME NEW r \in Seq(Registration), NEW o, \A n \in DOMAIN r : r[n].object # o
  PROVE  ape_array_new \in ArrayOf(Key, Cell) /\ ArrayInv(ape_array_new, r, o)
BY NewArray DEF ArrayInv

\* A listener of another object leaves the array right.
LEMMA OtherArray ==
  ASSUME NEW a \in ArrayOf(Key, Cell), NEW r \in Seq(Registration), NEW o, ArrayInv(a, r, o),
         NEW x \in Registration, x.object # o
  PROVE  ArrayInv(a, Append(r, x), o)
<1> DEFINE t == Append(r, x)
<1>1. /\ DOMAIN t = 1..(Len(r) + 1)
      /\ \A n \in 1..Len(r) : t[n] = r[n]
      /\ t[Len(r) + 1] = x
      /\ \A key : Heard(t, o, key) = Heard(r, o, key)
      /\ \A S \in SUBSET (1..Len(r)) : LastCell(t, S) = LastCell(r, S)
  <2>1. /\ DOMAIN t = 1..(Len(r) + 1)
        /\ \A n \in 1..Len(r) : t[n] = r[n]
        /\ t[Len(r) + 1] = x
        /\ \A other, name : Heard(t, other, name) = IF x.object = other /\ x.key = name
                                                   THEN Heard(r, other, name) \cup {Len(r) + 1}
                                                   ELSE Heard(r, other, name)
        /\ \A S \in SUBSET (1..Len(r)) : LastCell(t, S) = LastCell(r, S)
    BY OneMore, ZenonT(30)
  <2> HIDE DEF t
  <2>2. \A key : Heard(t, o, key) = Heard(r, o, key)
    BY <2>1
  <2> QED BY <2>1, <2>2
<1> HIDE DEF t
<1>2. Len(r) \in Nat /\ DOMAIN r = 1..Len(r) /\ \A key : Heard(r, o, key) \in SUBSET (1..Len(r))
  BY HeardTypes
<1>3. \A key : LastCell(t, Heard(t, o, key)) = LastCell(r, Heard(r, o, key))
  BY <1>1, <1>2
<1>4. ASSUME NEW n \in DOMAIN t, t[n].object = o
      PROVE  \E p \in UsedIn(a) : a.slots[p].key = t[n].key
  <2>1. n # Len(r) + 1
    BY <1>1, <1>4
  <2>2. n \in DOMAIN r /\ t[n] = r[n]
    <3>1. n \in 1..Len(r) + 1
      BY <1>1, <1>4
    <3>2. n \in 1..Len(r)
      BY <1>2, <2>1, <3>1
    <3> QED BY <1>1, <1>2, <3>2
  <2> QED BY <1>4, <2>2 DEF ArrayInv
<1> QED BY <1>1, <1>3, <1>4, ZenonT(30) DEF ArrayInv, t

\* The first listener of a name takes a new item.
LEMMA FirstOfName ==
  ASSUME NEW a \in ArrayOf(Key, Cell), NEW r \in Seq(Registration), NEW o \in Objects,
         ArrayInv(a, r, o), NEW key \in Key, NEW c \in Cell,
         \A p \in UsedIn(a) : a.slots[p].key # key
  PROVE  LET b == ape_array_add(a, key, c)
         IN  /\ b \in ArrayOf(Key, Cell)
             /\ ArrayInv(b, Append(r, [object |-> o, key |-> key, cell |-> c]), o)
<1> DEFINE b == ape_array_add(a, key, c)
           x == [object |-> o, key |-> key, cell |-> c]
           t == Append(r, x)
           N == Len(r)
<1>1. Filled(a)
  BY DEF ArrayInv
<1>15. b = ape_array_add(a, key, c)
  OBVIOUS
<1> HIDE DEF b
<1>2. /\ b \in ArrayOf(Key, Cell) /\ Filled(b)
      /\ \E k \in Nat \ {0} :
           /\ UsedIn(a) = 1..(k - 1) /\ UsedIn(b) = 1..k
           /\ b.slots[k].key = key /\ b.slots[k].value = c
           /\ \A p \in 1..(k - 1) : b.slots[p] = a.slots[p]
  <2>1. Adds(Key, Cell, a, key, c, b)
    BY <1>1, <1>15 DEF Adds
  <2>2. Added(Key, Cell, a, key, c, b)
    BY <2>1, AddedItem
  <2> QED BY <2>2 DEF Added
<1>3. PICK k \in Nat \ {0} :
        /\ UsedIn(a) = 1..(k - 1) /\ UsedIn(b) = 1..k
        /\ b.slots[k].key = key /\ b.slots[k].value = c
        /\ \A p \in 1..(k - 1) : b.slots[p] = a.slots[p]
  BY <1>2
<1>4. x \in Registration /\ x.object = o /\ x.key = key /\ x.cell = c
  BY DEF Registration
<1> HIDE DEF x
<1>5. /\ DOMAIN t = 1..(N + 1)
      /\ \A n \in 1..N : t[n] = r[n]
      /\ t[N + 1] = x
      /\ Heard(t, o, key) = Heard(r, o, key) \cup {N + 1}
      /\ \A other : other # key => Heard(t, o, other) = Heard(r, o, other)
      /\ \A S \in SUBSET (1..N) : LastCell(t, S) = LastCell(r, S)
      /\ \A S \in SUBSET (1..N) : LastCell(t, S \cup {N + 1}) = c
  <2>1. /\ DOMAIN t = 1..(N + 1)
        /\ \A n \in 1..N : t[n] = r[n]
        /\ t[N + 1] = x
        /\ \A other, name : Heard(t, other, name) = IF x.object = other /\ x.key = name
                                                   THEN Heard(r, other, name) \cup {N + 1}
                                                   ELSE Heard(r, other, name)
        /\ \A S \in SUBSET (1..N) : LastCell(t, S) = LastCell(r, S)
        /\ \A S \in SUBSET (1..N) : LastCell(t, S \cup {N + 1}) = x.cell
    BY <1>4, OneMore
  <2> HIDE DEF t, N
  <2>2. Heard(t, o, key) = Heard(r, o, key) \cup {N + 1}
    BY <1>4, <2>1
  <2>3. \A other : other # key => Heard(t, o, other) = Heard(r, o, other)
    BY <1>4, <2>1
  <2> QED BY <1>4, <2>1, <2>2, <2>3
<1> HIDE DEF t, N
<1>6. N \in Nat /\ DOMAIN r = 1..N /\ \A other : Heard(r, o, other) \in SUBSET (1..N)
  BY HeardTypes DEF N
<1>7. Heard(r, o, key) = {}
  BY DEF ArrayInv, Heard
<1>8. \A p \in UsedIn(b) : p \in UsedIn(a) \/ p = k
  BY <1>3
<1>9. \A p \in UsedIn(a) : b.slots[p] = a.slots[p] /\ p < k
  BY <1>3
<1>10. \A p \in UsedIn(a) : Heard(t, o, b.slots[p].key) = Heard(r, o, a.slots[p].key)
  BY <1>5, <1>9
<1>11. ASSUME NEW p \in UsedIn(b)
       PROVE  /\ Heard(t, o, b.slots[p].key) # {}
              /\ b.slots[p].value = LastCell(t, Heard(t, o, b.slots[p].key))
  <2>1. CASE p \in UsedIn(a)
    <3>1. LastCell(t, Heard(t, o, b.slots[p].key)) = LastCell(r, Heard(r, o, a.slots[p].key))
      BY <1>5, <1>6, <1>10, <2>1
    <3> QED BY <1>9, <1>10, <2>1, <3>1 DEF ArrayInv
  <2>2. CASE p = k
    BY <1>3, <1>5, <1>6, <2>2
  <2> QED BY <1>8, <2>1, <2>2
<1>12. ASSUME NEW p \in UsedIn(b), NEW q \in UsedIn(b), p < q
       PROVE  \E n \in Heard(t, o, b.slots[p].key) : \A m \in Heard(t, o, b.slots[q].key) : n < m
  <2>1. p \in UsedIn(a)
    BY <1>3, <1>12
  <2>2. CASE q \in UsedIn(a)
    <3>1. \E n \in Heard(r, o, a.slots[p].key) : \A m \in Heard(r, o, a.slots[q].key) : n < m
      BY <1>12, <2>1, <2>2 DEF ArrayInv
    <3> QED BY <1>10, <2>1, <2>2, <3>1
  <2>3. CASE q = k
    <3>1. Heard(t, o, b.slots[q].key) = {N + 1}
      BY <1>3, <1>5, <1>7, <2>3
    <3>2. PICK n \in Heard(r, o, a.slots[p].key) : TRUE
      BY <2>1 DEF ArrayInv
    <3>3. n < N + 1
      BY <1>6, <3>2
    <3> QED BY <1>10, <2>1, <3>1, <3>2, <3>3
  <2> QED BY <1>8, <2>2, <2>3
<1>13. ASSUME NEW n \in DOMAIN t, t[n].object = o
       PROVE  \E p \in UsedIn(b) : b.slots[p].key = t[n].key
  <2>1. CASE n = N + 1
    <3>1. k \in UsedIn(b)
      BY <1>3
    <3> QED BY <1>3, <1>4, <1>5, <2>1, <3>1
  <2>2. CASE n # N + 1
    <3>1. n \in DOMAIN r /\ t[n] = r[n]
      BY <1>5, <1>6, <2>2
    <3>2. PICK p \in UsedIn(a) : a.slots[p].key = r[n].key
      BY <1>13, <3>1 DEF ArrayInv
    <3>3. p \in UsedIn(b)
      BY <1>3
    <3> QED BY <1>9, <3>1, <3>2, <3>3
  <2> QED BY <2>1, <2>2
<1>14. ArrayInv(b, t, o)
  BY <1>2, <1>11, <1>12, <1>13 DEF ArrayInv
<1> QED BY <1>2, <1>14 DEF b, t, x

\* A later one takes over the item, in front of the others.
LEMMA NextOfName ==
  ASSUME NEW a \in ArrayOf(Key, Cell), NEW r \in Seq(Registration), NEW o \in Objects,
         ArrayInv(a, r, o), NEW key \in Key, NEW c \in Cell,
         NEW p \in UsedIn(a), a.slots[p].key = key
  PROVE  LET b == Holds(a, p, c)
         IN  /\ b \in ArrayOf(Key, Cell)
             /\ ArrayInv(b, Append(r, [object |-> o, key |-> key, cell |-> c]), o)
<1> DEFINE b == Holds(a, p, c)
           x == [object |-> o, key |-> key, cell |-> c]
           t == Append(r, x)
           N == Len(r)
<1>1. Filled(a)
  BY DEF ArrayInv
<1>2. /\ b \in ArrayOf(Key, Cell) /\ Filled(b) /\ UsedIn(b) = UsedIn(a)
      /\ b.slots[p].key = a.slots[p].key /\ b.slots[p].value = c
      /\ \A q \in UsedIn(a) : q # p => b.slots[q] = a.slots[q]
  BY <1>1, HeldValue
<1> HIDE DEF b
<1>4. x \in Registration /\ x.object = o /\ x.key = key /\ x.cell = c
  BY DEF Registration
<1> HIDE DEF x
<1>5. /\ DOMAIN t = 1..(N + 1)
      /\ \A n \in 1..N : t[n] = r[n]
      /\ t[N + 1] = x
      /\ Heard(t, o, key) = Heard(r, o, key) \cup {N + 1}
      /\ \A other : other # key => Heard(t, o, other) = Heard(r, o, other)
      /\ \A S \in SUBSET (1..N) : LastCell(t, S) = LastCell(r, S)
      /\ \A S \in SUBSET (1..N) : LastCell(t, S \cup {N + 1}) = c
  <2>1. /\ DOMAIN t = 1..(N + 1)
        /\ \A n \in 1..N : t[n] = r[n]
        /\ t[N + 1] = x
        /\ \A other, name : Heard(t, other, name) = IF x.object = other /\ x.key = name
                                                   THEN Heard(r, other, name) \cup {N + 1}
                                                   ELSE Heard(r, other, name)
        /\ \A S \in SUBSET (1..N) : LastCell(t, S) = LastCell(r, S)
        /\ \A S \in SUBSET (1..N) : LastCell(t, S \cup {N + 1}) = x.cell
    BY <1>4, OneMore, ZenonT(30)
  <2> HIDE DEF t, N
  <2>2. Heard(t, o, key) = Heard(r, o, key) \cup {N + 1}
    BY <1>4, <2>1
  <2>3. \A other : other # key => Heard(t, o, other) = Heard(r, o, other)
    BY <1>4, <2>1
  <2> QED BY <1>4, <2>1, <2>2, <2>3
<1> HIDE DEF t, N
<1>6. N \in Nat /\ DOMAIN r = 1..N /\ \A other : Heard(r, o, other) \in SUBSET (1..N)
  BY HeardTypes DEF N
<1>7. \A q \in UsedIn(a) : b.slots[q].key = a.slots[q].key
  BY <1>2
<1>8. \A q \in UsedIn(a) : q # p => a.slots[q].key # key
  BY NamesDifferIn
<1>9. \A q \in UsedIn(a) : q # p => Heard(t, o, b.slots[q].key) = Heard(r, o, a.slots[q].key)
  BY <1>5, <1>7, <1>8
<1>10. Heard(t, o, b.slots[p].key) = Heard(r, o, a.slots[p].key) \cup {N + 1}
  BY <1>5, <1>7
<1>11. ASSUME NEW q \in UsedIn(b)
       PROVE  /\ Heard(t, o, b.slots[q].key) # {}
              /\ b.slots[q].value = LastCell(t, Heard(t, o, b.slots[q].key))
  <2>1. CASE q # p
    <3>1. LastCell(t, Heard(t, o, b.slots[q].key)) = LastCell(r, Heard(r, o, a.slots[q].key))
      BY <1>2, <1>5, <1>6, <1>9, <2>1
    <3> QED BY <1>2, <1>9, <2>1, <3>1 DEF ArrayInv
  <2>2. CASE q = p
    BY <1>2, <1>5, <1>6, <1>10, <2>2
  <2> QED BY <2>1, <2>2
<1>12. ASSUME NEW i \in UsedIn(b), NEW j \in UsedIn(b), i < j
       PROVE  \E n \in Heard(t, o, b.slots[i].key) : \A m \in Heard(t, o, b.slots[j].key) : n < m
  <2>1. PICK n \in Heard(r, o, a.slots[i].key) : \A m \in Heard(r, o, a.slots[j].key) : n < m
    BY <1>2, <1>12 DEF ArrayInv
  <2>2. n \in Heard(t, o, b.slots[i].key)
    BY <1>2, <1>9, <1>10, <2>1
  <2>3. n < N + 1
    BY <1>6, <2>1
  <2>4. \A m \in Heard(t, o, b.slots[j].key) : m \in Heard(r, o, a.slots[j].key) \/ m = N + 1
    BY <1>2, <1>9, <1>10
  <2> QED BY <2>1, <2>2, <2>3, <2>4
<1>13. ASSUME NEW n \in DOMAIN t, t[n].object = o
       PROVE  \E q \in UsedIn(b) : b.slots[q].key = t[n].key
  <2>1. CASE n = N + 1
    BY <1>2, <1>4, <1>5, <2>1
  <2>2. CASE n # N + 1
    <3>1. n \in DOMAIN r /\ t[n] = r[n]
      BY <1>5, <1>6, <2>2
    <3>2. PICK q \in UsedIn(a) : a.slots[q].key = r[n].key
      BY <1>13, <3>1 DEF ArrayInv
    <3> QED BY <1>2, <1>7, <3>1, <3>2
  <2> QED BY <2>1, <2>2
<1>14. ArrayInv(b, t, o)
  BY <1>2, <1>11, <1>12, <1>13 DEF ArrayInv
<1> QED BY <1>2, <1>14 DEF b, t, x

\* What an event is to call: the listeners of the name registered first.
OwedTo(r, o, event) ==
  LET ours == {n \in DOMAIN r : r[n].object = o /\ r[n].key.event = event}
  IN  IF ours = {} THEN {} ELSE Heard(r, o, r[FirstOf(ours)].key)

\* The first item for an event is that of this name.
LEMMA EventIsFirst ==
  ASSUME NEW a \in ArrayOf(Key, Cell), NEW r \in Seq(Registration), NEW o, ArrayInv(a, r, o),
         NEW event \in Events
  PROVE  LET p == ape_array_lookup(a, Spellings(event))
         IN  /\ (IF p = 0 THEN 0 ELSE a.slots[p].value) = LastCell(r, OwedTo(r, o, event))
             /\ OwedTo(r, o, event) \subseteq 1..Len(r)
             /\ \/ OwedTo(r, o, event) = {}
                \/ \E key \in Key : OwedTo(r, o, event) = Heard(r, o, key)
<1> DEFINE S == {i \in DOMAIN a.slots : a.slots[i].used /\ a.slots[i].key \in Spellings(event)}
           p == FirstOf(S)
           ours == {n \in DOMAIN r : r[n].object = o /\ r[n].key.event = event}
           f == FirstOf(ours)
           owed == IF ours = {} THEN {} ELSE Heard(r, o, r[f].key)
<1>1. \A key \in Key : key \in Spellings(event) <=> key.event = event
  BY DEF Key, Spellings
<1>2. \A i \in UsedIn(a) : a.slots[i].key \in Key
  BY ArrayTypes
<1>3. S = {i \in UsedIn(a) : a.slots[i].key.event = event}
  BY <1>1, <1>2 DEF UsedIn
<1>4. UsedIn(a) \subseteq Nat \ {0}
  BY UsedInFilled DEF ArrayInv
<1>5. /\ Len(r) \in Nat /\ DOMAIN r = 1..Len(r)
      /\ \A n \in 1..Len(r) : r[n].key \in Key
      /\ \A key : Heard(r, o, key) \subseteq 1..Len(r)
  BY HeardTypes
<1>6. ape_array_lookup(a, Spellings(event)) = p
  BY DEF ape_array_lookup
<1>14. OwedTo(r, o, event) = owed
  BY DEF OwedTo
<1> HIDE DEF S
<1>7. (S = {} <=> p = 0) /\ (S # {} => p \in S /\ \A q \in S : p <= q)
  BY <1>3, <1>4, FirstOfIsLeast
<1>8. ours \subseteq Nat \ {0}
  BY <1>5
<1>9. ours \subseteq DOMAIN r /\ \A n \in ours : r[n].object = o /\ r[n].key.event = event
  OBVIOUS
<1>10. \A n \in DOMAIN r : r[n].object = o /\ r[n].key.event = event => n \in ours
  OBVIOUS
<1> HIDE DEF ours
<1>11. ours # {} => f \in ours /\ \A q \in ours : f <= q
  BY <1>8, FirstOfIsLeast
<1> HIDE DEF p, f
<1>12. CASE ours = {}
  <2>1. S = {}
    <3> SUFFICES ASSUME NEW i \in S PROVE FALSE
      OBVIOUS
    <3>1. PICK n \in Heard(r, o, a.slots[i].key) : TRUE
      BY <1>3 DEF ArrayInv
    <3>2. n \in ours
      BY <1>3, <1>10, <3>1 DEF Heard
    <3> QED BY <1>12, <3>2
  <2>2. LastCell(r, owed) = 0
    BY <1>12 DEF LastCell
  <2>3. owed = {} /\ p = 0
    BY <1>7, <1>12, <2>1
  <2> QED BY <1>6, <1>14, <2>2, <2>3
<1>13. CASE ours # {}
  <2>1. f \in ours /\ f \in DOMAIN r /\ r[f].object = o /\ r[f].key.event = event
    BY <1>9, <1>11, <1>13
  <2>2. PICK i \in UsedIn(a) : a.slots[i].key = r[f].key
    BY <2>1 DEF ArrayInv
  <2>3. i \in S
    BY <1>3, <2>1, <2>2
  <2>4. p \in S /\ p <= i
    BY <1>7, <2>3
  <2>5. p = i
    <3> SUFFICES ASSUME p # i PROVE FALSE
      OBVIOUS
    <3>1. p < i
      BY <1>3, <1>4, <2>3, <2>4
    <3>2. PICK n \in Heard(r, o, a.slots[p].key) : \A m \in Heard(r, o, a.slots[i].key) : n < m
      BY <1>3, <2>4, <3>1 DEF ArrayInv
    <3>3. n \in ours
      BY <1>3, <1>10, <2>4, <3>2 DEF Heard
    <3>4. f \in Heard(r, o, a.slots[i].key)
      BY <2>1, <2>2 DEF Heard
    <3>5. n < f /\ f <= n
      BY <1>11, <3>2, <3>3, <3>4
    <3>6. n \in Nat /\ f \in Nat
      BY <1>8, <2>1, <3>3
    <3> QED BY <3>5, <3>6
  <2>6. a.slots[p].value = LastCell(r, owed)
    BY <1>3, <1>13, <2>2, <2>4, <2>5 DEF ArrayInv
  <2>7. p # 0
    BY <1>3, <1>4, <2>4
  <2>8. r[f].key \in Key /\ owed \subseteq 1..Len(r)
    BY <1>5, <2>1
  <2>9. owed = Heard(r, o, r[f].key)
    BY <1>13
  <2> HIDE DEF owed
  <2> QED BY <1>6, <1>14, <2>6, <2>7, <2>8, <2>9
<1> QED BY <1>12, <1>13

\* A new listener does not change what the calls owe.
LEMMA OwesStill ==
  ASSUME NEW r \in Seq(Registration), NEW x \in Registration, NEW c, OwesRest(c, r)
  PROVE  OwesRest(c, Append(r, x))
<1> SUFFICES ASSUME c.what \in Events
             PROVE  \E key \in Key, b \in 0..Len(Append(r, x)) :
                      /\ c.owed = {m \in Heard(Append(r, x), c.this, key) : m <= b}
                      /\ c.at = LastCell(Append(r, x), c.owed)
  BY DEF OwesRest
<1> DEFINE t == Append(r, x)
           N == Len(r)
<1>1. PICK key \in Key, b \in 0..N :
        /\ c.owed = {m \in Heard(r, c.this, key) : m <= b}
        /\ c.at = LastCell(r, c.owed)
  BY DEF OwesRest
<1>2. /\ Len(t) = N + 1
      /\ \A o, name : Heard(t, o, name) = Heard(r, o, name)
                      \/ Heard(t, o, name) = Heard(r, o, name) \cup {N + 1}
      /\ \A S \in SUBSET (1..N) : LastCell(t, S) = LastCell(r, S)
  BY OneMore
<1> HIDE DEF t
<1>3. N \in Nat /\ Heard(r, c.this, key) \subseteq 1..N
  BY HeardTypes
<1> HIDE DEF N
<1>4. {m \in Heard(t, c.this, key) : m <= b} = {m \in Heard(r, c.this, key) : m <= b}
  <2>1. ~ (N + 1 <= b)
    BY <1>3
  <2> QED BY <1>2, <2>1
<1>5. c.at = LastCell(t, c.owed)
  BY <1>1, <1>2, <1>3
<1>6. b \in 0..Len(t)
  BY <1>2, <1>3
<1> QED BY <1>1, <1>4, <1>5, <1>6 DEF t

\* The next listener of a list is the one registered before.
LEMMA OwesOneLess ==
  ASSUME NEW r \in Seq(Registration), NEW c \in Call, OwesRest(c, r), c.what \in Events, c.at # 0,
         NEW nx \in [Cell -> Cell \cup {0}], NEW fn, LinksInv(r, nx, fn),
         NEW d \in Call, d.what = c.what, d.this = c.this, d.at = nx[c.at],
         d.owed = c.owed \ {LastOf(c.owed)}
  PROVE  OwesRest(d, r)
<1> DEFINE l == LastOf(c.owed)
           N == Len(r)
<1>1. PICK key \in Key, b \in 0..N :
        /\ c.owed = {m \in Heard(r, c.this, key) : m <= b}
        /\ c.at = LastCell(r, c.owed)
  BY DEF OwesRest
<1>2. N \in Nat /\ DOMAIN r = 1..N /\ Heard(r, c.this, key) \subseteq 1..N
  BY HeardTypes
<1>3. c.owed \subseteq 1..N /\ c.owed # {}
  BY <1>1, <1>2, LastCellTypes
<1>4. l \in c.owed /\ \A q \in c.owed : q <= l
  BY <1>2, <1>3, LastOfIsGreatest
<1>5. c.at = r[l].cell
  BY <1>1, <1>3 DEF LastCell
<1> HIDE DEF l, N
<1>6. l \in DOMAIN r /\ r[l].object = c.this /\ r[l].key = key
  BY <1>1, <1>2, <1>4 DEF Heard
<1>7. nx[c.at] = LastCell(r, {m \in Heard(r, c.this, key) : m < l})
  BY <1>5, <1>6 DEF LinksInv
<1>8. l \in 1..N
  BY <1>2, <1>6
<1>9. c.owed \ {l} = {m \in Heard(r, c.this, key) : m < l}
  <2>1. \A m \in Heard(r, c.this, key) : m <= b /\ m # l <=> m < l
    <3>1. TAKE m \in Heard(r, c.this, key)
    <3>2. m \in Nat /\ l <= b
      BY <1>1, <1>2, <1>4
    <3>3. m <= b => m <= l
      BY <1>1, <1>4
    <3> QED BY <1>8, <3>2, <3>3
  <2> QED BY <1>1, <2>1
<1>10. c.owed \ {l} = {m \in Heard(r, c.this, key) : m <= l - 1}
  <2>1. \A m \in Heard(r, c.this, key) : m < l <=> m <= l - 1
    BY <1>2, <1>8
  <2> QED BY <1>9, <2>1
<1>11. l - 1 \in 0..N
  BY <1>2, <1>8
<1>12. d.owed = {m \in Heard(r, d.this, key) : m <= l - 1} /\ d.at = LastCell(r, d.owed)
  BY <1>7, <1>9, <1>10 DEF l
<1> QED BY <1>11, <1>12 DEF OwesRest, N

\* A new listener goes in front of those of its name.
LEMMA LinkedInFront ==
  ASSUME NEW r \in Seq(Registration), NEW o \in Objects, NEW key \in Key, NEW c \in Cell,
         NEW nx \in [Cell -> Cell \cup {0}], NEW fn \in [Cell -> {"none", "live", "collected"}],
         LinksInv(r, nx, fn), fn[c] = "none"
  PROVE  LinksInv(Append(r, [object |-> o, key |-> key, cell |-> c]),
                  [nx EXCEPT ![c] = LastCell(r, Heard(r, o, key))], [fn EXCEPT ![c] = "live"])
<1> DEFINE x == [object |-> o, key |-> key, cell |-> c]
           t == Append(r, x)
           N == Len(r)
           head == LastCell(r, Heard(r, o, key))
           nx2 == [nx EXCEPT ![c] = head]
           fn2 == [fn EXCEPT ![c] = "live"]
<1>1. x \in Registration /\ x.object = o /\ x.key = key /\ x.cell = c
  BY DEF Registration
<1> HIDE DEF x
<1>2. /\ DOMAIN t = 1..(N + 1)
      /\ \A n \in 1..N : t[n] = r[n]
      /\ t[N + 1] = x
      /\ \A other, name : Heard(t, other, name) = Heard(r, other, name)
                          \/ Heard(t, other, name) = Heard(r, other, name) \cup {N + 1}
      /\ \A S \in SUBSET (1..N) : LastCell(t, S) = LastCell(r, S)
  BY <1>1, OneMore
<1> HIDE DEF t
<1>3. /\ N \in Nat /\ DOMAIN r = 1..N
      /\ \A other, name : Heard(r, other, name) \subseteq 1..N
      /\ \A n \in 1..N : r[n].cell \in Cell
  BY HeardTypes
<1> HIDE DEF N
<1>4. \A n \in 1..N : r[n].cell # c
  BY <1>3 DEF LinksInv
<1>5. \A d \in Cell : d # c => nx2[d] = nx[d] /\ fn2[d] = fn[d]
  OBVIOUS
<1>6. nx2[c] = head /\ fn2[c] = "live"
  OBVIOUS
<1> HIDE DEF nx2, fn2, head
<1>7. ASSUME NEW n \in 1..(N + 1), NEW other, NEW name
      PROVE  {m \in Heard(t, other, name) : m < n} = {m \in Heard(r, other, name) : m < n}
  <2>1. ~ (N + 1 < n)
    BY <1>3
  <2> QED BY <1>2, <2>1
<1>8. ASSUME NEW n \in 1..N
      PROVE  /\ fn2[t[n].cell] # "none"
             /\ nx2[t[n].cell] = LastCell(t, {m \in Heard(t, t[n].object, t[n].key) : m < n})
  <2>1. t[n] = r[n] /\ n \in 1..(N + 1) /\ n \in DOMAIN r
    BY <1>2, <1>3
  <2>2. /\ fn[r[n].cell] # "none"
        /\ nx[r[n].cell] = LastCell(r, {m \in Heard(r, r[n].object, r[n].key) : m < n})
    BY <2>1 DEF LinksInv
  <2>3. {m \in Heard(r, r[n].object, r[n].key) : m < n} \in SUBSET (1..N)
    BY <1>3
  <2>4. /\ r[n].cell \in Cell /\ r[n].cell # c
    BY <1>3, <1>4
  <2>5. nx2[r[n].cell] = nx[r[n].cell] /\ fn2[r[n].cell] = fn[r[n].cell]
    BY <1>5, <2>4
  <2>6. {m \in Heard(t, r[n].object, r[n].key) : m < n} = {m \in Heard(r, r[n].object, r[n].key) : m < n}
    BY <1>7, <2>1
  <2>7. LastCell(t, {m \in Heard(r, r[n].object, r[n].key) : m < n})
        = LastCell(r, {m \in Heard(r, r[n].object, r[n].key) : m < n})
    BY <1>2, <2>3
  <2> QED BY <2>1, <2>2, <2>5, <2>6, <2>7
<1>9. /\ fn2[t[N + 1].cell] # "none"
      /\ nx2[t[N + 1].cell] = LastCell(t, {m \in Heard(t, t[N + 1].object, t[N + 1].key) : m < N + 1})
  <2>1. N + 1 \in 1..(N + 1)
    BY <1>3
  <2>2. {m \in Heard(t, o, key) : m < N + 1} = {m \in Heard(r, o, key) : m < N + 1}
    BY <1>7, <2>1
  <2>3. {m \in Heard(r, o, key) : m < N + 1} = Heard(r, o, key)
    <3>1. \A m \in Heard(r, o, key) : m < N + 1
      BY <1>3
    <3> QED BY <3>1
  <2>4. LastCell(t, Heard(r, o, key)) = head
    BY <1>2, <1>3 DEF head
  <2> QED BY <1>1, <1>2, <1>6, <2>2, <2>3, <2>4
<1>10. \A n \in DOMAIN t : n \in 1..N \/ n = N + 1
  BY <1>2, <1>3
<1>11. LinksInv(t, nx2, fn2)
  BY <1>8, <1>9, <1>10 DEF LinksInv
<1> QED BY <1>11 DEF t, x, nx2, fn2, head

(* Calls                                                                    *)

LEMMA Pushed ==
  ASSUME NEW s \in Seq(Call), NEW c \in Call
  PROVE  /\ <<c>> \o s \in Seq(Call)
         /\ \A n \in DOMAIN (<<c>> \o s) :
              (<<c>> \o s)[n] = c \/ \E m \in DOMAIN s : (<<c>> \o s)[n] = s[m]
<1> DEFINE t == <<c>> \o s
<1>1. <<c>> \in Seq(Call) /\ Len(<<c>>) = 1 /\ <<c>>[1] = c
  OBVIOUS
<1>2. Len(s) \in Nat /\ DOMAIN s = 1..Len(s)
  BY LenProperties
<1>3. /\ t \in Seq(Call) /\ Len(t) = 1 + Len(s)
      /\ \A i \in 1..1 + Len(s) : t[i] = IF i <= 1 THEN <<c>>[i] ELSE s[i - 1]
  BY <1>1, ConcatProperties
<1> HIDE DEF t
<1>4. DOMAIN t = 1..1 + Len(s)
  BY <1>3, LenProperties
<1>5. ASSUME NEW n \in DOMAIN t
      PROVE  t[n] = c \/ \E m \in DOMAIN s : t[n] = s[m]
  <2>1. CASE n = 1
    BY <1>1, <1>2, <1>3, <2>1
  <2>2. CASE n # 1
    <3>1. n - 1 \in DOMAIN s /\ t[n] = s[n - 1]
      BY <1>2, <1>3, <1>4, <2>2
    <3> QED BY <3>1
  <2> QED BY <2>1, <2>2
<1> QED BY <1>3, <1>5 DEF t

LEMMA Popped ==
  ASSUME NEW s \in Seq(Call), s # <<>>
  PROVE  /\ s[1] \in Call /\ 1 \in DOMAIN s
         /\ Tail(s) \in Seq(Call)
         /\ \A n \in DOMAIN Tail(s) : \E m \in DOMAIN s : Tail(s)[n] = s[m]
<1>1. Len(s) \in Nat \ {0} /\ DOMAIN s = 1..Len(s)
  BY EmptySeq, LenProperties
<1>2. /\ Tail(s) \in Seq(Call) /\ Len(Tail(s)) = Len(s) - 1
      /\ \A i \in 1..Len(Tail(s)) : Tail(s)[i] = s[i + 1]
  BY HeadTailProperties
<1>3. DOMAIN Tail(s) = 1..Len(Tail(s))
  BY <1>2, LenProperties
<1>4. ASSUME NEW n \in DOMAIN Tail(s)
      PROVE  \E m \in DOMAIN s : Tail(s)[n] = s[m]
  <2>1. n \in 1..(Len(s) - 1)
    BY <1>2, <1>3
  <2>2. n + 1 \in DOMAIN s
    BY <1>1, <2>1
  <2>3. Tail(s)[n] = s[n + 1]
    BY <1>2, <1>3
  <2> QED BY <2>2, <2>3
<1>5. s[1] \in Call
  BY <1>1, ElementOfSeq
<1> QED BY <1>1, <1>2, <1>4, <1>5

LEMMA Replaced ==
  ASSUME NEW s \in Seq(Call), s # <<>>, NEW c \in Call
  PROVE  /\ [s EXCEPT ![1] = c] \in Seq(Call)
         /\ \A n \in DOMAIN [s EXCEPT ![1] = c] :
              \/ [s EXCEPT ![1] = c][n] = c
              \/ \E m \in DOMAIN s : [s EXCEPT ![1] = c][n] = s[m]
<1> DEFINE t == [s EXCEPT ![1] = c]
<1>1. Len(s) \in Nat \ {0} /\ DOMAIN s = 1..Len(s)
  BY EmptySeq, LenProperties
<1>2. 1 \in 1..Len(s)
  BY <1>1
<1>3. t \in Seq(Call) /\ \A j \in 1..Len(s) : t[j] = IF j = 1 THEN c ELSE s[j]
  BY <1>2, ExceptSeq
<1>4. DOMAIN t = DOMAIN s
  OBVIOUS
<1> HIDE DEF t
<1>5. \A n \in DOMAIN t : t[n] = c \/ \E m \in DOMAIN s : t[n] = s[m]
  BY <1>1, <1>3, <1>4
<1> QED BY <1>3, <1>5 DEF t

(* Listeners stay where they were registered                                *)

\* Who has an object has an array of listeners, and nobody else is listened to.
MadeInv ==
  /\ \A s \in Socks : made[s] = "script" => s \in ctx
  /\ \A s \in Socks : made[s] = "none" => s \notin ctx
  /\ \A o \in Objects : events[o] # <<>> <=> o \in ctx \cup {Server}
  /\ \A n \in DOMAIN registered : registered[n].object \in ctx \cup {Server}

ArraysInv == \A o \in Objects : events[o] # <<>> => ArrayInv(events[o], registered, o)

CallsInv == \A n \in DOMAIN stack : OwesRest(stack[n], registered)

ListenInv ==
  /\ TypeOK
  /\ MadeInv
  /\ ArraysInv
  /\ LinksInv(registered, next, func)
  /\ CallsInv

LEMMA ListenTypes ==
  ASSUME TypeOK
  PROVE  /\ registered \in Seq(Registration)
         /\ stack \in Seq(Call)
         /\ next \in [Cell -> Cell \cup {0}]
         /\ func \in [Cell -> {"none", "live", "collected"}]
         /\ \A o \in Objects : events[o] # <<>> => events[o] \in ArrayOf(Key, Cell)
         /\ \A n \in DOMAIN stack : stack[n] \in Call
<1>1. stack \in Seq(Call)
  BY DEF TypeOK
<1>2. \A n \in DOMAIN stack : stack[n] \in Call
  BY <1>1, LenProperties, ElementOfSeq
<1> QED BY <1>1, <1>2 DEF TypeOK, Registration

LEMMA ListenInit ==
  ASSUME Init
  PROVE  ListenInv
<1> DEFINE main == [what |-> "main", this |-> Server, args |-> {}, at |-> 0, owed |-> {}]
<1>1. main \in Call
  BY DEF Call, Objects
<1>2. stack = <<main>> /\ registered = <<>>
  BY DEF Init
<1>3. stack \in Seq(Call) /\ \A n \in DOMAIN stack : stack[n] = main
  <2> HIDE DEF main
  <2>1. <<main>> \in Seq(Call) /\ Len(<<main>>) = 1 /\ <<main>>[1] = main
    BY <1>1
  <2>2. DOMAIN <<main>> = 1..1
    BY <2>1, LenProperties
  <2> QED BY <1>2, <2>1, <2>2
<1>4. registered \in Seq(Registration) /\ DOMAIN registered = {}
  <2>1. <<>> \in Seq(Registration) /\ Len(<<>>) = 0
    BY EmptySeq
  <2>2. DOMAIN <<>> = 1..0
    BY <2>1, LenProperties
  <2> QED BY <1>2, <2>1, <2>2
<1>5. ape_array_new \in ArrayOf(Key, Cell) /\ ape_array_new # <<>>
  BY NewArray, ArrayTypes
<1>6. events \in [Objects -> {<<>>} \cup ArrayOf(Key, Cell)]
  BY <1>5 DEF Init
<1>7. TypeOK
  BY <1>3, <1>4, <1>6, NamesDiffer DEF Init, TypeOK, Registration, Objects
<1>8. MadeInv
  BY <1>4, <1>5, NamesDiffer DEF Init, MadeInv, Objects
<1>9. ArraysInv
  <2>1. ArrayInv(ape_array_new, registered, Server)
    BY <1>4, FreshArray
  <2>2. \A o \in Objects : events[o] # <<>> => o = Server /\ events[o] = ape_array_new
    BY DEF Init
  <2> QED BY <2>1, <2>2 DEF ArraysInv
<1>10. LinksInv(registered, next, func)
  BY <1>4 DEF LinksInv
<1>11. CallsInv
  <2>1. "main" \notin Events
    BY DEF Events
  <2>2. main.what = "main"
    OBVIOUS
  <2> QED BY <1>3, <2>1, <2>2 DEF CallsInv, OwesRest
<1> QED BY <1>7, <1>8, <1>9, <1>10, <1>11 DEF ListenInv

\* What an event calls first is the last listener of the name registered first.
LEMMA TriggeredCall ==
  ASSUME ListenInv, NEW o \in Objects, events[o] # <<>>, NEW event \in Events,
         NEW args \in SUBSET Socks
  PROVE  LET c == [what |-> event, this |-> o, args |-> args, at |-> FirstListener(o, event),
                   owed |-> Owed(o, event)]
         IN  c \in Call /\ OwesRest(c, registered)
<1> DEFINE c == [what |-> event, this |-> o, args |-> args, at |-> FirstListener(o, event),
                 owed |-> Owed(o, event)]
           a == events[o]
           r == registered
           p == ape_array_lookup(a, Spellings(event))
           owed == OwedTo(r, o, event)
<1>1. /\ a \in ArrayOf(Key, Cell) /\ r \in Seq(Registration) /\ ArrayInv(a, r, o)
  BY ListenTypes DEF ListenInv, ArraysInv
<1>2. /\ (IF p = 0 THEN 0 ELSE a.slots[p].value) = LastCell(r, owed)
      /\ owed \subseteq 1..Len(r)
      /\ owed = {} \/ \E key \in Key : owed = Heard(r, o, key)
  BY <1>1, EventIsFirst
<1>3. FirstListener(o, event) = LastCell(r, owed)
  BY <1>2 DEF FirstListener
<1>4. Owed(o, event) = owed
  BY DEF Owed, OwedTo, Listeners, Heard
<1> HIDE DEF owed
<1>5. LastCell(r, owed) \in Cell \cup {0} /\ Len(r) \in Nat
  BY <1>1, <1>2, LastCellTypes, HeardTypes
<1>6. owed \subseteq Nat
  BY <1>2, <1>5
<1>7. c \in Call
  BY <1>3, <1>4, <1>5, <1>6 DEF Call
<1>8. \E key \in Key, b \in 0..Len(r) : owed = {m \in Heard(r, o, key) : m <= b}
  <2>1. CASE owed = {}
    <3>1. [event |-> "read", spelling |-> "lower"] \in Key
      BY DEF Key, Events
    <3>2. \A key : {m \in Heard(r, o, key) : m <= 0} = {}
      BY <1>1, HeardTypes
    <3> QED BY <1>5, <2>1, <3>1, <3>2
  <2>2. CASE \E key \in Key : owed = Heard(r, o, key)
    <3>1. PICK key \in Key : owed = Heard(r, o, key)
      BY <2>2
    <3>2. \A m \in owed : m <= Len(r)
      BY <1>2, <1>5
    <3>3. owed = {m \in Heard(r, o, key) : m <= Len(r)} /\ Len(r) \in 0..Len(r)
      BY <1>5, <3>1, <3>2
    <3> QED BY <3>3
  <2> QED BY <1>2, <2>1, <2>2
<1>9. c.this = o /\ c.owed = owed /\ c.at = LastCell(r, owed)
  BY <1>3, <1>4
<1>10. OwesRest(c, r)
  <2> HIDE DEF c
  <2> QED BY <1>8, <1>9 DEF OwesRest
<1> QED BY <1>7, <1>10

\* The calls after a step: some as before, some that owe the rest of a name.
CallsFollow ==
  /\ stack' \in Seq(Call)
  /\ \A n \in DOMAIN stack' :
       OwesRest(stack'[n], registered) \/ \E m \in DOMAIN stack : stack'[n] = stack[m]

LEMMA TriggerFollows ==
  ASSUME ListenInv, NEW o \in Objects, events[o] # <<>>, NEW event \in Events,
         NEW args \in SUBSET Socks, Trigger(o, event, args)
  PROVE  CallsFollow
<1> DEFINE c == [what |-> event, this |-> o, args |-> args, at |-> FirstListener(o, event),
                 owed |-> Owed(o, event)]
<1>1. c \in Call /\ OwesRest(c, registered)
  BY TriggeredCall
<1>2. stack' = <<c>> \o stack
  BY DEF Trigger
<1>3. stack \in Seq(Call)
  BY ListenTypes DEF ListenInv
<1> HIDE DEF c
<1>4. /\ <<c>> \o stack \in Seq(Call)
      /\ \A n \in DOMAIN (<<c>> \o stack) :
           (<<c>> \o stack)[n] = c \/ \E m \in DOMAIN stack : (<<c>> \o stack)[n] = stack[m]
  BY <1>1, <1>3, Pushed
<1> QED BY <1>1, <1>2, <1>4 DEF CallsFollow

LEMMA DestroyFollows ==
  ASSUME ListenInv, NEW s \in Socks, Destroy(s)
  PROVE  /\ CallsFollow
         /\ socket' \in [Socks -> {"none", "pending", "online", "offline", "freed"}]
<1>1. CASE made[s] = "script" /\ Trigger(s, "disconnect", {}) /\ UNCHANGED socket
  <2>1. s \in Objects /\ events[s] # <<>> /\ "disconnect" \in Events
    BY <1>1 DEF ListenInv, MadeInv, Objects, Events
  <2>2. CallsFollow
    BY <1>1, <2>1, TriggerFollows
  <2> QED BY <1>1, <2>2 DEF ListenInv, TypeOK
<1>2. CASE made[s] = "accept" /\ socket' = [socket EXCEPT ![s] = "offline"] /\ UNCHANGED stack
  <2>1. CallsFollow
    BY <1>2, ListenTypes DEF ListenInv, CallsFollow
  <2> QED BY <1>2, <2>1 DEF ListenInv, TypeOK
<1> QED BY <1>1, <1>2 DEF Destroy

LEMMA ReturnsFollows ==
  ASSUME ListenInv, NEW last \in BOOLEAN, returns(last)
  PROVE  /\ CallsFollow
         /\ socket' \in [Socks -> {"none", "pending", "online", "offline", "freed"}]
         /\ waiting' \subseteq waiting /\ cells' \subseteq cells
<1> DEFINE at == IF Top.at = 0 \/ Top.what = "timer" THEN 0 ELSE next[Top.at]
           d == [Top EXCEPT !.at = at, !.owed = @ \ {LastOf(@)}]
<1>1. stack # <<>> /\ stack \in Seq(Call) /\ Top = stack[1]
  BY ListenTypes DEF ListenInv, returns, Top
<1>2. stack' = IF at = 0 THEN Tail(stack) ELSE [stack EXCEPT ![1] = d]
  BY DEF returns
<1>3. /\ Top \in Call /\ 1 \in DOMAIN stack
      /\ Tail(stack) \in Seq(Call)
      /\ \A n \in DOMAIN Tail(stack) : \E m \in DOMAIN stack : Tail(stack)[n] = stack[m]
  BY <1>1, Popped
<1>4. ASSUME at = 0 PROVE CallsFollow
  BY <1>2, <1>3, <1>4 DEF CallsFollow
<1>5. ASSUME at # 0 PROVE CallsFollow
  <2>1. Top.at # 0 /\ at = next[Top.at] /\ at \in Cell
    <3>1. Top.at # 0 /\ at = next[Top.at]
      BY <1>5
    <3>2. Top.at \in Cell /\ next[Top.at] \in Cell \cup {0}
      BY <1>3, <3>1, ListenTypes DEF ListenInv, Call
    <3> QED BY <1>5, <3>1, <3>2
  <2> HIDE DEF at
  <2>2. /\ d \in Call
        /\ d.what = Top.what /\ d.this = Top.this /\ d.args = Top.args
        /\ d.at = at /\ d.owed = Top.owed \ {LastOf(Top.owed)}
    <3> DEFINE rest == Top.owed \ {LastOf(Top.owed)}
    <3>1. rest \in SUBSET Nat /\ at \in Cell \cup {0}
      BY <1>3, <2>1 DEF Call
    <3> DEFINE e == [Top EXCEPT !.at = at]
    <3>2. e \in Call /\ e.what = Top.what /\ e.this = Top.this /\ e.args = Top.args /\ e.at = at
      BY <1>3, <3>1 DEF Call
    <3>3. d = [e EXCEPT !.owed = rest]
      BY <1>3 DEF Call
    <3> HIDE DEF rest, d, e
    <3>4. /\ d \in Call
          /\ d.what = e.what /\ d.this = e.this /\ d.args = e.args
          /\ d.at = e.at /\ d.owed = rest
      BY <3>1, <3>2, <3>3 DEF Call
    <3> QED BY <3>2, <3>4 DEF rest
  <2>3. d \in Call
    BY <2>2
  <2>4. OwesRest(d, registered)
    <3>1. CASE Top.what \in Events
      <4>1. registered \in Seq(Registration) /\ next \in [Cell -> Cell \cup {0}]
        BY ListenTypes DEF ListenInv
      <4>2. OwesRest(Top, registered) /\ LinksInv(registered, next, func)
        BY <1>1, <1>3 DEF ListenInv, CallsInv
      <4>3. /\ d.what = Top.what /\ d.this = Top.this /\ d.at = next[Top.at]
            /\ d.owed = Top.owed \ {LastOf(Top.owed)}
        BY <2>1, <2>2
      <4> HIDE DEF d
      <4> QED BY <1>3, <2>1, <2>3, <3>1, <4>1, <4>2, <4>3, OwesOneLess
    <3>2. CASE Top.what \notin Events
      BY <2>2, <3>2 DEF OwesRest
    <3> QED BY <3>1, <3>2
  <2> HIDE DEF d
  <2>5. /\ [stack EXCEPT ![1] = d] \in Seq(Call)
        /\ \A n \in DOMAIN [stack EXCEPT ![1] = d] :
             \/ [stack EXCEPT ![1] = d][n] = d
             \/ \E m \in DOMAIN stack : [stack EXCEPT ![1] = d][n] = stack[m]
    BY <1>1, <2>3, Replaced
  <2> QED BY <1>2, <1>5, <2>4, <2>5 DEF CallsFollow
<1>6. socket' \in [Socks -> {"none", "pending", "online", "offline", "freed"}]
  <2>1. socket \in [Socks -> {"none", "pending", "online", "offline", "freed"}]
    BY DEF ListenInv, TypeOK
  <2>2. socket' = socket \/ socket' = [socket EXCEPT ![Top.this] = "offline"]
    BY DEF returns
  <2> QED BY <2>1, <2>2
<1>7. waiting' \subseteq waiting /\ cells' \subseteq cells
  BY DEF returns
<1> QED BY <1>4, <1>5, <1>6, <1>7

\* A step that leaves the lists alone.
LEMMA StillListens ==
  ASSUME ListenInv, TypeOK', MadeInv', UNCHANGED lists, CallsFollow,
         \A d \in Cell : func[d] # "none" => func'[d] # "none"
  PROVE  ListenInv'
<1>1. registered' = registered /\ events' = events /\ next' = next
  BY DEF lists
<1>2. ArraysInv'
  BY <1>1 DEF ListenInv, ArraysInv
<1>3. LinksInv(registered, next, func)'
  <2>1. ASSUME NEW n \in DOMAIN registered
        PROVE  func'[registered[n].cell] # "none"
    <3>1. registered[n].cell \in Cell
      BY HeardTypes, ListenTypes DEF ListenInv
    <3>2. func[registered[n].cell] # "none"
      BY DEF ListenInv, LinksInv
    <3> QED BY <3>1, <3>2
  <2> QED BY <1>1, <2>1 DEF ListenInv, LinksInv
<1>4. CallsInv'
  <2>1. ASSUME NEW n \in DOMAIN stack'
        PROVE  OwesRest(stack'[n], registered)
    BY DEF CallsFollow, ListenInv, CallsInv
  <2> QED BY <1>1, <2>1 DEF CallsInv
<1> QED BY <1>2, <1>3, <1>4 DEF ListenInv

LEMMA CallsStay ==
  ASSUME ListenInv, UNCHANGED stack
  PROVE  CallsFollow
BY ListenTypes DEF ListenInv, CallsFollow

\* A step that does not make sockets or objects either.
LEMMA QuietStep ==
  ASSUME ListenInv, UNCHANGED <<made, ctx, object, lists, sockets>>, CallsFollow,
         socket' \in [Socks -> {"none", "pending", "online", "offline", "freed"}],
         func' \in [Cell -> {"none", "live", "collected"}],
         \A d \in Cell : func[d] # "none" => func'[d] # "none",
         waiting' \subseteq Cell \X (Socks \cup {None}), cells' \subseteq Cell, kept' \subseteq Socks
  PROVE  ListenInv'
<1>1. TypeOK'
  BY DEF ListenInv, TypeOK, CallsFollow, lists
<1>2. MadeInv'
  BY DEF ListenInv, MadeInv, lists
<1> QED BY <1>1, <1>2, StillListens

\* A socket that had no object gets one, and an array nobody listens with.
LEMMA NewObjectStep ==
  ASSUME ListenInv, NEW s \in Socks, s \notin ctx,
         ctx' = ctx \cup {s}, object' = [object EXCEPT ![s] = "live"],
         events' = [events EXCEPT ![s] = ape_array_new],
         made' \in [Socks -> {"none", "accept", "script"}],
         made'[s] # "none", \A z \in Socks : z # s => made'[z] = made[z],
         socket' \in [Socks -> {"none", "pending", "online", "offline", "freed"}],
         sockets' \subseteq Socks, kept' \subseteq Socks, CallsFollow,
         UNCHANGED <<next, func, waiting, cells, registered>>
  PROVE  ListenInv'
<1>1. ape_array_new \in ArrayOf(Key, Cell) /\ ape_array_new # <<>>
  BY NewArray, ArrayTypes
<1>2. s \in Objects /\ s # Server
  BY NamesDiffer DEF Objects
<1>3. /\ events'[s] = ape_array_new
      /\ \A o \in Objects : o # s => events'[o] = events[o]
      /\ events' \in [Objects -> {<<>>} \cup ArrayOf(Key, Cell)]
  BY <1>1, <1>2 DEF ListenInv, TypeOK
<1>4. TypeOK'
  <2>1. object' \in [Objects -> {"none", "live", "collected"}] /\ ctx' \subseteq Socks
    BY <1>2 DEF ListenInv, TypeOK
  <2> QED BY <1>3, <2>1 DEF ListenInv, TypeOK, CallsFollow
<1>5. MadeInv'
  <2>1. \A z \in Socks : /\ made'[z] = "script" => z \in ctx'
                         /\ made'[z] = "none" => z \notin ctx'
    BY DEF ListenInv, MadeInv
  <2>2. \A o \in Objects : events'[o] # <<>> <=> o \in ctx' \cup {Server}
    BY <1>1, <1>2, <1>3 DEF ListenInv, MadeInv
  <2>3. \A n \in DOMAIN registered' : registered'[n].object \in ctx' \cup {Server}
    BY DEF ListenInv, MadeInv
  <2> QED BY <2>1, <2>2, <2>3 DEF MadeInv
<1>6. ArraysInv'
  <2>1. ArrayInv(ape_array_new, registered, s)
    <3>1. \A n \in DOMAIN registered : registered[n].object # s
      BY <1>2 DEF ListenInv, MadeInv
    <3> QED BY <3>1, FreshArray, ListenTypes DEF ListenInv
  <2>2. ASSUME NEW o \in Objects, events'[o] # <<>>
        PROVE  ArrayInv(events'[o], registered, o)
    <3>1. CASE o = s
      BY <1>3, <2>1, <3>1
    <3>2. CASE o # s
      BY <1>3, <2>2, <3>2 DEF ListenInv, ArraysInv
    <3> QED BY <3>1, <3>2
  <2> QED BY <2>2 DEF ArraysInv
<1>7. LinksInv(registered, next, func)'
  BY DEF ListenInv
<1>8. CallsInv'
  BY DEF CallsFollow, ListenInv, CallsInv
<1> QED BY <1>4, <1>5, <1>6, <1>7, <1>8 DEF ListenInv

LEMMA ListenerStep ==
  ASSUME ListenInv, NEW o \in Objects, NEW key \in Keys, NEW c \in Cell,
         add_event_listener(o, key, c)
  PROVE  ListenInv'
<1> DEFINE a == events[o]
           r == registered
           p == ape_array_lookup_item(a, key)
           head == LastCell(r, Heard(r, o, key))
           x == [object |-> o, key |-> key, cell |-> c]
           t == Append(r, x)
<1>1. /\ r \in Seq(Registration) /\ a \in ArrayOf(Key, Cell) /\ a # <<>> /\ ArrayInv(a, r, o)
      /\ key \in Key /\ x \in Registration
  BY KeysAreKeys, ListenTypes DEF add_event_listener, ListenInv, ArraysInv, Registration
<1>2. /\ p \in UsedIn(a) \cup {0}
      /\ p = 0 => \A q \in UsedIn(a) : a.slots[q].key # key
      /\ p # 0 => p \in UsedIn(a) /\ a.slots[p].key = key
      /\ (IF p = 0 THEN 0 ELSE a.slots[p].value) = head
  BY <1>1, ItemIsLast
<1>3. /\ events' = IF p = 0 THEN [events EXCEPT ![o] = ape_array_add(a, key, c)]
                   ELSE [events EXCEPT ![o] = Holds(a, p, c)]
      /\ next' = [next EXCEPT ![c] = head]
  BY <1>2 DEF add_event_listener, Linked
<1>4. /\ registered' = t /\ func[c] = "none" /\ func' = [func EXCEPT ![c] = "live"]
      /\ cells' = cells \cup {c}
      /\ UNCHANGED <<socket, made, ctx, object, waiting, sockets, kept, stack>>
  BY DEF add_event_listener, NewCell, NextCell, Rooted
<1>5. \E b : /\ b \in ArrayOf(Key, Cell) /\ ArrayInv(b, t, o)
             /\ events' = [events EXCEPT ![o] = b]
  <2>1. CASE p = 0
    <3>1. /\ ape_array_add(a, key, c) \in ArrayOf(Key, Cell)
          /\ ArrayInv(ape_array_add(a, key, c), t, o)
      BY <1>1, <1>2, <2>1, FirstOfName
    <3> QED BY <1>3, <2>1, <3>1
  <2>2. CASE p # 0
    <3>1. Holds(a, p, c) \in ArrayOf(Key, Cell) /\ ArrayInv(Holds(a, p, c), t, o)
      BY <1>1, <1>2, <2>2, NextOfName
    <3> QED BY <1>3, <2>2, <3>1
  <2> QED BY <2>1, <2>2
<1>6. PICK b : /\ b \in ArrayOf(Key, Cell) /\ ArrayInv(b, t, o)
               /\ events' = [events EXCEPT ![o] = b]
  BY <1>5
<1>7. head \in Cell \cup {0}
  BY <1>1, HeardTypes, LastCellTypes
<1>8. b # <<>>
  BY <1>6, ArrayTypes
<1>9. x.object = o
  OBVIOUS
<1>10. /\ t \in Seq(Registration) /\ DOMAIN t = 1..(Len(r) + 1)
       /\ \A n \in 1..Len(r) : t[n] = r[n]
       /\ t[Len(r) + 1] = x
  BY <1>1, OneMore
<1>11. /\ events'[o] = b
       /\ \A z \in Objects : z # o => events'[z] = events[z]
       /\ events' \in [Objects -> {<<>>} \cup ArrayOf(Key, Cell)]
  BY <1>6 DEF ListenInv, TypeOK
<1>12. TypeOK'
  <2>1. next' \in [Cell -> Cell \cup {0}]
    BY <1>3, <1>7 DEF ListenInv, TypeOK
  <2>2. func' \in [Cell -> {"none", "live", "collected"}] /\ cells' \subseteq Cell
    BY <1>4 DEF ListenInv, TypeOK
  <2>3. registered' \in Seq([object : Objects, key : Key, cell : Cell])
    BY <1>4, <1>10 DEF Registration
  <2> HIDE DEF t, x
  <2> QED BY <1>4, <1>11, <2>1, <2>2, <2>3 DEF ListenInv, TypeOK
<1>13. MadeInv'
  <2>1. \A z \in Objects : events'[z] # <<>> <=> events[z] # <<>>
    BY <1>1, <1>8, <1>11
  <2>2. o \in ctx \cup {Server}
    BY <1>1 DEF ListenInv, MadeInv
  <2>3. \A n \in DOMAIN t : t[n].object \in ctx \cup {Server}
    <3>1. TAKE n \in DOMAIN t
    <3> HIDE DEF t, x
    <3>2. CASE n = Len(r) + 1
      BY <1>9, <1>10, <2>2, <3>2
    <3>3. CASE n # Len(r) + 1
      <4>1. Len(r) \in Nat /\ DOMAIN r = 1..Len(r)
        BY <1>1, HeardTypes
      <4>2. n \in DOMAIN r /\ t[n] = r[n]
        BY <1>10, <3>3, <4>1
      <4> QED BY <4>2 DEF ListenInv, MadeInv
    <3> QED BY <3>2, <3>3
  <2> HIDE DEF t, x
  <2> QED BY <1>4, <2>1, <2>3 DEF ListenInv, MadeInv
<1>14. ArraysInv'
  <2>1. ASSUME NEW z \in Objects, events'[z] # <<>>
        PROVE  ArrayInv(events'[z], t, z)
    <3>1. CASE z = o
      BY <1>6, <1>11, <3>1
    <3>2. CASE z # o
      <4>1. events[z] \in ArrayOf(Key, Cell) /\ ArrayInv(events[z], r, z)
        BY <1>11, <2>1, <3>2, ListenTypes DEF ListenInv, ArraysInv
      <4>2. x.object # z
        BY <1>9, <3>2
      <4> HIDE DEF x
      <4>3. ArrayInv(events[z], t, z)
        BY <1>1, <4>1, <4>2, OtherArray
      <4> QED BY <1>11, <3>2, <4>3
    <3> QED BY <3>1, <3>2
  <2> HIDE DEF t
  <2> QED BY <1>4, <2>1 DEF ArraysInv
<1>15. LinksInv(registered, next, func)'
  <2>1. LinksInv(t, [next EXCEPT ![c] = head], [func EXCEPT ![c] = "live"])
    BY <1>1, <1>4, LinkedInFront, ListenTypes DEF ListenInv
  <2> HIDE DEF t, head
  <2> QED BY <1>3, <1>4, <2>1
<1>16. CallsInv'
  <2>1. ASSUME NEW n \in DOMAIN stack
        PROVE  OwesRest(stack[n], t)
    <3>1. OwesRest(stack[n], r)
      BY DEF ListenInv, CallsInv
    <3> HIDE DEF x
    <3> QED BY <1>1, <3>1, OwesStill
  <2> HIDE DEF t
  <2> QED BY <1>4, <2>1 DEF CallsInv
<1> QED BY <1>12, <1>13, <1>14, <1>15, <1>16 DEF ListenInv

LEMMA NewCellTypes ==
  ASSUME TypeOK, NEW c \in Cell, NewCell(c)
  PROVE  /\ func' \in [Cell -> {"none", "live", "collected"}]
         /\ \A d \in Cell : func[d] # "none" => func'[d] # "none"
         /\ cells' \subseteq Cell
BY DEF TypeOK, NewCell, NextCell, Rooted

LEMMA KnownTypes ==
  ASSUME TypeOK, stack # <<>>
  PROVE  /\ Known \subseteq Socks
         /\ Top \in Call /\ 1 \in DOMAIN stack
<1>1. stack \in Seq(Call)
  BY ListenTypes
<1>2. Top \in Call /\ 1 \in DOMAIN stack
  BY <1>1, Popped DEF Top
<1> QED BY <1>2 DEF Known, TypeOK, Call

LEMMA ListenNext ==
  ASSUME ListenInv, [Next]_vars
  PROVE  ListenInv'
<1>0. TypeOK /\ func \in [Cell -> {"none", "live", "collected"}]
  BY DEF ListenInv, TypeOK
<1>1. CASE UNCHANGED vars
  <2>1. CallsFollow
    BY <1>1, CallsStay DEF vars
  <2> QED BY <1>1, <2>1, QuietStep DEF vars, heap, lists, roots, ListenInv, TypeOK
<1>2. ASSUME NEW s \in Socks, new_socket(s)
      PROVE  ListenInv'
  <2>1. s \notin ctx /\ CallsFollow
    BY <1>2, CallsStay DEF new_socket, ListenInv, MadeInv
  <2>2. socket' \in [Socks -> {"none", "pending", "online", "offline", "freed"}]
    <3>1. \A state \in {"pending", "offline"} : [socket EXCEPT ![s] = state] \in
            [Socks -> {"none", "pending", "online", "offline", "freed"}]
      BY <1>0 DEF TypeOK
    <3> QED BY <1>2, <3>1 DEF new_socket
  <2>3. /\ made' \in [Socks -> {"none", "accept", "script"}]
        /\ made'[s] # "none" /\ \A z \in Socks : z # s => made'[z] = made[z]
    BY <1>0, <1>2 DEF new_socket, TypeOK
  <2>4. sockets' \subseteq Socks /\ kept' \subseteq Socks /\ cells' = cells
    BY <1>0, <1>2 DEF new_socket, TypeOK, roots
  <2> QED BY <1>2, <2>1, <2>2, <2>3, <2>4, NewObjectStep DEF new_socket
<1>3. ASSUME NEW s \in Socks, keep(s) \/ let_go(s)
      PROVE  ListenInv'
  <2>1. CallsFollow
    BY <1>3, CallsStay DEF keep, let_go
  <2>2. kept' \subseteq Socks
    BY <1>0, <1>3 DEF keep, let_go, TypeOK
  <2> QED BY <1>0, <1>3, <2>1, <2>2, QuietStep DEF keep, let_go, heap, roots, TypeOK
<1>4. ASSUME NEW s \in Socks, use_fails(s) \/ goes(s)
      PROVE  ListenInv'
  <2>1. Destroy(s) /\ UNCHANGED <<made, ctx, heap, lists, waiting, roots, kept>>
    BY <1>4 DEF use_fails, goes
  <2>2. CallsFollow /\ socket' \in [Socks -> {"none", "pending", "online", "offline", "freed"}]
    BY <2>1, DestroyFollows
  <2> QED BY <1>0, <2>1, <2>2, QuietStep DEF heap, roots, TypeOK
<1>5. ASSUME NEW c \in Cell, NEW o \in Objects, NEW key \in Keys, add_event_listener(o, key, c)
      PROVE  ListenInv'
  BY <1>5, ListenerStep
<1>6. ASSUME NEW c \in Cell, NEW arg \in Socks \cup {None}, set_timer(c, arg)
      PROVE  ListenInv'
  <2>1. /\ func' \in [Cell -> {"none", "live", "collected"}]
        /\ \A d \in Cell : func[d] # "none" => func'[d] # "none"
        /\ cells' \subseteq Cell
    BY <1>0, <1>6, NewCellTypes DEF set_timer
  <2>2. waiting' \subseteq Cell \X (Socks \cup {None})
    BY <1>0, <1>6 DEF set_timer, TypeOK
  <2>3. kept' \subseteq Socks
    BY <1>0, <1>6 DEF set_timer, TypeOK
  <2>4. CallsFollow
    BY <1>6, CallsStay DEF set_timer
  <2> QED BY <1>0, <1>6, <2>1, <2>2, <2>3, <2>4, QuietStep DEF set_timer, TypeOK
<1>7. ASSUME NEW last \in BOOLEAN, returns(last)
      PROVE  ListenInv'
  <2>1. /\ CallsFollow
        /\ socket' \in [Socks -> {"none", "pending", "online", "offline", "freed"}]
        /\ waiting' \subseteq waiting /\ cells' \subseteq cells
    BY <1>7, ReturnsFollows
  <2>2. UNCHANGED <<made, ctx, heap, lists, sockets, kept>>
    BY <1>7 DEF returns
  <2>3. waiting' \subseteq Cell \X (Socks \cup {None}) /\ cells' \subseteq Cell
    BY <1>0, <2>1 DEF TypeOK
  <2> QED BY <1>0, <2>1, <2>2, <2>3, QuietStep DEF heap, TypeOK
<1>8. ASSUME gc
      PROVE  ListenInv'
  <2>1. /\ func' \in [Cell -> {"none", "live", "collected"}]
        /\ \A d \in Cell : func[d] # "none" => func'[d] # "none"
    BY <1>0, <1>8 DEF gc
  <2>2. object' \in [Objects -> {"none", "live", "collected"}]
    <3>1. PICK junk \in SUBSET {s \in sockets : socket[s] = "freed"} :
            object' = [o \in Objects |->
                         IF object[o] = "live" /\ o \notin {Server} \cup Marked \cup junk
                         THEN "collected" ELSE object[o]]
      BY <1>8 DEF gc
    <3>2. \A o \in Objects : object[o] \in {"none", "live", "collected"}
      BY <1>0 DEF TypeOK
    <3> HIDE DEF Marked
    <3> QED BY <3>1, <3>2
  <2>3. UNCHANGED <<socket, made, ctx, lists, waiting, roots, kept, stack>>
    BY <1>8 DEF gc
  <2>4. TypeOK'
    BY <1>0, <2>1, <2>2, <2>3 DEF TypeOK, lists, roots
  <2>5. MadeInv'
    BY <2>3 DEF ListenInv, MadeInv, lists
  <2>6. CallsFollow
    BY <2>3, CallsStay
  <2> QED BY <2>1, <2>3, <2>4, <2>5, <2>6, StillListens
<1>9. ASSUME NEW s \in Socks, connected(s) \/ reads(s)
      PROVE  ListenInv'
  <2>1. /\ made[s] = "script" /\ UNCHANGED <<made, ctx, heap, lists, waiting, roots, kept>>
        /\ Trigger(s, "connect", {}) \/ Trigger(s, "read", {})
        /\ socket' = [socket EXCEPT ![s] = "online"] \/ socket' = socket
    BY <1>9 DEF connected, reads
  <2>2. s \in Objects /\ events[s] # <<>> /\ "connect" \in Events /\ "read" \in Events
    BY <2>1 DEF ListenInv, MadeInv, Objects, Events
  <2>3. CallsFollow
    BY <2>1, <2>2, TriggerFollows
  <2>4. socket' \in [Socks -> {"none", "pending", "online", "offline", "freed"}]
    BY <1>0, <2>1 DEF TypeOK
  <2> QED BY <1>0, <2>1, <2>3, <2>4, QuietStep DEF heap, roots, TypeOK
<1>10. ASSUME NEW s \in Socks, accepts(s)
       PROVE  ListenInv'
  <2>1. /\ made[s] = "none" /\ made' = [made EXCEPT ![s] = "accept"]
        /\ socket' = [socket EXCEPT ![s] = "online"]
        /\ UNCHANGED <<ctx, heap, lists, waiting, roots, kept, stack>>
    BY <1>10 DEF accepts
  <2>2. TypeOK'
    BY <1>0, <2>1 DEF TypeOK, heap, lists, roots
  <2>3. MadeInv'
    BY <1>0, <2>1 DEF ListenInv, MadeInv, TypeOK, lists
  <2>4. CallsFollow
    BY <2>1, CallsStay
  <2> QED BY <2>1, <2>2, <2>3, <2>4, StillListens DEF heap
<1>11. ASSUME NEW s \in Socks, ape_socket_free(s)
       PROVE  ListenInv'
  <2>1. socket' = [socket EXCEPT ![s] = "freed"]
        /\ UNCHANGED <<made, ctx, heap, lists, waiting, roots, kept, stack>>
    BY <1>11 DEF ape_socket_free
  <2>2. CallsFollow
    BY <2>1, CallsStay
  <2>3. socket' \in [Socks -> {"none", "pending", "online", "offline", "freed"}]
    BY <1>0, <2>1 DEF TypeOK
  <2> QED BY <1>0, <2>1, <2>2, <2>3, QuietStep DEF heap, roots, TypeOK
<1>12. ASSUME NEW s \in Socks, NEW event \in {"request", "wsframe"}, NEW args \in SUBSET Socks,
              requests(s, event, args)
       PROVE  ListenInv'
  <2>1. /\ made[s] = "accept" /\ Trigger(Server, event, args)
        /\ UNCHANGED <<socket, made, func, next, registered, waiting, cells, kept>>
    BY <1>12 DEF requests
  <2>2. Server \in Objects /\ events[Server] # <<>> /\ event \in Events
    BY DEF ListenInv, MadeInv, Objects, Events
  <2>3. CallsFollow
    BY <2>1, <2>2, TriggerFollows
  <2>4. CASE s \in ctx /\ UNCHANGED <<ctx, object, events, sockets>>
    BY <1>0, <2>1, <2>3, <2>4, QuietStep DEF lists, TypeOK
  <2>5. CASE /\ s \notin ctx
             /\ ctx' = ctx \cup {s}
             /\ object' = [object EXCEPT ![s] = "live"]
             /\ events' = [events EXCEPT ![s] = ape_array_new]
             /\ RootedCtx(s)
    <3>1. sockets' \subseteq Socks
      BY <1>0, <2>5 DEF RootedCtx, TypeOK
    <3> QED BY <1>0, <2>1, <2>3, <2>5, <3>1, NewObjectStep DEF TypeOK
  <2> QED BY <1>12, <2>4, <2>5 DEF requests
<1>13. ASSUME NEW c, NEW arg, timer_wrapper(c, arg)
       PROVE  ListenInv'
  <2> DEFINE d == [what |-> "timer", this |-> Server, args |-> {arg} \cap Socks, at |-> c,
                   owed |-> {}]
  <2>1. /\ <<c, arg>> \in waiting /\ stack' = <<d>>
        /\ UNCHANGED <<socket, made, ctx, heap, lists, waiting, roots, kept>>
    BY <1>13 DEF timer_wrapper
  <2>2. c \in Cell
    BY <1>0, <2>1 DEF TypeOK
  <2>3. d \in Call /\ d.what = "timer"
    BY <2>2 DEF Call, Objects
  <2>4. OwesRest(d, registered)
    <3>1. "timer" \notin Events
      BY DEF Events
    <3> HIDE DEF d
    <3> QED BY <2>3, <3>1 DEF OwesRest
  <2>5. <<d>> \in Seq(Call) /\ \A n \in DOMAIN <<d>> : <<d>>[n] = d
    <3> HIDE DEF d
    <3>1. <<d>> \in Seq(Call) /\ Len(<<d>>) = 1 /\ <<d>>[1] = d
      BY <2>3
    <3>2. DOMAIN <<d>> = 1..1
      BY <3>1, LenProperties
    <3> QED BY <3>1, <3>2
  <2> HIDE DEF d
  <2>6. CallsFollow
    BY <2>1, <2>4, <2>5 DEF CallsFollow
  <2> QED BY <1>0, <2>1, <2>6, QuietStep DEF heap, roots, TypeOK
<1>14. CASE Script
  BY <1>2, <1>3, <1>4, <1>5, <1>6, <1>7, <1>8, <1>14 DEF Script
<1>15. CASE Loop
  <2>1. \A s \in Socks : {s} \in SUBSET Socks /\ {} \in SUBSET Socks
    OBVIOUS
  <2>2. ASSUME NEW s \in Socks, requests(s, "request", {s}) \/ requests(s, "wsframe", {})
        PROVE  ListenInv'
    BY <1>12, <2>1, <2>2
  <2> QED BY <1>4, <1>9, <1>10, <1>11, <1>13, <1>15, <2>2 DEF Loop
<1> QED BY <1>1, <1>14, <1>15 DEF Next

THEOREM ListenAlways == Spec => []ListenInv
<1>1. Init => ListenInv
  BY ListenInit
<1>2. ListenInv /\ [Next]_vars => ListenInv'
  BY ListenNext
<1> QED BY <1>1, <1>2, PTL DEF Spec

\* Every state is well typed; in particular what triggers an event has an array of
\* listeners, whose values are cells (ape_jsapi.c:621-627).
THEOREM TypeCorrect == Spec => []TypeOK
<1>1. ListenInv => TypeOK
  BY DEF ListenInv
<1> QED BY <1>1, ListenAlways, PTL

\* A listener stays where it was registered, in front of the one registered before
\* it, for any number of names and however often the array grows
\* (ape_jsapi.c:669-687, ape_array.c:75-108).
THEOREM KeptAsRegisteredHolds == Spec => []KeptAsRegistered
<1>1. ASSUME ListenInv
      PROVE  KeptAsRegistered
  <2>1. \A S : CellOf(S) = LastCell(registered, S)
    BY DEF CellOf, LastCell
  <2>2. \A o, key : Listeners(o, key) = Heard(registered, o, key)
    BY DEF Listeners, Heard
  <2>3. ASSUME NEW o \in Objects, NEW key \in Keys, events[o] # <<>>
        PROVE  FirstCell(o, key) = CellOf(Listeners(o, key))
    <3> DEFINE p == ape_array_lookup_item(events[o], key)
    <3>1. /\ events[o] \in ArrayOf(Key, Cell) /\ registered \in Seq(Registration)
          /\ ArrayInv(events[o], registered, o)
      BY <1>1, <2>3, ListenTypes DEF ListenInv, ArraysInv
    <3>2. (IF p = 0 THEN 0 ELSE events[o].slots[p].value)
            = LastCell(registered, Heard(registered, o, key))
      BY <3>1, ItemIsLast
    <3>3. FirstCell(o, key) = LastCell(registered, Heard(registered, o, key))
      BY <3>2 DEF FirstCell
    <3> QED BY <2>1, <2>2, <3>3
  <2>4. ASSUME NEW n \in DOMAIN registered
        PROVE  next[registered[n].cell] =
                 CellOf({m \in Listeners(registered[n].object, registered[n].key) : m < n})
    BY <1>1, <2>1, <2>2 DEF ListenInv, LinksInv
  <2> QED BY <2>3, <2>4 DEF KeptAsRegistered
<1> QED BY <1>1, ListenAlways, PTL

\* An event calls the listeners there were when it began, under the spelling that
\* was used first, each once, the last one first, however calls nest and whatever
\* they register meanwhile (ape_jsapi.c:608-634).
THEOREM CalledAsRegisteredHolds == Spec => []CalledAsRegistered
<1>1. ASSUME ListenInv
      PROVE  CalledAsRegistered
  <2>1. \A S : CellOf(S) = LastCell(registered, S)
    BY DEF CellOf, LastCell
  <2>2. ASSUME NEW n \in DOMAIN stack, stack[n].what \in Events
        PROVE  /\ stack[n].at = CellOf(stack[n].owed)
               /\ \A m \in stack[n].owed :
                    next[registered[m].cell] = CellOf({k \in stack[n].owed : k < m})
    <3> DEFINE r == registered
               owed == stack[n].owed
    <3>1. PICK key \in Key, b \in 0..Len(r) :
            /\ owed = {m \in Heard(r, stack[n].this, key) : m <= b}
            /\ stack[n].at = LastCell(r, owed)
      BY <1>1, <2>2 DEF ListenInv, CallsInv, OwesRest
    <3>2. Len(r) \in Nat /\ Heard(r, stack[n].this, key) \subseteq 1..Len(r)
      BY <1>1, HeardTypes, ListenTypes DEF ListenInv
    <3>3. ASSUME NEW m \in owed
          PROVE  next[r[m].cell] = LastCell(r, {k \in owed : k < m})
      <4>1. /\ m \in Heard(r, stack[n].this, key) /\ m <= b
            /\ m \in DOMAIN r /\ r[m].object = stack[n].this /\ r[m].key = key
        BY <3>1 DEF Heard
      <4>2. next[r[m].cell] = LastCell(r, {k \in Heard(r, stack[n].this, key) : k < m})
        BY <1>1, <4>1 DEF ListenInv, LinksInv
      <4>3. \A k \in Heard(r, stack[n].this, key) : k < m => k <= b
        BY <3>2, <4>1
      <4>4. {k \in owed : k < m} = {k \in Heard(r, stack[n].this, key) : k < m}
        BY <3>1, <4>3
      <4> QED BY <4>2, <4>4
    <3> QED BY <2>1, <3>1, <3>3
  <2> QED BY <2>2 DEF CalledAsRegistered
<1> QED BY <1>1, ListenAlways, PTL

(* What the server may use is still there                                   *)

\* What keeps functions from the collector: the cells of listeners and of timers
\* that wait are roots, and no timer's cell is a listener's.
CellsInv ==
  /\ \A n \in DOMAIN registered : /\ registered[n].cell \in cells
                                  /\ func[registered[n].cell] = "live"
  /\ \A w \in waiting : /\ w[1] \in cells /\ func[w[1]] = "live"
                        /\ \A n \in DOMAIN registered : registered[n].cell # w[1]
  /\ \A n \in DOMAIN stack : stack[n].what = "timer" =>
       /\ stack[n].at \in Cell /\ func[stack[n].at] # "none"
       /\ \A m \in DOMAIN registered : registered[m].cell # stack[n].at

\* What keeps objects from it: scripts refer to those of their sockets and of
\* what their timers are given, a root to those of accepted sockets, and calls to
\* those they are about.
SocketsInv ==
  \A s \in Socks : socket[s] \in {"pending", "online"} =>
    /\ made[s] = "script" => s \in kept
    /\ made[s] = "accept" /\ s \in ctx => s \in sockets /\ object[s] = "live"

CallsLive == \A n \in DOMAIN stack : \A o \in stack[n].args \cup {stack[n].this} : object[o] = "live"

ObjectsInv ==
  /\ object[Server] = "live"
  /\ \A s \in kept : object[s] = "live"
  /\ \A w \in waiting : w[2] \in Socks => w[2] \in kept
  /\ SocketsInv
  /\ CallsLive

\* The calls after a step: timers that ran before, and objects that are live then
\* or were called before.
TimersStay ==
  \A n \in DOMAIN stack' : stack'[n].what = "timer" =>
    \E m \in DOMAIN stack : stack[m].what = "timer" /\ stack[m].at = stack'[n].at

CallsAbout(A) ==
  \A n \in DOMAIN stack' :
    \/ stack'[n].args \cup {stack'[n].this} \subseteq A
    \/ \E m \in DOMAIN stack : stack'[n].args = stack[m].args /\ stack'[n].this = stack[m].this

LEMMA TriggerCalls ==
  ASSUME ListenInv, NEW o \in Objects, events[o] # <<>>, NEW event \in Events,
         NEW args \in SUBSET Socks, Trigger(o, event, args)
  PROVE  TimersStay /\ \A A : args \cup {o} \subseteq A => CallsAbout(A)
<1> DEFINE c == [what |-> event, this |-> o, args |-> args, at |-> FirstListener(o, event),
                 owed |-> Owed(o, event)]
<1>1. c \in Call /\ c.what = event /\ c.this = o /\ c.args = args
  BY TriggeredCall
<1>2. stack' = <<c>> \o stack
  BY DEF Trigger
<1>3. stack \in Seq(Call)
  BY ListenTypes DEF ListenInv
<1>4. event # "timer"
  BY DEF Events
<1> HIDE DEF c
<1>5. \A n \in DOMAIN stack' : stack'[n] = c \/ \E m \in DOMAIN stack : stack'[n] = stack[m]
  BY <1>1, <1>2, <1>3, Pushed
<1>6. TimersStay
  BY <1>1, <1>4, <1>5 DEF TimersStay
<1>7. \A A : args \cup {o} \subseteq A => CallsAbout(A)
  BY <1>1, <1>5 DEF CallsAbout
<1> QED BY <1>6, <1>7

LEMMA ReturnsCalls ==
  ASSUME ListenInv, NEW last \in BOOLEAN, returns(last)
  PROVE  TimersStay /\ \A A : CallsAbout(A)
<1> DEFINE at == IF Top.at = 0 \/ Top.what = "timer" THEN 0 ELSE next[Top.at]
           d == [Top EXCEPT !.at = at, !.owed = @ \ {LastOf(@)}]
<1>1. stack # <<>> /\ stack \in Seq(Call) /\ Top = stack[1]
  BY ListenTypes DEF ListenInv, returns, Top
<1>2. stack' = IF at = 0 THEN Tail(stack) ELSE [stack EXCEPT ![1] = d]
  BY DEF returns
<1>3. /\ Top \in Call /\ 1 \in DOMAIN stack
      /\ \A n \in DOMAIN Tail(stack) : \E m \in DOMAIN stack : Tail(stack)[n] = stack[m]
  BY <1>1, Popped
<1>4. ASSUME at = 0 PROVE TimersStay /\ \A A : CallsAbout(A)
  BY <1>2, <1>3, <1>4 DEF TimersStay, CallsAbout
<1>5. ASSUME at # 0 PROVE TimersStay /\ \A A : CallsAbout(A)
  <2>1. Top.what # "timer"
    BY <1>5
  <2>2. d.what = Top.what /\ d.this = Top.this /\ d.args = Top.args
    BY <1>3 DEF Call
  <2>3. \A n \in DOMAIN stack' : n \in DOMAIN stack /\ (stack'[n] = stack[n] \/ stack'[n] = d)
    BY <1>2, <1>5
  <2> HIDE DEF d
  <2>4. \A n \in DOMAIN stack' : stack'[n] = d \/ \E m \in DOMAIN stack : stack'[n] = stack[m]
    BY <2>3
  <2>5. TimersStay
    BY <2>1, <2>2, <2>4 DEF TimersStay
  <2>6. \A A : CallsAbout(A)
    BY <1>1, <1>3, <2>2, <2>4 DEF CallsAbout
  <2> QED BY <2>5, <2>6
<1> QED BY <1>4, <1>5

LEMMA SameCalls ==
  ASSUME UNCHANGED stack
  PROVE  TimersStay /\ \A A : CallsAbout(A)
BY DEF TimersStay, CallsAbout

\* A step that neither allocates nor frees a cell.
LEMMA CellsStill ==
  ASSUME CellsInv, TimersStay, UNCHANGED <<registered, cells, func, waiting>>
  PROVE  CellsInv'
<1>1. \A n \in DOMAIN registered' : /\ registered'[n].cell \in cells'
                                    /\ func'[registered'[n].cell] = "live"
  BY DEF CellsInv
<1>2. \A w \in waiting' : /\ w[1] \in cells' /\ func'[w[1]] = "live"
                          /\ \A n \in DOMAIN registered' : registered'[n].cell # w[1]
  BY DEF CellsInv
<1>3. ASSUME NEW n \in DOMAIN stack', stack'[n].what = "timer"
      PROVE  /\ stack'[n].at \in Cell /\ func'[stack'[n].at] # "none"
             /\ \A m \in DOMAIN registered' : registered'[m].cell # stack'[n].at
  BY <1>3 DEF CellsInv, TimersStay
<1> QED BY <1>1, <1>2, <1>3 DEF CellsInv

\* Calls are about live objects if the new ones are and no live object goes.
LEMMA CallsStayLive ==
  ASSUME CallsLive, NEW A, CallsAbout(A), \A o \in A : object'[o] = "live",
         \A n \in DOMAIN stack : \A o \in stack[n].args \cup {stack[n].this} : object'[o] = "live"
  PROVE  CallsLive'
BY DEF CallsLive, CallsAbout

\* A step that makes no sockets and no objects, and after which scripts refer to
\* what they referred to.
LEMMA ObjectsStill ==
  ASSUME ObjectsInv, UNCHANGED <<object, made, ctx, sockets, kept>>, waiting' \subseteq waiting,
         \A s \in Socks : socket'[s] \in {"pending", "online"} => socket[s] \in {"pending", "online"},
         NEW A, CallsAbout(A), \A o \in A : object[o] = "live"
  PROVE  ObjectsInv'
<1>1. CallsLive'
  BY CallsStayLive DEF ObjectsInv, CallsLive
<1>2. SocketsInv'
  BY DEF ObjectsInv, SocketsInv
<1>3. \A w \in waiting' : w[2] \in Socks => w[2] \in kept'
  BY DEF ObjectsInv
<1> QED BY <1>1, <1>2, <1>3 DEF ObjectsInv

LEMMA DestroyCalls ==
  ASSUME ListenInv, NEW s \in Socks, Destroy(s)
  PROVE  /\ TimersStay
         /\ \A A : s \in A => CallsAbout(A)
         /\ \A z \in Socks : socket'[z] \in {"pending", "online"} => socket[z] \in {"pending", "online"}
<1>1. CASE made[s] = "script" /\ Trigger(s, "disconnect", {}) /\ UNCHANGED socket
  <2>1. s \in Objects /\ events[s] # <<>> /\ "disconnect" \in Events
    BY <1>1 DEF ListenInv, MadeInv, Objects, Events
  <2>2. TimersStay /\ \A A : {} \cup {s} \subseteq A => CallsAbout(A)
    BY <1>1, <2>1, TriggerCalls
  <2> QED BY <1>1, <2>2
<1>2. CASE made[s] = "accept" /\ socket' = [socket EXCEPT ![s] = "offline"] /\ UNCHANGED stack
  <2>1. \A z \in Socks : socket'[z] \in {"pending", "online"} => socket[z] \in {"pending", "online"}
    BY <1>2 DEF ListenInv, TypeOK
  <2> QED BY <1>2, <2>1, SameCalls
<1> QED BY <1>1, <1>2 DEF Destroy

\* The objects that script code can name are live.
LEMMA KnownLive ==
  ASSUME ListenInv, ObjectsInv, Running
  PROVE  Known \subseteq Socks /\ \A s \in Known : object[s] = "live"
<1>1. stack # <<>> /\ TypeOK
  BY DEF Running, ListenInv
<1>2. Known \subseteq Socks /\ 1 \in DOMAIN stack
  BY <1>1, KnownTypes
<1>3. \A s \in Known : s \in kept \/ s \in stack[1].args \cup {stack[1].this}
  BY DEF Known, Top
<1> QED BY <1>2, <1>3 DEF ObjectsInv, CallsLive

KeptInv == ListenInv /\ CellsInv /\ ObjectsInv

LEMMA KeptInit ==
  ASSUME Init
  PROVE  KeptInv
<1> DEFINE main == [what |-> "main", this |-> Server, args |-> {}, at |-> 0, owed |-> {}]
<1>1. stack = <<main>> /\ registered = <<>> /\ waiting = {} /\ kept = {}
  BY DEF Init
<1>2. \A n \in DOMAIN stack : stack[n] = main
  <2>1. main \in Call
    BY DEF Call, Objects
  <2> HIDE DEF main
  <2>2. <<main>> \in Seq(Call) /\ Len(<<main>>) = 1 /\ <<main>>[1] = main
    BY <2>1
  <2>3. DOMAIN <<main>> = 1..1
    BY <2>2, LenProperties
  <2> QED BY <1>1, <2>2, <2>3
<1>3. DOMAIN registered = {}
  BY <1>1
<1>4. CellsInv
  BY <1>1, <1>2, <1>3 DEF CellsInv
<1>5. object[Server] = "live"
  BY DEF Init, Objects
<1>6. CallsLive
  BY <1>2, <1>5 DEF CallsLive
<1>7. SocketsInv
  BY DEF Init, SocketsInv
<1>8. ObjectsInv
  BY <1>1, <1>5, <1>6, <1>7 DEF ObjectsInv
<1> QED BY <1>4, <1>8, ListenInit DEF KeptInv

\* A new function's cell is nobody else's, and a root.
LEMMA NewListenerCells ==
  ASSUME ListenInv, CellsInv, NEW o \in Objects, NEW key \in Keys, NEW c \in Cell,
         add_event_listener(o, key, c)
  PROVE  CellsInv'
<1> DEFINE x == [object |-> o, key |-> key, cell |-> c]
<1>1. /\ registered' = Append(registered, x) /\ func[c] = "none"
      /\ func' = [func EXCEPT ![c] = "live"] /\ cells' = cells \cup {c}
      /\ UNCHANGED <<waiting, stack>>
  BY DEF add_event_listener, NewCell, NextCell, Rooted
<1>2. registered \in Seq(Registration) /\ x \in Registration /\ x.cell = c
  BY KeysAreKeys, ListenTypes DEF ListenInv, Registration
<1> HIDE DEF x
<1>3. /\ DOMAIN registered' = 1..(Len(registered) + 1)
      /\ \A n \in 1..Len(registered) : registered'[n] = registered[n]
      /\ registered'[Len(registered) + 1] = x
  BY <1>1, <1>2, OneMore
<1>4. Len(registered) \in Nat /\ DOMAIN registered = 1..Len(registered)
  BY <1>2, HeardTypes
<1>5. \A n \in DOMAIN registered' :
        registered'[n].cell = c \/ (n \in DOMAIN registered /\ registered'[n] = registered[n])
  BY <1>2, <1>3, <1>4
<1>6. \A d \in Cell : func'[d] = IF d = c THEN "live" ELSE func[d]
  BY <1>1, ListenTypes DEF ListenInv
<1>7. ASSUME NEW n \in DOMAIN registered'
      PROVE  registered'[n].cell \in cells' /\ func'[registered'[n].cell] = "live"
  <2>1. CASE registered'[n].cell = c
    BY <1>1, <1>6, <2>1
  <2>2. CASE n \in DOMAIN registered /\ registered'[n] = registered[n]
    <3>1. registered[n].cell \in Cell
      BY <1>2, <2>2, HeardTypes
    <3> QED BY <1>1, <1>6, <2>2, <3>1 DEF CellsInv
  <2> QED BY <1>5, <2>1, <2>2
<1>8. ASSUME NEW w \in waiting'
      PROVE  /\ w[1] \in cells' /\ func'[w[1]] = "live"
             /\ \A n \in DOMAIN registered' : registered'[n].cell # w[1]
  <2>1. w \in waiting /\ w[1] \in Cell
    BY <1>1 DEF ListenInv, TypeOK
  <2>2. w[1] \in cells /\ func[w[1]] = "live" /\ w[1] # c
    BY <1>1, <2>1 DEF CellsInv
  <2> QED BY <1>1, <1>5, <1>6, <2>1, <2>2 DEF CellsInv
<1>9. ASSUME NEW n \in DOMAIN stack', stack'[n].what = "timer"
      PROVE  /\ stack'[n].at \in Cell /\ func'[stack'[n].at] # "none"
             /\ \A m \in DOMAIN registered' : registered'[m].cell # stack'[n].at
  <2>1. n \in DOMAIN stack /\ stack'[n] = stack[n]
    BY <1>1
  <2>2. /\ stack[n].at \in Cell /\ func[stack[n].at] # "none"
        /\ \A m \in DOMAIN registered : registered[m].cell # stack[n].at
    BY <1>9, <2>1 DEF CellsInv
  <2>3. stack[n].at # c
    BY <1>1, <2>2
  <2> QED BY <1>5, <1>6, <2>1, <2>2, <2>3
<1> QED BY <1>7, <1>8, <1>9 DEF CellsInv

LEMMA NewTimerCells ==
  ASSUME ListenInv, CellsInv, NEW c \in Cell, NEW arg \in Socks \cup {None}, set_timer(c, arg)
  PROVE  CellsInv'
<1>1. /\ func[c] = "none" /\ func' = [func EXCEPT ![c] = "live"] /\ cells' = cells \cup {c}
      /\ waiting' = waiting \cup {<<c, arg>>} /\ registered' = registered /\ stack' = stack
  BY DEF set_timer, NewCell, NextCell, Rooted, lists
<1>2. \A d \in Cell : func'[d] = IF d = c THEN "live" ELSE func[d]
  BY <1>1, ListenTypes DEF ListenInv
<1>3. \A n \in DOMAIN registered : registered[n].cell \in Cell
  BY HeardTypes, ListenTypes DEF ListenInv
<1>4. \A n \in DOMAIN registered : registered[n].cell # c
  BY <1>1 DEF CellsInv
<1>5. ASSUME NEW n \in DOMAIN registered'
      PROVE  registered'[n].cell \in cells' /\ func'[registered'[n].cell] = "live"
  BY <1>1, <1>2, <1>3 DEF CellsInv
<1>6. ASSUME NEW w \in waiting'
      PROVE  /\ w[1] \in cells' /\ func'[w[1]] = "live"
             /\ \A n \in DOMAIN registered' : registered'[n].cell # w[1]
  <2>1. CASE w = <<c, arg>>
    <3>1. w[1] = c
      BY <2>1
    <3> QED BY <1>1, <1>2, <1>4, <3>1
  <2>2. CASE w \in waiting
    <3>1. w[1] \in Cell
      BY <2>2 DEF ListenInv, TypeOK
    <3> QED BY <1>1, <1>2, <2>2, <3>1 DEF CellsInv
  <2> QED BY <1>1, <2>1, <2>2
<1>7. ASSUME NEW n \in DOMAIN stack', stack'[n].what = "timer"
      PROVE  /\ stack'[n].at \in Cell /\ func'[stack'[n].at] # "none"
             /\ \A m \in DOMAIN registered' : registered'[m].cell # stack'[n].at
  BY <1>1, <1>2, <1>7 DEF CellsInv
<1> QED BY <1>5, <1>6, <1>7 DEF CellsInv

\* A timer that ends takes its own cell only from the roots.
LEMMA ReturnsCells ==
  ASSUME ListenInv, CellsInv, NEW last \in BOOLEAN, returns(last)
  PROVE  CellsInv'
<1>1. UNCHANGED <<registered, func>> /\ TimersStay
  BY ReturnsCalls DEF returns, lists, heap
<1>2. CASE Top.what = "timer" /\ last
  <2>1. waiting' = {w \in waiting : w[1] # Top.at} /\ cells' = cells \ {Top.at}
    BY <1>2 DEF returns
  <2>2. 1 \in DOMAIN stack /\ Top = stack[1]
    BY KnownTypes DEF ListenInv, returns, Top
  <2>3. \A n \in DOMAIN registered : registered[n].cell # Top.at
    BY <1>2, <2>2 DEF CellsInv
  <2>4. ASSUME NEW n \in DOMAIN registered'
        PROVE  registered'[n].cell \in cells' /\ func'[registered'[n].cell] = "live"
    BY <1>1, <2>1, <2>3 DEF CellsInv
  <2>5. ASSUME NEW w \in waiting'
        PROVE  /\ w[1] \in cells' /\ func'[w[1]] = "live"
               /\ \A n \in DOMAIN registered' : registered'[n].cell # w[1]
    BY <1>1, <2>1 DEF CellsInv
  <2>6. ASSUME NEW n \in DOMAIN stack', stack'[n].what = "timer"
        PROVE  /\ stack'[n].at \in Cell /\ func'[stack'[n].at] # "none"
               /\ \A m \in DOMAIN registered' : registered'[m].cell # stack'[n].at
    BY <1>1, <2>6 DEF CellsInv, TimersStay
  <2> QED BY <2>4, <2>5, <2>6 DEF CellsInv
<1>3. CASE ~ (Top.what = "timer" /\ last)
  <2>1. waiting' = waiting /\ cells' = cells
    BY <1>3 DEF returns
  <2> QED BY <1>1, <2>1, CellsStill
<1> QED BY <1>2, <1>3

\* The collector takes no function that has a root.
LEMMA CollectedCells ==
  ASSUME ListenInv, CellsInv, gc
  PROVE  CellsInv'
<1>1. /\ func' = [c \in Cell |->
                   IF func[c] = "live" /\ c \notin cells \cup RunningCells THEN "collected"
                   ELSE func[c]]
      /\ UNCHANGED <<registered, waiting, cells, stack>>
  BY DEF gc, lists, roots
<1>2. \A c \in Cell : /\ c \in cells => func'[c] = func[c]
                      /\ func[c] # "none" => func'[c] # "none"
  <2> HIDE DEF RunningCells
  <2> QED BY <1>1
<1>3. \A n \in DOMAIN registered : registered[n].cell \in Cell
  BY HeardTypes, ListenTypes DEF ListenInv
<1>4. \A w \in waiting : w[1] \in Cell
  BY DEF ListenInv, TypeOK
<1>5. ASSUME NEW n \in DOMAIN registered'
      PROVE  registered'[n].cell \in cells' /\ func'[registered'[n].cell] = "live"
  BY <1>1, <1>2, <1>3 DEF CellsInv
<1>6. ASSUME NEW w \in waiting'
      PROVE  /\ w[1] \in cells' /\ func'[w[1]] = "live"
             /\ \A n \in DOMAIN registered' : registered'[n].cell # w[1]
  BY <1>1, <1>2, <1>4 DEF CellsInv
<1>7. ASSUME NEW n \in DOMAIN stack', stack'[n].what = "timer"
      PROVE  /\ stack'[n].at \in Cell /\ func'[stack'[n].at] # "none"
             /\ \A m \in DOMAIN registered' : registered'[m].cell # stack'[n].at
  BY <1>1, <1>2, <1>7 DEF CellsInv
<1> QED BY <1>5, <1>6, <1>7 DEF CellsInv

\* Nor any object that is marked.
LEMMA CollectedObjects ==
  ASSUME ListenInv, ObjectsInv, gc
  PROVE  ObjectsInv'
<1>1. PICK junk \in SUBSET {s \in sockets : socket[s] = "freed"} :
        object' = [o \in Objects |->
                     IF object[o] = "live" /\ o \notin {Server} \cup Marked \cup junk
                     THEN "collected" ELSE object[o]]
  BY DEF gc
<1>2. UNCHANGED <<socket, made, ctx, waiting, sockets, kept, stack>>
  BY DEF gc, lists, roots
<1>3. \A o \in Objects : o = Server \/ o \in Marked => object'[o] = object[o]
  <2> HIDE DEF Marked
  <2> QED BY <1>1
<1>4. Server \in Objects /\ Socks \subseteq Objects /\ kept \subseteq Socks /\ sockets \subseteq Socks
  BY DEF Objects, ListenInv, TypeOK
<1>5. object'[Server] = "live"
  BY <1>3, <1>4 DEF ObjectsInv
<1>6. \A s \in kept' : object'[s] = "live"
  BY <1>2, <1>3, <1>4 DEF ObjectsInv, Marked
<1>7. SocketsInv'
  <2>1. ASSUME NEW s \in Socks, socket[s] \in {"pending", "online"}, made[s] = "accept", s \in ctx
        PROVE  s \in sockets /\ object'[s] = "live"
    <3>1. s \in sockets /\ object[s] = "live" /\ socket[s] # "freed"
      BY <2>1 DEF ObjectsInv, SocketsInv
    <3>2. s \in Marked
      BY <3>1 DEF Marked
    <3> QED BY <1>3, <1>4, <3>1, <3>2
  <2> QED BY <1>2, <2>1 DEF ObjectsInv, SocketsInv
<1>8. CallsLive'
  <2>1. ASSUME NEW n \in DOMAIN stack, NEW o \in stack[n].args \cup {stack[n].this}
        PROVE  object'[o] = "live"
    <3>1. stack[n] \in Call
      BY ListenTypes DEF ListenInv
    <3>2. o \in Objects
      BY <2>1, <3>1 DEF Call, Objects
    <3>3. o \in Marked
      BY <2>1 DEF Marked
    <3>4. object[o] = "live"
      BY <2>1 DEF ObjectsInv, CallsLive
    <3> QED BY <1>3, <3>2, <3>3, <3>4
  <2> QED BY <1>2, <2>1 DEF CallsLive
<1> QED BY <1>2, <1>5, <1>6, <1>7, <1>8 DEF ObjectsInv

\* A request or a frame makes the object of its socket, with a root.
LEMMA RequestObjects ==
  ASSUME ListenInv, ObjectsInv, NEW s \in Socks,
         NEW event \in {"request", "wsframe"}, NEW args \in SUBSET {s}, requests(s, event, args)
  PROVE  ObjectsInv' /\ TimersStay
<1>1. /\ made[s] = "accept" /\ socket[s] = "online" /\ Trigger(Server, event, args)
      /\ UNCHANGED <<socket, made, func, next, registered, waiting, cells, kept>>
  BY DEF requests
<1>2. /\ \A o \in Objects : object[o] = "live" => object'[o] = "live"
      /\ object'[s] = "live" /\ s \in ctx' /\ s \in sockets' /\ sockets \subseteq sockets'
      /\ \A z \in Socks : z # s => (z \in ctx' <=> z \in ctx)
  <2>1. CASE s \in ctx /\ UNCHANGED <<ctx, object, events, sockets>>
    BY <1>1, <2>1 DEF ObjectsInv, SocketsInv
  <2>2. CASE /\ s \notin ctx
             /\ ctx' = ctx \cup {s}
             /\ object' = [object EXCEPT ![s] = "live"]
             /\ events' = [events EXCEPT ![s] = ape_array_new]
             /\ RootedCtx(s)
    <3>1. object \in [Objects -> {"none", "live", "collected"}] /\ s \in Objects
      BY DEF ListenInv, TypeOK, Objects
    <3> QED BY <2>2, <3>1 DEF RootedCtx
  <2> QED BY <2>1, <2>2 DEF requests
<1>3. Server \in Objects /\ events[Server] # <<>> /\ event \in Events
  BY DEF ListenInv, MadeInv, Objects, Events
<1>4. TimersStay /\ CallsAbout(args \cup {Server})
  <2>1. args \in SUBSET Socks
    OBVIOUS
  <2> QED BY <1>1, <1>3, <2>1, TriggerCalls
<1>5. object'[Server] = "live"
  BY <1>2, <1>3 DEF ObjectsInv
<1>6. CallsLive'
  <2>1. \A o \in args \cup {Server} : object'[o] = "live"
    BY <1>2, <1>5
  <2>2. ASSUME NEW n \in DOMAIN stack, NEW o \in stack[n].args \cup {stack[n].this}
        PROVE  object'[o] = "live"
    <3>1. o \in Objects
      BY <2>2, ListenTypes DEF ListenInv, Call, Objects
    <3>2. object[o] = "live"
      BY <2>2 DEF ObjectsInv, CallsLive
    <3> QED BY <1>2, <3>1, <3>2
  <2> QED BY <1>4, <2>1, <2>2, CallsStayLive DEF ObjectsInv
<1>7. \A z \in kept' : object'[z] = "live"
  <2>1. kept \subseteq Objects
    BY DEF ListenInv, TypeOK, Objects
  <2> QED BY <1>1, <1>2, <2>1 DEF ObjectsInv
<1>8. SocketsInv'
  <2>1. ASSUME NEW z \in Socks, socket'[z] \in {"pending", "online"}
        PROVE  /\ made'[z] = "script" => z \in kept'
               /\ made'[z] = "accept" /\ z \in ctx' => z \in sockets' /\ object'[z] = "live"
    <3>1. CASE z = s
      BY <1>1, <1>2, <3>1
    <3>2. CASE z # s
      <4>1. z \in Objects
        BY DEF Objects
      <4> QED BY <1>1, <1>2, <2>1, <3>2, <4>1 DEF ObjectsInv, SocketsInv
    <3> QED BY <3>1, <3>2
  <2> QED BY <2>1 DEF SocketsInv
<1>9. \A w \in waiting' : w[2] \in Socks => w[2] \in kept'
  BY <1>1 DEF ObjectsInv
<1> QED BY <1>4, <1>5, <1>6, <1>7, <1>8, <1>9 DEF ObjectsInv

LEMMA NewSocketObjects ==
  ASSUME ListenInv, ObjectsInv, NEW s \in Socks, new_socket(s)
  PROVE  ObjectsInv'
<1>1. /\ made[s] = "none" /\ made' = [made EXCEPT ![s] = "script"]
      /\ ctx' = ctx \cup {s} /\ object' = [object EXCEPT ![s] = "live"] /\ kept' = kept \cup {s}
      /\ UNCHANGED <<waiting, sockets, stack>>
  BY DEF new_socket, roots
<1>2. \A z \in Socks : z # s => socket'[z] = socket[z]
  BY DEF new_socket, ListenInv, TypeOK
<1>3. \A o \in Objects : object'[o] = IF o = s THEN "live" ELSE object[o]
  BY <1>1 DEF ListenInv, TypeOK
<1>4. /\ s \in Objects /\ Server \in Objects /\ kept \subseteq Objects
      /\ \A z \in Socks : z \in Objects
  BY DEF Objects, ListenInv, TypeOK
<1>5. object'[Server] = "live" /\ \A z \in kept' : object'[z] = "live"
  BY <1>1, <1>3, <1>4 DEF ObjectsInv
<1>6. SocketsInv'
  <2>1. ASSUME NEW z \in Socks, socket'[z] \in {"pending", "online"}
        PROVE  /\ made'[z] = "script" => z \in kept'
               /\ made'[z] = "accept" /\ z \in ctx' => z \in sockets' /\ object'[z] = "live"
    <3>1. CASE z = s
      <4>1. made'[s] = "script"
        BY <1>1 DEF ListenInv, TypeOK
      <4> QED BY <1>1, <3>1, <4>1
    <3>2. CASE z # s
      <4>1. made'[z] = made[z] /\ socket'[z] = socket[z] /\ object'[z] = object[z]
        BY <1>1, <1>2, <1>3, <1>4, <3>2 DEF ListenInv, TypeOK
      <4> QED BY <1>1, <2>1, <3>2, <4>1 DEF ObjectsInv, SocketsInv
    <3> QED BY <3>1, <3>2
  <2> QED BY <2>1 DEF SocketsInv
<1>7. CallsLive'
  <2>1. ASSUME NEW n \in DOMAIN stack, NEW o \in stack[n].args \cup {stack[n].this}
        PROVE  object'[o] = "live"
    <3>1. o \in Objects
      BY <2>1, ListenTypes DEF ListenInv, Call, Objects
    <3>2. object[o] = "live"
      BY <2>1 DEF ObjectsInv, CallsLive
    <3> QED BY <1>3, <3>1, <3>2
  <2> QED BY <1>1, <2>1 DEF CallsLive
<1> QED BY <1>1, <1>5, <1>6, <1>7 DEF ObjectsInv

LEMMA KeptNext ==
  ASSUME Keeps, KeptInv, [Next]_vars
  PROVE  KeptInv'
<1> DEFINE Live == {o \in Objects : object[o] = "live"}
<1>0. /\ ListenInv /\ CellsInv /\ ObjectsInv /\ ListenInv'
      /\ \A o \in Live : object[o] = "live"
      /\ Server \in Live
  BY ListenNext DEF KeptInv, ObjectsInv, Objects
<1> HIDE DEF Live
<1>1. CASE UNCHANGED vars
  <2>1. TimersStay /\ CallsAbout(Live)
    BY <1>1, SameCalls DEF vars
  <2>2. CellsInv'
    BY <1>0, <1>1, <2>1, CellsStill DEF vars, lists, heap, roots
  <2>3. ObjectsInv'
    BY <1>0, <1>1, <2>1, ObjectsStill DEF vars, heap, roots
  <2> QED BY <1>0, <2>2, <2>3 DEF KeptInv
<1>2. ASSUME NEW s \in Socks, new_socket(s)
      PROVE  KeptInv'
  <2>1. CellsInv'
    BY <1>0, <1>2, SameCalls, CellsStill DEF new_socket, roots
  <2> QED BY <1>0, <1>2, <2>1, NewSocketObjects DEF KeptInv
<1>3. ASSUME NEW s \in Socks, keep(s) \/ let_go(s)
      PROVE  KeptInv'
  <2>1. /\ UNCHANGED <<socket, made, ctx, heap, lists, waiting, roots, stack>> /\ Running
        /\ \/ s \in Known /\ kept' = kept \cup {s}
           \/ /\ kept' = kept \ {s}
              /\ made[s] = "script" => socket[s] \in {"offline", "freed"}
              /\ \A w \in waiting : w[2] # s
    BY <1>3 DEF keep, let_go
  <2>2. CellsInv'
    BY <1>0, <2>1, SameCalls, CellsStill DEF lists, heap, roots
  <2>3. \A z \in kept' : object'[z] = "live"
    BY <1>0, <2>1, KnownLive DEF ObjectsInv, heap
  <2>4. \A w \in waiting' : w[2] \in Socks => w[2] \in kept'
    BY <1>0, <2>1 DEF ObjectsInv
  <2>5. SocketsInv'
    BY <1>0, <2>1 DEF ObjectsInv, SocketsInv, heap, roots
  <2>6. CallsLive' /\ object'[Server] = "live"
    BY <1>0, <2>1 DEF ObjectsInv, CallsLive, heap
  <2> QED BY <1>0, <2>2, <2>3, <2>4, <2>5, <2>6 DEF KeptInv, ObjectsInv
<1>4. ASSUME NEW s \in Socks, Destroy(s), object[s] = "live",
             UNCHANGED <<made, ctx, heap, lists, waiting, roots, kept>>
      PROVE  KeptInv'
  <2>1. s \in Live
    BY <1>4 DEF Live, Objects
  <2>2. /\ TimersStay /\ CallsAbout(Live)
        /\ \A z \in Socks : socket'[z] \in {"pending", "online"} => socket[z] \in {"pending", "online"}
    BY <1>0, <1>4, <2>1, DestroyCalls
  <2>3. CellsInv'
    BY <1>0, <1>4, <2>2, CellsStill DEF lists, heap, roots
  <2>4. ObjectsInv'
    BY <1>0, <1>4, <2>2, ObjectsStill DEF heap, roots
  <2> QED BY <1>0, <2>3, <2>4 DEF KeptInv
<1>5. ASSUME NEW s \in Socks, use_fails(s)
      PROVE  KeptInv'
  <2>1. object[s] = "live"
    BY <1>0, <1>5, KnownLive DEF use_fails
  <2> QED BY <1>4, <1>5, <2>1 DEF use_fails
<1>6. ASSUME NEW s \in Socks, goes(s)
      PROVE  KeptInv'
  <2>1. CASE made[s] = "script"
    <3>1. socket[s] \in {"pending", "online"}
      BY <1>6, <2>1 DEF goes
    <3>2. object[s] = "live"
      BY <1>0, <2>1, <3>1 DEF ObjectsInv, SocketsInv
    <3> QED BY <1>4, <1>6, <3>2 DEF goes
  <2>2. CASE made[s] # "script"
    <3>1. /\ made[s] = "accept" /\ socket' = [socket EXCEPT ![s] = "offline"]
          /\ UNCHANGED <<made, ctx, heap, lists, waiting, roots, kept, stack>>
      BY <1>6, <2>2 DEF goes, Destroy
    <3>2. \A z \in Socks : socket'[z] \in {"pending", "online"} => socket[z] \in {"pending", "online"}
      BY <1>0, <3>1 DEF ListenInv, TypeOK
    <3>3. CellsInv'
      BY <1>0, <3>1, SameCalls, CellsStill DEF lists, heap, roots
    <3>4. ObjectsInv'
      <4>1. CallsAbout(Live)
        BY <3>1, SameCalls
      <4> QED BY <1>0, <3>1, <3>2, <4>1, ObjectsStill DEF heap, roots
    <3> QED BY <1>0, <3>3, <3>4 DEF KeptInv
  <2> QED BY <2>1, <2>2
<1>7. ASSUME NEW c \in Cell, NEW o \in Objects, NEW key \in Keys, add_event_listener(o, key, c)
      PROVE  KeptInv'
  <2>1. CellsInv'
    BY <1>0, <1>7, NewListenerCells
  <2>2. UNCHANGED <<socket, made, ctx, object, waiting, sockets, kept, stack>>
    BY <1>7 DEF add_event_listener
  <2>3. CallsAbout(Live)
    BY <2>2, SameCalls
  <2>4. ObjectsInv'
    BY <1>0, <2>2, <2>3, ObjectsStill
  <2> QED BY <1>0, <2>1, <2>4 DEF KeptInv
<1>8. ASSUME NEW c \in Cell, NEW arg \in Socks \cup {None}, set_timer(c, arg)
      PROVE  KeptInv'
  <2>1. CellsInv'
    BY <1>0, <1>8, NewTimerCells
  <2>2. /\ UNCHANGED <<socket, made, ctx, object, lists, sockets, stack>>
        /\ waiting' = waiting \cup {<<c, arg>>} /\ kept' = kept \cup ({arg} \cap Socks)
        /\ arg \in Known \cup {None} /\ Running
    BY <1>8 DEF set_timer, NewCell
  <2>3. arg \in Socks => object[arg] = "live"
    <3>1. None \notin Socks
      BY NamesDiffer DEF Objects
    <3> QED BY <1>0, <2>2, <3>1, KnownLive
  <2>4. \A z \in kept' : object'[z] = "live"
    BY <1>0, <2>2, <2>3 DEF ObjectsInv
  <2>5. \A w \in waiting' : w[2] \in Socks => w[2] \in kept'
    BY <1>0, <2>2 DEF ObjectsInv
  <2>6. SocketsInv'
    BY <1>0, <2>2 DEF ObjectsInv, SocketsInv
  <2>7. CallsLive' /\ object'[Server] = "live"
    BY <1>0, <2>2 DEF ObjectsInv, CallsLive
  <2> QED BY <1>0, <2>1, <2>4, <2>5, <2>6, <2>7 DEF KeptInv, ObjectsInv
<1>9. ASSUME NEW last \in BOOLEAN, returns(last)
      PROVE  KeptInv'
  <2>1. CellsInv'
    BY <1>0, <1>9, ReturnsCells
  <2>2. CallsAbout(Live) /\ waiting' \subseteq waiting
    BY <1>0, <1>9, ReturnsCalls, ReturnsFollows
  <2>3. UNCHANGED <<made, ctx, object, sockets, kept>>
    BY <1>9 DEF returns, heap
  <2>4. \A s \in Socks : socket'[s] \in {"pending", "online"} => socket[s] \in {"pending", "online"}
    <3>1. socket' = socket \/ socket' = [socket EXCEPT ![Top.this] = "offline"]
      BY <1>9 DEF returns
    <3> QED BY <1>0, <3>1 DEF ListenInv, TypeOK
  <2>5. ObjectsInv'
    BY <1>0, <2>2, <2>3, <2>4, ObjectsStill
  <2> QED BY <1>0, <2>1, <2>5 DEF KeptInv
<1>10. ASSUME gc
       PROVE  KeptInv'
  BY <1>0, <1>10, CollectedCells, CollectedObjects DEF KeptInv
<1>11. ASSUME NEW s \in Socks, connected(s) \/ reads(s)
       PROVE  KeptInv'
  <2>1. /\ made[s] = "script" /\ socket[s] \in {"pending", "online"}
        /\ UNCHANGED <<made, ctx, heap, lists, waiting, roots, kept>>
        /\ Trigger(s, "connect", {}) \/ Trigger(s, "read", {})
        /\ socket' = [socket EXCEPT ![s] = "online"] \/ socket' = socket
    BY <1>11 DEF connected, reads
  <2>2. s \in Objects /\ events[s] # <<>> /\ "connect" \in Events /\ "read" \in Events
    BY <1>0, <2>1 DEF ListenInv, MadeInv, Objects, Events
  <2>3. s \in Live
    <3>1. s \in kept
      BY <1>0, <2>1 DEF ObjectsInv, SocketsInv
    <3> QED BY <1>0, <2>2, <3>1 DEF Live, ObjectsInv
  <2>4. TimersStay /\ CallsAbout(Live)
    BY <1>0, <2>1, <2>2, <2>3, TriggerCalls
  <2>5. \A z \in Socks : socket'[z] \in {"pending", "online"} => socket[z] \in {"pending", "online"}
    BY <1>0, <2>1 DEF ListenInv, TypeOK
  <2>6. CellsInv'
    BY <1>0, <2>1, <2>4, CellsStill DEF lists, heap, roots
  <2>7. ObjectsInv'
    BY <1>0, <2>1, <2>4, <2>5, ObjectsStill DEF heap, roots
  <2> QED BY <1>0, <2>6, <2>7 DEF KeptInv
<1>12. ASSUME NEW s \in Socks, accepts(s)
       PROVE  KeptInv'
  <2>1. /\ made[s] = "none" /\ made' = [made EXCEPT ![s] = "accept"]
        /\ socket' = [socket EXCEPT ![s] = "online"]
        /\ UNCHANGED <<ctx, heap, lists, waiting, roots, kept, stack>>
    BY <1>12 DEF accepts
  <2>2. CellsInv'
    BY <1>0, <2>1, SameCalls, CellsStill DEF lists, heap, roots
  <2>3. s \notin ctx
    BY <1>0, <2>1 DEF ListenInv, MadeInv
  <2>4. SocketsInv'
    <3>1. made'[s] = "accept" /\ \A z \in Socks : z # s => made'[z] = made[z] /\ socket'[z] = socket[z]
      BY <1>0, <2>1 DEF ListenInv, TypeOK
    <3> QED BY <1>0, <2>1, <2>3, <3>1 DEF ObjectsInv, SocketsInv, heap, roots
  <2>5. CallsLive' /\ object'[Server] = "live"
    BY <1>0, <2>1 DEF ObjectsInv, CallsLive, heap
  <2> QED BY <1>0, <2>1, <2>2, <2>4, <2>5 DEF KeptInv, ObjectsInv, heap
<1>13. ASSUME NEW s \in Socks, ape_socket_free(s)
       PROVE  KeptInv'
  <2>1. /\ socket' = [socket EXCEPT ![s] = "freed"]
        /\ UNCHANGED <<made, ctx, heap, lists, waiting, roots, kept, stack>>
    BY <1>13 DEF ape_socket_free
  <2>2. \A z \in Socks : socket'[z] \in {"pending", "online"} => socket[z] \in {"pending", "online"}
    BY <1>0, <2>1 DEF ListenInv, TypeOK
  <2>3. CellsInv'
    BY <1>0, <2>1, SameCalls, CellsStill DEF lists, heap, roots
  <2>4. CallsAbout(Live)
    BY <2>1, SameCalls
  <2>5. ObjectsInv'
    BY <1>0, <2>1, <2>2, <2>4, ObjectsStill DEF heap, roots
  <2> QED BY <1>0, <2>3, <2>5 DEF KeptInv
<1>14. ASSUME NEW s \in Socks, NEW event \in {"request", "wsframe"}, NEW args \in SUBSET {s},
              requests(s, event, args)
       PROVE  KeptInv'
  <2>1. ObjectsInv' /\ TimersStay
    BY <1>0, <1>14, RequestObjects
  <2>2. CellsInv'
    BY <1>0, <1>14, <2>1, CellsStill DEF requests
  <2> QED BY <1>0, <2>1, <2>2 DEF KeptInv
<1>15. ASSUME NEW c, NEW arg, timer_wrapper(c, arg)
       PROVE  KeptInv'
  <2> DEFINE d == [what |-> "timer", this |-> Server, args |-> {arg} \cap Socks, at |-> c,
                   owed |-> {}]
  <2>1. /\ <<c, arg>> \in waiting /\ stack' = <<d>>
        /\ UNCHANGED <<socket, made, ctx, heap, lists, waiting, roots, kept>>
    BY <1>15 DEF timer_wrapper
  <2>2. d.what = "timer" /\ d.this = Server /\ d.args = {arg} \cap Socks /\ d.at = c
    OBVIOUS
  <2> HIDE DEF d
  <2>3. \A n \in DOMAIN stack' : stack'[n] = d
    BY <2>1
  <2>4. c \in Cell
    BY <1>0, <2>1 DEF ListenInv, TypeOK
  <2>5. func[c] = "live" /\ \A m \in DOMAIN registered : registered[m].cell # c
    BY <1>0, <2>1 DEF CellsInv
  <2>6. CellsInv'
    <3>1. ASSUME NEW n \in DOMAIN stack'
          PROVE  /\ stack'[n].at \in Cell /\ func[stack'[n].at] # "none"
                 /\ \A m \in DOMAIN registered : registered[m].cell # stack'[n].at
      BY <2>2, <2>3, <2>4, <2>5
    <3> QED BY <1>0, <2>1, <3>1 DEF CellsInv, lists, heap, roots
  <2>7. {arg} \cap Socks \subseteq Live
    <3>1. arg \in Socks => arg \in kept
      BY <1>0, <2>1 DEF ObjectsInv
    <3> QED BY <1>0, <3>1 DEF Live, ObjectsInv, Objects
  <2>8. CallsAbout(Live)
    BY <1>0, <2>2, <2>3, <2>7 DEF CallsAbout
  <2>9. ObjectsInv'
    BY <1>0, <2>1, <2>8, ObjectsStill DEF heap, roots
  <2> QED BY <1>0, <2>6, <2>9 DEF KeptInv
<1>16. CASE Script
  BY <1>2, <1>3, <1>5, <1>7, <1>8, <1>9, <1>10, <1>16 DEF Script
<1>17. CASE Loop
  <2>1. \A s \in Socks : {s} \in SUBSET {s} /\ {} \in SUBSET {s}
    OBVIOUS
  <2>2. ASSUME NEW s \in Socks, requests(s, "request", {s}) \/ requests(s, "wsframe", {})
        PROVE  KeptInv'
    BY <1>14, <2>1, <2>2
  <2> QED BY <1>6, <1>11, <1>12, <1>13, <1>15, <1>17, <2>2 DEF Loop
<1> QED BY <1>1, <1>16, <1>17 DEF Next

\* Nothing that the server may call or hand over has been collected, provided that
\* scripts keep the sockets they make until these are gone, and what they give to
\* timers until it is handed back (ape_jsapi.c:240, 684, 855, 900).
THEOREM InUseIsLiveHolds ==
  ASSUME Keeps
  PROVE  Spec => []InUseIsLive
<1>1. Init => KeptInv
  BY KeptInit
<1>2. KeptInv /\ [Next]_vars => KeptInv'
  BY KeptNext
<1>3. ASSUME KeptInv
      PROVE  InUseIsLive
  <2>1. \A s \in ctx : socket[s] \in {"pending", "online"} => object[s] = "live"
    <3>1. TAKE s \in ctx
    <3>2. s \in Socks /\ made[s] \in {"accept", "script"}
      BY <1>3 DEF KeptInv, ListenInv, TypeOK, MadeInv
    <3> QED BY <1>3, <3>2 DEF KeptInv, ObjectsInv, SocketsInv
  <2> QED BY <1>3, <2>1 DEF InUseIsLive, KeptInv, CellsInv, ObjectsInv, CallsLive
<1> QED BY <1>1, <1>2, <1>3, PTL DEF Spec

=============================================================================
