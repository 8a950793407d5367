--------------------------- MODULE ApeArray_proof ---------------------------
(***************************************************************************)
(* What the proofs about the users of ape_array need of it: its items are   *)
(* in its first slots, and one more comes behind them.                      *)
(***************************************************************************)
EXTENDS ApeArray, Naturals, SequenceTheorems, NaturalsInduction, WellFoundedInduction, TLAPS

(* Positions                                                                *)

LEMMA LeastExists ==
  ASSUME NEW S, S \subseteq Nat, S # {}
  PROVE  \E i \in S : \A j \in S : i <= j
<1> DEFINE R == OpToRel(<, Nat)
<1>1. \E i \in S : \A j \in S : ~ (<<j, i>> \in R)
  BY NatLessThanWellFounded, WFMin
<1>2. \A i, j \in S : ~ (<<j, i>> \in R) => i <= j
  BY DEF OpToRel
<1> QED BY <1>1, <1>2

\* The greatest number of a set is its least bound.
LEMMA GreatestExists ==
  ASSUME NEW N \in Nat, NEW S, S \subseteq 1..N, S # {}
  PROVE  \E i \in S : \A j \in S : j <= i
<1> DEFINE Bounds == {k \in Nat : \A j \in S : j <= k}
<1>1. N \in Bounds
  OBVIOUS
<1>2. PICK k \in Bounds : \A m \in Bounds : k <= m
  <2> HIDE DEF Bounds
  <2>1. Bounds \subseteq Nat
    BY DEF Bounds
  <2> QED BY <1>1, <2>1, LeastExists
<1>3. CASE k \in S
  BY <1>3
<1>4. CASE k \notin S
  <2>1. k - 1 \in Bounds
    <3>1. PICK j \in S : TRUE
      OBVIOUS
    <3>2. k \in Nat /\ k - 1 \in Nat
      BY <3>1
    <3>3. \A i \in S : i <= k - 1
      BY <1>4
    <3> QED BY <3>2, <3>3
  <2> QED BY <1>2, <2>1
<1> QED BY <1>3, <1>4

\* FirstOf is the least of some positions, and NULL if there are none.
LEMMA FirstOfIsLeast ==
  ASSUME NEW S, S \subseteq Nat \ {0}
  PROVE  /\ S = {} <=> FirstOf(S) = 0
         /\ S # {} => FirstOf(S) \in S /\ \A q \in S : FirstOf(S) <= q
         /\ FirstOf(S) \in Nat
<1>1. CASE S = {}
  BY <1>1 DEF FirstOf
<1>2. CASE S # {}
  <2>1. \E p \in S : \A q \in S : p <= q
    BY <1>2, LeastExists
  <2> QED BY <1>2, <2>1 DEF FirstOf
<1> QED BY <1>1, <1>2

(* Arrays to which items are only added                                     *)

\* The slots in use.
UsedIn(a) == {p \in DOMAIN a.slots : a.slots[p].used}

\* Those before current, or all if there is none.
Filled(a) ==
  /\ a.current \in 0..Len(a.slots)
  /\ \A p \in 1..Len(a.slots) : a.slots[p].used <=> (a.current = 0 \/ p < a.current)

LEMMA ArrayTypes ==
  ASSUME NEW Ks, NEW Vs, NEW a \in ArrayOf(Ks, Vs)
  PROVE  /\ a.current \in Nat
         /\ a.slots \in Seq({Unused} \cup [used : {TRUE}, key : Ks, value : Vs])
         /\ Len(a.slots) \in Nat
         /\ DOMAIN a.slots = 1..Len(a.slots)
         /\ \A p \in 1..Len(a.slots) : a.slots[p].used \in BOOLEAN
         /\ \A p \in UsedIn(a) : a.slots[p].key \in Ks /\ a.slots[p].value \in Vs
         /\ a = [slots |-> a.slots, current |-> a.current]
         /\ a # <<>>
<1> DEFINE S == {Unused} \cup [used : {TRUE}, key : Ks, value : Vs]
<1>1. a.slots \in Seq(S) /\ a.current \in Nat /\ a = [slots |-> a.slots, current |-> a.current]
  BY DEF ArrayOf
<1> HIDE DEF S
<1>2. Len(a.slots) \in Nat /\ DOMAIN a.slots = 1..Len(a.slots)
  BY <1>1, LenProperties
<1>3. \A p \in 1..Len(a.slots) : a.slots[p] \in S
  BY <1>1, ElementOfSeq
<1>4. \A x \in S : x.used \in BOOLEAN /\ (x.used => x.key \in Ks /\ x.value \in Vs)
  <2>1. TAKE x \in S
  <2>2. CASE x = Unused
    <3>1. x.used = FALSE
      BY <2>2 DEF Unused
    <3> QED BY <3>1
  <2>3. CASE x \in [used : {TRUE}, key : Ks, value : Vs]
    <3>1. x.used = TRUE
      BY <2>3
    <3>2. x.key \in Ks /\ x.value \in Vs
      BY <2>3
    <3> QED BY <3>1, <3>2
  <2> QED BY <2>1, <2>2, <2>3 DEF S
<1>5. a # <<>>
  <2>1. "slots" \in DOMAIN a
    BY <1>1
  <2>2. DOMAIN <<>> = 1..0
    BY EmptySeq, LenProperties
  <2> QED BY <2>1, <2>2
<1> QED BY <1>1, <1>2, <1>3, <1>4, <1>5 DEF UsedIn, S

\* A new array: no slot is in use.
LEMMA NewArray ==
  ASSUME NEW Ks, NEW Vs
  PROVE  /\ ape_array_new \in ArrayOf(Ks, Vs)
         /\ Filled(ape_array_new)
         /\ UsedIn(ape_array_new) = {}
<1> DEFINE S == {Unused} \cup [used : {TRUE}, key : Ks, value : Vs]
           slots == [p \in 1..ArraySize |-> Unused]
<1>1. slots \in [1..ArraySize -> S] /\ ArraySize \in Nat \ {0}
  BY SizesArePositive
<1>2. slots \in Seq(S)
  <2> HIDE DEF slots, S
  <2> QED BY <1>1, SeqDef
<1>3. Len(slots) = ArraySize
  <2>1. DOMAIN slots = 1..Len(slots) /\ Len(slots) \in Nat
    <3> HIDE DEF slots, S
    <3> QED BY <1>2, LenProperties
  <2>2. DOMAIN slots = 1..ArraySize
    OBVIOUS
  <2> HIDE DEF slots
  <2> QED BY <1>1, <2>1, <2>2
<1>4. \A p \in 1..ArraySize : slots[p].used = FALSE
  BY DEF Unused
<1>5. ape_array_new = [slots |-> slots, current |-> 1]
  BY DEF ape_array_new
<1>6. DOMAIN slots = 1..ArraySize
  OBVIOUS
<1> HIDE DEF slots
<1>7. ape_array_new \in ArrayOf(Ks, Vs)
  BY <1>2, <1>5 DEF ArrayOf
<1>8. Filled(ape_array_new)
  BY <1>1, <1>3, <1>4, <1>5 DEF Filled
<1>9. UsedIn(ape_array_new) = {}
  BY <1>4, <1>5, <1>6 DEF UsedIn
<1> QED BY <1>7, <1>8, <1>9

LEMMA UsedInFilled ==
  ASSUME NEW Ks, NEW Vs, NEW a \in ArrayOf(Ks, Vs), Filled(a)
  PROVE  /\ UsedIn(a) \subseteq Nat \ {0}
         /\ a.current # 0 => UsedIn(a) = 1..(a.current - 1)
         /\ a.current = 0 => UsedIn(a) = 1..Len(a.slots)
<1>1. Len(a.slots) \in Nat /\ DOMAIN a.slots = 1..Len(a.slots) /\ a.current \in Nat
  BY ArrayTypes
<1>2. a.current # 0 => \A p \in 1..Len(a.slots) : a.slots[p].used <=> p < a.current
  BY DEF Filled
<1>3. a.current = 0 => \A p \in 1..Len(a.slots) : a.slots[p].used
  BY DEF Filled
<1>4. a.current \in 0..Len(a.slots)
  BY DEF Filled
<1> QED BY <1>1, <1>2, <1>3, <1>4 DEF UsedIn

\* The slot with a key is found, if one has it.
LEMMA ItemFound ==
  ASSUME NEW Ks, NEW Vs, NEW a \in ArrayOf(Ks, Vs), NEW key,
         \A p, q \in UsedIn(a) : a.slots[p].key = key /\ a.slots[q].key = key => p = q
  PROVE  /\ ape_array_lookup_item(a, key) = 0 <=> \A p \in UsedIn(a) : a.slots[p].key # key
         /\ \A p \in UsedIn(a) : a.slots[p].key = key => ape_array_lookup_item(a, key) = p
         /\ ape_array_lookup_item(a, key) \in UsedIn(a) \cup {0}
<1> DEFINE S == {p \in DOMAIN a.slots : a.slots[p].used /\ a.slots[p].key = key}
           f == FirstOf(S)
<1>1. S = {p \in UsedIn(a) : a.slots[p].key = key}
  BY DEF UsedIn
<1>2. S \subseteq Nat \ {0}
  <2>1. DOMAIN a.slots = 1..Len(a.slots) /\ Len(a.slots) \in Nat
    BY ArrayTypes
  <2> QED BY <2>1
<1>3. f = ape_array_lookup_item(a, key)
  BY DEF ape_array_lookup_item
<1> HIDE DEF S
<1>4. (S = {} <=> f = 0) /\ (S # {} => f \in S)
  BY <1>2, FirstOfIsLeast
<1> HIDE DEF f
<1>5. f = 0 <=> \A p \in UsedIn(a) : a.slots[p].key # key
  BY <1>1, <1>4
<1>6. ASSUME NEW p \in UsedIn(a), a.slots[p].key = key
      PROVE  f = p
  BY <1>1, <1>4, <1>6
<1>7. f \in UsedIn(a) \cup {0}
  BY <1>1, <1>4
<1> QED BY <1>3, <1>5, <1>6, <1>7

LEMMA GrownArray ==
  ASSUME NEW Ks, NEW Vs, NEW a \in ArrayOf(Ks, Vs), Filled(a)
  PROVE  /\ Grown(a) \in ArrayOf(Ks, Vs)
         /\ Filled(Grown(a))
         /\ Grown(a).current \in 1..Len(Grown(a).slots)
         /\ UsedIn(a) = 1..(Grown(a).current - 1)
         /\ \A p \in UsedIn(a) : Grown(a).slots[p] = a.slots[p]
<1> DEFINE S == {Unused} \cup [used : {TRUE}, key : Ks, value : Vs]
           more == [p \in 1..ArrayGrowth |-> Unused]
           g == [slots |-> a.slots \o more, current |-> Len(a.slots) + 1]
<1>1. /\ Len(a.slots) \in Nat /\ DOMAIN a.slots = 1..Len(a.slots) /\ a.current \in Nat
      /\ a.slots \in Seq(S)
  BY ArrayTypes
<1>2. a.current \in 0..Len(a.slots)
  BY DEF Filled
<1>3. CASE a.current # 0
  <2>1. ~ a.slots[a.current].used
    BY <1>1, <1>2, <1>3 DEF Filled
  <2>2. Grown(a) = a
    BY <1>3, <2>1 DEF Grown
  <2>3. UsedIn(a) = 1..(a.current - 1)
    BY <1>3, UsedInFilled
  <2> QED BY <1>1, <1>2, <1>3, <2>2, <2>3
<1>4. CASE a.current = 0
  <2>1. Grown(a) = g
    BY <1>4 DEF Grown
  <2>2. more \in Seq(S) /\ Len(more) = ArrayGrowth /\ DOMAIN more = 1..ArrayGrowth
    <3>1. more \in [1..ArrayGrowth -> S] /\ ArrayGrowth \in Nat \ {0}
      BY SizesArePositive
    <3>2. more \in Seq(S)
      <4> HIDE DEF more, S
      <4> QED BY <3>1, SeqDef
    <3>3. DOMAIN more = 1..Len(more) /\ Len(more) \in Nat
      <4> HIDE DEF more, S
      <4> QED BY <3>2, LenProperties
    <3>4. DOMAIN more = 1..ArrayGrowth
      OBVIOUS
    <3> HIDE DEF more
    <3> QED BY <3>1, <3>2, <3>3, <3>4
  <2>3. \A p \in 1..ArrayGrowth : more[p].used = FALSE
    BY DEF Unused
  <2> HIDE DEF more, S
  <2>4. /\ a.slots \o more \in Seq(S)
        /\ Len(a.slots \o more) = Len(a.slots) + ArrayGrowth
        /\ \A i \in 1..Len(a.slots) + ArrayGrowth :
             (a.slots \o more)[i] = IF i <= Len(a.slots) THEN a.slots[i] ELSE more[i - Len(a.slots)]
    BY <1>1, <2>2, ConcatProperties
  <2>5. g \in ArrayOf(Ks, Vs)
    BY <1>1, <2>4 DEF ArrayOf, S
  <2>6. g.current \in 1..Len(g.slots)
    BY <1>1, <2>4, SizesArePositive
  <2>7. UsedIn(a) = 1..Len(a.slots)
    BY <1>4, UsedInFilled
  <2>8. \A p \in UsedIn(a) : g.slots[p] = a.slots[p]
    BY <1>1, <2>4, <2>7, SizesArePositive
  <2>9. Filled(g)
    <3>1. g.current # 0 /\ g.current \in 0..Len(g.slots) /\ g.current = Len(a.slots) + 1
      BY <1>1, <2>6
    <3>2. ASSUME NEW p \in 1..Len(g.slots)
          PROVE  g.slots[p].used <=> p < g.current
      <4>1. CASE p <= Len(a.slots)
        <5>1. a.slots[p].used
          BY <1>1, <2>7, <4>1 DEF UsedIn
        <5>2. g.slots[p] = a.slots[p]
          BY <1>1, <2>7, <2>8, <4>1
        <5> QED BY <1>1, <4>1, <5>1, <5>2, <3>1
      <4>2. CASE p > Len(a.slots)
        <5>1. p - Len(a.slots) \in 1..ArrayGrowth
          BY <1>1, <2>4, <4>2, SizesArePositive
        <5>2. g.slots[p] = more[p - Len(a.slots)]
          BY <1>1, <2>4, <4>2, SizesArePositive
        <5>3. g.slots[p].used = FALSE
          BY <2>3, <5>1, <5>2
        <5> QED BY <1>1, <3>1, <4>2, <5>3
      <4> QED BY <1>1, <2>4, <4>1, <4>2, SizesArePositive
    <3> QED BY <3>1, <3>2 DEF Filled
  <2>10. UsedIn(a) = 1..(g.current - 1)
    BY <1>1, <2>7
  <2> QED BY <2>1, <2>5, <2>6, <2>8, <2>9, <2>10
<1> QED BY <1>3, <1>4

\* A key that is not there is added to an array.
Adds(Ks, Vs, a, key, value, b) ==
  /\ a \in ArrayOf(Ks, Vs) /\ Filled(a) /\ key \in Ks /\ value \in Vs
  /\ \A p \in UsedIn(a) : a.slots[p].key # key
  /\ b = ape_array_add(a, key, value)

\* It takes the slot behind those in use, and these stay as they were.
Added(Ks, Vs, a, key, value, b) ==
  /\ b \in ArrayOf(Ks, Vs) /\ Filled(b)
  /\ \E k \in Nat \ {0} :
       /\ UsedIn(a) = 1..(k - 1) /\ UsedIn(b) = 1..k
       /\ b.slots[k].key = key /\ b.slots[k].value = value
       /\ \A p \in 1..(k - 1) : b.slots[p] = a.slots[p]

\* What an added item does to the array.
LEMMA AddedItem ==
  ASSUME NEW Ks, NEW Vs, NEW a, NEW key, NEW value, NEW b, Adds(Ks, Vs, a, key, value, b)
  PROVE  Added(Ks, Vs, a, key, value, b)
<1> SUFFICES ASSUME a \in ArrayOf(Ks, Vs), Filled(a), key \in Ks, value \in Vs,
                    \A p \in UsedIn(a) : a.slots[p].key # key,
                    b = ape_array_add(a, key, value)
             PROVE  /\ b \in ArrayOf(Ks, Vs) /\ Filled(b)
                    /\ \E k \in Nat \ {0} :
                         /\ UsedIn(a) = 1..(k - 1) /\ UsedIn(b) = 1..k
                         /\ b.slots[k].key = key /\ b.slots[k].value = value
                         /\ \A p \in 1..(k - 1) : b.slots[p] = a.slots[p]
  BY DEF Adds, Added
<1> DEFINE S == {Unused} \cup [used : {TRUE}, key : Ks, value : Vs]
           g == Grown(a)
           k == g.current
           slots == [g.slots EXCEPT ![k] = Holding(key, value)]
           r == [slots |-> slots, current |-> FreeAfter(slots, k)]
<1>1. ape_array_delete(a, key) = a
  <2>1. {p \in DOMAIN a.slots : a.slots[p].used /\ a.slots[p].key = key} = {}
    BY DEF UsedIn
  <2> QED BY <2>1 DEF ape_array_delete, ape_array_lookup_item, FirstOf
<1>2. ape_array_add(a, key, value) = r
  BY <1>1 DEF ape_array_add
<1>3. /\ g \in ArrayOf(Ks, Vs) /\ Filled(g) /\ k \in 1..Len(g.slots)
      /\ UsedIn(a) = 1..(k - 1)
      /\ \A p \in UsedIn(a) : g.slots[p] = a.slots[p]
  BY GrownArray
<1> HIDE DEF g
<1>4. Len(g.slots) \in Nat /\ g.slots \in Seq(S) /\ DOMAIN g.slots = 1..Len(g.slots)
  <2>1. g \in ArrayOf(Ks, Vs)
    BY <1>3
  <2>2. /\ g.slots \in Seq({Unused} \cup [used : {TRUE}, key : Ks, value : Vs])
        /\ Len(g.slots) \in Nat /\ DOMAIN g.slots = 1..Len(g.slots)
    BY <2>1, ArrayTypes
  <2> QED BY <2>2
<1>5. Holding(key, value) \in S
  BY DEF Holding
<1> HIDE DEF S, k
<1>6. /\ slots \in Seq(S) /\ Len(slots) = Len(g.slots) /\ DOMAIN slots = 1..Len(g.slots)
      /\ \A j \in 1..Len(g.slots) : slots[j] = IF j = k THEN Holding(key, value) ELSE g.slots[j]
  <2>1. /\ slots \in Seq(S) /\ Len(slots) = Len(g.slots)
        /\ \A j \in 1..Len(g.slots) : slots[j] = IF j = k THEN Holding(key, value) ELSE g.slots[j]
    BY <1>3, <1>4, <1>5, ExceptSeq
  <2> HIDE DEF slots
  <2> QED BY <2>1, LenProperties
<1> HIDE DEF slots
<1>7. \A p \in 1..Len(g.slots) : slots[p].used <=> p <= k
  <2>1. \A p \in 1..Len(g.slots) : g.slots[p].used <=> p < k
    BY <1>3 DEF Filled, k
  <2>2. slots[k].used = TRUE
    <3>1. Holding(key, value).used = TRUE
      BY DEF Holding
    <3> QED BY <1>3, <1>6, <3>1
  <2>3. ASSUME NEW p \in 1..Len(g.slots), p # k
        PROVE  slots[p].used <=> p <= k
    <3>1. slots[p] = g.slots[p]
      BY <1>6, <2>3
    <3>2. p < k <=> p <= k
      BY <1>3, <1>4, <2>3
    <3> QED BY <2>1, <3>1, <3>2
  <2>4. k <= k
    BY <1>3, <1>4
  <2> QED BY <2>2, <2>3, <2>4
<1>8. /\ FreeAfter(slots, k) \in 0..Len(g.slots)
      /\ \A p \in 1..Len(g.slots) : p <= k <=> (FreeAfter(slots, k) = 0 \/ p < FreeAfter(slots, k))
  <2>1. CASE k < Len(g.slots)
    <3>1. ~ slots[k + 1].used
      BY <1>3, <1>4, <1>7, <2>1
    <3>2. FreeAfter(slots, k) = k + 1
      BY <1>6, <2>1, <3>1 DEF FreeAfter
    <3> QED BY <1>3, <1>4, <2>1, <3>2
  <2>2. CASE k = Len(g.slots)
    <3>1. {q \in DOMAIN slots : ~slots[q].used} = {}
      BY <1>4, <1>6, <1>7, <2>2
    <3>2. FreeAfter(slots, k) = 0
      BY <1>4, <1>6, <2>2, <3>1 DEF FreeAfter, FirstOf
    <3> QED BY <1>4, <2>2, <3>2
  <2> QED BY <1>3, <1>4, <2>1, <2>2
<1>9. r \in ArrayOf(Ks, Vs)
  BY <1>4, <1>6, <1>8 DEF ArrayOf, S
<1>10. Filled(r)
  <2>1. r.slots = slots /\ r.current = FreeAfter(slots, k)
    OBVIOUS
  <2> QED BY <1>6, <1>7, <1>8, <2>1 DEF Filled
<1>11. UsedIn(r) = 1..k
  <2>1. UsedIn(r) = {p \in 1..Len(g.slots) : slots[p].used}
    BY <1>6 DEF UsedIn
  <2>2. UsedIn(r) = {p \in 1..Len(g.slots) : p <= k}
    BY <1>7, <2>1
  <2>3. k \in Nat /\ k <= Len(g.slots)
    BY <1>3, <1>4
  <2> HIDE DEF r
  <2>4. {p \in 1..Len(g.slots) : p <= k} = 1..k
    BY <1>4, <2>3
  <2> QED BY <2>2, <2>4
<1>12. slots[k].key = key /\ slots[k].value = value
  BY <1>3, <1>6 DEF Holding
<1>13. \A p \in 1..(k - 1) : slots[p] = a.slots[p]
  BY <1>3, <1>4, <1>6
<1>14. k \in Nat \ {0}
  BY <1>3, <1>4
<1> QED BY <1>2, <1>3, <1>9, <1>10, <1>11, <1>12, <1>13, <1>14

\* What an item with a key that is there does: it takes the place of that one.
LEMMA ReplacedItem ==
  ASSUME NEW Ks, NEW Vs, NEW a \in ArrayOf(Ks, Vs), Filled(a), NEW key \in Ks, NEW value \in Vs,
         NEW p \in UsedIn(a), a.slots[p].key = key,
         \A q \in UsedIn(a) : a.slots[q].key = key => q = p,
         NEW b, b = ape_array_add(a, key, value)
  PROVE  /\ b \in ArrayOf(Ks, Vs) /\ Filled(b) /\ UsedIn(b) = UsedIn(a)
         /\ b.slots[p].key = key /\ b.slots[p].value = value
         /\ \A q \in UsedIn(a) : q # p => b.slots[q] = a.slots[q]
<1> DEFINE S == {Unused} \cup [used : {TRUE}, key : Ks, value : Vs]
           free == [a.slots EXCEPT ![p] = Unused]
           d == [slots |-> free, current |-> p]
           slots == [free EXCEPT ![p] = Holding(key, value)]
           r == [slots |-> slots, current |-> FreeAfter(slots, p)]
<1>1. /\ Len(a.slots) \in Nat /\ DOMAIN a.slots = 1..Len(a.slots) /\ a.current \in Nat
      /\ a.slots \in Seq(S)
  BY ArrayTypes
<1>2. p \in 1..Len(a.slots) /\ a.slots[p].used
  BY <1>1 DEF UsedIn
<1>3. ape_array_delete(a, key) = d
  <2>1. ape_array_lookup_item(a, key) = p
    BY ItemFound
  <2>2. p # 0
    BY <1>1, <1>2
  <2> QED BY <2>1, <2>2 DEF ape_array_delete
<1>4. Unused \in S /\ Holding(key, value) \in S
  BY DEF Holding
<1> HIDE DEF S
<1>5. /\ free \in Seq(S) /\ Len(free) = Len(a.slots)
      /\ \A j \in 1..Len(a.slots) : free[j] = IF j = p THEN Unused ELSE a.slots[j]
  BY <1>1, <1>2, <1>4, ExceptSeq
<1>6. Grown(d) = d
  <2>1. d.current = p /\ d.slots = free
    OBVIOUS
  <2>2. d.slots[d.current].used = FALSE
    BY <1>2, <1>5, <2>1 DEF Unused
  <2>3. d.current # 0
    BY <1>1, <1>2, <2>1
  <2> HIDE DEF d
  <2> QED BY <2>2, <2>3 DEF Grown
<1>7. ape_array_add(a, key, value) = r
  <2>1. d.current = p /\ d.slots = free
    OBVIOUS
  <2> HIDE DEF d
  <2> QED BY <1>3, <1>6, <2>1 DEF ape_array_add
<1> HIDE DEF free
<1>8. /\ slots \in Seq(S) /\ Len(slots) = Len(a.slots) /\ DOMAIN slots = 1..Len(a.slots)
      /\ \A j \in 1..Len(a.slots) : slots[j] = IF j = p THEN Holding(key, value) ELSE a.slots[j]
  <2>1. /\ slots \in Seq(S) /\ Len(slots) = Len(free)
        /\ \A j \in 1..Len(a.slots) : slots[j] = IF j = p THEN Holding(key, value) ELSE free[j]
    BY <1>2, <1>4, <1>5, ExceptSeq
  <2> HIDE DEF slots
  <2> QED BY <1>5, <2>1, LenProperties
<1> HIDE DEF slots
<1>9. \A j \in 1..Len(a.slots) : slots[j].used <=> a.slots[j].used
  <2>1. Holding(key, value).used = TRUE
    BY DEF Holding
  <2> QED BY <1>2, <1>8, <2>1
<1>10. FreeAfter(slots, p) = a.current
  <2>1. a.current \in 0..Len(a.slots)
    BY DEF Filled
  <2>2. \A j \in 1..Len(a.slots) : slots[j].used <=> (a.current = 0 \/ j < a.current)
    BY <1>9 DEF Filled
  <2>3. a.current = 0 \/ p < a.current
    BY <1>2, <1>9, <2>2
  <2>4. CASE p < Len(slots) /\ ~ slots[p + 1].used
    <3>1. p + 1 \in 1..Len(a.slots) /\ FreeAfter(slots, p) = p + 1
      BY <1>1, <1>2, <1>8, <2>4 DEF FreeAfter
    <3>2. a.current # 0 /\ ~(p + 1 < a.current)
      BY <2>2, <2>4, <3>1
    <3> QED BY <1>1, <1>2, <2>1, <2>3, <3>1, <3>2
  <2>5. CASE ~(p < Len(slots) /\ ~ slots[p + 1].used)
    <3> DEFINE F == {q \in DOMAIN slots : ~ slots[q].used}
    <3>1. FreeAfter(slots, p) = FirstOf(F)
      BY <2>5 DEF FreeAfter
    <3>2. F = {q \in 1..Len(a.slots) : ~(a.current = 0 \/ q < a.current)}
      BY <1>8, <2>2
    <3> HIDE DEF F
    <3>3. F \subseteq Nat \ {0}
      BY <1>1, <3>2
    <3>4. CASE a.current = 0
      BY <3>1, <3>2, <3>3, <3>4, FirstOfIsLeast
    <3>5. CASE a.current # 0
      <4>1. a.current \in F /\ \A q \in F : a.current <= q
        BY <1>1, <2>1, <3>2, <3>5
      <4>2. FirstOf(F) \in F /\ FirstOf(F) <= a.current
        BY <3>3, <4>1, FirstOfIsLeast
      <4>3. a.current <= FirstOf(F) /\ FirstOf(F) \in Nat /\ a.current \in Nat
        BY <1>1, <3>3, <4>1, <4>2
      <4> QED BY <3>1, <4>2, <4>3
    <3> QED BY <3>4, <3>5
  <2> QED BY <2>4, <2>5
<1>11. r \in ArrayOf(Ks, Vs)
  BY <1>1, <1>8, <1>10 DEF ArrayOf, S
<1>12. Filled(r)
  <2>1. r.slots = slots /\ r.current = a.current
    BY <1>10
  <2> HIDE DEF r
  <2> QED BY <1>8, <1>9, <2>1 DEF Filled
<1>13. UsedIn(r) = UsedIn(a)
  <2>1. UsedIn(r) = {q \in 1..Len(a.slots) : slots[q].used}
    BY <1>8 DEF UsedIn
  <2>2. UsedIn(a) = {q \in 1..Len(a.slots) : a.slots[q].used}
    BY <1>1 DEF UsedIn
  <2> QED BY <1>9, <2>1, <2>2
<1>14. slots[p].key = key /\ slots[p].value = value
  BY <1>2, <1>8 DEF Holding
<1>15. \A q \in UsedIn(a) : q # p => slots[q] = a.slots[q]
  BY <1>1, <1>8 DEF UsedIn
<1> QED BY <1>7, <1>11, <1>12, <1>13, <1>14, <1>15

=============================================================================
