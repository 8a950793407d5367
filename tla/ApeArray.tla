------------------------------ MODULE ApeArray ------------------------------
(***************************************************************************)
(* ape_array, the keyed array that headers, listeners and properties are    *)
(* kept in (ape_array.c, on the list of ape_pool.c).  An array is a list of *)
(* slots that only grows; current is the slot the next item takes.          *)
(***************************************************************************)
LOCAL INSTANCE Naturals
LOCAL INSTANCE Sequences

CONSTANTS ArraySize,  \* slots of a new array (8 or 16 in the code)
          ArrayGrowth \* slots it grows by (4 in the code)

ASSUME SizesArePositive == ArraySize \in Nat \ {0} /\ ArrayGrowth \in Nat \ {0}

\* A slot that is not used; what its key and value were is not looked at.
Unused == [used |-> FALSE, key |-> <<>>, value |-> <<>>]
Holding(key, value) == [used |-> TRUE, key |-> key, value |-> value]

ArrayOf(Keys, Values) ==
  [slots : Seq({Unused} \cup [used : {TRUE}, key : Keys, value : Values]), current : Nat]

\* Positions are pointers, and 0 is NULL.
FirstOf(positions) ==
  IF positions = {} THEN 0 ELSE CHOOSE p \in positions : \A q \in positions : p <= q

ape_array_new == [slots |-> [p \in 1..ArraySize |-> Unused], current |-> 1]

\* The slot with this key, letter for letter.
ape_array_lookup_item(a, key) ==
  FirstOf({p \in DOMAIN a.slots : a.slots[p].used /\ a.slots[p].key = key})

\* ape_array_lookup and ape_array_lookup_data: the first slot with this key in
\* whatever case; spellings are the keys that differ from it in case only.
ape_array_lookup(a, spellings) ==
  FirstOf({p \in DOMAIN a.slots : a.slots[p].used /\ a.slots[p].key \in spellings})

\* The slot goes to the next item.
ape_array_delete(a, key) ==
  LET p == ape_array_lookup_item(a, key)
  IN  IF p = 0 THEN a ELSE [slots |-> [a.slots EXCEPT ![p] = Unused], current |-> p]

\* Variant: the slot taken is the last one of before.
GrownAtQueue(a) ==
  IF a.current = 0 \/ a.slots[a.current].used
  THEN [slots |-> a.slots \o [p \in 1..ArrayGrowth |-> Unused], current |-> Len(a.slots)]
  ELSE a

\* The array grows if current is not free.
Grown(a) ==
  IF a.current = 0 \/ a.slots[a.current].used
  THEN [slots |-> a.slots \o [p \in 1..ArrayGrowth |-> Unused], current |-> Len(a.slots) + 1]
  ELSE a

\* After the slot at p comes the next one, or the first that is free.
FreeAfter(slots, p) ==
  IF p < Len(slots) /\ ~slots[p + 1].used THEN p + 1
  ELSE FirstOf({q \in DOMAIN slots : ~slots[q].used})

\* ape_array_add_b and ape_array_add_ptr: an item with the same key makes room for
\* the new one.
ape_array_add(a, key, value) ==
  LET b == Grown(ape_array_delete(a, key))
      slots == [b.slots EXCEPT ![b.current] = Holding(key, value)]
  IN  [slots |-> slots, current |-> FreeAfter(slots, b.current)]
=============================================================================
