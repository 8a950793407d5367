------------------------------ MODULE JsonTree ------------------------------
(***************************************************************************)
(* ape_json.c: json_callback builds a tree of json_items from the parser's  *)
(* callbacks, json_to_string prints one.  Items are numbered in the order   *)
(* of their allocation; 0 is NULL.                                          *)
(***************************************************************************)
EXTENDS JsonParser

\* A json_item: its links, jchild.type, key and value.
Item == [father : Nat, child : Nat, next : Nat, holds : {"none", "array", "key"},
         key : Strings \cup {"none"}, value : Scalars \cup {"none"}]

\* A json_context; crashed stands for a NULL current_cx that was followed.
Context == [under : BOOLEAN, deep : BOOLEAN, head : Nat, cur : Nat,
            items : Seq(Item), crashed : BOOLEAN]

NewContext == [under |-> FALSE, deep |-> FALSE, head |-> 0, cur |-> 0,
               items |-> <<>>, crashed |-> FALSE]

\* init_json_item and the links to the item before: its child if a container
\* has just been opened, its brother otherwise.
Attached(cx, key) ==
  LET id == Len(cx.items) + 1
      father == IF cx.cur = 0 THEN 0
                ELSE IF cx.deep THEN cx.cur ELSE cx.items[cx.cur].father
      link == IF cx.deep THEN "child" ELSE "next"
      linked == IF cx.cur = 0 THEN cx.items
                ELSE [cx.items EXCEPT ![cx.cur][link] = id]
      item == [father |-> father, child |-> 0, next |-> 0, holds |-> "none",
               key |-> key, value |-> "none"]
  IN  [cx EXCEPT !.cur = id, !.items = Append(linked, item)]

\* The item a value belongs to: the one its key has made, or a new one.
ForValue(cx) == IF cx.under THEN cx ELSE Attached(cx, "none")

Begun(cx, mode) ==
  LET c == ForValue(cx)
  IN  [c EXCEPT !.items[c.cur].holds = mode, !.deep = TRUE, !.under = FALSE]

\* Variant: the end of an empty container goes up as well.
EndedTwice(cx) ==
  LET father == cx.items[cx.cur].father
  IN  [cx EXCEPT !.cur = IF father # 0 THEN father ELSE @,
                 !.deep = FALSE, !.under = FALSE]

Ended(cx) ==
  LET father == cx.items[cx.cur].father
  IN  [cx EXCEPT !.cur = IF father # 0 /\ ~cx.deep THEN father ELSE @,
                 !.deep = FALSE, !.under = FALSE]

Keyed(cx, key) == [Attached(cx, key) EXCEPT !.deep = FALSE, !.under = TRUE]

Valued(cx, value) ==
  LET c == ForValue(cx)
  IN  [c EXCEPT !.items[c.cur].value = value, !.deep = FALSE, !.under = FALSE]

\* Only an opening bracket may come when there is no item yet.
Dereferences(cx, e) == e.what # "begin" /\ cx.cur = 0

json_callback(cx, e) ==
  IF cx.crashed \/ Dereferences(cx, e) THEN [cx EXCEPT !.crashed = TRUE]
  ELSE LET after == CASE e.what = "begin" -> Begun(cx, e.value)
                      [] e.what = "end" -> Ended(cx)
                      [] e.what = "key" -> Keyed(cx, e.value)
                      [] e.what = "scalar" -> Valued(cx, e.value)
       IN  [after EXCEPT !.head = IF @ = 0 THEN after.cur ELSE @]

\* One character: at most two callbacks.
Called(cx, events) ==
  CASE events = <<>> -> cx
    [] Len(events) = 1 -> json_callback(cx, events[1])
    [] OTHER -> json_callback(json_callback(cx, events[1]), events[2])

\* The list of an item and its brothers.
Brothers(items, id) ==
  LET list[i \in 0..Len(items)] ==
        IF i = 0 THEN <<>> ELSE <<items[i]>> \o list[items[i].next]
  IN  list[id]

\* Variant: nothing is printed for an empty container.
PrintedUnlessEmpty(item) ==
  CASE item.value \in Strings \cup {"false", "null"} -> <<item.value>>
    [] item.value \in {"integer", "true"} -> <<"integer">>
    [] OTHER -> <<>>

\* What json_to_string prints for a value that is not a container with
\* something in it: true is stored as the integer 1, and an item without a
\* value is 0.
Printed(item) ==
  CASE item.value \in Strings \cup {"false", "null"} -> <<item.value>>
    [] item.value \in {"integer", "true"} -> <<"integer">>
    [] item.child = 0 -> <<"integer">>
    [] OTHER -> <<>>

Bracket(holds, array, object) ==
  CASE holds = "array" -> <<array>>
    [] holds = "key" -> <<object>>
    [] OTHER -> <<>>

json_to_string(items, head) ==
  LET printed[i \in 0..Len(items)] ==
        IF i = 0 THEN <<>>
        ELSE LET item == items[i]
                 key == IF item.key = "none" THEN <<>> ELSE <<item.key, ":">>
                 inside == IF item.child = 0 THEN <<>>
                           ELSE Bracket(item.holds, "[", "{") \o printed[item.child]
                 after == IF item.father = 0 THEN <<>>
                          ELSE IF item.next # 0 THEN <<",">>
                          ELSE Bracket(items[item.father].holds, "]", "}")
             IN  key \o Printed(item) \o inside \o after \o printed[item.next]
  IN  printed[head]
=============================================================================
