----------------------- MODULE ConnectionStream_proof -----------------------
(***************************************************************************)
(* What a connection makes of all it is sent: that requests are served, and  *)
(* after an upgrade frames handled and answered, as they were sent, for any  *)
(* well-formed requests and frames, cut into reads in any way.  The first   *)
(* half is about requests, the second about frames, the last part about     *)
(* what is written.                                                         *)
(***************************************************************************)
EXTENDS Connection_proof

-----------------------------------------------------------------------------
(* Where the parser is in a request.                                        *)

\* What is to be read: the rest of a sequence from n on, and u after it; t is the
\* next byte of them.
Upcoming(s, n, u, t, rest) ==
  /\ s \in Seq(Bytes) /\ u \in Seq(Bytes) /\ n \in Nat \ {0} /\ t \in Bytes
  /\ rest \in Seq(Bytes) /\ Before(t, rest) = From(s, n) \o u

\* The bytes of a sequence are read one by one, then those after it.
LEMMA NextComes ==
  ASSUME NEW s, NEW n, NEW u, NEW t, NEW rest, Upcoming(s, n, u, t, rest)
  PROVE  /\ n <= Len(s) => t = s[n] /\ rest = From(s, n + 1) \o u
         /\ n > Len(s) => Before(t, rest) = u
<1> SUFFICES ASSUME s \in Seq(Bytes), u \in Seq(Bytes), n \in Nat \ {0}, t \in Bytes,
                    rest \in Seq(Bytes), Before(t, rest) = From(s, n) \o u
             PROVE  /\ n <= Len(s) => t = s[n] /\ rest = From(s, n + 1) \o u
                    /\ n > Len(s) => Before(t, rest) = u
  BY DEF Upcoming
<1>1. ASSUME n <= Len(s) PROVE t = s[n] /\ rest = From(s, n + 1) \o u
  <2>1. From(s, n) \o u = Before(s[n], From(s, n + 1) \o u) /\ s[n] \in Bytes
    BY <1>1, RestStep
  <2>2. n + 1 \in Nat \ {0}
    OBVIOUS
  <2>3. PICK x \in Bytes, v \in Seq(Bytes) : x = s[n] /\ v = From(s, n + 1) \o u
    BY <2>1, <2>2, RestStep
  <2>4. Before(t, rest) = Before(x, v)
    BY <2>1, <2>3
  <2>5. t = x /\ rest = v
    BY <2>4, BeforeEqual
  <2> QED BY <2>3, <2>5
<1>2. ASSUME n > Len(s) PROVE Before(t, rest) = u
  BY <1>2, RestStep
<1> QED BY <1>1, <1>2

\* Within an escape or not.
Reading(d) == IF d = 0 THEN "PT" ELSE IF d = 1 THEN "E1" ELSE "E2"

\* The path, the headers and the line of a request whose path was read.
Told(r, h, list, line) ==
  Holds(h, PathOf(r.path), ape_get_transport(PathOf(r.path)), list, line)

\* In its path: the next character is at m, and d of its bytes were read.
PathAt(r, h, m, d, rest) ==
  /\ m \in 1..Len(r.path) + 1 /\ d \in {0, 1, 2}
  /\ d # 0 => m <= Len(r.path) /\ r.path[m] = "%"
  /\ InPath(h.p, Reading(d))
  /\ h.path.text \in Seq(Bytes) /\ h.path.text \o PathFrom(r.path)[m] = PathOf(r.path)
  /\ Holds(h, h.path.text, h.transport, ape_array_new, NewLine)
  /\ rest = From(r.path, m + d) \o QueryOn(r)

\* In its query.
QueryAt(r, h, m, d, rest) ==
  /\ m \in 1..Len(r.query) + 1 /\ d \in {0, 1, 2}
  /\ d # 0 => m <= Len(r.query) /\ r.query[m] = "%"
  /\ InQuery(h.p, Reading(d))
  /\ Told(r, h, ape_array_new, NewLine)
  /\ rest = From(r.query, m + d) \o VersionOn(r)

\* In the rest of its first line.
VersionAt(r, h, rest) ==
  /\ Told(r, h, ape_array_new, NewLine)
  /\ \/ InHead(h.p, "H1", 0) /\ rest = Before("version", Before("nl", LinesOn(r, 1)))
     \/ InHead(h.p, "EL", 0) /\ rest = Before("nl", LinesOn(r, 1))

\* A byte t is read by the parser of h, which leads to g.
Reads(h, j, t, res, g) ==
  /\ HttpLike(h) /\ res = parse_http_char(h.p, t) /\ g = After(h, j, res).h
  /\ g.p = res.p

\* It is one of many.
GoesOn(h, res, g) == res.ok /\ ~res.ready /\ (g.p.post <=> h.p.post)

LEMMA AdvancesGoesOn ==
  ASSUME NEW h, NEW j, NEW t, NEW res, NEW g, Reads(h, j, t, res, g), NEW calls,
         Advances(h.p, res, calls), NEW path, NEW transport, NEW list, NEW line,
         Holds(h, path, transport, list, line)
  PROVE  /\ GoesOn(h, res, g)
         /\ calls = <<>> => Holds(g, path, transport, list, line)
         /\ calls # <<>> => Hears(calls[1], path, transport, list, line, g)
<1>1. res.ok /\ ~res.ready /\ res.calls = calls /\ (g.p.post <=> h.p.post)
  BY DEF Reads, Advances
<1>2. /\ HttpLike(h) /\ res = parse_http_char(h.p, t) /\ g = After(h, j, res).h
  BY DEF Reads
<1>3. /\ res.calls = <<>> => Holds(g, path, transport, list, line)
      /\ res.calls # <<>> => Hears(res.calls[1], path, transport, list, line, g)
  BY <1>1, <1>2, AfterHears
<1> QED BY <1>1, <1>3 DEF GoesOn

\* With one callback.
LEMMA CallGoesOn ==
  ASSUME NEW h, NEW j, NEW t, NEW res, NEW g, Reads(h, j, t, res, g), NEW what, NEW value,
         Advances(h.p, res, Call(what, value)), NEW path, NEW transport, NEW list, NEW line,
         Holds(h, path, transport, list, line)
  PROVE  /\ GoesOn(h, res, g)
         /\ what = "path_char" => Holds(g, Append(path, value), transport, list, line)
         /\ what = "path_end" => Holds(g, path, ape_get_transport(path), list, line)
         /\ what \in {"qs_char", "body_char", "header_key", "cl_val"} =>
              Holds(g, path, transport, list, line)
         /\ what = "header_keyc" =>
              Holds(g, path, transport, list, [line EXCEPT !.key = Append(@, value)])
         /\ what = "header_valc" =>
              Holds(g, path, transport, list, [line EXCEPT !.value = Append(@, value)])
         /\ what = "header_val" =>
              Holds(g, path, transport, ape_array_add(list, line.key, line.value), NewLine)
<1>1. PICK calls : calls = Call(what, value)
  OBVIOUS
<1>2. calls # <<>> /\ calls[1].what = what /\ calls[1].value = value
  BY <1>1, CallFacts
<1>3. GoesOn(h, res, g) /\ Hears(calls[1], path, transport, list, line, g)
  BY <1>1, <1>2, AdvancesGoesOn
<1> QED BY <1>2, <1>3 DEF Hears


-----------------------------------------------------------------------------
(* The headers of a request in an array.                                    *)

HeaderArrays == ArrayOf(Seq(Bytes), Seq(Bytes))

\* A word of one byte.
One(x) == <<x>>

LEMMA OneIs ==
  ASSUME NEW x, NEW y
  PROVE  /\ x \in Bytes => One(x) \in Seq(Bytes)
         /\ One(x) = One(y) => x = y
BY DEF One

\* The first n headers are in m slots, one for each name, in the order in which
\* the names came: first is the header the name was first in, and last the one
\* that the value is of.
Collected(a, hs, n, m, first, last) ==
  /\ a \in HeaderArrays /\ Filled(a) /\ UsedIn(a) = 1..m
  /\ m \in Nat /\ first \in [1..m -> 1..n] /\ last \in [1..m -> 1..n]
  /\ \A p \in 1..m : /\ a.slots[p].key = One(hs[first[p]][1])
                     /\ a.slots[p].value = One(hs[last[p]][2])
                     /\ hs[last[p]][1] = hs[first[p]][1]
  /\ \A p \in 1..m, k \in 1..n : hs[k][1] = hs[first[p]][1] => first[p] <= k /\ k <= last[p]
  /\ \A p, q \in 1..m : p < q => first[p] < first[q]
  /\ \A k \in 1..n : \E p \in 1..m : hs[first[p]][1] = hs[k][1]

Collects(a, hs, n) == \E m, first, last : Collected(a, hs, n, m, first, last)

LEMMA CollectsNone == ASSUME NEW hs PROVE Collects(ape_array_new, hs, 0)
<1> DEFINE f == [p \in 1..0 |-> 0]
<1>1. ape_array_new \in HeaderArrays /\ Filled(ape_array_new) /\ UsedIn(ape_array_new) = 1..0
  <2>1. 1..0 = {}
    OBVIOUS
  <2> QED BY <2>1, NewArray DEF HeaderArrays
<1>2. f \in [1..0 -> 1..0]
  OBVIOUS
<1>3. Collected(ape_array_new, hs, 0, 0, f, f)
  <2> HIDE DEF f
  <2> QED BY <1>1, <1>2 DEF Collected
<1> QED BY <1>3 DEF Collects

\* A header with a name that was there before.
LEMMA CollectsAgain ==
  ASSUME NEW hs, NEW n \in Nat, NEW a, NEW m, NEW first, NEW last,
         Collected(a, hs, n, m, first, last), NEW p \in 1..m,
         hs[first[p]][1] = hs[n + 1][1], hs[n + 1][1] \in Bytes, hs[n + 1][2] \in Bytes,
         NEW b, b = ape_array_add(a, One(hs[n + 1][1]), One(hs[n + 1][2]))
  PROVE  Collects(b, hs, n + 1)
<1> DEFINE l == [last EXCEPT ![p] = n + 1]
<1>1. /\ a \in HeaderArrays /\ Filled(a) /\ UsedIn(a) = 1..m /\ m \in Nat
      /\ first \in [1..m -> 1..n] /\ last \in [1..m -> 1..n]
  BY DEF Collected
<1>2. PICK key \in Seq(Bytes), value \in Seq(Bytes) :
        key = One(hs[n + 1][1]) /\ value = One(hs[n + 1][2])
  BY OneIs
<1>3. a.slots[p].key = key
  BY <1>2 DEF Collected
<1>4. ASSUME NEW q \in 1..m, a.slots[q].key = key PROVE q = p
  <2>1. a.slots[q].key = One(hs[first[q]][1])
    BY DEF Collected
  <2>2. hs[first[q]][1] = hs[first[p]][1]
    BY <1>2, <1>4, <2>1, OneIs
  <2>3. first[p] \in 1..n /\ first[q] \in 1..n
    BY <1>1
  <2>4. first[q] <= first[p] /\ first[p] <= first[q]
    BY <2>2, <2>3 DEF Collected
  <2>5. ~(p < q) /\ ~(q < p)
    <3>1. p < q => first[p] < first[q]
      BY DEF Collected
    <3>2. q < p => first[q] < first[p]
      BY DEF Collected
    <3> QED BY <2>3, <2>4, <3>1, <3>2
  <2> QED BY <1>1, <2>5
<1>5. /\ b \in HeaderArrays /\ Filled(b) /\ UsedIn(b) = UsedIn(a)
      /\ b.slots[p].key = key /\ b.slots[p].value = value
      /\ \A q \in UsedIn(a) : q # p => b.slots[q] = a.slots[q]
  <2>1. p \in UsedIn(a) /\ \A q \in UsedIn(a) : a.slots[q].key = key => q = p
    BY <1>1, <1>4
  <2>2. b = ape_array_add(a, key, value)
    BY <1>2
  <2>3. PICK Ks : Ks = Seq(Bytes)
    OBVIOUS
  <2>4. a \in ArrayOf(Ks, Ks) /\ key \in Ks /\ value \in Ks /\ HeaderArrays = ArrayOf(Ks, Ks)
    BY <1>1, <2>3 DEF HeaderArrays
  <2>5. /\ b \in ArrayOf(Ks, Ks) /\ Filled(b) /\ UsedIn(b) = UsedIn(a)
        /\ b.slots[p].key = key /\ b.slots[p].value = value
        /\ \A q \in UsedIn(a) : q # p => b.slots[q] = a.slots[q]
    <3>1. Filled(a)
      BY <1>1
    <3>2. PICK u \in UsedIn(a) : u = p
      BY <2>1
    <3>3. a \in ArrayOf(Ks, Ks) /\ key \in Ks /\ value \in Ks
      BY <2>4
    <3>4. a.slots[u].key = key
      BY <1>3, <3>2
    <3>5. \A q \in UsedIn(a) : a.slots[q].key = key => q = u
      BY <2>1, <3>2
    <3>6. /\ b \in ArrayOf(Ks, Ks) /\ Filled(b) /\ UsedIn(b) = UsedIn(a)
          /\ b.slots[u].key = key /\ b.slots[u].value = value
          /\ \A q \in UsedIn(a) : q # u => b.slots[q] = a.slots[q]
      BY <2>2, <3>1, <3>3, <3>4, <3>5, ReplacedItem
    <3> QED BY <3>2, <3>6
  <2> QED BY <2>4, <2>5
<1>6. /\ l \in [1..m -> 1..n + 1] /\ first \in [1..m -> 1..n + 1]
      /\ l[p] = n + 1 /\ \A q \in 1..m : q # p => l[q] = last[q]
  BY <1>1
<1> HIDE DEF l
<1>7. ASSUME NEW q \in 1..m
      PROVE  /\ b.slots[q].key = One(hs[first[q]][1])
             /\ b.slots[q].value = One(hs[l[q]][2])
             /\ hs[l[q]][1] = hs[first[q]][1]
  <2>1. CASE q = p
    BY <1>2, <1>5, <1>6, <2>1
  <2>2. CASE q # p
    <3>1. b.slots[q] = a.slots[q] /\ l[q] = last[q]
      BY <1>1, <1>5, <1>6, <2>2
    <3>2. /\ a.slots[q].key = One(hs[first[q]][1])
          /\ a.slots[q].value = One(hs[last[q]][2])
          /\ hs[last[q]][1] = hs[first[q]][1]
      BY DEF Collected
    <3> QED BY <3>1, <3>2
  <2> QED BY <2>1, <2>2
<1>8. ASSUME NEW q \in 1..m, NEW k \in 1..n + 1, hs[k][1] = hs[first[q]][1]
      PROVE  first[q] <= k /\ k <= l[q]
  <2>0. first[q] \in 1..n /\ last[q] \in 1..n
    BY <1>1
  <2>1. CASE k = n + 1
    <3>1. q = p
      <4>1. a.slots[q].key = One(hs[first[q]][1])
        BY DEF Collected
      <4> QED BY <1>2, <1>4, <1>8, <2>1, <4>1, OneIs
    <3> QED BY <1>6, <2>0, <2>1, <3>1
  <2>2. CASE k # n + 1
    <3>1. k \in 1..n
      BY <2>2
    <3>2. first[q] <= k /\ k <= last[q]
      BY <1>8, <3>1 DEF Collected
    <3>3. CASE q = p
      BY <1>6, <3>1, <3>2, <3>3
    <3>4. CASE q # p
      BY <1>6, <3>2, <3>4
    <3> QED BY <3>3, <3>4
  <2> QED BY <2>1, <2>2
<1>9. \A q1, q2 \in 1..m : q1 < q2 => first[q1] < first[q2]
  BY DEF Collected
<1>10. ASSUME NEW k \in 1..n + 1 PROVE \E q \in 1..m : hs[first[q]][1] = hs[k][1]
  <2>1. CASE k = n + 1
    BY <2>1
  <2>2. CASE k # n + 1
    <3>1. k \in 1..n
      BY <2>2
    <3> QED BY <3>1 DEF Collected
  <2> QED BY <2>1, <2>2
<1>11. Collected(b, hs, n + 1, m, first, l)
  BY <1>1, <1>5, <1>6, <1>7, <1>8, <1>9, <1>10 DEF Collected
<1> QED BY <1>11 DEF Collects


LEMMA SameEnd ==
  ASSUME NEW k \in Nat, NEW m \in Nat, 1..k = 1..m
  PROVE  k = m
<1>1. ASSUME k < m PROVE FALSE
  <2>1. m \in 1..m /\ m \notin 1..k
    BY <1>1
  <2> QED BY <2>1
<1>2. ASSUME m < k PROVE FALSE
  <2>1. k \in 1..k /\ k \notin 1..m
    BY <1>2
  <2> QED BY <2>1
<1> QED BY <1>1, <1>2

\* A header with another name.
LEMMA CollectsNew ==
  ASSUME NEW hs, NEW n \in Nat, NEW a, NEW m, NEW first, NEW last,
         Collected(a, hs, n, m, first, last),
         \A p \in 1..m : hs[first[p]][1] # hs[n + 1][1],
         hs[n + 1][1] \in Bytes, hs[n + 1][2] \in Bytes,
         NEW b, b = ape_array_add(a, One(hs[n + 1][1]), One(hs[n + 1][2]))
  PROVE  Collects(b, hs, n + 1)
<1> DEFINE f == [p \in 1..m + 1 |-> IF p = m + 1 THEN n + 1 ELSE first[p]]
           l == [p \in 1..m + 1 |-> IF p = m + 1 THEN n + 1 ELSE last[p]]
<1>1. /\ a \in HeaderArrays /\ Filled(a) /\ UsedIn(a) = 1..m /\ m \in Nat
      /\ first \in [1..m -> 1..n] /\ last \in [1..m -> 1..n]
  BY DEF Collected
<1>2. PICK key \in Seq(Bytes), value \in Seq(Bytes) :
        key = One(hs[n + 1][1]) /\ value = One(hs[n + 1][2])
  BY OneIs
<1>3. ASSUME NEW q \in 1..m PROVE a.slots[q].key # key
  <2>1. a.slots[q].key = One(hs[first[q]][1])
    BY DEF Collected
  <2> QED BY <1>2, <2>1, OneIs
<1>4. /\ b \in HeaderArrays /\ Filled(b) /\ UsedIn(b) = 1..m + 1
      /\ b.slots[m + 1].key = key /\ b.slots[m + 1].value = value
      /\ \A q \in 1..m : b.slots[q] = a.slots[q]
  <2>1. \A q \in UsedIn(a) : a.slots[q].key # key
    BY <1>1, <1>3
  <2>2. b = ape_array_add(a, key, value)
    BY <1>2
  <2>3. PICK Ks : Ks = Seq(Bytes)
    OBVIOUS
  <2>4. a \in ArrayOf(Ks, Ks) /\ key \in Ks /\ value \in Ks /\ HeaderArrays = ArrayOf(Ks, Ks)
    BY <1>1, <2>3 DEF HeaderArrays
  <2>5. /\ b \in ArrayOf(Ks, Ks) /\ Filled(b)
        /\ \E k \in Nat \ {0} :
             /\ UsedIn(a) = 1..(k - 1) /\ UsedIn(b) = 1..k
             /\ b.slots[k].key = key /\ b.slots[k].value = value
             /\ \A p \in 1..(k - 1) : b.slots[p] = a.slots[p]
    <3>1. Filled(a) /\ a \in ArrayOf(Ks, Ks) /\ key \in Ks /\ value \in Ks
      BY <1>1, <2>4
    <3>2. PICK x, y, c : x = a /\ y = key /\ c = value
      OBVIOUS
    <3>3. Adds(Ks, Ks, x, y, c, b)
      BY <2>1, <2>2, <3>1, <3>2 DEF Adds
    <3>4. Added(Ks, Ks, x, y, c, b)
      BY <3>3, AddedItem
    <3> QED BY <3>2, <3>4 DEF Added
  <2>6. PICK k \in Nat \ {0} :
             /\ UsedIn(a) = 1..(k - 1) /\ UsedIn(b) = 1..k
             /\ b.slots[k].key = key /\ b.slots[k].value = value
             /\ \A p \in 1..(k - 1) : b.slots[p] = a.slots[p]
    BY <2>5
  <2>7. k = m + 1
    <3>1. 1..(k - 1) = 1..m /\ k - 1 \in Nat
      BY <1>1, <2>6
    <3>2. k - 1 = m
      BY <1>1, <3>1, SameEnd
    <3> QED BY <1>1, <3>2
  <2>8. \A p \in 1..m : p \in 1..(k - 1)
    BY <1>1, <2>7
  <2> QED BY <2>4, <2>5, <2>6, <2>7, <2>8
<1>5. /\ f \in [1..m + 1 -> 1..n + 1] /\ l \in [1..m + 1 -> 1..n + 1]
      /\ f[m + 1] = n + 1 /\ l[m + 1] = n + 1
      /\ \A q \in 1..m : f[q] = first[q] /\ l[q] = last[q]
  BY <1>1
<1> HIDE DEF f, l
<1>0. ASSUME NEW q \in 1..m + 1 PROVE q = m + 1 \/ q \in 1..m
  BY <1>1
<1>6. ASSUME NEW q \in 1..m + 1
      PROVE  /\ b.slots[q].key = One(hs[f[q]][1])
             /\ b.slots[q].value = One(hs[l[q]][2])
             /\ hs[l[q]][1] = hs[f[q]][1]
  <2>1. CASE q = m + 1
    BY <1>2, <1>4, <1>5, <2>1
  <2>2. CASE q \in 1..m
    <3>1. b.slots[q] = a.slots[q] /\ l[q] = last[q] /\ f[q] = first[q]
      BY <1>4, <1>5, <2>2
    <3>2. /\ a.slots[q].key = One(hs[first[q]][1])
          /\ a.slots[q].value = One(hs[last[q]][2])
          /\ hs[last[q]][1] = hs[first[q]][1]
      BY <2>2 DEF Collected
    <3> QED BY <3>1, <3>2
  <2> QED BY <1>0, <2>1, <2>2
<1>7. ASSUME NEW q \in 1..m + 1, NEW k \in 1..n + 1, hs[k][1] = hs[f[q]][1]
      PROVE  f[q] <= k /\ k <= l[q]
  <2>1. CASE q = m + 1
    <3>1. f[q] = n + 1 /\ l[q] = n + 1
      BY <1>5, <2>1
    <3>2. k = n + 1
      <4>1. ASSUME k # n + 1 PROVE FALSE
        <5>1. k \in 1..n
          BY <4>1
        <5>2. PICK p \in 1..m : hs[first[p]][1] = hs[k][1]
          BY <5>1 DEF Collected
        <5> QED BY <1>7, <3>1, <5>2
      <4> QED BY <4>1
    <3> QED BY <3>1, <3>2
  <2>2. CASE q \in 1..m
    <3>1. f[q] = first[q] /\ l[q] = last[q] /\ first[q] \in 1..n /\ last[q] \in 1..n
      BY <1>1, <1>5, <2>2
    <3>2. k \in 1..n
      <4>1. k # n + 1
        BY <1>7, <2>2, <3>1
      <4> QED BY <4>1
    <3>3. first[q] <= k /\ k <= last[q]
      BY <1>7, <2>2, <3>1, <3>2 DEF Collected
    <3> QED BY <3>1, <3>3
  <2> QED BY <1>0, <2>1, <2>2
<1>8. ASSUME NEW q1 \in 1..m + 1, NEW q2 \in 1..m + 1, q1 < q2 PROVE f[q1] < f[q2]
  <2>1. q1 \in 1..m
    BY <1>1, <1>8
  <2>2. f[q1] = first[q1] /\ first[q1] \in 1..n
    BY <1>1, <1>5, <2>1
  <2>3. CASE q2 = m + 1
    BY <1>5, <2>2, <2>3
  <2>4. CASE q2 \in 1..m
    <3>1. f[q2] = first[q2]
      BY <1>5, <2>4
    <3>2. first[q1] < first[q2]
      BY <1>8, <2>1, <2>4 DEF Collected
    <3> QED BY <2>2, <3>1, <3>2
  <2> QED BY <1>0, <2>3, <2>4
<1>9. ASSUME NEW k \in 1..n + 1 PROVE \E q \in 1..m + 1 : hs[f[q]][1] = hs[k][1]
  <2>1. CASE k = n + 1
    <3>1. m + 1 \in 1..m + 1
      BY <1>1
    <3> QED BY <1>5, <2>1, <3>1
  <2>2. CASE k # n + 1
    <3>1. k \in 1..n
      BY <2>2
    <3>2. PICK p \in 1..m : hs[first[p]][1] = hs[k][1]
      BY <3>1 DEF Collected
    <3>3. p \in 1..m + 1 /\ f[p] = first[p]
      BY <1>1, <1>5
    <3> QED BY <3>2, <3>3
  <2> QED BY <2>1, <2>2
<1>10. m + 1 \in Nat
  BY <1>1
<1>11. Collected(b, hs, n + 1, m + 1, f, l)
  BY <1>4, <1>5, <1>6, <1>7, <1>8, <1>9, <1>10 DEF Collected
<1> QED BY <1>11 DEF Collects

\* One more header.
LEMMA CollectsOne ==
  ASSUME NEW hs, NEW n \in Nat, NEW a, Collects(a, hs, n),
         hs[n + 1][1] \in Bytes, hs[n + 1][2] \in Bytes,
         NEW b, b = ape_array_add(a, One(hs[n + 1][1]), One(hs[n + 1][2]))
  PROVE  Collects(b, hs, n + 1)
<1>1. PICK m, first, last : Collected(a, hs, n, m, first, last)
  BY DEF Collects
<1>2. CASE \E p \in 1..m : hs[first[p]][1] = hs[n + 1][1]
  <2>1. PICK p \in 1..m : hs[first[p]][1] = hs[n + 1][1]
    BY <1>2
  <2> QED BY <1>1, <2>1, CollectsAgain
<1>3. CASE \A p \in 1..m : hs[first[p]][1] # hs[n + 1][1]
  BY <1>1, <1>3, CollectsNew
<1> QED BY <1>2, <1>3


LEMMA LeastIs ==
  ASSUME NEW S, S \subseteq Nat, NEW x \in S, \A y \in S : x <= y
  PROVE  (CHOOSE n \in S : \A k \in S : n <= k) = x
<1> DEFINE c == CHOOSE n \in S : \A k \in S : n <= k
<1>1. c \in S /\ \A k \in S : c <= k
  OBVIOUS
<1> HIDE DEF c
<1>2. c = x
  <2>1. c <= x /\ x <= c /\ c \in Nat /\ x \in Nat
    BY <1>1
  <2> QED BY <2>1
<1> QED BY <1>2 DEF c

LEMMA GreatestIs ==
  ASSUME NEW S, S \subseteq Nat, NEW x \in S, \A y \in S : y <= x
  PROVE  (CHOOSE n \in S : \A k \in S : k <= n) = x
<1> DEFINE c == CHOOSE n \in S : \A k \in S : k <= n
<1>1. c \in S /\ \A k \in S : k <= c
  OBVIOUS
<1> HIDE DEF c
<1>2. c = x
  <2>1. c <= x /\ x <= c /\ c \in Nat /\ x \in Nat
    BY <1>1
  <2> QED BY <2>1
<1> QED BY <1>2 DEF c

\* What the scripts find under a name is what the request says.
LEMMA LooksUp ==
  ASSUME NEW r \in Request, NEW key, NEW a, NEW m, NEW first, NEW last, NEW N \in Nat,
         N = Len(r.headers), Collected(a, r.headers, N, m, first, last)
  PROVE  \/ Lookup(a, One(key)) = <<>> /\ HeaderOf(r, key) = "none"
         \/ \E n \in 1..N : /\ HeaderOf(r, key) = r.headers[n][2]
                            /\ Lookup(a, One(key)) = One(r.headers[n][2])
<1> DEFINE hs == r.headers
           Sp == Spellings(One(key))
           P == {p \in DOMAIN a.slots : a.slots[p].used /\ a.slots[p].key \in Sp}
           same == {n \in DOMAIN hs : One(hs[n][1]) \in Sp}
           c == CHOOSE n \in same : \A k \in same : n <= k
           spelled == {n \in same : hs[n][1] = hs[c][1]}
           l == CHOOSE n \in spelled : \A k \in spelled : k <= n
<1>1. DOMAIN hs = 1..N
  BY RequestBytes
<1>2. HeaderOf(r, key) = IF same = {} THEN "none" ELSE hs[l][2]
  BY DEF HeaderOf, One
<1>3. Lookup(a, One(key)) = IF FirstOf(P) = 0 THEN <<>> ELSE a.slots[FirstOf(P)].value
  BY DEF Lookup, ape_array_lookup
<1> HIDE DEF Sp, hs
<1>4. /\ UsedIn(a) = 1..m /\ m \in Nat
      /\ first \in [1..m -> 1..N] /\ last \in [1..m -> 1..N]
      /\ \A p \in 1..m : /\ a.slots[p].key = One(hs[first[p]][1])
                         /\ a.slots[p].value = One(hs[last[p]][2])
                         /\ hs[last[p]][1] = hs[first[p]][1]
      /\ \A p \in 1..m, k \in 1..N : hs[k][1] = hs[first[p]][1] => first[p] <= k /\ k <= last[p]
      /\ \A p, q \in 1..m : p < q => first[p] < first[q]
      /\ \A k \in 1..N : \E p \in 1..m : hs[first[p]][1] = hs[k][1]
  BY DEF Collected, hs
<1>5. P = {p \in 1..m : One(hs[first[p]][1]) \in Sp}
  <2>1. P = {p \in UsedIn(a) : a.slots[p].key \in Sp}
    BY DEF UsedIn
  <2> HIDE DEF P
  <2> QED BY <1>4, <2>1
<1> HIDE DEF P, same, c
<1>6. P \subseteq Nat \ {0} /\ same \subseteq Nat
  BY <1>1, <1>4, <1>5 DEF same
<1>7. CASE P = {}
  <2>1. same = {}
    <3>1. ASSUME NEW n \in same PROVE FALSE
      <4>1. n \in 1..N /\ One(hs[n][1]) \in Sp
        BY <1>1 DEF same
      <4>2. PICK p \in 1..m : hs[first[p]][1] = hs[n][1]
        BY <1>4, <4>1
      <4> QED BY <1>5, <1>7, <4>1, <4>2
    <3> QED BY <3>1
  <2>2. FirstOf(P) = 0
    BY <1>6, <1>7, FirstOfIsLeast
  <2> QED BY <1>2, <1>3, <2>1, <2>2
<1>8. CASE P # {}
  <2>1. PICK p \in 1..m : p = FirstOf(P) /\ p \in P /\ \A q \in P : p <= q
    BY <1>5, <1>6, <1>8, FirstOfIsLeast
  <2>2. first[p] \in 1..N /\ last[p] \in 1..N /\ hs[last[p]][1] = hs[first[p]][1]
    BY <1>4
  <2>3. first[p] \in same
    BY <1>1, <1>5, <2>1, <2>2 DEF same
  <2>4. ASSUME NEW n \in same PROVE first[p] <= n
    <3>1. n \in 1..N /\ One(hs[n][1]) \in Sp
      BY <1>1 DEF same
    <3>2. PICK q \in 1..m : hs[first[q]][1] = hs[n][1]
      BY <1>4, <3>1
    <3>3. first[q] <= n /\ first[q] \in 1..N
      BY <1>4, <3>1, <3>2
    <3>4. p <= q
      BY <1>5, <2>1, <3>1, <3>2
    <3>5. first[p] <= first[q]
      <4>1. CASE p = q
        BY <2>2, <4>1
      <4>2. CASE p < q
        <5>1. first[p] < first[q]
          BY <1>4, <4>2
        <5> QED BY <2>2, <3>3, <5>1
      <4> QED BY <1>4, <3>4, <4>1, <4>2
    <3> QED BY <2>2, <3>1, <3>3, <3>5
  <2>5. c = first[p]
    BY <1>6, <2>3, <2>4, LeastIs DEF c
  <2>6. last[p] \in spelled /\ spelled \subseteq Nat
    <3>1. One(hs[first[p]][1]) \in Sp
      BY <1>1, <2>3 DEF same
    <3> QED BY <1>1, <1>6, <2>2, <2>5, <3>1 DEF same
  <2>7. ASSUME NEW n \in spelled PROVE n <= last[p]
    <3>1. n \in 1..N /\ hs[n][1] = hs[first[p]][1]
      BY <1>1, <2>5 DEF same
    <3> QED BY <1>4, <3>1
  <2> HIDE DEF spelled
  <2>8. l = last[p]
    BY <2>6, <2>7, GreatestIs
  <2>9. same # {} /\ FirstOf(P) # 0
    <3>1. p # 0
      BY <1>4
    <3> QED BY <2>1, <2>3, <3>1
  <2>10. a.slots[p].value = One(hs[last[p]][2])
    BY <1>4
  <2>11. HeaderOf(r, key) = hs[last[p]][2] /\ Lookup(a, One(key)) = One(hs[last[p]][2])
    BY <1>2, <1>3, <2>1, <2>8, <2>9, <2>10
  <2> QED BY <2>2, <2>11 DEF hs
<1> QED BY <1>7, <1>8

LEMMA AsksFor ==
  ASSUME NEW r \in Request, NEW a, Collects(a, r.headers, Len(r.headers))
  PROVE  /\ Lookup(a, <<"upgrade">>) = <<"websocket">> <=> HeaderOf(r, "upgrade") = "websocket"
         /\ Lookup(a, <<"upgrade">>) = <<"websocket">> => AsksUpgrade(r)
<1>1. PICK N \in Nat : N = Len(r.headers) /\ DOMAIN r.headers = 1..N
  BY RequestBytes
<1>2. PICK m, first, last : Collected(a, r.headers, N, m, first, last)
  BY <1>1 DEF Collects
<1>3. PICK key : key = "upgrade"
  OBVIOUS
<1>4. \/ Lookup(a, One(key)) = <<>> /\ HeaderOf(r, key) = "none"
      \/ \E n \in 1..N : /\ HeaderOf(r, key) = r.headers[n][2]
                         /\ Lookup(a, One(key)) = One(r.headers[n][2])
  BY <1>1, <1>2, LooksUp
<1>5. <<"upgrade">> = One(key) /\ <<"websocket">> = One("websocket")
  BY <1>3 DEF One
<1>6. <<>> # One("websocket")
  BY DEF One
<1>7. CASE Lookup(a, One(key)) = <<>> /\ HeaderOf(r, key) = "none"
  BY <1>3, <1>5, <1>6, <1>7
<1>8. CASE \E n \in 1..N : /\ HeaderOf(r, key) = r.headers[n][2]
                           /\ Lookup(a, One(key)) = One(r.headers[n][2])
  <2>1. PICK n \in 1..N : /\ HeaderOf(r, key) = r.headers[n][2]
                          /\ Lookup(a, One(key)) = One(r.headers[n][2])
    BY <1>8
  <2>2. One(r.headers[n][2]) = One("websocket") <=> r.headers[n][2] = "websocket"
    BY OneIs
  <2> QED BY <1>1, <1>3, <1>5, <2>1, <2>2 DEF AsksUpgrade
<1> QED BY <1>4, <1>7, <1>8

-----------------------------------------------------------------------------
(* Byte by byte through a request. *)

\* The requests of RequestsAreWellFormed.
WellFormed(r) ==
  r \in Request /\ Escapes(r.path) /\ Escapes(r.query) /\ Escapes(r.body) /\ LengthOK(r)

\* After the query the first line has the version.
LEMMA AfterQuery ==
  ASSUME NEW r \in Request, NEW t \in Bytes, NEW rest \in Seq(Bytes),
         Before(t, rest) = VersionOn(r)
  PROVE  t = " " /\ rest = Before("version", Before("nl", LinesOn(r, 1)))
<1>1. PICK s \in Seq(Bytes), x \in Bytes :
        x = " " /\ s = Before("version", Before("nl", LinesOn(r, 1)))
  <2>1. " " \in Bytes /\ "version" \in Bytes /\ "nl" \in Bytes
    BY BytesAre DEF Signs
  <2>2. LinesOn(r, 1) \in Seq(Bytes)
    <3>1. 1 \in Nat \ {0}
      OBVIOUS
    <3> QED BY <3>1, LinesFrom
  <2> QED BY <2>1, <2>2, BeforeTyped
<1>2. Before(t, rest) = Before(x, s)
  BY <1>1, VersionIs
<1>3. t = x /\ rest = s
  BY <1>2, BeforeEqual
<1> QED BY <1>1, <1>3

\* After the path it has the query or not.
LEMMA AfterPath ==
  ASSUME NEW r \in Request, NEW t \in Bytes, NEW rest \in Seq(Bytes),
         Before(t, rest) = QueryOn(r)
  PROVE  \/ r.query = <<>> /\ t = " " /\ rest = Before("version", Before("nl", LinesOn(r, 1)))
         \/ r.query # <<>> /\ t = "?" /\ rest = From(r.query, 1) \o VersionOn(r)
<1>1. PICK q \in Seq(Bytes), u \in Seq(Bytes) : q = r.query /\ u = VersionOn(r)
  BY RequestBytes, VersionIs
<1>2. CASE r.query = <<>>
  <2>1. Before(t, rest) = VersionOn(r)
    BY <1>2, QueryIs
  <2> QED BY <1>2, <2>1, AfterQuery
<1>3. CASE r.query # <<>>
  <2>1. PICK v \in Seq(Bytes), w \in Bytes : v = q \o u /\ w = "?"
    <3>1. "?" \in Bytes
      BY BytesAre DEF Signs
    <3>2. q \o u \in Seq(Bytes)
      BY ConcatProperties
    <3> QED BY <3>1, <3>2
  <2>2. Before(t, rest) = Before(w, v)
    BY <1>1, <1>3, <2>1, QueryIs
  <2>3. t = w /\ rest = v
    BY <2>2, BeforeEqual
  <2>4. From(q, 1) = q
    BY FromFirst
  <2> QED BY <1>1, <1>3, <2>1, <2>3, <2>4
<1> QED BY <1>2, <1>3

\* An escape is whole.
LEMMA EscapeIs ==
  ASSUME NEW S, NEW s \in Seq(S), Escapes(s), NEW m \in 1..Len(s)
  PROVE  /\ s[m] \in S
         /\ s[m] = "%" => m + 2 <= Len(s) /\ Hex(s[m + 1]) /\ Hex(s[m + 2])
<1>1. DOMAIN s = 1..Len(s) /\ s[m] \in S
  BY LenProperties, ElementOfSeq
<1> QED BY <1>1 DEF Escapes

\* A byte of the path is told and joins what is held of the path.
LEMMA PathCallGoesOn ==
  ASSUME NEW h, NEW j, NEW t, NEW res, NEW g, Reads(h, j, t, res, g), NEW value,
         Advances(h.p, res, Call("path_char", value)), NEW path, NEW transport, NEW list, NEW line,
         Holds(h, path, transport, list, line)
  PROVE  GoesOn(h, res, g) /\ Holds(g, Append(path, value), transport, list, line)
<1>1. PICK what : what = "path_char"
  OBVIOUS
<1>2. Advances(h.p, res, Call(what, value))
  BY <1>1
<1>3. GoesOn(h, res, g)
      /\ (what = "path_char" => Holds(g, Append(path, value), transport, list, line))
  BY <1>2, CallGoesOn
<1> QED BY <1>1, <1>3

\* A byte of the query is told and nothing of what is held changes.
LEMMA QueryCallGoesOn ==
  ASSUME NEW h, NEW j, NEW t, NEW res, NEW g, Reads(h, j, t, res, g), NEW value,
         Advances(h.p, res, Call("qs_char", value)), NEW path, NEW transport, NEW list, NEW line,
         Holds(h, path, transport, list, line)
  PROVE  GoesOn(h, res, g) /\ Holds(g, path, transport, list, line)
<1>1. PICK what : what = "qs_char"
  OBVIOUS
<1>2. Advances(h.p, res, Call(what, value))
  BY <1>1
<1>3. GoesOn(h, res, g) /\ (what \in {"qs_char", "body_char", "header_key", "cl_val"} =>
                              Holds(g, path, transport, list, line))
  BY <1>2, CallGoesOn
<1> QED BY <1>1, <1>3

\* A byte of the path, or the one after it.
LEMMA PathStep ==
  ASSUME NEW r, WellFormed(r), NEW h, NEW j, NEW t \in Bytes, NEW res, NEW g,
         Reads(h, j, t, res, g), NEW rest \in Seq(Bytes), NEW m, NEW d,
         PathAt(r, h, m, d, Before(t, rest))
  PROVE  /\ GoesOn(h, res, g)
         /\ \/ \E k, e : PathAt(r, g, k, e, rest)
            \/ \E k, e : QueryAt(r, g, k, e, rest)
            \/ VersionAt(r, g, rest)
<1>1. r \in Request /\ Escapes(r.path)
  BY DEF WellFormed
<1>2. PICK p \in Seq(Bytes) : p = r.path /\ p \in Seq(PathBytes) /\ Len(p) \in Nat
  BY <1>1, RequestBytes, LenProperties DEF Request
<1>3. PICK text \in Seq(Bytes), u \in Seq(Bytes) : text = h.path.text /\ u = QueryOn(r)
  BY <1>1, QueryIs DEF PathAt
<1>4. /\ m \in 1..Len(p) + 1 /\ d \in {0, 1, 2} /\ (d # 0 => m <= Len(p) /\ p[m] = "%")
      /\ InPath(h.p, Reading(d)) /\ text \o PathFrom(p)[m] = PathOf(p)
      /\ Holds(h, text, h.transport, ape_array_new, NewLine)
      /\ Before(t, rest) = From(p, m + d) \o u
  BY <1>2, <1>3 DEF PathAt
<1>5. m + d \in Nat \ {0} /\ m \in Nat
  BY <1>2, <1>4
<1>6. /\ m + d <= Len(p) => t = p[m + d] /\ rest = From(p, m + d + 1) \o u
      /\ m + d > Len(p) => Before(t, rest) = u
  <2>1. PICK n \in Nat \ {0} : n = m + d
    BY <1>5
  <2>2. Before(t, rest) = From(p, n) \o u
    BY <1>4, <2>1
  <2>3. /\ n <= Len(p) => t = p[n] /\ rest = From(p, n + 1) \o u
        /\ n > Len(p) => Before(t, rest) = u
    <3>1. Upcoming(p, n, u, t, rest)
      BY <2>2 DEF Upcoming
    <3> QED BY <3>1, NextComes
  <2> QED BY <2>1, <2>3
<1>7. Reads(h, j, t, res, g) /\ HttpLike(h) /\ res = parse_http_char(h.p, t) /\ g.p = res.p
  BY DEF Reads
<1>8. /\ PathFrom(p)[m] = IF m > Len(p) THEN <<>>
                          ELSE IF p[m] = "%" THEN <<Decoded>> \o PathFrom(p)[m + 3]
                          ELSE <<p[m]>> \o PathFrom(p)[m + 1]
  <2>1. m \in 1..Len(p) + 3
    BY <1>2, <1>4
  <2> QED BY <1>2, <2>1, PathEquation
<1>9. CASE m <= Len(p) /\ p[m] = "%"
  <2>1. m + 2 <= Len(p) /\ Hex(p[m + 1]) /\ Hex(p[m + 2])
    BY <1>1, <1>2, <1>4, <1>5, <1>9, EscapeIs
  <2>2. CASE d = 0
    <3>1. t = "%" /\ rest = From(p, m + 1) \o u
      <4>1. m + d = m /\ m + d + 1 = m + 1
        BY <1>5, <2>2
      <4> QED BY <1>6, <1>9, <4>1
    <3>2. InPath(h.p, "PT")
      BY <1>4, <2>2 DEF Reading
    <3>3. Advances(h.p, res, <<>>) /\ InPath(g.p, "E1")
      BY <1>7, <3>1, <3>2, PathByte
    <3>4. GoesOn(h, res, g) /\ Holds(g, text, h.transport, ape_array_new, NewLine)
      BY <1>4, <1>7, <3>3, AdvancesGoesOn
    <3>5. PathAt(r, g, m, 1, rest)
      <4>1. g.path.text = text /\ g.transport = h.transport
        BY <3>4 DEF Holds
      <4>2. Reading(1) = "E1"
        BY DEF Reading
      <4> QED BY <1>2, <1>3, <1>4, <1>9, <3>1, <3>3, <3>4, <4>1, <4>2 DEF PathAt
    <3> QED BY <3>4, <3>5
  <2>3. CASE d = 1
    <3>1. t = p[m + 1] /\ rest = From(p, m + 1 + 1) \o u
      BY <1>2, <1>5, <1>6, <2>1, <2>3
    <3>2. InPath(h.p, "E1")
      BY <1>4, <2>3 DEF Reading
    <3>3. Advances(h.p, res, <<>>) /\ InPath(g.p, "E2")
      BY <1>7, <2>1, <3>1, <3>2, PathEscape
    <3>4. GoesOn(h, res, g) /\ Holds(g, text, h.transport, ape_array_new, NewLine)
      BY <1>4, <1>7, <3>3, AdvancesGoesOn
    <3>5. PathAt(r, g, m, 2, rest)
      <4>1. g.path.text = text /\ g.transport = h.transport
        BY <3>4 DEF Holds
      <4>2. Reading(2) = "E2"
        BY DEF Reading
      <4>3. m + 1 + 1 = m + 2
        BY <1>5
      <4> QED BY <1>2, <1>3, <1>4, <1>9, <3>1, <3>3, <3>4, <4>1, <4>2, <4>3 DEF PathAt
    <3> QED BY <3>4, <3>5
  <2>4. CASE d = 2
    <3>1. t = p[m + 2] /\ rest = From(p, m + 2 + 1) \o u
      BY <1>2, <1>5, <1>6, <2>1, <2>4
    <3>2. InPath(h.p, "E2")
      BY <1>4, <2>4 DEF Reading
    <3>3. Advances(h.p, res, Call("path_char", Decoded)) /\ InPath(g.p, "PT")
      BY <1>7, <2>1, <3>1, <3>2, PathEscape
    <3>4. GoesOn(h, res, g) /\ Holds(g, Append(text, Decoded), h.transport, ape_array_new, NewLine)
      <4>1. PICK value : value = Decoded
        OBVIOUS
      <4>2. Advances(h.p, res, Call("path_char", value))
        BY <3>3, <4>1
      <4>3. PICK transport, list, line :
                 transport = h.transport /\ list = ape_array_new /\ line = NewLine
        OBVIOUS
      <4>4. Holds(h, text, transport, list, line) /\ Reads(h, j, t, res, g)
        BY <1>4, <1>7, <4>3
      <4>5. GoesOn(h, res, g) /\ Holds(g, Append(text, value), transport, list, line)
        BY <4>2, <4>4, PathCallGoesOn
      <4> QED BY <4>1, <4>3, <4>5
    <3>5. Append(text, Decoded) \in Seq(Bytes) /\ Append(text, Decoded) \o PathFrom(p)[m + 3] = PathOf(p)
      <4>1. m + 3 \in 1..Len(p) + 3
        BY <1>2, <1>5, <2>1
      <4>2. PICK v \in Seq(Bytes) : v = PathFrom(p)[m + 3]
        BY <1>2, <4>1, PathTyped
      <4>3. PICK x \in Bytes : x = Decoded
        BY BytesAre
      <4>4. Append(text, x) \o v = text \o Before(x, v)
        <5>1. AppendsBefore(text, x, v)
          BY AppendBefore
        <5> QED BY <5>1 DEF AppendsBefore
      <4>5. PathFrom(p)[m] = Before(x, v)
        BY <1>2, <1>5, <1>8, <1>9, <4>2, <4>3 DEF Before
      <4>6. Append(text, x) \in Seq(Bytes)
        BY AppendProperties
      <4> QED BY <1>4, <4>2, <4>3, <4>4, <4>5, <4>6
    <3>6. PathAt(r, g, m + 3, 0, rest)
      <4>1. g.path.text = Append(text, Decoded) /\ g.transport = h.transport
        BY <3>4 DEF Holds
      <4>2. Reading(0) = "PT"
        BY DEF Reading
      <4>3. m + 2 + 1 = m + 3 /\ m + 3 + 0 = m + 3 /\ m + 3 \in 1..Len(p) + 1
        BY <1>2, <1>5, <2>1
      <4> QED BY <1>2, <1>3, <1>4, <1>9, <3>1, <3>3, <3>4, <3>5, <4>1, <4>2, <4>3 DEF PathAt
    <3> QED BY <3>4, <3>6
  <2> QED BY <1>4, <2>2, <2>3, <2>4
<1>10. CASE m <= Len(p) /\ p[m] # "%"
  <2>1. d = 0 /\ t = p[m] /\ rest = From(p, m + 1) \o u
    <3>1. d = 0
      BY <1>4, <1>10
    <3>2. m + d = m
      BY <1>5, <3>1
    <3> QED BY <1>6, <1>10, <3>1, <3>2
  <2>2. InPath(h.p, "PT")
    BY <1>4, <2>1 DEF Reading
  <2>3. t \notin {"nl", "nul", " ", "?", "%"}
    <3>1. p[m] \in PathBytes
      BY <1>1, <1>2, <1>4, <1>5, <1>10, EscapeIs
    <3> QED BY <1>10, <2>1, <3>1 DEF PathBytes
  <2>4. Advances(h.p, res, Call("path_char", t)) /\ InPath(g.p, "PT")
    BY <1>7, <2>2, <2>3, PathByte
  <2>5. GoesOn(h, res, g) /\ Holds(g, Append(text, t), h.transport, ape_array_new, NewLine)
    <3>1. PICK transport, list, line :
               transport = h.transport /\ list = ape_array_new /\ line = NewLine
      OBVIOUS
    <3>2. Holds(h, text, transport, list, line) /\ Reads(h, j, t, res, g)
      BY <1>4, <1>7, <3>1
    <3>3. GoesOn(h, res, g) /\ Holds(g, Append(text, t), transport, list, line)
      BY <2>4, <3>2, PathCallGoesOn
    <3> QED BY <3>1, <3>3
  <2>6. Append(text, t) \in Seq(Bytes) /\ Append(text, t) \o PathFrom(p)[m + 1] = PathOf(p)
    <4>1. m + 1 \in 1..Len(p) + 3
      BY <1>2, <1>5, <1>10
    <4>2. PICK v \in Seq(Bytes) : v = PathFrom(p)[m + 1]
      BY <1>2, <4>1, PathTyped
    <4>4. Append(text, t) \o v = text \o Before(t, v)
      <5>1. AppendsBefore(text, t, v)
        BY AppendBefore
      <5> QED BY <5>1 DEF AppendsBefore
    <4>5. PathFrom(p)[m] = Before(t, v)
      BY <1>2, <1>5, <1>8, <1>10, <2>1, <4>2 DEF Before
    <4>6. Append(text, t) \in Seq(Bytes)
      BY AppendProperties
    <4> QED BY <1>4, <4>2, <4>4, <4>5, <4>6
  <2>7. PathAt(r, g, m + 1, 0, rest)
    <4>1. g.path.text = Append(text, t) /\ g.transport = h.transport
      BY <2>5 DEF Holds
    <4>2. Reading(0) = "PT"
      BY DEF Reading
    <4>3. m + 1 + 0 = m + 1 /\ m + 1 \in 1..Len(p) + 1
      BY <1>2, <1>5, <1>10
    <4> QED BY <1>2, <1>3, <1>4, <2>1, <2>4, <2>5, <2>6, <4>1, <4>2, <4>3 DEF PathAt
  <2> QED BY <2>5, <2>7
<1>11. CASE m > Len(p)
  <2>1. d = 0 /\ Before(t, rest) = u
    <3>1. d = 0
      BY <1>2, <1>4, <1>5, <1>11
    <3>2. m + d = m
      BY <1>5, <3>1
    <3> QED BY <1>6, <1>11, <3>1, <3>2
  <2>2. InPath(h.p, "PT")
    BY <1>4, <2>1 DEF Reading
  <2>3. text = PathOf(p)
    <3>1. PathFrom(p)[m] = <<>>
      BY <1>8, <1>11
    <3>2. text \o <<>> = text
      BY ConcatEmptySeq
    <3> QED BY <1>4, <3>1, <3>2
  <2>4. \/ r.query = <<>> /\ t = " " /\ rest = Before("version", Before("nl", LinesOn(r, 1)))
        \/ r.query # <<>> /\ t = "?" /\ rest = From(r.query, 1) \o VersionOn(r)
    BY <1>1, <1>3, <2>1, AfterPath
  <2>5. Advances(h.p, res, Call("path_end", "")) /\ (t = " " => InHead(g.p, "H1", 0))
        /\ (t = "?" => InQuery(g.p, "PT"))
    BY <1>7, <2>2, <2>4, PathByte
  <2>6. GoesOn(h, res, g) /\ Holds(g, text, ape_get_transport(text), ape_array_new, NewLine)
    <3>1. PICK what, value : what = "path_end" /\ value = "" /\ Advances(h.p, res, Call(what, value))
      BY <2>5
    <3>2. Holds(h, text, h.transport, ape_array_new, NewLine) /\ Reads(h, j, t, res, g)
      BY <1>4, <1>7
    <3> HIDE <1>4, <1>6, <1>8
    <3> QED BY <3>1, <3>2, CallGoesOn
  <2>7. Told(r, g, ape_array_new, NewLine)
    BY <1>2, <2>3, <2>6 DEF Told
  <2>8. CASE t = " "
    BY <2>4, <2>5, <2>6, <2>7, <2>8 DEF VersionAt
  <2>9. CASE t = "?"
    <3>1. Reading(0) = "PT" /\ 1 + 0 = 1
      BY DEF Reading
    <3>2. 1 \in 1..Len(r.query) + 1
      BY <1>1, RequestBytes, LenProperties
    <3>3. QueryAt(r, g, 1, 0, rest)
      BY <2>4, <2>5, <2>7, <2>9, <3>1, <3>2 DEF QueryAt
    <3> QED BY <2>6, <3>3
  <2> QED BY <2>4, <2>8, <2>9
<1> QED BY <1>2, <1>5, <1>9, <1>10, <1>11

\* What PathStep says of the path, of the query.
LEMMA QueryStep ==
  ASSUME NEW r, WellFormed(r), NEW h, NEW j, NEW t \in Bytes, NEW res, NEW g,
         Reads(h, j, t, res, g), NEW rest \in Seq(Bytes), NEW m, NEW d,
         QueryAt(r, h, m, d, Before(t, rest))
  PROVE  /\ GoesOn(h, res, g)
         /\ (\E k, e : QueryAt(r, g, k, e, rest)) \/ VersionAt(r, g, rest)
<1>1. r \in Request /\ Escapes(r.query)
  BY DEF WellFormed
<1>2. PICK p \in Seq(Bytes) : p = r.query /\ p \in Seq(PathBytes \cup {"?"}) /\ Len(p) \in Nat
  BY <1>1, RequestBytes, LenProperties DEF Request
<1>3. PICK u \in Seq(Bytes) : u = VersionOn(r)
  BY <1>1, VersionIs
<1>4. /\ m \in 1..Len(p) + 1 /\ d \in {0, 1, 2} /\ (d # 0 => m <= Len(p) /\ p[m] = "%")
      /\ InQuery(h.p, Reading(d)) /\ Before(t, rest) = From(p, m + d) \o u
  BY <1>2, <1>3 DEF QueryAt
<1>t. PICK path, transport : /\ Holds(h, path, transport, ape_array_new, NewLine)
                             /\ path = PathOf(r.path) /\ transport = ape_get_transport(path)
  BY DEF QueryAt, Told
<1>5. m + d \in Nat \ {0} /\ m \in Nat
  BY <1>2, <1>4
<1>6. /\ m + d <= Len(p) => t = p[m + d] /\ rest = From(p, m + d + 1) \o u
      /\ m + d > Len(p) => Before(t, rest) = u
  <2>1. Upcoming(p, m + d, u, t, rest)
    BY <1>4, <1>5 DEF Upcoming
  <2> QED BY <2>1, NextComes
<1>7. Reads(h, j, t, res, g) /\ HttpLike(h) /\ res = parse_http_char(h.p, t) /\ g.p = res.p
  BY DEF Reads
<1>9. CASE m <= Len(p) /\ p[m] = "%"
  <2>1. m + 2 <= Len(p) /\ Hex(p[m + 1]) /\ Hex(p[m + 2])
    BY <1>1, <1>2, <1>4, <1>5, <1>9, EscapeIs
  <2>2. CASE d = 0
    <3>1. t = "%" /\ rest = From(p, m + 1) \o u
      <4>1. m + d = m /\ m + d + 1 = m + 1
        BY <1>5, <2>2
      <4> QED BY <1>6, <1>9, <4>1
    <3>2. InQuery(h.p, "PT")
      BY <1>4, <2>2 DEF Reading
    <3>3. Advances(h.p, res, <<>>) /\ InQuery(g.p, "E1")
      BY <1>7, <3>1, <3>2, QueryByte
    <3>4. GoesOn(h, res, g) /\ Holds(g, path, transport, ape_array_new, NewLine)
      BY <1>t, <1>7, <3>3, AdvancesGoesOn
    <3>5. QueryAt(r, g, m, 1, rest)
      <4>2. Reading(1) = "E1"
        BY DEF Reading
      <4> QED BY <1>2, <1>3, <1>4, <1>t, <1>9, <3>1, <3>3, <3>4, <4>2 DEF QueryAt, Told
    <3> QED BY <3>4, <3>5
  <2>3. CASE d = 1
    <3>1. t = p[m + 1] /\ rest = From(p, m + 2) \o u
      <4>1. m + 1 <= Len(p) /\ m + 1 + 1 = m + 2
        BY <1>2, <1>5, <2>1
      <4> QED BY <1>6, <2>3, <4>1
    <3>2. InQuery(h.p, "E1")
      BY <1>4, <2>3 DEF Reading
    <3>3. Advances(h.p, res, <<>>) /\ InQuery(g.p, "E2")
      BY <1>7, <2>1, <3>1, <3>2, QueryEscape
    <3>4. GoesOn(h, res, g) /\ Holds(g, path, transport, ape_array_new, NewLine)
      BY <1>t, <1>7, <3>3, AdvancesGoesOn
    <3>5. QueryAt(r, g, m, 2, rest)
      <4>2. Reading(2) = "E2"
        BY DEF Reading
      <4> QED BY <1>2, <1>3, <1>4, <1>t, <1>9, <3>1, <3>3, <3>4, <4>2 DEF QueryAt, Told
    <3> QED BY <3>4, <3>5
  <2>4. CASE d = 2
    <3>1. t = p[m + 2] /\ rest = From(p, m + 3) \o u
      <4>1. m + 2 + 1 = m + 3
        BY <1>5
      <4> QED BY <1>6, <2>1, <2>4, <4>1
    <3>2. InQuery(h.p, "E2")
      BY <1>4, <2>4 DEF Reading
    <3>3. Advances(h.p, res, Call("qs_char", Decoded)) /\ InQuery(g.p, "PT")
      BY <1>7, <2>1, <3>1, <3>2, QueryEscape
    <3>4. GoesOn(h, res, g) /\ Holds(g, path, transport, ape_array_new, NewLine)
      <4>1. PICK value : value = Decoded
        OBVIOUS
      <4>2. Advances(h.p, res, Call("qs_char", value))
        BY <3>3, <4>1
      <4>3. PICK list, line : list = ape_array_new /\ line = NewLine
        OBVIOUS
      <4>4. Holds(h, path, transport, list, line)
        BY <1>t, <4>3
      <4>5. GoesOn(h, res, g) /\ Holds(g, path, transport, list, line)
        BY <1>7, <4>2, <4>4, QueryCallGoesOn
      <4> QED BY <4>3, <4>5
    <3>6. QueryAt(r, g, m + 3, 0, rest)
      <4>2. Reading(0) = "PT"
        BY DEF Reading
      <4>3. m + 3 + 0 = m + 3 /\ m + 3 \in 1..Len(p) + 1
        BY <1>2, <1>5, <2>1
      <4> QED BY <1>2, <1>3, <1>4, <1>t, <1>9, <3>1, <3>3, <3>4, <4>2, <4>3 DEF QueryAt, Told
    <3> QED BY <3>4, <3>6
  <2> QED BY <1>4, <2>2, <2>3, <2>4
<1>10. CASE m <= Len(p) /\ p[m] # "%"
  <2>1. d = 0 /\ t = p[m] /\ rest = From(p, m + 1) \o u
    <3>1. d = 0
      BY <1>4, <1>10
    <3>2. m + d = m
      BY <1>5, <3>1
    <3> QED BY <1>6, <1>10, <3>1, <3>2
  <2>2. InQuery(h.p, "PT")
    BY <1>4, <2>1 DEF Reading
  <2>3. t \notin {"nl", "nul", " ", "%"}
    <3>1. p[m] \in PathBytes \cup {"?"}
      BY <1>1, <1>2, <1>4, <1>5, <1>10, EscapeIs
    <3> QED BY <1>10, <2>1, <3>1 DEF PathBytes
  <2>4. Advances(h.p, res, Call("qs_char", t)) /\ InQuery(g.p, "PT")
    BY <1>7, <2>2, <2>3, QueryByte
  <2>5. GoesOn(h, res, g) /\ Holds(g, path, transport, ape_array_new, NewLine)
    <3>1. PICK list, line : list = ape_array_new /\ line = NewLine
      OBVIOUS
    <3>2. Holds(h, path, transport, list, line) /\ Reads(h, j, t, res, g)
      BY <1>t, <1>7, <3>1
    <3>3. GoesOn(h, res, g) /\ Holds(g, path, transport, list, line)
      BY <2>4, <3>2, QueryCallGoesOn
    <3> QED BY <3>1, <3>3
  <2>7. QueryAt(r, g, m + 1, 0, rest)
    <4>2. Reading(0) = "PT"
      BY DEF Reading
    <4>3. m + 1 + 0 = m + 1 /\ m + 1 \in 1..Len(p) + 1
      BY <1>2, <1>5, <1>10
    <4> QED BY <1>2, <1>3, <1>4, <1>t, <2>1, <2>4, <2>5, <4>2, <4>3 DEF QueryAt, Told
  <2> QED BY <2>5, <2>7
<1>11. CASE m > Len(p)
  <2>1. d = 0 /\ Before(t, rest) = u
    <3>1. d = 0
      BY <1>2, <1>4, <1>5, <1>11
    <3>2. m + d = m
      BY <1>5, <3>1
    <3> QED BY <1>6, <1>11, <3>1, <3>2
  <2>2. InQuery(h.p, "PT")
    BY <1>4, <2>1 DEF Reading
  <2>4. t = " " /\ rest = Before("version", Before("nl", LinesOn(r, 1)))
    BY <1>1, <1>3, <2>1, AfterQuery
  <2>5. Advances(h.p, res, <<>>) /\ InHead(g.p, "H1", 0)
    BY <1>7, <2>2, <2>4, QueryByte
  <2>6. GoesOn(h, res, g) /\ Holds(g, path, transport, ape_array_new, NewLine)
    BY <1>t, <1>7, <2>5, AdvancesGoesOn
  <2>7. VersionAt(r, g, rest)
    BY <1>t, <2>4, <2>5, <2>6 DEF VersionAt, Told
  <2> QED BY <2>6, <2>7
<1> QED BY <1>2, <1>5, <1>9, <1>10, <1>11

\* The line of a header, with and without its value.
KeyLine(x) == [key |-> One(x), value |-> <<>>]
WholeLine(x, y) == [key |-> One(x), value |-> One(y)]

LEMMA LineIs ==
  ASSUME NEW x, NEW y
  PROVE  /\ [NewLine EXCEPT !.key = Append(@, x)] = KeyLine(x)
         /\ [KeyLine(x) EXCEPT !.value = Append(@, y)] = WholeLine(x, y)
         /\ WholeLine(x, y).key = One(x) /\ WholeLine(x, y).value = One(y)
<1>1. \A z : Append(<<>>, z) = One(z)
  BY DEF One
<1>2. [NewLine EXCEPT !.key = Append(@, x)] = KeyLine(x)
  BY <1>1 DEF NewLine, KeyLine
<1>3. [KeyLine(x) EXCEPT !.value = Append(@, y)] = WholeLine(x, y)
  BY <1>1 DEF KeyLine, WholeLine
<1>4. WholeLine(x, y).key = One(x) /\ WholeLine(x, y).value = One(y)
  BY DEF WholeLine
<1> QED BY <1>2, <1>3, <1>4

\* What is left of the line of a header after its name.
ValueOn(r, n) == Before(r.headers[n][2], Before("nl", LinesOn(r, n + 1)))

\* In its headers: n - 1 of them were read.
HeaderAt(r, h, n, rest) ==
  /\ n \in 1..Len(r.headers) + 1
  /\ Collects(h.list.text, r.headers, n - 1)
  /\ \/ InHead(h.p, "C1", 0) /\ Told(r, h, h.list.text, NewLine) /\ rest = LinesOn(r, n)
     \/ /\ n <= Len(r.headers)
        /\ \/ /\ InHead(h.p, "HH", 0) /\ Told(r, h, h.list.text, KeyLine(r.headers[n][1]))
              /\ rest = Before(":", ValueOn(r, n))
           \/ /\ InHead(h.p, "HI", 0) /\ Told(r, h, h.list.text, KeyLine(r.headers[n][1]))
              /\ rest = ValueOn(r, n)
           \/ /\ InHead(h.p, "HI", 0)
              /\ Told(r, h, h.list.text, WholeLine(r.headers[n][1], r.headers[n][2]))
              /\ rest = Before("nl", LinesOn(r, n + 1))

\* The rest of the first line.
LEMMA VersionStep ==
  ASSUME NEW r \in Request, NEW h, NEW j, NEW t \in Bytes, NEW res, NEW g,
         Reads(h, j, t, res, g), NEW rest \in Seq(Bytes), VersionAt(r, h, Before(t, rest))
  PROVE  GoesOn(h, res, g) /\ (VersionAt(r, g, rest) \/ HeaderAt(r, g, 1, rest))
<1>1. PICK path, transport : /\ Holds(h, path, transport, ape_array_new, NewLine)
                             /\ path = PathOf(r.path) /\ transport = ape_get_transport(path)
  BY DEF VersionAt, Told
<1>2. PICK u \in Seq(Bytes), v \in Bytes, n \in Bytes, s \in Seq(Bytes) :
        u = LinesOn(r, 1) /\ v = "version" /\ n = "nl" /\ s = Before("nl", LinesOn(r, 1))
  <2>1. "version" \in Bytes /\ "nl" \in Bytes
    BY BytesAre DEF Signs
  <2>2. LinesOn(r, 1) \in Seq(Bytes)
    <3>1. 1 \in Nat \ {0}
      OBVIOUS
    <3> QED BY <3>1, LinesFrom
  <2> QED BY <2>1, <2>2, BeforeTyped
<1>3. Reads(h, j, t, res, g) /\ res = parse_http_char(h.p, t) /\ g.p = res.p
  BY DEF Reads
<1>4. CASE InHead(h.p, "H1", 0) /\ Before(t, rest) = Before(v, s)
  <2>1. t = v /\ rest = s
    BY <1>4, BeforeEqual
  <2>2. Advances(h.p, res, <<>>) /\ InHead(g.p, "EL", 0)
    BY <1>2, <1>3, <1>4, <2>1, VersionByte
  <2>3. GoesOn(h, res, g) /\ Holds(g, path, transport, ape_array_new, NewLine)
    BY <1>1, <1>3, <2>2, AdvancesGoesOn
  <2>4. VersionAt(r, g, rest)
    BY <1>1, <1>2, <2>1, <2>2, <2>3 DEF VersionAt, Told
  <2> QED BY <2>3, <2>4
<1>5. CASE InHead(h.p, "EL", 0) /\ Before(t, rest) = Before(n, u)
  <2>1. t = n /\ rest = u
    BY <1>5, BeforeEqual
  <2>2. Advances(h.p, res, <<>>) /\ InHead(g.p, "C1", 0)
    BY <1>2, <1>3, <1>5, <2>1, VersionByte
  <2>3. GoesOn(h, res, g) /\ Holds(g, path, transport, ape_array_new, NewLine)
    BY <1>1, <1>3, <2>2, AdvancesGoesOn
  <2>4. HeaderAt(r, g, 1, rest)
    <3>1. Collects(ape_array_new, r.headers, 0)
      BY CollectsNone
    <3>2. 1 \in 1..Len(r.headers) + 1 /\ 1 - 1 = 0
      BY RequestBytes
    <3>3. g.list.text = ape_array_new /\ Told(r, g, g.list.text, NewLine)
      BY <1>1, <2>3 DEF Told, Holds
    <3> QED BY <1>2, <2>1, <2>2, <3>1, <3>2, <3>3 DEF HeaderAt
  <2> QED BY <2>3, <2>4
<1> QED BY <1>2, <1>4, <1>5 DEF VersionAt

\* A byte of a header.
LEMMA HeaderStep ==
  ASSUME NEW r \in Request, NEW h, NEW j, NEW t \in Bytes, NEW res, NEW g,
         Reads(h, j, t, res, g), NEW rest \in Seq(Bytes), NEW n, n <= Len(r.headers),
         HeaderAt(r, h, n, Before(t, rest))
  PROVE  GoesOn(h, res, g) /\ \E k : HeaderAt(r, g, k, rest)
<1> DEFINE N == Len(r.headers)
<1>1. PICK x \in Bytes, y \in Bytes :
        x = r.headers[n][1] /\ y = r.headers[n][2] /\ x \in PlainWords /\ y \notin {"nl", "nul"}
  BY RequestBytes, BytesAre DEF HeaderAt
<1>2. PICK a, path, transport :
        a = h.list.text /\ path = PathOf(r.path) /\ transport = ape_get_transport(path)
  OBVIOUS
<1>3. PICK u \in Seq(Bytes), c \in Bytes, e \in Bytes :
        u = LinesOn(r, n + 1) /\ c = ":" /\ e = "nl"
  <2>1. ":" \in Bytes /\ "nl" \in Bytes
    BY BytesAre DEF Signs
  <2>2. LinesOn(r, n + 1) \in Seq(Bytes)
    <3>1. n + 1 \in Nat \ {0}
      BY DEF HeaderAt
    <3> QED BY <3>1, LinesFrom
  <2> QED BY <2>1, <2>2
<1>4. PICK s1 \in Seq(Bytes), s2 \in Seq(Bytes), s3 \in Seq(Bytes) :
        s1 = Before(e, u) /\ s2 = Before(y, s1) /\ s3 = Before(c, s2)
  BY BeforeTyped
<1>5. ValueOn(r, n) = s2
  BY <1>1, <1>3, <1>4 DEF ValueOn
<1>6. LinesOn(r, n) = Before(x, s3)
  <2>1. n \in Nat \ {0}
    BY DEF HeaderAt
  <2> QED BY <1>1, <1>3, <1>4, <2>1, LinesFrom
<1>7. Reads(h, j, t, res, g) /\ res = parse_http_char(h.p, t) /\ g.p = res.p
  BY DEF Reads
<1>8. n \in 1..N + 1 /\ n \in Nat /\ N \in Nat /\ n <= N /\ Collects(a, r.headers, n - 1)
  BY <1>2, RequestBytes DEF HeaderAt
<1> HIDE DEF N
<1>9. ASSUME InHead(h.p, "C1", 0), Told(r, h, a, NewLine), Before(t, rest) = LinesOn(r, n)
      PROVE  GoesOn(h, res, g) /\ HeaderAt(r, g, n, rest)
  <2>1. t = x /\ rest = s3
    BY <1>6, <1>9, BeforeEqual
  <2>2. Advances(h.p, res, Call("header_keyc", x)) /\ InHead(g.p, "HH", 0)
    BY <1>1, <1>7, <1>9, <2>1, KeyByte
  <2>3. Holds(h, path, transport, a, NewLine)
    BY <1>2, <1>9 DEF Told
  <2>4. GoesOn(h, res, g) /\ Holds(g, path, transport, a, [NewLine EXCEPT !.key = Append(@, x)])
    BY <1>7, <2>2, <2>3, CallGoesOn
  <2>5. Holds(g, path, transport, a, KeyLine(x))
    BY <2>4, LineIs
  <2>6. HeaderAt(r, g, n, rest)
    <3>1. g.list.text = a /\ Told(r, g, a, KeyLine(x))
      BY <1>2, <2>5 DEF Told, Holds
    <3> QED BY <1>1, <1>3, <1>4, <1>5, <1>8, <2>1, <2>2, <3>1 DEF HeaderAt, N
  <2> QED BY <2>4, <2>6
<1>10. ASSUME InHead(h.p, "HH", 0), Told(r, h, a, KeyLine(x)), Before(t, rest) = Before(":", ValueOn(r, n))
       PROVE  GoesOn(h, res, g) /\ HeaderAt(r, g, n, rest)
  <2>1. t = c /\ rest = s2
    <3>1. Before(t, rest) = Before(c, s2)
      BY <1>3, <1>5, <1>10
    <3> QED BY <3>1, BeforeEqual
  <2>2. Advances(h.p, res, Call("header_key", "")) /\ InHead(g.p, "HI", 0)
    BY <1>3, <1>7, <1>10, <2>1, ColonByte
  <2>3. Holds(h, path, transport, a, KeyLine(x))
    BY <1>2, <1>10 DEF Told
  <2>4. GoesOn(h, res, g) /\ Holds(g, path, transport, a, KeyLine(x))
    BY <1>7, <2>2, <2>3, CallGoesOn
  <2>6. HeaderAt(r, g, n, rest)
    <3>1. g.list.text = a /\ Told(r, g, a, KeyLine(x))
      BY <1>2, <2>4 DEF Told, Holds
    <3> QED BY <1>1, <1>5, <1>8, <2>1, <2>2, <3>1 DEF HeaderAt, N
  <2> QED BY <2>4, <2>6
<1>11. ASSUME InHead(h.p, "HI", 0), Told(r, h, a, KeyLine(x)), Before(t, rest) = ValueOn(r, n)
       PROVE  GoesOn(h, res, g) /\ HeaderAt(r, g, n, rest)
  <2>1. t = y /\ rest = s1
    <3>1. Before(t, rest) = Before(y, s1)
      BY <1>4, <1>5, <1>11
    <3> QED BY <3>1, BeforeEqual
  <2>2. Advances(h.p, res, Call("header_valc", y)) /\ InHead(g.p, "HI", 0)
    BY <1>1, <1>7, <1>11, <2>1, ValueByte
  <2>3. Holds(h, path, transport, a, KeyLine(x))
    BY <1>2, <1>11 DEF Told
  <2>4. GoesOn(h, res, g)
        /\ Holds(g, path, transport, a, [KeyLine(x) EXCEPT !.value = Append(@, y)])
    BY <1>7, <2>2, <2>3, CallGoesOn
  <2>5. Holds(g, path, transport, a, WholeLine(x, y))
    BY <2>4, LineIs
  <2>6. HeaderAt(r, g, n, rest)
    <3>1. g.list.text = a /\ Told(r, g, a, WholeLine(x, y))
      BY <1>2, <2>5 DEF Told, Holds
    <3> QED BY <1>1, <1>3, <1>4, <1>8, <2>1, <2>2, <3>1 DEF HeaderAt, N
  <2> QED BY <2>4, <2>6
<1>12. ASSUME InHead(h.p, "HI", 0), Told(r, h, a, WholeLine(x, y)),
              Before(t, rest) = Before("nl", LinesOn(r, n + 1))
       PROVE  GoesOn(h, res, g) /\ HeaderAt(r, g, n + 1, rest)
  <2>1. t = e /\ rest = u
    <3>1. Before(t, rest) = Before(e, u)
      BY <1>3, <1>12
    <3> QED BY <3>1, BeforeEqual
  <2>2. Advances(h.p, res, Call("header_val", "")) /\ InHead(g.p, "C1", 0)
    <3>1. t = "nl" /\ t # "nul"
      BY <1>3, <2>1
    <3> QED BY <1>7, <1>12, <3>1, ValueByte
  <2>3. Holds(h, path, transport, a, WholeLine(x, y))
    BY <1>2, <1>12 DEF Told
  <2> DEFINE b == ape_array_add(a, One(x), One(y))
  <2>4. GoesOn(h, res, g)
        /\ Holds(g, path, transport, ape_array_add(a, WholeLine(x, y).key, WholeLine(x, y).value), NewLine)
    <3>1. PICK what, value, line : /\ what = "header_val" /\ value = "" /\ line = WholeLine(x, y)
                                   /\ Advances(h.p, res, Call(what, value))
      BY <2>2
    <3>2. Holds(h, path, transport, a, line) /\ Reads(h, j, t, res, g)
      BY <1>7, <2>3, <3>1
    <3>3. GoesOn(h, res, g) /\ Holds(g, path, transport, ape_array_add(a, line.key, line.value), NewLine)
      BY <3>1, <3>2, CallGoesOn
    <3> QED BY <3>1, <3>3
  <2>5. Holds(g, path, transport, b, NewLine)
    BY <2>4, LineIs
  <2> HIDE DEF b
  <2>7. Collects(b, r.headers, n)
    <3>1. PICK k \in Nat : k = n - 1 /\ k + 1 = n
      BY <1>8
    <3>2. PICK hs : hs = r.headers
      OBVIOUS
    <3>3. hs[k + 1][1] = x /\ hs[k + 1][2] = y /\ Collects(a, hs, k)
      BY <1>1, <1>8, <3>1, <3>2
    <3>4. b = ape_array_add(a, One(hs[k + 1][1]), One(hs[k + 1][2]))
      BY <3>3 DEF b
    <3>5. hs[k + 1][1] \in Bytes /\ hs[k + 1][2] \in Bytes
      BY <3>3
    <3>6. Collects(b, hs, k + 1)
      BY <3>3, <3>4, <3>5, CollectsOne
    <3> QED BY <3>1, <3>2, <3>6
  <2>6. HeaderAt(r, g, n + 1, rest)
    <3>1. g.list.text = b /\ Told(r, g, b, NewLine)
      BY <1>2, <2>5 DEF Told, Holds
    <3>2. n + 1 \in 1..N + 1 /\ (n + 1) - 1 = n
      BY <1>8
    <3> QED BY <1>3, <2>1, <2>2, <2>7, <3>1, <3>2 DEF HeaderAt, N
  <2> QED BY <2>4, <2>6
<1>13. \/ InHead(h.p, "C1", 0) /\ Told(r, h, a, NewLine) /\ Before(t, rest) = LinesOn(r, n)
       \/ InHead(h.p, "HH", 0) /\ Told(r, h, a, KeyLine(x)) /\ Before(t, rest) = Before(":", ValueOn(r, n))
       \/ InHead(h.p, "HI", 0) /\ Told(r, h, a, KeyLine(x)) /\ Before(t, rest) = ValueOn(r, n)
       \/ InHead(h.p, "HI", 0) /\ Told(r, h, a, WholeLine(x, y))
          /\ Before(t, rest) = Before("nl", LinesOn(r, n + 1))
  BY <1>1, <1>2 DEF HeaderAt
<1> QED BY <1>9, <1>10, <1>11, <1>12, <1>13

LEMMA DigitsAre == \A c \in DOMAIN Digit : Digit[c] \in Nat
BY DEF Digit

LEMMA NumberTyped ==
  ASSUME NEW d \in Seq(DOMAIN Digit)
  PROVE  \A k \in 0..Len(d) : NumberUpTo(d)[k] \in Nat
<1> DEFINE N == Len(d)
           f == NumberUpTo(d)
           S == {n \in Nat : n <= N => f[n] \in Nat}
<1>1. N \in Nat /\ \A k \in 1..N : d[k] \in DOMAIN Digit
  BY LenProperties, ElementOfSeq
<1>2. f[0] = 0 /\ \A k \in 1..N : f[k] = 10 * f[k - 1] + Digit[d[k]]
  BY NumberEquation
<1> HIDE DEF N, f
<1>3. 0 \in S
  BY <1>2
<1>4. ASSUME NEW n \in Nat, n \in S PROVE n + 1 \in S
  <2>1. ASSUME n + 1 <= N PROVE f[n + 1] \in Nat
    <3>1. f[n] \in Nat /\ n + 1 \in 1..N /\ (n + 1) - 1 = n
      BY <1>1, <1>4, <2>1
    <3>2. Digit[d[n + 1]] \in Nat
      BY <1>1, <3>1, DigitsAre
    <3>3. f[n + 1] = 10 * f[n] + Digit[d[n + 1]]
      BY <1>2, <3>1
    <3> QED BY <3>1, <3>2, <3>3
  <2> QED BY <2>1
<1> HIDE DEF S
<1>5. \A n \in Nat : n \in S
  BY <1>3, <1>4, SetInduction
<1>6. \A k \in 0..N : f[k] \in Nat
  BY <1>1, <1>5 DEF S
<1> QED BY <1>6 DEF N, f

LEMMA NumberGrows ==
  ASSUME NEW d \in Seq(DOMAIN Digit), NEW k \in 0..Len(d)
  PROVE  NumberUpTo(d)[k] <= NumberOf(d)
<1> DEFINE N == Len(d)
           f == NumberUpTo(d)
           S == {n \in Nat : k + n <= N => f[k] <= f[k + n]}
<1>1. N \in Nat /\ k \in 0..N /\ \A m \in 1..N : d[m] \in DOMAIN Digit
  BY LenProperties, ElementOfSeq
<1>2. f[0] = 0 /\ \A m \in 1..N : f[m] = 10 * f[m - 1] + Digit[d[m]]
  BY NumberEquation
<1>n. \A m \in 0..N : f[m] \in Nat
  BY NumberTyped
<1> HIDE DEF N, f
<1>3. 0 \in S
  <2>1. k + 0 = k /\ f[k] \in Nat
    BY <1>1, <1>n
  <2> QED BY <2>1
<1>4. ASSUME NEW n \in Nat, n \in S PROVE n + 1 \in S
  <2>1. ASSUME k + (n + 1) <= N PROVE f[k] <= f[k + (n + 1)]
    <3>1. PICK m \in 0..N : m = k + n /\ m + 1 \in 1..N /\ (m + 1) - 1 = m /\ k + (n + 1) = m + 1
      BY <1>1, <2>1
    <3>2. Digit[d[m + 1]] \in Nat /\ f[m] \in Nat /\ f[k] \in Nat
      BY <1>1, <1>n, <3>1, DigitsAre
    <3>3. f[m + 1] = 10 * f[m] + Digit[d[m + 1]]
      BY <1>2, <3>1
    <3>4. f[k] <= f[m]
      BY <1>4, <3>1
    <3>5. f[k] <= f[m + 1]
      BY <3>2, <3>3, <3>4
    <3> QED BY <3>1, <3>5
  <2> QED BY <2>1
<1> HIDE DEF S
<1>5. \A n \in Nat : n \in S
  BY <1>3, <1>4, SetInduction
<1>6. PICK n \in Nat : k + n = N
  BY <1>1
<1>7. f[k] <= f[N]
  <2>1. k + n <= N /\ n \in S
    BY <1>1, <1>5, <1>6
  <2> QED BY <1>6, <2>1 DEF S
<1> QED BY <1>7 DEF NumberOf, N, f

\* The headers were read: what the scripts may ask for is there.
HeadersRead(r, h) ==
  Told(r, h, h.list.text, NewLine) /\ Collects(h.list.text, r.headers, Len(r.headers))

\* In its length, and at the end of its headers.
LengthAt(r, h, k, rest) ==
  /\ k \in 1..Len(r.length) + 1 /\ NumberUpTo(r.length)[k - 1] <= MaxCl
  /\ InHead(h.p, "CV", NumberUpTo(r.length)[k - 1]) /\ HeadersRead(r, h)
  /\ rest = From(r.length, k) \o Before("nl", Ending(r))

EndAt(r, h, rest) ==
  /\ NumberOf(r.length) <= MaxCl
  /\ InHead(h.p, "C1", NumberOf(r.length)) /\ HeadersRead(r, h) /\ rest = Ending(r)

LEMMA LengthIs ==
  ASSUME NEW r \in Request
  PROVE  /\ r.length \in Seq(DOMAIN Digit) /\ r.length \in Seq(Bytes) /\ Len(r.length) \in Nat
         /\ NumberOf(r.length) \in Nat /\ NumberUpTo(r.length)[0] = 0
         /\ r.length = <<>> => NumberOf(r.length) = 0
<1>1. r.length \in Seq(DOMAIN Digit) /\ r.length \in Seq(Bytes) /\ Len(r.length) \in Nat
  BY RequestBytes, LenProperties DEF Request
<1>2. PICK d \in Seq(DOMAIN Digit) : d = r.length
  BY <1>1
<1>3. NumberOf(d) \in Nat /\ NumberUpTo(d)[0] = 0
  BY <1>1, <1>2, NumberTyped, NumberEquation DEF NumberOf
<1>4. d = <<>> => Len(d) = 0
  OBVIOUS
<1> QED BY <1>1, <1>2, <1>3, <1>4 DEF NumberOf

\* The headers that are kept are kept by a byte that changes none of them.
LEMMA ReadStill ==
  ASSUME NEW r, NEW h, HeadersRead(r, h)
  PROVE  \E path, transport, list :
           /\ Holds(h, path, transport, list, NewLine)
           /\ \A g : Holds(g, path, transport, list, NewLine) => HeadersRead(r, g)
<1>1. PICK path, transport, list :
        path = PathOf(r.path) /\ transport = ape_get_transport(PathOf(r.path)) /\ list = h.list.text
  OBVIOUS
<1>2. Holds(h, path, transport, list, NewLine) /\ Collects(list, r.headers, Len(r.headers))
  BY <1>1 DEF HeadersRead, Told
<1>3. ASSUME NEW g, Holds(g, path, transport, list, NewLine) PROVE HeadersRead(r, g)
  <2>1. g.list.text = list
    BY <1>3 DEF Holds
  <2> QED BY <1>1, <1>2, <1>3, <2>1 DEF HeadersRead, Told
<1> QED BY <1>2, <1>3

\* After the headers: the length, or the end.
LEMMA AfterHeaders ==
  ASSUME NEW r \in Request, NEW h, NEW n, n > Len(r.headers), NEW rest, HeaderAt(r, h, n, rest)
  PROVE  /\ HeadersRead(r, h) /\ InHead(h.p, "C1", 0) /\ rest = LengthOn(r)
         /\ r.length = <<>> => EndAt(r, h, rest)
<1>1. Len(r.headers) \in Nat /\ n \in Nat \ {0} /\ n - 1 = Len(r.headers) /\ ~(n <= Len(r.headers))
  BY RequestBytes DEF HeaderAt
<1>2. /\ InHead(h.p, "C1", 0) /\ Told(r, h, h.list.text, NewLine) /\ rest = LinesOn(r, n)
      /\ Collects(h.list.text, r.headers, Len(r.headers))
  BY <1>1 DEF HeaderAt
<1>3. rest = LengthOn(r) /\ HeadersRead(r, h)
  BY <1>1, <1>2, LinesFrom DEF HeadersRead
<1>4. ASSUME r.length = <<>> PROVE EndAt(r, h, rest)
  <2>1. NumberOf(r.length) = 0 /\ rest = Ending(r)
    BY <1>3, <1>4, LengthIs, EndingIs
  <2> QED BY <1>2, <1>3, <2>1, MaxClIsNatural DEF EndAt
<1> QED BY <1>2, <1>3, <1>4

\* The beginning of the length.
LEMMA LengthBegins ==
  ASSUME NEW r \in Request, NEW h, NEW j, NEW t \in Bytes, NEW res, NEW g,
         Reads(h, j, t, res, g), NEW rest \in Seq(Bytes), NEW n, n > Len(r.headers),
         HeaderAt(r, h, n, Before(t, rest)), r.length # <<>>
  PROVE  GoesOn(h, res, g) /\ LengthAt(r, g, 1, rest)
<1>1. HeadersRead(r, h) /\ InHead(h.p, "C1", 0) /\ Before(t, rest) = LengthOn(r)
  BY AfterHeaders
<1>2. PICK path, transport, list :
        /\ Holds(h, path, transport, list, NewLine)
        /\ \A k : Holds(k, path, transport, list, NewLine) => HeadersRead(r, k)
  BY <1>1, ReadStill
<1>3. PICK s \in Seq(Bytes), w \in Bytes, u \in Seq(Bytes), l \in Seq(Bytes) :
        /\ w = "Content-length" /\ u = Before("nl", Ending(r)) /\ l = r.length /\ s = l \o u
  <2>1. "Content-length" \in Bytes /\ "nl" \in Bytes
    BY BytesAre DEF Signs
  <2>2. Before("nl", Ending(r)) \in Seq(Bytes)
    BY <2>1, EndingIs, BeforeTyped
  <2>3. r.length \o Before("nl", Ending(r)) \in Seq(Bytes)
    BY <2>2, LengthIs, ConcatProperties
  <2> QED BY <2>1, <2>2, <2>3, LengthIs
<1>4. Before(t, rest) = Before(w, s)
  BY <1>1, <1>3, EndingIs
<1>5. t = w /\ rest = s
  BY <1>4, BeforeEqual
<1>6. Reads(h, j, t, res, g) /\ res = parse_http_char(h.p, t) /\ g.p = res.p
  BY DEF Reads
<1>7. Advances(h.p, res, Call("header_key", "")) /\ InHead(g.p, "CV", 0)
  BY <1>1, <1>3, <1>5, <1>6, LengthWord
<1>8. GoesOn(h, res, g) /\ Holds(g, path, transport, list, NewLine)
  <2>1. PICK what, value : what = "header_key" /\ value = "" /\ Advances(h.p, res, Call(what, value))
    BY <1>7
  <2> QED BY <1>2, <1>6, <2>1, CallGoesOn
<1>9. LengthAt(r, g, 1, rest)
  <2>1. HeadersRead(r, g)
    BY <1>2, <1>8
  <2>2. From(l, 1) = l
    BY FromFirst
  <2>3. 1 \in 1..Len(r.length) + 1 /\ 1 - 1 = 0
    BY LengthIs
  <2>4. NumberUpTo(r.length)[1 - 1] = 0 /\ 0 <= MaxCl
    BY <2>3, LengthIs, MaxClIsNatural
  <2> QED BY <1>3, <1>5, <1>7, <2>1, <2>2, <2>3, <2>4 DEF LengthAt
<1> QED BY <1>8, <1>9

\* A byte of the length: it is refused as soon as it says too much.
LEMMA LengthStep ==
  ASSUME NEW r \in Request, NEW h, NEW j, NEW t \in Bytes, NEW res, NEW g,
         Reads(h, j, t, res, g), NEW rest \in Seq(Bytes), NEW k,
         LengthAt(r, h, k, Before(t, rest))
  PROVE  \/ GoesOn(h, res, g) /\ (LengthAt(r, g, k + 1, rest) \/ EndAt(r, g, rest))
         \/ ~res.ok /\ NumberOf(r.length) > MaxCl
<1>1. PICK d \in Seq(DOMAIN Digit) : d = r.length /\ d \in Seq(Bytes) /\ Len(d) \in Nat
  BY LengthIs
<1>2. PICK cl \in Nat : cl = NumberUpTo(d)[k - 1]
  <2>1. k - 1 \in 0..Len(d)
    BY <1>1 DEF LengthAt
  <2> QED BY <2>1, NumberTyped
<1>3. PICK u \in Seq(Bytes), e \in Bytes, s \in Seq(Bytes) :
        u = Before("nl", Ending(r)) /\ e = "nl" /\ s = Ending(r)
  <2>1. "nl" \in Bytes
    BY BytesAre DEF Signs
  <2> QED BY <2>1, EndingIs, BeforeTyped
<1>4. /\ k \in 1..Len(d) + 1 /\ k \in Nat \ {0} /\ cl <= MaxCl
      /\ InHead(h.p, "CV", cl) /\ HeadersRead(r, h) /\ Before(t, rest) = From(d, k) \o u
  BY <1>1, <1>2, <1>3 DEF LengthAt
<1>5. /\ k <= Len(d) => t = d[k] /\ rest = From(d, k + 1) \o u
      /\ k > Len(d) => Before(t, rest) = u
  <2>1. Upcoming(d, k, u, t, rest)
    BY <1>1, <1>4 DEF Upcoming
  <2> QED BY <2>1, NextComes
<1>6. Reads(h, j, t, res, g) /\ res = parse_http_char(h.p, t) /\ g.p = res.p
  BY DEF Reads
<1>7. PICK path, transport, list :
        /\ Holds(h, path, transport, list, NewLine)
        /\ \A f : Holds(f, path, transport, list, NewLine) => HeadersRead(r, f)
  BY <1>4, ReadStill
<1>8. CASE k <= Len(d)
  <2>1. k \in 1..Len(d) /\ t = d[k] /\ t \in DOMAIN Digit /\ rest = From(d, k + 1) \o u
    BY <1>1, <1>4, <1>5, <1>8, ElementOfSeq
  <2>2. PICK n \in Nat : n = 10 * cl + Digit[t]
    BY <2>1, DigitsAre
  <2>3. NumberUpTo(d)[k] = n
    BY <1>2, <2>1, <2>2, NumberEquation
  <2>4. /\ n <= MaxCl => Advances(h.p, res, <<>>) /\ InHead(g.p, "CV", n)
        /\ n > MaxCl => ~res.ok
    BY <1>4, <1>6, <2>1, <2>2, LengthDigit
  <2>5. CASE n > MaxCl
    <3>1. n <= NumberOf(d) /\ NumberOf(d) \in Nat
      <4>1. k \in 0..Len(d)
        BY <1>4, <1>8
      <4> QED BY <1>1, <2>3, <4>1, NumberGrows, LengthIs
    <3>2. NumberOf(r.length) > MaxCl
      BY <1>1, <2>5, <3>1, MaxClIsNatural
    <3> QED BY <2>4, <2>5, <3>2
  <2>6. CASE n <= MaxCl
    <3>1. GoesOn(h, res, g) /\ Holds(g, path, transport, list, NewLine)
      BY <1>6, <1>7, <2>4, <2>6, AdvancesGoesOn
    <3>2. LengthAt(r, g, k + 1, rest)
      <4>1. HeadersRead(r, g)
        BY <1>7, <3>1
      <4>2. k + 1 \in 1..Len(d) + 1 /\ (k + 1) - 1 = k
        BY <1>1, <1>4, <1>8
      <4> QED BY <1>1, <1>3, <2>1, <2>3, <2>4, <2>6, <4>1, <4>2 DEF LengthAt
    <3> QED BY <3>1, <3>2
  <2> QED BY <2>2, <2>5, <2>6, MaxClIsNatural
<1>9. CASE k > Len(d)
  <2>1. t = e /\ rest = s
    <3>1. Before(t, rest) = Before(e, s)
      BY <1>3, <1>5, <1>9
    <3> QED BY <3>1, BeforeEqual
  <2>2. Advances(h.p, res, Call("cl_val", "")) /\ InHead(g.p, "C1", cl)
    BY <1>3, <1>4, <1>6, <2>1, LengthEnds
  <2>3. GoesOn(h, res, g) /\ Holds(g, path, transport, list, NewLine)
    <3>1. PICK what, value : what = "cl_val" /\ value = "" /\ Advances(h.p, res, Call(what, value))
      BY <2>2
    <3>2. GoesOn(h, res, g)
          /\ (what \in {"qs_char", "body_char", "header_key", "cl_val"} =>
                Holds(g, path, transport, list, NewLine))
      <4>1. PICK line : line = NewLine
        OBVIOUS
      <4>2. Holds(h, path, transport, list, line) /\ Reads(h, j, t, res, g)
        BY <1>6, <1>7, <4>1
      <4>3. GoesOn(h, res, g)
            /\ (what \in {"qs_char", "body_char", "header_key", "cl_val"} =>
                  Holds(g, path, transport, list, line))
        BY <3>1, <4>2, CallGoesOn
      <4> QED BY <4>1, <4>3
    <3> QED BY <3>1, <3>2
  <2>4. EndAt(r, g, rest)
    <3>1. HeadersRead(r, g)
      BY <1>7, <2>3
    <3>2. k - 1 = Len(d)
      BY <1>1, <1>4, <1>9
    <3>3. NumberOf(r.length) = cl
      BY <1>1, <1>2, <3>2 DEF NumberOf
    <3> QED BY <1>3, <1>4, <2>1, <2>2, <3>1, <3>3 DEF EndAt
  <2> QED BY <2>3, <2>4
<1> QED BY <1>1, <1>4, <1>8, <1>9

\* A request is complete: all of it was read, and nothing but it.
Finished(r, g) ==
  /\ g.path.text = PathOf(r.path) /\ g.transport = ape_get_transport(PathOf(r.path))
  /\ Collects(g.list.text, r.headers, Len(r.headers))

Finishes(r, res, g, rest) ==
  res.ok /\ res.ready /\ rest = <<>> /\ Finished(r, g) /\ IsComplete(r)

LEMMA LastHears ==
  ASSUME NEW h, HttpLike(h), NEW path, NEW transport, NEW list, NEW line,
         Holds(h, path, transport, list, line), NEW j, NEW t,
         NEW res, res = parse_http_char(h.p, t), NEW g, g = After(h, j, res).h, res.ready,
         res.calls # <<>> => res.calls[1].what = "body_char"
  PROVE  g.path.text = path /\ g.transport = transport /\ g.list.text = list
<1> DEFINE k == WithParser(h, res.p)
           c == [h |-> k, j |-> j]
           after == IF res.calls = <<>> THEN c ELSE ape_http_callback(c, res.calls[1])
<1>1. ParserOK(h.p)
  BY BuffersAre
<1>2. ParserOK(res.p) /\ CallsOK(res.calls)
  BY <1>1, ParserKept DEF StepOK, ByteOK
<1>3. HttpLike(k) /\ Holds(k, path, transport, list, line)
  BY <1>2, HttpFacts, FieldsAre
<1>4. after.h = k /\ after = [h |-> after.h, j |-> after.j]
  <2> HIDE DEF k
  <2>1. CASE res.calls = <<>>
    BY <2>1
  <2>2. CASE res.calls # <<>>
    <3>1. PICK e : e = res.calls[1] /\ e.what = "body_char"
      BY <2>2
    <3>2. ape_http_callback(c, e) = c \/ ape_http_callback(c, e) = [c EXCEPT !.j = Fed(@, e.value)]
      BY <3>1 DEF ape_http_callback
    <3> QED BY <2>2, <3>1, <3>2
  <2> QED BY <2>1, <2>2
<1>5. After(h, j, res) = [after EXCEPT !.h.line = Freed]
  BY DEF After
<1> HIDE DEF after, k
<1>6. g = WithLine(k, Freed)
  BY <1>4, <1>5 DEF WithLine
<1>7. PICK m : m = Freed
  OBVIOUS
<1>8. Holds(g, path, transport, list, m.text)
  BY <1>3, <1>6, <1>7, FieldsAre
<1> QED BY <1>8 DEF Holds

LEMMA CompletesFinishes ==
  ASSUME NEW r, NEW h, NEW j, NEW t, NEW res, NEW g, Reads(h, j, t, res, g), HeadersRead(r, h),
         NEW calls, Completes(res, calls), calls # <<>> => calls[1].what = "body_char"
  PROVE  res.ok /\ res.ready /\ Finished(r, g)
<1>1. PICK path, transport, list :
        /\ path = PathOf(r.path) /\ transport = ape_get_transport(PathOf(r.path))
        /\ list = h.list.text /\ Holds(h, path, transport, list, NewLine)
  BY DEF HeadersRead, Told
<1>2. /\ HttpLike(h) /\ res = parse_http_char(h.p, t) /\ g = After(h, j, res).h
      /\ res.ok /\ res.ready /\ (res.calls # <<>> => res.calls[1].what = "body_char")
  BY DEF Reads, Completes
<1>3. g.path.text = path /\ g.transport = transport /\ g.list.text = list
  BY <1>1, <1>2, LastHears
<1> QED BY <1>1, <1>2, <1>3 DEF Finished, HeadersRead

\* The body, as far as its length says.
LEMMA BodyIs ==
  ASSUME NEW r, WellFormed(r), NumberOf(r.length) <= MaxCl
  PROVE  /\ r.body \in Seq(Bytes \ {":", "?", "nul"}) /\ r.body \in Seq(Bytes)
         /\ Len(r.body) \in Nat /\ Escapes(r.body) /\ r.method \in Methods
         /\ r.method = "GET" => r.body = <<>> /\ IsComplete(r)
         /\ r.method = "POST" => /\ NumberOf(r.length) <= Len(r.body)
                                 /\ ~CutsEscape(r) => NumberOf(r.length) = Len(r.body)
<1>1. r \in Request /\ LengthOK(r) /\ Escapes(r.body)
  BY DEF WellFormed
<1>2. PICK n \in Nat : n = NumberOf(r.length)
  BY <1>1, LengthIs
<1>3. /\ r.body \in Seq(Bytes \ {":", "?", "nul"}) /\ r.body \in Seq(Bytes)
      /\ Len(r.body) \in Nat /\ r.method \in Methods
  BY <1>1, RequestBytes, LenProperties DEF Request
<1>4. ~(n > MaxCl)
  BY <1>2, MaxClIsNatural
<1>5. ASSUME r.method = "GET" PROVE r.body = <<>> /\ IsComplete(r)
  BY <1>1, <1>5 DEF LengthOK, IsComplete
<1>6. ASSUME r.method = "POST"
      PROVE  /\ NumberOf(r.length) <= Len(r.body)
             /\ ~CutsEscape(r) => NumberOf(r.length) = Len(r.body)
  <2>1. n = Len(r.body) \/ (n < Len(r.body) /\ CutsEscape(r))
    BY <1>1, <1>2, <1>4, <1>6 DEF LengthOK
  <2> QED BY <1>2, <1>3, <2>1
<1> QED BY <1>1, <1>3, <1>5, <1>6

\* Within an escape of the body or not.
InText(d) == IF d = 0 THEN "BT" ELSE Reading(d)

\* In its body: the length has not been reached.
BodyAt(r, h, m, d, rest) ==
  /\ r.method = "POST" /\ NumberOf(r.length) <= MaxCl /\ HeadersRead(r, h)
  /\ m \in Nat \ {0} /\ d \in {0, 1, 2} /\ m + d <= NumberOf(r.length)
  /\ d # 0 => r.body[m] = "%"
  /\ d = 0 /\ m > 1 => r.body[m - 1] # "%"
  /\ InBody(h.p, InText(d), NumberOf(r.length) - (m + d - 1))
  /\ rest = From(r.body, m + d)

\* The empty line after the headers.
LEMMA EndStep ==
  ASSUME NEW r, WellFormed(r), NEW h, h.p.post <=> r.method = "POST", NEW j, NEW t \in Bytes,
         NEW res, NEW g, Reads(h, j, t, res, g), NEW rest \in Seq(Bytes),
         EndAt(r, h, Before(t, rest))
  PROVE  \/ GoesOn(h, res, g) /\ BodyAt(r, g, 1, 0, rest)
         \/ Finishes(r, res, g, rest)
<1>1. r \in Request /\ NumberOf(r.length) <= MaxCl
  BY DEF WellFormed, EndAt
<1>2. PICK n \in Nat : n = NumberOf(r.length)
  BY <1>1, LengthIs
<1>3. PICK e \in Bytes, s \in Seq(Bytes) : e = "nl" /\ s = r.body
  BY <1>1, BodyIs, BytesAre DEF Signs
<1>4. InHead(h.p, "C1", n) /\ HeadersRead(r, h) /\ Before(t, rest) = Before(e, s)
  BY <1>2, <1>3 DEF EndAt, Ending
<1>5. t = e /\ rest = s
  BY <1>4, BeforeEqual
<1>6. Reads(h, j, t, res, g) /\ res = parse_http_char(h.p, t) /\ g.p = res.p
  BY DEF Reads
<1>7. /\ ~h.p.post \/ n = 0 => Completes(res, <<>>)
      /\ h.p.post /\ n # 0 => Advances(h.p, res, <<>>) /\ InBody(g.p, "BT", n)
  BY <1>3, <1>4, <1>5, <1>6, EmptyLine
<1>8. CASE ~h.p.post \/ n = 0
  <2>1. res.ok /\ res.ready /\ Finished(r, g)
    <3>1. PICK calls : calls = <<>> /\ Completes(res, calls)
      BY <1>7, <1>8
    <3> QED BY <1>4, <1>6, <3>1, CompletesFinishes
  <2>2. rest = <<>> /\ IsComplete(r)
    <3>1. CASE r.method = "POST"
      <4>1. n = 0
        BY <1>8, <3>1
      <4>2. ~CutsEscape(r)
        BY <1>2, <4>1 DEF CutsEscape
      <4>3. Len(s) = 0
        BY <1>1, <1>2, <1>3, <3>1, <4>1, <4>2, BodyIs
      <4>4. s = <<>>
        BY <4>3, EmptySeq
      <4> QED BY <1>1, <1>5, <4>2, <4>4 DEF IsComplete
    <3>2. CASE r.method # "POST"
      BY <1>1, <1>3, <1>5, <3>2, BodyIs DEF Methods
    <3> QED BY <3>1, <3>2
  <2> QED BY <2>1, <2>2 DEF Finishes
<1>9. CASE h.p.post /\ n # 0
  <2>1. PICK path, transport, list :
        /\ Holds(h, path, transport, list, NewLine)
        /\ \A f : Holds(f, path, transport, list, NewLine) => HeadersRead(r, f)
    BY <1>4, ReadStill
  <2>2. GoesOn(h, res, g) /\ Holds(g, path, transport, list, NewLine)
    BY <1>6, <1>7, <1>9, <2>1, AdvancesGoesOn
  <2>3. BodyAt(r, g, 1, 0, rest)
    <3>1. HeadersRead(r, g)
      BY <2>1, <2>2
    <3>2. From(s, 1) = s
      BY FromFirst
    <3>3. 1 + 0 = 1 /\ n - (1 + 0 - 1) = n /\ 1 <= n /\ 1 \in Nat \ {0} /\ ~(1 > 1)
      BY <1>9
    <3>4. InText(0) = "BT"
      BY DEF InText
    <3>5. r.method = "POST"
      BY <1>9
    <3> QED BY <1>1, <1>2, <1>3, <1>5, <1>7, <1>9, <3>1, <3>2, <3>3, <3>4, <3>5 DEF BodyAt
  <2> QED BY <2>2, <2>3
<1> QED BY <1>8, <1>9

\* A byte of the body: it completes the request, or it is refused if the length
\* ends in an escape.
LEMMA BodyStep ==
  ASSUME NEW r, WellFormed(r), NEW h, NEW j, NEW t \in Bytes,
         NEW res, NEW g, Reads(h, j, t, res, g), NEW rest \in Seq(Bytes), NEW m, NEW d,
         BodyAt(r, h, m, d, Before(t, rest))
  PROVE  \/ GoesOn(h, res, g) /\ \E k, e : BodyAt(r, g, k, e, rest)
         \/ Finishes(r, res, g, rest)
         \/ ~res.ok /\ res.p.ready /\ ~IsComplete(r)
<1>1. r \in Request /\ NumberOf(r.length) <= MaxCl /\ r.method = "POST"
  BY DEF WellFormed, BodyAt
<1>2. PICK n \in Nat : n = NumberOf(r.length)
  BY <1>1, LengthIs
<1>3. PICK b \in Seq(Bytes) : /\ b = r.body /\ b \in Seq(Bytes \ {":", "?", "nul"})
                              /\ Len(b) \in Nat /\ Escapes(b)
  BY <1>1, BodyIs
<1>4. n <= Len(b) /\ (~CutsEscape(r) => n = Len(b))
  BY <1>1, <1>2, <1>3, BodyIs
<1>5. PICK cl \in Nat \ {0} : cl = n - (m + d - 1)
  BY <1>2 DEF BodyAt
<1>6. /\ m \in Nat \ {0} /\ d \in {0, 1, 2} /\ m + d <= n /\ m + d \in Nat \ {0}
      /\ (d # 0 => b[m] = "%") /\ (d = 0 /\ m > 1 => b[m - 1] # "%")
      /\ InBody(h.p, InText(d), cl) /\ HeadersRead(r, h) /\ Before(t, rest) = From(b, m + d)
  BY <1>2, <1>3, <1>5 DEF BodyAt
<1>7. t = b[m + d] /\ rest = From(b, m + d + 1) /\ b[m + d] \in Bytes \ {":", "?", "nul"}
  <2>1. m + d \in 1..Len(b)
    BY <1>3, <1>4, <1>6
  <2>2. PICK k \in Nat \ {0} : k = m + d
    BY <1>6
  <2>3. From(b, k) = Before(b[k], From(b, k + 1)) /\ b[k] \in Bytes
    <3>1. k \in 1..Len(b) /\ b \in Seq(Bytes)
      BY <1>3, <2>1, <2>2
    <3>2. b[k] \in Bytes /\ From(b, k) = <<b[k]>> \o From(b, k + 1)
      BY <3>1, FromStep
    <3> QED BY <3>2 DEF Before
  <2>4. PICK x \in Bytes, v \in Seq(Bytes) : x = b[k] /\ v = From(b, k + 1)
    <3>1. k + 1 \in Nat \ {0}
      OBVIOUS
    <3> QED BY <2>3, <3>1, FromTyped
  <2>5. t = x /\ rest = v
    <3>1. Before(t, rest) = Before(x, v)
      BY <1>6, <2>2, <2>3, <2>4
    <3> QED BY <3>1, BeforeEqual
  <2>6. b[k] \in Bytes \ {":", "?", "nul"}
    <3>1. PICK S : S = Bytes \ {":", "?", "nul"} /\ b \in Seq(S)
      BY <1>3
    <3>2. b[k] \in S
      BY <2>1, <2>2, <3>1, ElementOfSeq
    <3> QED BY <3>1, <3>2
  <2> QED BY <2>2, <2>4, <2>5, <2>6
<1>8. Reads(h, j, t, res, g) /\ res = parse_http_char(h.p, t) /\ g.p = res.p
  BY DEF Reads
<1>9. PICK path, transport, list :
        /\ Holds(h, path, transport, list, NewLine)
        /\ \A f : Holds(f, path, transport, list, NewLine) => HeadersRead(r, f)
  BY <1>6, ReadStill
<1>10. ASSUME b[n] # "%", n > 1 => b[n - 1] # "%", m + d = n, NEW calls, Completes(res, calls),
              calls # <<>> => calls[1].what = "body_char"
       PROVE  Finishes(r, res, g, rest)
  <2>1. ~CutsEscape(r)
    BY <1>2, <1>3, <1>10 DEF CutsEscape
  <2>2. res.ok /\ res.ready /\ Finished(r, g)
    BY <1>6, <1>8, <1>10, CompletesFinishes
  <2>3. rest = <<>>
    <3>1. n + 1 \in Nat \ {0} /\ n + 1 > Len(b)
      BY <1>4, <2>1
    <3>2. From(b, n + 1) = <<>>
      BY <3>1, FromEmpty
    <3> QED BY <1>7, <1>10, <3>2
  <2> QED BY <1>1, <2>1, <2>2, <2>3 DEF Finishes, IsComplete
<1>11. ASSUME b[n] = "%" \/ (n > 1 /\ b[n - 1] = "%") PROVE ~IsComplete(r)
  <2>1. n > 0
    BY <1>6
  <2> QED BY <1>1, <1>2, <1>3, <1>11, <2>1 DEF CutsEscape, IsComplete
<1>12. ASSUME NEW k \in Nat \ {0}, NEW e \in {0, 1, 2}, k + e = m + d + 1, m + d # n,
              e # 0 => b[k] = "%", e = 0 /\ k > 1 => b[k - 1] # "%",
              InBody(g.p, InText(e), cl - 1), Holds(g, path, transport, list, NewLine)
       PROVE  BodyAt(r, g, k, e, rest)
  <2>1. HeadersRead(r, g)
    BY <1>9, <1>12
  <2>2. k + e <= n /\ cl - 1 = n - (k + e - 1)
    BY <1>5, <1>6, <1>12
  <2> QED BY <1>1, <1>2, <1>3, <1>7, <1>12, <2>1, <2>2 DEF BodyAt
<1>13. cl = 1 <=> m + d = n
  BY <1>5, <1>6
<1>14. CASE d = 0
  <2>1. InBody(h.p, "BT", cl) /\ m + d = m
    BY <1>6, <1>14 DEF InText
  <2>2. /\ t = "%" /\ cl = 1 => ~res.ok /\ res.p.ready
        /\ t = "%" /\ cl # 1 => Advances(h.p, res, <<>>) /\ InBody(g.p, "E1", cl - 1)
        /\ t # "%" /\ cl = 1 => Completes(res, Call("body_char", t))
        /\ t # "%" /\ cl # 1 => Advances(h.p, res, Call("body_char", t)) /\ InBody(g.p, "BT", cl - 1)
    <3>1. t \notin {":", "?", "nul"}
      BY <1>7
    <3> QED BY <1>8, <2>1, <3>1, BodyByte
  <2>3. CASE t = "%" /\ cl = 1
    BY <1>7, <1>11, <1>13, <2>1, <2>2, <2>3
  <2>4. CASE t = "%" /\ cl # 1
    <3>1. GoesOn(h, res, g) /\ Holds(g, path, transport, list, NewLine)
      BY <1>8, <1>9, <2>2, <2>4, AdvancesGoesOn
    <3>2. BodyAt(r, g, m, 1, rest)
      <4>1. InText(1) = "E1"
        BY DEF InText, Reading
      <4>2. m + 1 = m + d + 1 /\ b[m] = "%" /\ m + d # n
        BY <1>6, <1>7, <1>13, <1>14, <2>1, <2>4
      <4> QED BY <1>6, <1>12, <2>2, <2>4, <3>1, <4>1, <4>2
    <3> QED BY <3>1, <3>2
  <2>5. CASE t # "%" /\ cl = 1
    <3>1. PICK calls : calls = Call("body_char", t) /\ calls[1].what = "body_char"
      BY CallFacts
    <3>2. b[n] # "%" /\ (n > 1 => b[n - 1] # "%")
      BY <1>6, <1>7, <1>13, <1>14, <2>1, <2>5
    <3>3. Finishes(r, res, g, rest)
      BY <1>10, <1>13, <2>2, <2>5, <3>1, <3>2
    <3> QED BY <3>3
  <2>6. CASE t # "%" /\ cl # 1
    <3>1. GoesOn(h, res, g) /\ Holds(g, path, transport, list, NewLine)
      <4>1. PICK what, value : what = "body_char" /\ value = t /\ Advances(h.p, res, Call(what, value))
        BY <2>2, <2>6
      <4>2. Holds(h, path, transport, list, NewLine)
        BY <1>9
      <4>3. what \in {"qs_char", "body_char", "header_key", "cl_val"}
        BY <4>1
      <4> QED BY <1>8, <4>1, <4>2, <4>3, CallGoesOn
    <3>2. BodyAt(r, g, m + 1, 0, rest)
      <4>1. InText(0) = "BT"
        BY DEF InText
      <4>2. (m + 1) + 0 = m + d + 1 /\ (m + 1) - 1 = m /\ b[m] # "%" /\ m + d # n /\ m + 1 \in Nat \ {0}
        BY <1>6, <1>7, <1>13, <1>14, <2>1, <2>6
      <4> QED BY <1>12, <2>2, <2>6, <3>1, <4>1, <4>2
    <3> QED BY <3>1, <3>2
  <2> QED BY <2>3, <2>4, <2>5, <2>6
<1>15. CASE d # 0
  <2>1. b[m] = "%" /\ m + 2 <= Len(b) /\ Hex(b[m + 1]) /\ Hex(b[m + 2])
    <3>1. b[m] = "%" /\ m \in 1..Len(b)
      BY <1>3, <1>4, <1>6, <1>15
    <3> QED BY <1>3, <3>1, EscapeIs
  <2>2. b[m + 1] # "%" /\ b[m + 2] # "%"
    BY <2>1, HexIs
  <2>3. CASE d = 1
    <3>1. InBody(h.p, "E1", cl) /\ Hex(t)
      BY <1>6, <1>7, <2>1, <2>3 DEF InText, Reading
    <3>2. /\ cl = 1 => ~res.ok /\ res.p.ready
          /\ cl # 1 => Advances(h.p, res, <<>>) /\ InBody(g.p, "E2", cl - 1)
      BY <1>8, <3>1, BodyEscape
    <3>3. CASE cl = 1
      <4>1. m + 1 = n /\ n > 1 /\ n - 1 = m
        BY <1>6, <1>13, <2>3, <3>3
      <4> QED BY <1>11, <2>1, <3>2, <3>3, <4>1
    <3>4. CASE cl # 1
      <4>1. GoesOn(h, res, g) /\ Holds(g, path, transport, list, NewLine)
        BY <1>8, <1>9, <3>2, <3>4, AdvancesGoesOn
      <4>2. BodyAt(r, g, m, 2, rest)
        <5>1. InText(2) = "E2"
          BY DEF InText, Reading
        <5>2. m + 2 = m + d + 1 /\ m + d # n
          BY <1>6, <1>13, <2>3, <3>4
        <5> QED BY <1>6, <1>12, <2>1, <3>2, <3>4, <4>1, <5>1, <5>2
      <4> QED BY <4>1, <4>2
    <3> QED BY <3>3, <3>4
  <2>4. CASE d = 2
    <3>1. InBody(h.p, "E2", cl) /\ Hex(t)
      BY <1>6, <1>7, <2>1, <2>4 DEF InText, Reading
    <3>2. /\ cl = 1 => Completes(res, Call("body_char", Decoded))
          /\ cl # 1 => Advances(h.p, res, Call("body_char", Decoded)) /\ InBody(g.p, "BT", cl - 1)
      BY <1>8, <3>1, BodyEscape
    <3>3. CASE cl = 1
      <4>1. m + 2 = n /\ n > 1 /\ n - 1 = m + 1
        BY <1>6, <1>13, <2>4, <3>3
      <4>2. PICK calls : calls = Call("body_char", Decoded) /\ calls[1].what = "body_char"
        BY CallFacts
      <4>3. Finishes(r, res, g, rest)
        BY <1>10, <2>2, <2>4, <3>2, <3>3, <4>1, <4>2
      <4> QED BY <4>3
    <3>4. CASE cl # 1
      <4>1. GoesOn(h, res, g) /\ Holds(g, path, transport, list, NewLine)
        <5>1. PICK what, value : /\ what = "body_char" /\ value = Decoded
                                 /\ Advances(h.p, res, Call(what, value))
          BY <3>2, <3>4
        <5>2. Holds(h, path, transport, list, NewLine)
          BY <1>9
        <5>3. what \in {"qs_char", "body_char", "header_key", "cl_val"}
          BY <5>1
        <5> QED BY <1>8, <5>1, <5>2, <5>3, CallGoesOn
      <4>2. BodyAt(r, g, m + 3, 0, rest)
        <5>1. InText(0) = "BT"
          BY DEF InText
        <5>2. (m + 3) + 0 = m + d + 1 /\ (m + 3) - 1 = m + 2 /\ m + d # n /\ m + 3 \in Nat \ {0}
          BY <1>6, <1>13, <2>4, <3>4
        <5> QED BY <1>12, <2>2, <3>2, <3>4, <4>1, <5>1, <5>2
      <4> QED BY <4>1, <4>2
    <3> QED BY <3>3, <3>4
  <2> QED BY <1>6, <1>15, <2>3, <2>4
<1> QED BY <1>14, <1>15

\* Within request r, of which rest is still to be read.
At(r, h, rest) ==
  /\ h.p.post <=> r.method = "POST"
  /\ \/ \E m, d : PathAt(r, h, m, d, rest)
     \/ \E m, d : QueryAt(r, h, m, d, rest)
     \/ VersionAt(r, h, rest)
     \/ \E n : HeaderAt(r, h, n, rest)
     \/ \E k : LengthAt(r, h, k, rest)
     \/ EndAt(r, h, rest)
     \/ \E m, d : BodyAt(r, h, m, d, rest)

LEMMA InWaits ==
  ASSUME NEW p, NEW state, NEW cl
  PROVE  /\ InPath(p, state) => ~p.ready /\ p.state = state
         /\ InQuery(p, state) => ~p.ready /\ p.state = state
         /\ InHead(p, state, cl) => ~p.ready /\ p.state = state
         /\ InBody(p, state, cl) => ~p.ready /\ p.state = state
BY DEF InPath, InQuery, InHead, InBody

LEMMA ReadingIs == \A d : Reading(d) # "GO" /\ InText(d) # "GO"
BY DEF Reading, InText

\* The parser waits for more.
LEMMA AtWaits ==
  ASSUME NEW r, NEW h, NEW rest, At(r, h, rest)
  PROVE  ~h.p.ready /\ h.p.state # "GO"
<1>1. CASE \E m, d : PathAt(r, h, m, d, rest)
  <2>1. PICK m, d : PathAt(r, h, m, d, rest)
    BY <1>1
  <2>2. PICK state : state = Reading(d) /\ state # "GO" /\ InPath(h.p, state)
    BY <2>1, ReadingIs DEF PathAt
  <2> QED BY <2>2, InWaits
<1>2. CASE \E m, d : QueryAt(r, h, m, d, rest)
  <2>1. PICK m, d : QueryAt(r, h, m, d, rest)
    BY <1>2
  <2>2. PICK state : state = Reading(d) /\ state # "GO" /\ InQuery(h.p, state)
    BY <2>1, ReadingIs DEF QueryAt
  <2> QED BY <2>2, InWaits
<1>3. CASE VersionAt(r, h, rest)
  BY <1>3, InWaits DEF VersionAt
<1>4. CASE \E n : HeaderAt(r, h, n, rest)
  BY <1>4, InWaits DEF HeaderAt
<1>5. CASE \E k : LengthAt(r, h, k, rest)
  BY <1>5, InWaits DEF LengthAt
<1>6. CASE EndAt(r, h, rest)
  BY <1>6, InWaits DEF EndAt
<1>7. CASE \E m, d : BodyAt(r, h, m, d, rest)
  BY <1>7, InWaits, ReadingIs DEF BodyAt
<1> QED BY <1>1, <1>2, <1>3, <1>4, <1>5, <1>6, <1>7 DEF At

\* Something follows what is joined.
LEMMA JoinSome ==
  ASSUME NEW S, NEW s \in Seq(S), NEW t \in Seq(S), t # <<>>
  PROVE  s \o t \in Seq(S) /\ s \o t # <<>>
BY ConcatProperties, ConcatEqualIffEmpty

\* There is more to be read.
LEMMA AtMore ==
  ASSUME NEW r, WellFormed(r), NEW h, NEW rest, At(r, h, rest)
  PROVE  rest \in Seq(Bytes) /\ rest # <<>>
<1>1. r \in Request
  BY DEF WellFormed
<1>2. "nl" \in Bytes /\ ":" \in Bytes /\ " " \in Bytes /\ "version" \in Bytes
  BY BytesAre DEF Signs
<1>3. Ending(r) \in Seq(Bytes) /\ Ending(r) # <<>>
  BY <1>1, <1>2, RequestBytes, BeforeTyped, BeforeSome DEF Ending
<1>4. LengthOn(r) \in Seq(Bytes) /\ LengthOn(r) # <<>>
  <2>1. LengthLine(r) \in Seq(Bytes)
    BY <1>1, EndingIs
  <2> QED BY <1>3, <2>1, JoinSome DEF LengthOn
<1>5. \A n \in Nat \ {0} : LinesOn(r, n) \in Seq(Bytes) /\ LinesOn(r, n) # <<>>
  <2>1. ASSUME NEW n \in Nat \ {0} PROVE LinesOn(r, n) \in Seq(Bytes) /\ LinesOn(r, n) # <<>>
    <3>1. FlattenSeq(From(Lines(r.headers), n)) \in Seq(Bytes)
      BY <1>1, LinesAre, FlattenFrom
    <3> QED BY <1>4, <3>1, JoinSome DEF LinesOn
  <2> QED BY <2>1
<1>6. VersionOn(r) \in Seq(Bytes) /\ VersionOn(r) # <<>>
  <2>1. PICK s \in Seq(Bytes) : s = Before("version", Before("nl", LinesOn(r, 1)))
    <3>1. 1 \in Nat \ {0}
      OBVIOUS
    <3> QED BY <1>2, <1>5, <3>1, BeforeTyped
  <2>2. VersionOn(r) = Before(" ", s)
    BY <1>1, <2>1, VersionIs
  <2> QED BY <1>2, <2>2, BeforeTyped, BeforeSome
<1>7. QueryOn(r) \in Seq(Bytes) /\ QueryOn(r) # <<>>
  <2>1. QueryPart(r) \in Seq(Bytes)
    BY <1>1, QueryIs
  <2> QED BY <1>6, <2>1, JoinSome DEF QueryOn
<1>8. ASSUME NEW s \in Seq(Bytes), NEW n \in Nat \ {0}, NEW u \in Seq(Bytes), u # <<>>
      PROVE  From(s, n) \o u \in Seq(Bytes) /\ From(s, n) \o u # <<>>
  <2>1. From(s, n) \in Seq(Bytes)
    BY FromTyped
  <2> QED BY <1>8, <2>1, JoinSome
<1>9. r.path \in Seq(Bytes) /\ r.query \in Seq(Bytes) /\ r.length \in Seq(Bytes) /\ r.body \in Seq(Bytes)
      /\ Len(r.path) \in Nat /\ Len(r.query) \in Nat /\ Len(r.length) \in Nat /\ Len(r.headers) \in Nat
  BY <1>1, RequestBytes, LenProperties
<1>10. CASE \E m, d : PathAt(r, h, m, d, rest)
  <2>1. PICK m, d : PathAt(r, h, m, d, rest)
    BY <1>10
  <2>2. m + d \in Nat \ {0} /\ rest = From(r.path, m + d) \o QueryOn(r)
    BY <1>9, <2>1 DEF PathAt
  <2>3. PICK n \in Nat \ {0}, s \in Seq(Bytes), u \in Seq(Bytes) :
          n = m + d /\ s = r.path /\ u = QueryOn(r) /\ u # <<>>
    BY <1>7, <1>9, <2>2
  <2> QED BY <1>8, <2>2, <2>3
<1>11. CASE \E m, d : QueryAt(r, h, m, d, rest)
  <2>1. PICK m, d : QueryAt(r, h, m, d, rest)
    BY <1>11
  <2>2. m + d \in Nat \ {0} /\ rest = From(r.query, m + d) \o VersionOn(r)
    BY <1>9, <2>1 DEF QueryAt
  <2>3. PICK n \in Nat \ {0}, s \in Seq(Bytes), u \in Seq(Bytes) :
          n = m + d /\ s = r.query /\ u = VersionOn(r) /\ u # <<>>
    BY <1>6, <1>9, <2>2
  <2> QED BY <1>8, <2>2, <2>3
<1>12. CASE VersionAt(r, h, rest)
  <2>1. PICK l \in Seq(Bytes) : l = LinesOn(r, 1)
    <3>1. 1 \in Nat \ {0}
      OBVIOUS
    <3> QED BY <1>5, <3>1
  <2>2. rest = Before("version", Before("nl", l)) \/ rest = Before("nl", l)
    BY <1>12, <2>1 DEF VersionAt
  <2>3. Before("nl", l) \in Seq(Bytes) /\ Before("nl", l) # <<>>
    BY <1>2, BeforeTyped, BeforeSome
  <2>4. PICK k \in Seq(Bytes) : k = Before("nl", l)
    BY <2>3
  <2>5. Before("version", k) \in Seq(Bytes) /\ Before("version", k) # <<>>
    BY <1>2, BeforeTyped, BeforeSome
  <2> QED BY <2>2, <2>3, <2>4, <2>5
<1>13. CASE \E n : HeaderAt(r, h, n, rest)
  <2>1. PICK n : HeaderAt(r, h, n, rest)
    BY <1>13
  <2>2. n \in Nat \ {0} /\ n + 1 \in Nat \ {0} /\ n \in 1..Len(r.headers) + 1
    BY <1>9, <2>1 DEF HeaderAt
  <2>3. CASE rest = LinesOn(r, n)
    BY <1>5, <2>2, <2>3
  <2>4. CASE n <= Len(r.headers)
    <3>1. PICK x \in Bytes : x = r.headers[n][2]
      BY <1>1, <1>9, <2>2, <2>4, RequestBytes
    <3>2. PICK s \in Seq(Bytes) : s = Before("nl", LinesOn(r, n + 1)) /\ s # <<>>
      <4>1. PICK l \in Seq(Bytes) : l = LinesOn(r, n + 1)
        BY <1>5, <2>2
      <4>2. Before("nl", l) \in Seq(Bytes) /\ Before("nl", l) # <<>>
        BY <1>2, BeforeTyped, BeforeSome
      <4> QED BY <4>1, <4>2
    <3>3. PICK v \in Seq(Bytes) : v = ValueOn(r, n) /\ v # <<>>
      <4>1. Before(x, s) \in Seq(Bytes) /\ Before(x, s) # <<>>
        BY BeforeTyped, BeforeSome
      <4> QED BY <3>1, <3>2, <4>1 DEF ValueOn
    <3>4. Before(":", v) \in Seq(Bytes) /\ Before(":", v) # <<>>
      BY <1>2, BeforeTyped, BeforeSome
    <3>5. rest = LinesOn(r, n) \/ rest = Before(":", v) \/ rest = v \/ rest = s
      BY <2>1, <3>2, <3>3 DEF HeaderAt
    <3> QED BY <2>3, <3>2, <3>3, <3>4, <3>5
  <2> QED BY <2>1, <2>3, <2>4 DEF HeaderAt
<1>14. CASE \E k : LengthAt(r, h, k, rest)
  <2>1. PICK k : LengthAt(r, h, k, rest)
    BY <1>14
  <2>2. k \in Nat \ {0} /\ rest = From(r.length, k) \o Before("nl", Ending(r))
    BY <1>9, <2>1 DEF LengthAt
  <2>4. Before("nl", Ending(r)) \in Seq(Bytes) /\ Before("nl", Ending(r)) # <<>>
    BY <1>2, <1>3, BeforeTyped, BeforeSome
  <2>3. PICK n \in Nat \ {0}, s \in Seq(Bytes), u \in Seq(Bytes) :
          n = k /\ s = r.length /\ u = Before("nl", Ending(r)) /\ u # <<>>
    BY <1>9, <2>2, <2>4
  <2> QED BY <1>8, <2>2, <2>3
<1>15. CASE EndAt(r, h, rest)
  BY <1>3, <1>15 DEF EndAt
<1>16. CASE \E m, d : BodyAt(r, h, m, d, rest)
  <2>1. PICK m, d : BodyAt(r, h, m, d, rest)
    BY <1>16
  <2>2. NumberOf(r.length) <= Len(r.body) /\ NumberOf(r.length) \in Nat /\ Len(r.body) \in Nat
    BY <1>1, <2>1, BodyIs, LengthIs DEF BodyAt
  <2>3. m + d \in Nat \ {0} /\ m + d <= Len(r.body) /\ rest = From(r.body, m + d)
    BY <2>1, <2>2 DEF BodyAt
  <2>4. PICK n \in Nat \ {0}, s \in Seq(Bytes) : n = m + d /\ s = r.body
    BY <1>9, <2>3
  <2>5. ~(n > Len(s))
    BY <2>2, <2>3, <2>4
  <2>6. From(s, n) \in Seq(Bytes) /\ From(s, n) # <<>>
    BY <2>5, FromTyped, FromEmpty
  <2> QED BY <2>3, <2>4, <2>6
<1> QED BY <1>10, <1>11, <1>12, <1>13, <1>14, <1>15, <1>16 DEF At

\* A byte of a request.
LEMMA AtStep ==
  ASSUME NEW r, WellFormed(r), NEW h, NEW j, NEW t \in Bytes, NEW res, NEW g,
         Reads(h, j, t, res, g), NEW rest \in Seq(Bytes), At(r, h, Before(t, rest))
  PROVE  \/ GoesOn(h, res, g) /\ At(r, g, rest)
         \/ Finishes(r, res, g, rest)
         \/ ~res.ok /\ (res.p.ready \/ NumberOf(r.length) > MaxCl) /\ ~IsComplete(r)
<1>1. r \in Request /\ (h.p.post <=> r.method = "POST")
  BY DEF WellFormed, At
<1>2. GoesOn(h, res, g) => (g.p.post <=> r.method = "POST")
  BY <1>1 DEF GoesOn
<1>u. PICK u : u = Before(t, rest)
  OBVIOUS
<1>3. CASE \E m, d : PathAt(r, h, m, d, Before(t, rest))
  <2>1. PICK m, d : PathAt(r, h, m, d, Before(t, rest))
    BY <1>3
  <2>2. /\ GoesOn(h, res, g)
        /\ \/ \E k, e : PathAt(r, g, k, e, rest)
           \/ \E k, e : QueryAt(r, g, k, e, rest)
           \/ VersionAt(r, g, rest)
    BY <2>1, PathStep
  <2> QED BY <1>2, <2>2 DEF At
<1>4. CASE \E m, d : QueryAt(r, h, m, d, Before(t, rest))
  <2>1. PICK m, d : QueryAt(r, h, m, d, Before(t, rest))
    BY <1>4
  <2>2. /\ GoesOn(h, res, g)
        /\ (\E k, e : QueryAt(r, g, k, e, rest)) \/ VersionAt(r, g, rest)
    BY <2>1, QueryStep
  <2> QED BY <1>2, <2>2 DEF At
<1>5. CASE VersionAt(r, h, Before(t, rest))
  <2>2. GoesOn(h, res, g) /\ (VersionAt(r, g, rest) \/ HeaderAt(r, g, 1, rest))
    BY <1>1, <1>5, VersionStep
  <2> QED BY <1>2, <2>2 DEF At
<1>6. CASE EndAt(r, h, Before(t, rest))
  <2>2. (GoesOn(h, res, g) /\ BodyAt(r, g, 1, 0, rest)) \/ Finishes(r, res, g, rest)
    BY <1>1, <1>6, EndStep
  <2> QED BY <1>2, <2>2 DEF At
<1>7. CASE \E n : HeaderAt(r, h, n, Before(t, rest))
  <2>1. PICK n : HeaderAt(r, h, n, Before(t, rest))
    BY <1>7
  <2>n. n \in Nat /\ Len(r.headers) \in Nat
    BY <1>1, <2>1, RequestBytes DEF HeaderAt
  <2>2. CASE n <= Len(r.headers)
    <3>1. GoesOn(h, res, g) /\ \E k : HeaderAt(r, g, k, rest)
      BY <1>1, <2>1, <2>2, HeaderStep
    <3> QED BY <1>2, <3>1 DEF At
  <2>3. CASE n > Len(r.headers) /\ r.length # <<>>
    <3>1. GoesOn(h, res, g) /\ LengthAt(r, g, 1, rest)
      BY <1>1, <2>1, <2>3, LengthBegins
    <3> QED BY <1>2, <3>1 DEF At
  <2>4. CASE n > Len(r.headers) /\ r.length = <<>>
    <3>1. EndAt(r, h, u)
      BY <1>1, <1>u, <2>1, <2>4, AfterHeaders
    <3> QED BY <1>6, <1>u, <3>1
  <2> QED BY <2>n, <2>2, <2>3, <2>4
<1>8. CASE \E k : LengthAt(r, h, k, Before(t, rest))
  <2>1. PICK k : LengthAt(r, h, k, Before(t, rest))
    BY <1>8
  <2>2. \/ GoesOn(h, res, g) /\ (LengthAt(r, g, k + 1, rest) \/ EndAt(r, g, rest))
        \/ ~res.ok /\ NumberOf(r.length) > MaxCl
    BY <1>1, <2>1, LengthStep
  <2>3. NumberOf(r.length) > MaxCl => ~IsComplete(r)
    <3>1. NumberOf(r.length) \in Nat
      BY <1>1, LengthIs
    <3> QED BY <3>1, MaxClIsNatural DEF IsComplete
  <2> QED BY <1>2, <2>2, <2>3 DEF At
<1>9. CASE \E m, d : BodyAt(r, h, m, d, Before(t, rest))
  <2>1. PICK m, d : BodyAt(r, h, m, d, Before(t, rest))
    BY <1>9
  <2>2. \/ GoesOn(h, res, g) /\ \E k, e : BodyAt(r, g, k, e, rest)
        \/ Finishes(r, res, g, rest)
        \/ ~res.ok /\ res.p.ready /\ ~IsComplete(r)
    BY <2>1, BodyStep
  <2> QED BY <1>2, <2>2 DEF At
<1> QED BY <1>3, <1>4, <1>5, <1>6, <1>7, <1>8, <1>9 DEF At

\* Its first byte.
LEMMA AtFirst ==
  ASSUME NEW r, WellFormed(r), NEW h, h.p = NewHttpParser, NEW j, NEW t \in Bytes, NEW res, NEW g,
         Reads(h, j, t, res, g), NEW rest \in Seq(Bytes), Before(t, rest) = Encoded(r)
  PROVE  res.ok /\ ~res.ready /\ At(r, g, rest)
<1>1. r \in Request
  BY DEF WellFormed
<1>2. PICK x \in Bytes, s \in Seq(Bytes), p \in Seq(Bytes) :
        x = r.method /\ s = r.path \o QueryOn(r) /\ p = r.path /\ x \in Methods /\ Len(p) \in Nat
  BY <1>1, RequestBytes, EncodedIs, LenProperties DEF Request
<1>3. t = x /\ rest = s
  <2>1. Before(t, rest) = Before(x, s)
    BY <1>1, <1>2, EncodedIs
  <2> QED BY <2>1, BeforeEqual
<1>4. /\ HttpLike(h) /\ res = parse_http_char(NewHttpParser, t) /\ g = After(h, j, res).h
      /\ g.p = res.p
  BY DEF Reads
<1>5. /\ res.ok /\ ~res.ready /\ res.calls = Call("method", t)
      /\ InPath(res.p, "PT") /\ (res.p.post <=> t = "POST")
  BY <1>2, <1>3, <1>4, FirstByte
<1>6. PICK transport : Holds(g, <<>>, transport, ape_array_new, NewLine)
  <2>1. PICK path, transport, list, line : Holds(h, path, transport, list, line)
    BY DEF Holds
  <2>2. PICK e : e = res.calls[1] /\ e.what = "method" /\ res.calls # <<>>
    BY <1>5, CallFacts
  <2>3. Hears(e, path, transport, list, line, g)
    BY <1>4, <1>5, <2>1, <2>2, AfterHears
  <2> QED BY <2>2, <2>3 DEF Hears
<1>7. PathAt(r, g, 1, 0, rest)
  <2>1. g.path.text = <<>> /\ g.transport = transport /\ <<>> \in Seq(Bytes)
    BY <1>6 DEF Holds
  <2>2. Reading(0) = "PT" /\ 1 + 0 = 1 /\ 1 \in 1..Len(p) + 1
    BY <1>2 DEF Reading
  <2>3. <<>> \o PathFrom(p)[1] = PathOf(p)
    <3>1. 1 \in 1..Len(p) + 3
      BY <1>2
    <3>2. PathFrom(p)[1] \in Seq(Bytes)
      BY <3>1, PathTyped
    <3> QED BY <3>2, ConcatEmptySeq DEF PathOf
  <2>4. From(p, 1) = p
    BY FromFirst
  <2> QED BY <1>2, <1>3, <1>4, <1>5, <1>6, <2>1, <2>2, <2>3, <2>4 DEF PathAt
<1>8. g.p.post <=> r.method = "POST"
  BY <1>2, <1>3, <1>4, <1>5
<1> QED BY <1>5, <1>7, <1>8 DEF At

-----------------------------------------------------------------------------
(* Requests that follow one another. *)

Encodings(s) == [n \in DOMAIN s |-> Encoded(s[n])]

\* What is to be read from request k on.
SentFrom(s, k) == FlattenSeq(From(Encodings(s), k))

LEMMA SentRequests ==
  ASSUME NEW s \in Seq(Requests)
  PROVE  /\ \A k \in 1..Len(s) : WellFormed(s[k])
         /\ Encodings(s) \in Seq(Seq(Bytes)) /\ Len(Encodings(s)) = Len(s) /\ Len(s) \in Nat
         /\ \A k \in 1..Len(s) : Encodings(s)[k] = Encoded(s[k])
<1>1. Len(s) \in Nat /\ DOMAIN s = 1..Len(s) /\ \A k \in 1..Len(s) : s[k] \in Requests
  BY LenProperties, ElementOfSeq
<1>2. \A k \in 1..Len(s) : WellFormed(s[k])
  BY <1>1, RequestsAreWellFormed DEF WellFormed
<1>3. \A k \in 1..Len(s) : Encoded(s[k]) \in Seq(Bytes)
  BY <1>2, EncodedIs DEF WellFormed
<1>4. Encodings(s) = [k \in 1..Len(s) |-> Encoded(s[k])]
  BY <1>1 DEF Encodings
<1>5. Encodings(s) \in Seq(Seq(Bytes)) /\ Len(Encodings(s)) = Len(s)
  BY <1>1, <1>3, <1>4
<1> QED BY <1>1, <1>2, <1>4, <1>5

LEMMA SentFromIs ==
  ASSUME NEW s \in Seq(Requests), NEW k \in Nat \ {0}
  PROVE  /\ SentFrom(s, k) \in Seq(Bytes)
         /\ k <= Len(s) => /\ SentFrom(s, k) = Encoded(s[k]) \o SentFrom(s, k + 1)
                           /\ SentFrom(s, k) # <<>>
         /\ k > Len(s) => SentFrom(s, k) = <<>>
<1>1. PICK e \in Seq(Seq(Bytes)) : e = Encodings(s) /\ Len(e) = Len(s)
  BY SentRequests
<1>2. /\ FlattenSeq(From(e, k)) \in Seq(Bytes)
      /\ k <= Len(e) => /\ FlattenSeq(From(e, k)) = e[k] \o FlattenSeq(From(e, k + 1))
                        /\ e[k] \in Seq(Bytes)
      /\ k > Len(e) => FlattenSeq(From(e, k)) = <<>>
  BY FlattenFrom
<1>3. ASSUME k <= Len(s)
      PROVE  SentFrom(s, k) = Encoded(s[k]) \o SentFrom(s, k + 1) /\ SentFrom(s, k) # <<>>
  <2>1. k \in 1..Len(s) /\ e[k] = Encoded(s[k]) /\ WellFormed(s[k])
    BY <1>1, <1>3, SentRequests
  <2>2. SentFrom(s, k) = Encoded(s[k]) \o SentFrom(s, k + 1)
    BY <1>1, <1>2, <1>3, <2>1 DEF SentFrom
  <2>3. Encoded(s[k]) # <<>> /\ Encoded(s[k]) \in Seq(Bytes)
    BY <2>1, EncodedSome, EncodedIs DEF WellFormed
  <2>4. SentFrom(s, k + 1) \in Seq(Bytes)
    <3>1. k + 1 \in Nat \ {0}
      OBVIOUS
    <3>2. FlattenSeq(From(e, k + 1)) \in Seq(Bytes)
      BY <3>1, FlattenFrom
    <3> QED BY <1>1, <3>2 DEF SentFrom
  <2> QED BY <2>2, <2>3, <2>4, ConcatEqualIffEmpty
<1> QED BY <1>1, <1>2, <1>3 DEF SentFrom

\* The parser is where the bytes that were not read say, k requests having been
\* given to the scripts.
Follows(u, h, s, k) ==
  \/ h.p = NewHttpParser /\ u = SentFrom(s, k + 1)
  \/ /\ k < Len(s)
     /\ \E rest : At(s[k + 1], h, rest) /\ u = rest \o SentFrom(s, k + 2)

\* What a byte of a sequence that is not empty leaves of it.
Comes(s, u, t, v) ==
  /\ s \in Seq(Bytes) /\ s # <<>> /\ u \in Seq(Bytes) /\ t \in Bytes
  /\ v \in Seq(Bytes) /\ Before(t, v) = s \o u
Leaves(s, u, t, v) == \E rest \in Seq(Bytes) : s = Before(t, rest) /\ v = rest \o u

LEMMA SplitFirst ==
  ASSUME NEW s, NEW u, NEW t, NEW v, Comes(s, u, t, v)
  PROVE  Leaves(s, u, t, v)
<1>0. s \in Seq(Bytes) /\ s # <<>>
  BY DEF Comes
<1>1. Len(s) \in Nat /\ Len(s) # 0
  BY <1>0, EmptySeq
<1>2. From(s, 1) = s /\ 1 \in Nat \ {0} /\ 1 <= Len(s) /\ 1 + 1 = 2 /\ 2 \in Nat \ {0}
  BY <1>0, <1>1, FromFirst
<1>4. t = s[1] /\ v = From(s, 2) \o u
  <2>1. Upcoming(s, 1, u, t, v)
    BY <1>2 DEF Upcoming, Comes
  <2> QED BY <1>2, <2>1, NextComes
<1>5. From(s, 1) = <<s[1]>> \o From(s, 2)
  BY <1>0, <1>2, FromStep
<1>6. From(s, 2) \in Seq(Bytes)
  BY <1>0, <1>2, FromTyped
<1> QED BY <1>2, <1>4, <1>5, <1>6 DEF Before, Leaves

\* A byte of them.
LEMMA FollowsStep ==
  ASSUME NEW s \in Seq(Requests), NEW k \in 0..Len(s), NEW h, NEW t \in Bytes, NEW v \in Seq(Bytes),
         Follows(Before(t, v), h, s, k), NEW j, NEW res, NEW g, Reads(h, j, t, res, g)
  PROVE  /\ k < Len(s)
         /\ \/ res.ok /\ ~res.ready /\ Follows(v, g, s, k)
            \/ /\ res.ok /\ res.ready /\ Finished(s[k + 1], g) /\ IsComplete(s[k + 1])
               /\ v = SentFrom(s, k + 2)
            \/ /\ ~res.ok /\ ~IsComplete(s[k + 1])
               /\ res.p.ready \/ NumberOf(s[k + 1].length) > MaxCl
<1>1. Len(s) \in Nat /\ k \in Nat /\ k + 1 \in Nat \ {0} /\ (k + 1) + 1 = k + 2 /\ k + 2 \in Nat \ {0}
  BY LenProperties
<1>2. PICK u \in Seq(Bytes) : u = SentFrom(s, k + 2)
  BY <1>1, SentFromIs
<1>3. CASE h.p = NewHttpParser /\ Before(t, v) = SentFrom(s, k + 1)
  <2>1. Before(t, v) # <<>>
    BY BeforeSome
  <2>2. k + 1 <= Len(s) /\ SentFrom(s, k + 1) = Encoded(s[k + 1]) \o u
    <3>1. PICK n \in Nat \ {0} : n = k + 1 /\ SentFrom(s, n) # <<>> /\ n + 1 = k + 2
      BY <1>1, <1>3, <2>1
    <3>2. n <= Len(s)
      BY <1>1, <3>1, SentFromIs
    <3>3. SentFrom(s, n) = Encoded(s[n]) \o SentFrom(s, n + 1)
      BY <3>2, SentFromIs
    <3> QED BY <1>2, <3>1, <3>2, <3>3
  <2>3. k < Len(s) /\ k + 1 \in 1..Len(s)
    BY <1>1, <2>2
  <2>4. PICK r \in Request, e \in Seq(Bytes) : r = s[k + 1] /\ WellFormed(r) /\ e = Encoded(r) /\ e # <<>>
    <3>1. WellFormed(s[k + 1])
      BY <2>3, SentRequests
    <3> QED BY <3>1, EncodedSome, EncodedIs DEF WellFormed
  <2>5. PICK rest \in Seq(Bytes) : e = Before(t, rest) /\ v = rest \o u
    <3>1. Comes(e, u, t, v)
      BY <1>3, <2>2, <2>4 DEF Comes
    <3>2. Leaves(e, u, t, v)
      BY <3>1, SplitFirst
    <3> QED BY <3>2 DEF Leaves
  <2>6. res.ok /\ ~res.ready /\ At(r, g, rest)
    BY <1>3, <2>4, <2>5, AtFirst
  <2> QED BY <1>2, <2>3, <2>4, <2>5, <2>6 DEF Follows
<1>4. CASE k < Len(s) /\ \E rest : At(s[k + 1], h, rest) /\ Before(t, v) = rest \o SentFrom(s, k + 2)
  <2>1. k + 1 \in 1..Len(s)
    BY <1>1, <1>4
  <2>2. PICK r : r = s[k + 1] /\ WellFormed(r)
    BY <2>1, SentRequests
  <2>3. PICK all : At(r, h, all) /\ Before(t, v) = all \o u
    BY <1>2, <1>4, <2>2
  <2>4. all \in Seq(Bytes) /\ all # <<>>
    BY <2>2, <2>3, AtMore
  <2>5. PICK rest \in Seq(Bytes) : all = Before(t, rest) /\ v = rest \o u
    <3>1. Comes(all, u, t, v)
      BY <2>3, <2>4 DEF Comes
    <3>2. Leaves(all, u, t, v)
      BY <3>1, SplitFirst
    <3> QED BY <3>2 DEF Leaves
  <2>6. At(r, h, Before(t, rest))
    BY <2>3, <2>5
  <2>7. \/ GoesOn(h, res, g) /\ At(r, g, rest)
        \/ Finishes(r, res, g, rest)
        \/ ~res.ok /\ (res.p.ready \/ NumberOf(r.length) > MaxCl) /\ ~IsComplete(r)
    BY <2>2, <2>6, AtStep
  <2>8. CASE GoesOn(h, res, g) /\ At(r, g, rest)
    BY <1>2, <1>4, <2>2, <2>5, <2>8 DEF Follows, GoesOn
  <2>9. CASE Finishes(r, res, g, rest)
    <3>1. v = u
      BY <2>5, <2>9, ConcatEmptySeq DEF Finishes
    <3> QED BY <1>2, <1>4, <2>2, <2>9, <3>1 DEF Finishes
  <2>10. CASE ~res.ok /\ (res.p.ready \/ NumberOf(r.length) > MaxCl) /\ ~IsComplete(r)
    BY <1>4, <2>2, <2>10
  <2> QED BY <2>7, <2>8, <2>9, <2>10
<1> QED BY <1>3, <1>4 DEF Follows

\* When nothing is left, all were read.
LEMMA FollowsEnd ==
  ASSUME NEW s \in Seq(Requests), NEW k \in 0..Len(s), NEW h, Follows(<<>>, h, s, k)
  PROVE  k = Len(s)
<1>1. Len(s) \in Nat /\ k \in Nat /\ k + 1 \in Nat \ {0} /\ k + 2 \in Nat \ {0}
  BY LenProperties
<1>2. CASE h.p = NewHttpParser /\ <<>> = SentFrom(s, k + 1)
  <2>1. ~(k + 1 <= Len(s))
    BY <1>1, <1>2, SentFromIs
  <2> QED BY <1>1, <2>1
<1>3. CASE k < Len(s) /\ \E rest : At(s[k + 1], h, rest) /\ <<>> = rest \o SentFrom(s, k + 2)
  <2>1. k + 1 \in 1..Len(s)
    BY <1>1, <1>3
  <2>2. PICK r : r = s[k + 1] /\ WellFormed(r)
    BY <2>1, SentRequests
  <2>3. PICK u \in Seq(Bytes) : u = SentFrom(s, k + 2)
    BY <1>1, SentFromIs
  <2>4. PICK rest : At(r, h, rest) /\ <<>> = rest \o u
    BY <1>3, <2>2, <2>3
  <2>5. rest \in Seq(Bytes) /\ rest # <<>>
    BY <2>2, <2>4, AtMore
  <2> QED BY <2>4, <2>5, ConcatEqualIffEmpty
<1> QED BY <1>2, <1>3 DEF Follows

\* What is left of a sequence that grows.
LEMMA FromAppend ==
  ASSUME NEW S, NEW e \in Seq(S), NEW x \in S, NEW k \in 1..Len(e) + 1, NEW f, f = Append(e, x)
  PROVE  From(f, k) = Append(From(e, k), x)
<1>1. PICK n \in Nat, m \in Nat : n = Len(e) /\ m = n + 1
  BY LenProperties
<1>2. f \in Seq(S) /\ Len(f) = m /\ f[m] = x /\ \A j \in 1..n : f[j] = e[j]
  BY <1>1, AppendProperties
<1> QED BY <1>1, <1>2 DEF From

\* A request more.
LEMMA SentMore ==
  ASSUME NEW s \in Seq(Requests), NEW r \in Requests, NEW q, q = Append(s, r),
         NEW k \in Nat \ {0}, k <= Len(s) + 1
  PROVE  SentFrom(q, k) = SentFrom(s, k) \o Encoded(r)
<1>1. PICK e \in Seq(Seq(Bytes)) : e = Encodings(s) /\ Len(e) = Len(s) /\ Len(s) \in Nat
  BY SentRequests
<1>2. q \in Seq(Requests) /\ Len(q) = Len(s) + 1 /\ q[Len(s) + 1] = r
      /\ \A m \in 1..Len(s) : q[m] = s[m]
  BY AppendProperties
<1>3. PICK x \in Seq(Bytes) : x = Encoded(r)
  BY RequestsAreWellFormed, EncodedIs
<1>4. PICK f \in Seq(Seq(Bytes)) : f = Encodings(q) /\ Len(f) = Len(q)
                                   /\ \A m \in 1..Len(q) : f[m] = Encoded(q[m])
  BY <1>2, SentRequests
<1>5. f = Append(e, x)
  <2>1. \A m \in 1..Len(s) : e[m] = Encoded(s[m])
    BY <1>1, SentRequests
  <2>2. Append(e, x) \in Seq(Seq(Bytes)) /\ Len(Append(e, x)) = Len(s) + 1
        /\ \A m \in 1..Len(s) + 1 : Append(e, x)[m] = IF m <= Len(s) THEN e[m] ELSE x
    BY <1>1
  <2>3. \A m \in 1..Len(s) + 1 : f[m] = Append(e, x)[m]
    <3>1. ASSUME NEW m \in 1..Len(s) + 1 PROVE f[m] = Append(e, x)[m]
      <4>1. CASE m <= Len(s)
        BY <1>1, <1>2, <1>4, <2>1, <2>2, <4>1
      <4>2. CASE m = Len(s) + 1
        <5>1. q[m] = r /\ m \in 1..Len(q) /\ ~(m <= Len(s))
          BY <1>1, <1>2, <4>2
        <5>2. f[m] = Encoded(q[m])
          BY <1>4, <5>1
        <5>3. Append(e, x)[m] = x
          BY <2>2, <5>1
        <5> QED BY <1>3, <5>1, <5>2, <5>3
      <4> QED BY <1>1, <4>1, <4>2
    <3> QED BY <3>1
  <2> QED BY <1>2, <1>4, <2>2, <2>3
<1>6. From(f, k) = Append(From(e, k), x)
  <2>1. k <= Len(e) + 1 /\ Len(e) \in Nat /\ Len(f) = Len(e) + 1
    BY <1>1, <1>2, <1>4
  <2>2. f = Append(e, x) /\ k \in 1..Len(e) + 1
    BY <1>5, <2>1
  <2> QED BY <2>2, FromAppend
<1>7. From(e, k) \in Seq(Seq(Bytes))
  BY FromTyped
<1>8. PICK w \in Seq(Seq(Bytes)) : w = From(e, k)
  BY <1>7
<1>9. FlattenSeq(Append(w, x)) = FlattenSeq(w) \o x
  BY FlattenAppend
<1> QED BY <1>1, <1>3, <1>4, <1>6, <1>8, <1>9 DEF SentFrom

LEMMA FollowsMore ==
  ASSUME NEW s \in Seq(Requests), NEW k \in 0..Len(s), NEW h, NEW u \in Seq(Bytes), Follows(u, h, s, k),
         NEW r \in Requests, NEW q, q = Append(s, r)
  PROVE  Follows(u \o Encoded(r), h, q, k)
<1>1. Len(s) \in Nat /\ k \in Nat /\ k + 1 \in Nat \ {0} /\ k + 2 \in Nat \ {0} /\ k + 1 <= Len(s) + 1
  BY LenProperties
<1>2. PICK x \in Seq(Bytes) : x = Encoded(r)
  BY RequestsAreWellFormed, EncodedIs
<1>3. CASE h.p = NewHttpParser /\ u = SentFrom(s, k + 1)
  <2>1. SentFrom(q, k + 1) = SentFrom(s, k + 1) \o Encoded(r)
    BY <1>1, SentMore
  <2> QED BY <1>3, <2>1 DEF Follows
<1>4. CASE k < Len(s) /\ \E rest : At(s[k + 1], h, rest) /\ u = rest \o SentFrom(s, k + 2)
  <2>1. k + 1 \in 1..Len(s) /\ k + 2 <= Len(s) + 1
    BY <1>1, <1>4
  <2>2. Len(q) = Len(s) + 1 /\ q[k + 1] = s[k + 1]
    BY <2>1, AppendProperties
  <2>3. SentFrom(q, k + 2) = SentFrom(s, k + 2) \o Encoded(r)
    BY <1>1, <2>1, SentMore
  <2>4. PICK v \in Seq(Bytes) : v = SentFrom(s, k + 2)
    BY <1>1, SentFromIs
  <2>5. PICK rest : At(s[k + 1], h, rest) /\ u = rest \o v
    BY <1>4, <2>4
  <2>6. WellFormed(s[k + 1])
    BY <2>1, SentRequests
  <2>7. rest \in Seq(Bytes)
    BY <2>5, <2>6, AtMore
  <2>8. (rest \o v) \o x = rest \o (v \o x)
    <3>1. Associative(rest, v, x)
      BY <2>7, Associates
    <3> QED BY <3>1 DEF Associative
  <2>9. k < Len(q)
    BY <1>1, <1>4, <2>2
  <2>10. u \o x = rest \o SentFrom(q, k + 2)
    BY <1>2, <2>3, <2>4, <2>5, <2>8
  <2> QED BY <1>2, <2>2, <2>5, <2>9, <2>10 DEF Follows
<1> QED BY <1>3, <1>4 DEF Follows

-----------------------------------------------------------------------------
(* What was sent and not read. *)

Packets == Seq(Bytes) \ {<<>>}

\* data_in, the position in it, and what is in the kernel.
Input(d, n, s) == d \in Seq(Bytes) /\ n \in 1..Len(d) + 1 /\ s \in Seq(Packets)
Unread(d, n, s) == From(d, n) \o FlattenSeq(s)

LEMMA PacketsAre ==
  ASSUME NEW s \in Seq(Packets)
  PROVE  s \in Seq(Seq(Bytes)) /\ FlattenSeq(s) \in Seq(Bytes) /\ Len(s) \in Nat
<1>1. s \in Seq(Seq(Bytes)) /\ Len(s) \in Nat
  BY LenProperties, ElementOfSeq DEF Packets
<1> QED BY <1>1, FlattenTyped

\* ape_server_on_read goes from byte to byte, and then to what is in the kernel.
LEMMA UnreadStep ==
  ASSUME NEW d, NEW n, NEW s, Input(d, n, s)
  PROVE  /\ Unread(d, n, s) \in Seq(Bytes)
         /\ n <= Len(d) => /\ Unread(d, n, s) = Before(d[n], Unread(d, n + 1, s))
                           /\ d[n] \in Bytes /\ Input(d, n + 1, s)
                           /\ Unread(d, n + 1, s) \in Seq(Bytes)
         /\ n > Len(d) => Unread(d, n, s) = FlattenSeq(s)
<1>1. d \in Seq(Bytes) /\ s \in Seq(Packets) /\ Len(d) \in Nat
  BY LenProperties DEF Input
<1>2. PICK u \in Seq(Bytes) : u = FlattenSeq(s)
  BY <1>1, PacketsAre
<1>3. n \in Nat \ {0} /\ n + 1 \in Nat \ {0}
  BY <1>1 DEF Input
<1>4. /\ From(d, n) \o u \in Seq(Bytes) /\ From(d, n + 1) \o u \in Seq(Bytes)
      /\ n <= Len(d) => From(d, n) \o u = Before(d[n], From(d, n + 1) \o u) /\ d[n] \in Bytes
      /\ n > Len(d) => From(d, n) \o u = u
  <2>1. PICK m \in Nat \ {0} : m = n + 1
    BY <1>3
  <2>2. From(d, m) \o u \in Seq(Bytes)
    BY <1>1, RestStep
  <2> QED BY <1>1, <1>3, <2>1, <2>2, RestStep
<1>5. n <= Len(d) => n + 1 \in 1..Len(d) + 1
  BY <1>1, <1>3
<1> QED BY <1>1, <1>2, <1>4, <1>5 DEF Unread, Input

\* With an empty data_in it is what is in the kernel.
LEMMA UnreadEmpty ==
  ASSUME NEW s \in Seq(Packets)
  PROVE  Input(<<>>, 1, s) /\ Unread(<<>>, 1, s) = FlattenSeq(s)
<1>1. <<>> \in Seq(Bytes) /\ Len(<<>>) = 0 /\ 1 \in 1..0 + 1 /\ 1 > 0
  OBVIOUS
<1>2. Input(<<>>, 1, s)
  BY <1>1 DEF Input
<1> QED BY <1>1, <1>2, UnreadStep

\* Bytes in packets of their own.
Singles(x) == [k \in DOMAIN x |-> One(x[k])]

LEMMA SinglesAre ==
  ASSUME NEW x \in Seq(Bytes), NEW w, w = Singles(x)
  PROVE  w \in Seq(Packets) /\ FlattenSeq(w) = x
<1>1. Len(x) \in Nat /\ DOMAIN x = 1..Len(x) /\ \A k \in 1..Len(x) : x[k] \in Bytes
  BY LenProperties, ElementOfSeq
<1>2. \A b \in Bytes : One(b) \in Packets /\ One(b) \in Seq(Bytes)
  BY OneIsSeq DEF One, Packets
<1>3. w = [k \in 1..Len(x) |-> One(x[k])] /\ \A k \in 1..Len(x) : One(x[k]) \in Packets
  BY <1>1, <1>2 DEF Singles
<1>4. w \in Seq(Packets) /\ Len(w) = Len(x) /\ \A k \in 1..Len(x) : w[k] = One(x[k])
  <2> DEFINE f(k) == One(x[k])
  <2>1. w = [k \in 1..Len(x) |-> f(k)] /\ \A k \in 1..Len(x) : f(k) \in Packets
    BY <1>3
  <2> HIDE DEF f
  <2>2. w \in Seq(Packets) /\ Len(w) = Len(x) /\ \A k \in 1..Len(x) : w[k] = f(k)
    BY <1>1, <2>1
  <2> QED BY <2>2 DEF f
<1>5. PICK v \in Seq(Seq(Bytes)) : v = w
  BY <1>4, PacketsAre
<1>6. PICK L \in Nat : L = Len(x)
  BY <1>1
<1> DEFINE G == {n \in Nat : n <= L => FlattenSeq(From(v, L + 1 - n)) = From(x, L + 1 - n)}
<1>7. 0 \in G
  <2>1. L + 1 - 0 = L + 1 /\ L + 1 \in Nat \ {0} /\ L + 1 > L
    OBVIOUS
  <2>2. PICK m \in Nat \ {0} : m = L + 1 /\ m > Len(v) /\ m > Len(x)
    BY <1>4, <1>5, <1>6, <2>1
  <2>3. FlattenSeq(From(v, m)) = <<>> /\ From(x, m) = <<>>
    BY <2>2, FlattenFrom, FromStep
  <2> QED BY <2>1, <2>2, <2>3
<1>8. ASSUME NEW n \in Nat, n \in G PROVE n + 1 \in G
  <2>1. SUFFICES ASSUME n + 1 <= L
                 PROVE  FlattenSeq(From(v, L + 1 - (n + 1))) = From(x, L + 1 - (n + 1))
    OBVIOUS
  <2>2. PICK m \in 1..L : m = L + 1 - (n + 1) /\ m + 1 = L + 1 - n
    BY <2>1
  <2>3. m \in Nat \ {0} /\ m <= Len(v) /\ m <= Len(x)
    BY <1>4, <1>5, <1>6
  <2>4. FlattenSeq(From(v, m + 1)) = From(x, m + 1)
    BY <1>8, <2>1, <2>2
  <2>5. FlattenSeq(From(v, m)) = v[m] \o FlattenSeq(From(v, m + 1))
    BY <2>3, FlattenFrom
  <2>6. From(x, m) = <<x[m]>> \o From(x, m + 1)
    BY <2>3, FromStep
  <2>7. v[m] = <<x[m]>>
    BY <1>4, <1>5, <1>6 DEF One
  <2> QED BY <2>2, <2>4, <2>5, <2>6, <2>7
<1>9. FlattenSeq(From(v, 1)) = From(x, 1)
  <2>1. L \in G
    <3> HIDE DEF G
    <3> QED BY <1>7, <1>8, SetInduction
  <2>2. L + 1 - L = 1
    OBVIOUS
  <2> QED BY <2>1, <2>2
<1> QED BY <1>4, <1>5, <1>9, FromFirst

\* The bytes x are sent.
Arrives(d, n, s, x, q) == Input(d, n, s) /\ x \in Seq(Bytes) /\ q = s \o Singles(x)

LEMMA UnreadMore ==
  ASSUME NEW d, NEW n, NEW s, NEW x, NEW q, Arrives(d, n, s, x, q)
  PROVE  Input(d, n, q) /\ Unread(d, n, q) = Unread(d, n, s) \o x
<1>0. Input(d, n, s) /\ x \in Seq(Bytes) /\ q = s \o Singles(x)
  BY DEF Arrives
<1>1. d \in Seq(Bytes) /\ n \in Nat \ {0} /\ s \in Seq(Packets)
  BY <1>0, LenProperties DEF Input
<1>2. PICK w \in Seq(Packets) : w = Singles(x) /\ FlattenSeq(w) = x
  BY <1>0, SinglesAre
<1>3. q = s \o w /\ q \in Seq(Packets)
  BY <1>0, <1>1, <1>2, ConcatProperties
<1>4. FlattenSeq(q) = FlattenSeq(s) \o x
  <2>1. s \in Seq(Seq(Bytes)) /\ w \in Seq(Seq(Bytes))
    BY <1>1, <1>2, PacketsAre
  <2> QED BY <1>2, <1>3, <2>1, FlattenConcat
<1>5. PICK u \in Seq(Bytes) : u = FlattenSeq(s)
  BY <1>1, PacketsAre
<1>6. PICK v \in Seq(Bytes) : v = From(d, n)
  BY <1>1, FromTyped
<1>7. (v \o u) \o x = v \o (u \o x)
  <2>1. Associative(v, u, x)
    BY <1>0, Associates
  <2> QED BY <2>1 DEF Associative
<1>8. Input(d, n, q)
  BY <1>0, <1>3 DEF Input
<1> QED BY <1>4, <1>5, <1>6, <1>7, <1>8 DEF Unread

\* A read takes the first packets.
LEMMA UnreadRead ==
  ASSUME NEW s \in Seq(Packets), NEW n \in Nat \ {0}, n <= Len(s),
         NEW q, q = SubSeq(s, n + 1, Len(s)),
         NEW d, d = FlattenSeq(SubSeq(s, 1, Len(s) - Len(q)))
  PROVE  Input(d, 1, q) /\ 1 <= Len(d) /\ Unread(d, 1, q) = FlattenSeq(s)
<1>1. /\ Len(s) \in Nat /\ n \in 1..Len(s) /\ s \in Seq(Seq(Bytes))
      /\ n + 1 \in Nat /\ \A k \in 1..Len(s) : s[k] \in Packets
  BY LenProperties, PacketsAre, ElementOfSeq
<1>2. q \in Seq(Packets) /\ Len(q) = Len(s) - n
  <2>1. PICK m \in Nat : m = n + 1
    BY <1>1
  <2>5. PICK L \in Nat : L = Len(s) /\ n <= L
    BY <1>1
  <2>2. \A k \in m..L : s[k] \in Packets
    BY <1>1, <2>1, <2>5
  <2>3. /\ SubSeq(s, m, L) \in Seq(Packets)
        /\ Len(SubSeq(s, m, L)) = IF m <= L THEN L - m + 1 ELSE 0
    BY <2>1, <2>2, SubSeqProperties
  <2>4. (IF m <= L THEN L - m + 1 ELSE 0) = L - n
    BY <2>1, <2>5
  <2> QED BY <2>1, <2>3, <2>4, <2>5
<1>3. Len(s) - Len(q) = n
  BY <1>1, <1>2
<1> DEFINE p == SubSeq(s, 1, n)
<1>4. p \in Seq(Packets) /\ Len(p) = n /\ p[1] = s[1]
  <2>1. PICK N \in Nat : N = n /\ 1 <= N /\ N <= Len(s)
    BY <1>1
  <2>2. \A k \in 1..N : s[k] \in Packets
    BY <1>1, <2>1
  <2>3. /\ SubSeq(s, 1, N) \in Seq(Packets) /\ Len(SubSeq(s, 1, N)) = N - 1 + 1
        /\ SubSeq(s, 1, N)[1] = s[1 + 1 - 1]
    BY <2>1, <2>2, SubSeqProperties
  <2> QED BY <2>1, <2>3
<1>10. d = FlattenSeq(p)
  BY <1>3
<1>5. s = p \o q
  <2>1. 1 \in 1..Len(s) + 1 /\ n \in 1 - 1..Len(s) /\ Len(s) \in n..Len(s)
    BY <1>1
  <2>2. SubSeq(s, 1, n) \o SubSeq(s, n + 1, Len(s)) = SubSeq(s, 1, Len(s))
    BY <2>1, ConcatAdjacentSubSeq
  <2> QED BY <2>2, SubSeqFull
<1> HIDE DEF p
<1>6. p \in Seq(Seq(Bytes)) /\ q \in Seq(Seq(Bytes)) /\ d = FlattenSeq(p) /\ d \in Seq(Bytes)
  BY <1>2, <1>4, <1>10, PacketsAre
<1>7. FlattenSeq(s) = d \o FlattenSeq(q)
  BY <1>5, <1>6, FlattenConcat
<1>8. d # <<>>
  <2>1. PICK x \in Seq(Bytes) : x = p[1] /\ x # <<>>
    BY <1>1, <1>4, ElementOfSeq DEF Packets
  <2>2. 1 \in Nat \ {0} /\ 1 <= Len(p) /\ 1 + 1 = 2 /\ 2 \in Nat \ {0}
    BY <1>1, <1>4
  <2>3. FlattenSeq(From(p, 1)) = x \o FlattenSeq(From(p, 2))
    BY <1>6, <2>1, <2>2, FlattenFrom
  <2>4. FlattenSeq(From(p, 2)) \in Seq(Bytes)
    BY <1>6, <2>2, FlattenFrom
  <2> QED BY <1>6, <2>1, <2>3, <2>4, FromFirst, ConcatEqualIffEmpty
<1>9. Len(d) \in Nat /\ Len(d) # 0
  BY <1>6, <1>8, EmptySeq, LenProperties
<1>11. 1 \in 1..Len(d) + 1 /\ 1 <= Len(d)
  BY <1>9
<1>12. Unread(d, 1, q) = FlattenSeq(s)
  BY <1>6, <1>7, FromFirst DEF Unread
<1> QED BY <1>2, <1>6, <1>11, <1>12 DEF Input

-----------------------------------------------------------------------------
(* The byte at i. *)

LEMMA ReadsAny ==
  ASSUME NEW h, HttpLike(h), NEW j, NEW t, NEW res, res = parse_http_char(h.p, t),
         NEW g, g = After(h, j, res).h
  PROVE  Reads(h, j, t, res, g)
<1> DEFINE k == WithParser(h, res.p)
           c == [h |-> k, j |-> j]
           e == res.calls[1]
           after == IF res.calls = <<>> THEN c ELSE ape_http_callback(c, e)
           f == after.h
<1>1. ParserOK(h.p)
  BY BuffersAre
<1>2. /\ ParserOK(res.p)
      /\ res.calls # <<>> /\ e.what = "method" => e.value \in Methods
  BY <1>1, ParserKept DEF StepOK, ByteOK, CallsOK
<1>3. HttpLike(k) /\ k.p = res.p
  BY <1>2, HttpFacts
<1>4. After(h, j, res) = IF res.ready THEN [after EXCEPT !.h.line = Freed] ELSE after
  BY DEF After
<1> HIDE DEF k
<1>5. LeftOrAllocated(k, f)
  <2>1. CASE res.calls = <<>>
    <3>1. f = k
      BY <2>1
    <3> HIDE DEF f
    <3> QED BY <3>1, <1>3, LeftAlone
  <2>2. CASE res.calls # <<>>
    <3>1. f = ape_http_callback(c, e).h
      BY <2>2
    <3> HIDE DEF f, e
    <3> QED BY <2>2, <3>1, <1>2, <1>3, CallbackKeeps
  <2> QED BY <2>1, <2>2
<1>6. g = IF res.ready THEN WithLine(f, Freed) ELSE f
  <2>1. CASE res.calls = <<>>
    BY <2>1, <1>4 DEF WithLine
  <2>2. CASE res.calls # <<>>
    <3> \E a : a = ape_http_callback(c, e)
      OBVIOUS
    <3> QED BY <2>2, <1>4 DEF WithLine
  <2> QED BY <2>1, <2>2
<1> HIDE DEF f
<1>7. g.p = res.p
  <2>1. HttpLike(f) /\ f.p = res.p /\ IsMemory(Freed)
    BY <1>3, <1>5, MemoryFacts DEF LeftOrAllocated
  <2>2. WithLine(f, Freed).p = f.p
    BY <2>1, LineFacts
  <2> QED BY <1>6, <2>1, <2>2
<1> QED BY <1>7 DEF Reads

LEMMA ReadsByte ==
  ASSUME ConnectionInv
  PROVE  Reads(http, parser, data[i], Byte, AfterByte.h)
<1>1. HttpLike(http)
  BY DEF ConnectionInv, StateOK
<1> QED BY <1>1, ReadsAny, AfterIs DEF Byte

-----------------------------------------------------------------------------
(* The requests that were served. *)

\* Those of the first requests that are for scripts.
ServedOK ==
  /\ served \in Seq(Seq(Bytes)) /\ Len(served) <= Len(sent)
  /\ \A n \in 1..Len(served) : ForScripts(sent[n]) /\ served[n] = PathOf(sent[n].path)

InputOK ==
  /\ Input(data, i, net)
  /\ pc = "idle" => data = <<>>
  /\ pc = "http" => i <= Len(data)

\* The parser is where the bytes say that are to be read,
Following ==
  /\ pc \in {"idle", "http"} /\ ws = <<>> /\ out = <<>> /\ InputOK
  /\ Follows(Unread(data, i, net), http, sent, Len(served))

\* or stays with a request that is not for the scripts,
Stuck ==
  /\ http.p.ready
  /\ Len(served) < Len(sent) /\ ~ForScripts(sent[Len(served) + 1])

\* until the connection is closed, or a length was refused.
StreamInv ==
  /\ sent \in Seq(Requests)
  /\ Derailed \/ (ServedOK /\ (Following \/ Stuck \/ pc = "closed"))

\* Requests that were sent stay so.
Prolonged(s, q) ==
  /\ q \in Seq(Requests) /\ Len(s) \in Nat /\ Len(q) \in Nat /\ Len(s) <= Len(q)
  /\ \A n \in 1..Len(s) : q[n] = s[n]

LEMMA GrownOne ==
  ASSUME NEW s \in Seq(Requests)
  PROVE  Prolonged(s, s) /\ \A r \in Requests : Prolonged(s, Append(s, r))
BY LenProperties, AppendProperties DEF Prolonged

LEMMA SentGrows ==
  ASSUME [Next]_vars
  PROVE  sent' = sent \/ \E r \in Requests : send_request(r)
BY DEF Next, Step, vars, peer, reading, client, history, send_frame, peer_closes, peer_resets,
       read, disconnect, http_char, http_refused, http_ready_upgrade, http_ready_ignored,
       http_ready_request, ws_start, ws_length, ws_short_length, ws_extended_length, ws_key,
       ws_data, ws_close, ws_ping, ws_frame, InFrame

\* A socket that is down stays down.
LEMMA DownStays ==
  ASSUME [Next]_vars, ~Up
  PROVE  ~Up'
<1>1. ASSUME NEW bytes, NEW h, Write(bytes, h) PROVE ~Up'
  BY <1>1 DEF Write, Up
<1>2. ASSUME NEW does \in {"keeps", "closes", "loses"}, HandlerDoes(does) PROVE ~Up'
  BY <1>2 DEF HandlerDoes, Shut, Up
<1>3. link' = link => ~Up'
  BY DEF Up
<1>4. ASSUME NEW does \in {"keeps", "closes", "loses"}, ws_frame(does) PROVE ~Up'
  <2>1. HandlerDoes(does) \/ Write(BadJson, http)
    BY <1>4 DEF ws_frame
  <2> QED BY <2>1, <1>1, <1>2
<1>5. ASSUME NEW does \in {"keeps", "closes", "loses"}, http_ready_request(does) PROVE ~Up'
  BY <1>5, <1>2 DEF http_ready_request
<1>6. CASE ws_close
  BY <1>6, <1>1 DEF ws_close, Up
<1>7. CASE http_ready_upgrade
  BY <1>7, <1>1 DEF http_ready_upgrade
<1>8. CASE http_refused \/ disconnect \/ peer_closes \/ peer_resets
  BY <1>8 DEF http_refused, disconnect, peer_closes, peer_resets, Shut, Up
<1>9. CASE \/ \E r \in Requests : send_request(r)
           \/ \E f \in Frames : send_frame(f)
           \/ read \/ http_char \/ http_ready_ignored
           \/ ws_start \/ ws_length \/ ws_short_length \/ ws_extended_length
           \/ ws_key \/ ws_data \/ ws_ping \/ UNCHANGED vars
  <2>1. link' = link
    BY <1>9 DEF send_request, send_frame, read, http_char, http_ready_ignored, ws_start,
                ws_length, ws_short_length, ws_extended_length, ws_key, ws_data, ws_ping,
                InFrame, vars
  <2> QED BY <2>1, <1>3
<1> QED BY <1>4, <1>5, <1>6, <1>7, <1>8, <1>9 DEF Next, Step

\* A length that was refused stays so.
LEMMA DerailedStays ==
  ASSUME Derailed, Prolonged(sent, sent'), ~Up', sent \in Seq(Requests)
  PROVE  Derailed'
<1>1. PICK n \in DOMAIN sent : NumberOf(sent[n].length) > MaxCl
  BY DEF Derailed
<1>2. n \in 1..Len(sent) /\ n \in 1..Len(sent') /\ sent'[n] = sent[n]
  BY <1>1, LenProperties DEF Prolonged
<1>3. n \in DOMAIN sent'
  BY <1>2, LenProperties DEF Prolonged
<1> QED BY <1>1, <1>2, <1>3 DEF Derailed

\* A request that was not given to the scripts is the last that was read.
LEMMA ReadyStays ==
  ASSUME ConnectionInv, [Next]_vars, http.p.ready
  PROVE  http'.p.ready /\ served' = served
<1>1. Kept /\ HttpLike(http) /\ (pc = "ws" => ws # <<>>)
  BY NextKeeps DEF ConnectionInv, StateOK, UpgradeInv
<1>2. ~Byte.ok /\ ~Byte.ready /\ Byte.p = http.p
  <2>1. ParserOK(http.p)
    BY <1>1, BuffersAre
  <2>2. Byte = Refuses(http.p)
    BY <2>1, ParserKept DEF Byte
  <2> QED BY <2>2, AcceptsFacts
<1>3. CASE ws # <<>>
  BY <1>1, <1>3 DEF Kept, UpgradeIsFinal
<1>4. CASE pc # "ws"
  <2>1. CASE disconnect
    BY <2>1, <1>1, DestroyedOK DEF disconnect, history
  <2>2. CASE http_refused
    <3>1. http' = WithParser(http, http.p)
      BY <2>2, <1>2 DEF http_refused, WithParser
    <3>2. http'.p = http.p
      BY <3>1, <1>1, BuffersAre, HttpFacts
    <3> QED BY <2>2, <3>2 DEF http_refused, history
  <2>3. CASE \/ \E r \in Requests : send_request(r)
             \/ \E f \in Frames : send_frame(f)
             \/ peer_closes \/ peer_resets \/ read \/ UNCHANGED vars
    BY <2>3 DEF send_request, send_frame, peer_closes, peer_resets, read, vars, client, history
  <2>4. ~http_char /\ ~Ready
    BY <1>2 DEF http_char, Ready
  <2>5. ~http_ready_upgrade /\ ~http_ready_ignored /\ \A does : ~http_ready_request(does)
    BY <2>4 DEF http_ready_upgrade, http_ready_ignored, http_ready_request
  <2>6. ~LastByte /\ \A step : ~On(step)
    BY <1>4 DEF LastByte, On
  <2>7. /\ ~ws_start /\ ~ws_length /\ ~ws_short_length /\ ~ws_extended_length
        /\ ~ws_key /\ ~ws_data /\ ~ws_close /\ ~ws_ping /\ \A does : ~ws_frame(does)
    BY <2>6 DEF ws_start, ws_length, ws_short_length, ws_extended_length, ws_key, ws_data,
                ws_close, ws_ping, ws_frame
  <2> QED BY <2>1, <2>2, <2>3, <2>4, <2>5, <2>7 DEF Next, Step
<1> QED BY <1>1, <1>3, <1>4

\* Nothing happens to a connection that is closed.
LEMMA ClosedStays ==
  ASSUME [Next]_vars, pc = "closed"
  PROVE  pc' = "closed" /\ served' = served
BY DEF Next, Step, vars, peer, reading, client, history, send_request, send_frame, peer_closes,
       peer_resets, read, HasArrived, disconnect, http_char, http_refused, http_ready_upgrade,
       http_ready_ignored, http_ready_request, Ready, ws_start, ws_length, ws_short_length,
       ws_extended_length, ws_key, ws_data, ws_close, ws_ping, ws_frame, LastByte, On

\* More requests change nothing for those that were served.
LEMMA ServedKept ==
  ASSUME ServedOK, Prolonged(sent, sent'), served' = served
  PROVE  /\ ServedOK'
         /\ Len(served) < Len(sent) => /\ Len(served') < Len(sent')
                                       /\ sent'[Len(served') + 1] = sent[Len(served) + 1]
<1>1. Len(served) \in Nat /\ Len(sent) \in Nat /\ Len(sent') \in Nat /\ Len(sent) <= Len(sent')
  BY LenProperties DEF ServedOK, Prolonged
<1>2. \A n \in 1..Len(served) : n \in 1..Len(sent) /\ sent'[n] = sent[n]
  BY <1>1 DEF ServedOK, Prolonged
<1>3. ServedOK'
  BY <1>1, <1>2 DEF ServedOK
<1>4. Len(served) < Len(sent) => sent'[Len(served) + 1] = sent[Len(served) + 1]
  BY <1>1 DEF Prolonged
<1> QED BY <1>1, <1>3, <1>4

\* What the byte at i does while the parser follows.
LEMMA ByteFollows ==
  ASSUME ConnectionInv, sent \in Seq(Requests), ServedOK, Following, pc = "http",
         NEW k, k = Len(served), NEW u, u = Unread(data, i + 1, net), NEW g, g = AfterByte.h
  PROVE  /\ k \in Nat /\ k < Len(sent) /\ Input(data, i, net) /\ i <= Len(data)
         /\ \/ Byte.ok /\ ~Byte.ready /\ Follows(u, g, sent, k)
            \/ /\ Byte.ok /\ Byte.ready /\ Finished(sent[k + 1], g) /\ IsComplete(sent[k + 1])
               /\ u = SentFrom(sent, k + 2)
            \/ /\ ~Byte.ok /\ ~IsComplete(sent[k + 1])
               /\ Byte.p.ready \/ NumberOf(sent[k + 1].length) > MaxCl
<1>1. Input(data, i, net) /\ i <= Len(data) /\ Follows(Unread(data, i, net), http, sent, k)
  BY DEF Following, InputOK
<1>2. k \in 0..Len(sent)
  BY LenProperties DEF ServedOK
<1>3. PICK t \in Bytes, v \in Seq(Bytes) :
        t = data[i] /\ v = u /\ Unread(data, i, net) = Before(t, v)
  BY <1>1, UnreadStep
<1>4. PICK res : res = Byte
  OBVIOUS
<1>5. Reads(http, parser, t, res, g)
  BY <1>3, <1>4, ReadsByte
<1>6. Follows(Before(t, v), http, sent, k)
  BY <1>1, <1>3
<1>7. /\ k < Len(sent)
      /\ \/ res.ok /\ ~res.ready /\ Follows(v, g, sent, k)
         \/ /\ res.ok /\ res.ready /\ Finished(sent[k + 1], g) /\ IsComplete(sent[k + 1])
            /\ v = SentFrom(sent, k + 2)
         \/ /\ ~res.ok /\ ~IsComplete(sent[k + 1])
            /\ res.p.ready \/ NumberOf(sent[k + 1].length) > MaxCl
  BY <1>2, <1>5, <1>6, FollowsStep
<1> QED BY <1>1, <1>2, <1>3, <1>4, <1>7

\* Then the next byte, if any, is read next.
LEMMA NextByteFollows ==
  ASSUME Input(data, i, net), i <= Len(data), pc = "http", NextByte, net' = net
  PROVE  \/ pc' = "closed"
         \/ /\ pc' \in {"idle", "http"} /\ InputOK'
            /\ Unread(data', i', net') = Unread(data, i + 1, net)
<1>1. net \in Seq(Packets) /\ Len(data) \in Nat /\ i \in Nat
  BY LenProperties DEF Input
<1>2. Input(data, i + 1, net)
  BY UnreadStep
<1>3. CASE i = Len(data) \/ link' = "gone"
  <2>1. data' = <<>> /\ i' = 1 /\ pc' = IF link' = "gone" THEN "closed" ELSE "idle"
    BY <1>3 DEF NextByte, Returns
  <2>2. CASE link' = "gone"
    BY <2>1, <2>2
  <2>3. CASE link' # "gone"
    <3>1. PICK n \in Nat : n = i + 1 /\ n > Len(data)
      BY <1>1, <1>3, <2>3
    <3>2. Unread(data, n, net) = FlattenSeq(net)
      BY <1>2, <3>1, UnreadStep
    <3>3. Input(<<>>, 1, net) /\ Unread(<<>>, 1, net) = FlattenSeq(net)
      BY <1>1, UnreadEmpty
    <3>4. InputOK'
      BY <2>1, <2>3, <3>3 DEF InputOK
    <3> QED BY <2>1, <2>3, <3>1, <3>2, <3>3, <3>4
  <2> QED BY <2>2, <2>3
<1>4. CASE ~(i = Len(data) \/ link' = "gone")
  <2>1. i' = i + 1 /\ data' = data /\ pc' = pc
    BY <1>4 DEF NextByte
  <2>2. i' <= Len(data')
    BY <1>1, <1>4, <2>1
  <2>3. InputOK'
    BY <1>2, <2>1, <2>2 DEF InputOK
  <2> QED BY <2>1, <2>3
<1> QED BY <1>3, <1>4

\* What a complete request leads to.
LEMMA FinishedAsks ==
  ASSUME NEW r \in Request, NEW h, Finished(r, h), IsComplete(r)
  PROVE  /\ Lookup(h.list.text, <<"upgrade">>) = <<"websocket">> => ~ForScripts(r) /\ AsksUpgrade(r)
         /\ IsJson(h.transport) => ~ForScripts(r)
         /\ /\ Lookup(h.list.text, <<"upgrade">>) # <<"websocket">>
            /\ ~IsJson(h.transport)
            => ForScripts(r) /\ h.path.text = PathOf(r.path) /\ h.path.text \in Seq(Bytes)
<1>1. PICK a : a = h.list.text /\ Collects(a, r.headers, Len(r.headers))
  BY DEF Finished
<1>2. /\ Lookup(a, <<"upgrade">>) = <<"websocket">> <=> HeaderOf(r, "upgrade") = "websocket"
      /\ Lookup(a, <<"upgrade">>) = <<"websocket">> => AsksUpgrade(r)
  BY <1>1, AsksFor
<1>3. PathOf(r.path) \in Seq(Bytes)
  <2>1. PICK p \in Seq(Bytes) : p = r.path
    BY RequestBytes
  <2>2. Len(p) \in Nat
    BY LenProperties
  <2>3. 1 \in 1..Len(p) + 3
    BY <2>2
  <2>4. PathFrom(p)[1] \in Seq(Bytes)
    BY <2>3, PathTyped
  <2> QED BY <2>1, <2>4 DEF PathOf
<1> QED BY <1>1, <1>2, <1>3 DEF Finished, ForScripts

\* A request more is served.
LEMMA ServedMore ==
  ASSUME sent \in Seq(Requests), sent' = sent, ServedOK, NEW k \in Nat, k = Len(served),
         k < Len(sent), ForScripts(sent[k + 1]), NEW x \in Seq(Bytes), x = PathOf(sent[k + 1].path),
         served' = Append(served, x)
  PROVE  ServedOK' /\ Len(served') = k + 1
<1>1. /\ served \in Seq(Seq(Bytes)) /\ Len(sent) \in Nat
      /\ \A n \in 1..k : ForScripts(sent[n]) /\ served[n] = PathOf(sent[n].path)
  BY LenProperties DEF ServedOK
<1>2. /\ served' \in Seq(Seq(Bytes)) /\ Len(served') = k + 1 /\ served'[k + 1] = x
      /\ \A n \in 1..k : served'[n] = served[n]
  BY <1>1, AppendProperties
<1>3. ASSUME NEW n \in 1..k + 1
      PROVE  ForScripts(sent[n]) /\ served'[n] = PathOf(sent[n].path)
  <2>1. CASE n = k + 1
    BY <1>2, <2>1
  <2>2. CASE n \in 1..k
    BY <1>1, <1>2, <2>2
  <2> QED BY <2>1, <2>2
<1>4. ASSUME NEW n \in 1..Len(served')
      PROVE  ForScripts(sent'[n]) /\ served'[n] = PathOf(sent'[n].path)
  <2>1. n \in 1..k + 1
    BY <1>2
  <2> QED BY <1>3, <2>1
<1>5. Len(served') <= Len(sent')
  BY <1>1, <1>2
<1> QED BY <1>2, <1>4, <1>5 DEF ServedOK

-----------------------------------------------------------------------------
(* Steps while the parser follows. *)

LEMMA SendFollows ==
  ASSUME sent \in Seq(Requests), ServedOK, Following, NEW r \in Requests, send_request(r)
  PROVE  Following'
<1>1. /\ sent' = Append(sent, r) /\ data' = data /\ i' = i /\ pc' = pc /\ http' = http /\ ws' = ws
      /\ out' = out /\ served' = served
      /\ net' = net \o [n \in DOMAIN Encoded(r) |-> <<Encoded(r)[n]>>]
  BY DEF send_request, client, history
<1>2. PICK x \in Seq(Bytes) : x = Encoded(r)
  BY RequestsAreWellFormed, EncodedIs
<1>3. net' = net \o Singles(x)
  BY <1>1, <1>2 DEF One, Singles
<1>4. /\ Input(data, i, net) /\ Follows(Unread(data, i, net), http, sent, Len(served))
  BY DEF Following, InputOK
<1>5. Input(data, i, net') /\ Unread(data, i, net') = Unread(data, i, net) \o x
  <2>1. PICK d, n, s, q : d = data /\ n = i /\ s = net /\ q = net'
    OBVIOUS
  <2>2. Arrives(d, n, s, x, q)
    BY <1>3, <1>4, <2>1 DEF Arrives
  <2>3. Input(d, n, q) /\ Unread(d, n, q) = Unread(d, n, s) \o x
    BY <2>2, UnreadMore
  <2> QED BY <2>1, <2>3
<1>6. PICK u \in Seq(Bytes) : u = Unread(data, i, net)
  BY <1>4, UnreadStep
<1>7. PICK k \in 0..Len(sent) : k = Len(served)
  BY LenProperties DEF ServedOK
<1>8. PICK q : q = sent'
  OBVIOUS
<1>9. Follows(u \o Encoded(r), http, q, k)
  BY <1>1, <1>4, <1>6, <1>7, <1>8, FollowsMore
<1>10. InputOK'
  BY <1>1, <1>5 DEF Following, InputOK
<1> QED BY <1>1, <1>2, <1>5, <1>6, <1>7, <1>8, <1>9, <1>10 DEF Following

LEMMA ReadFollows ==
  ASSUME Following, read
  PROVE  Following'
<1>1. /\ sent' = sent /\ pc = "idle" /\ http' = http /\ ws' = ws /\ out' = out /\ served' = served
      /\ i' = 1 /\ ws = <<>> /\ pc' = "http"
  BY DEF read, HasArrived, client, peer, history, Following
<1>2. /\ Input(data, i, net) /\ data = <<>> /\ Follows(Unread(data, i, net), http, sent, Len(served))
  BY <1>1 DEF Following, InputOK
<1>3. i = 1 /\ net \in Seq(Packets) /\ Len(net) \in Nat /\ DOMAIN net = 1..Len(net)
  BY <1>2, LenProperties DEF Input
<1>4. Unread(data, i, net) = FlattenSeq(net)
  BY <1>2, <1>3, UnreadEmpty
<1>5. PICK n \in DOMAIN net : net' = SubSeq(net, n + 1, Len(net))
  BY DEF read
<1>6. n \in Nat \ {0} /\ n <= Len(net)
  BY <1>3
<1>7. data' = FlattenSeq(SubSeq(net, 1, Len(net) - Len(net')))
  BY DEF read
<1>8. Input(data', 1, net') /\ 1 <= Len(data') /\ Unread(data', 1, net') = FlattenSeq(net)
  BY <1>3, <1>5, <1>6, <1>7, UnreadRead
<1>9. InputOK'
  BY <1>1, <1>8 DEF InputOK
<1> QED BY <1>1, <1>2, <1>4, <1>8, <1>9 DEF Following

\* A byte inside of a request.
LEMMA CharFollows ==
  ASSUME ConnectionInv, sent \in Seq(Requests), ServedOK, Following, http_char
  PROVE  Following' \/ pc' = "closed"
<1>1. /\ sent' = sent /\ pc = "http" /\ http' = AfterByte.h /\ ws' = ws /\ out' = out
      /\ served' = served /\ net' = net /\ NextByte /\ Byte.ok /\ ~Byte.ready
  BY DEF http_char, peer, history
<1>2. PICK k, u, g : k = Len(served) /\ u = Unread(data, i + 1, net) /\ g = AfterByte.h
  OBVIOUS
<1>3. Input(data, i, net) /\ i <= Len(data) /\ Follows(u, g, sent, k)
  BY <1>1, <1>2, ByteFollows
<1>4. \/ pc' = "closed"
      \/ pc' \in {"idle", "http"} /\ InputOK' /\ Unread(data', i', net') = u
  BY <1>1, <1>2, <1>3, NextByteFollows
<1> QED BY <1>1, <1>2, <1>3, <1>4 DEF Following

\* The last byte of a request for the scripts.
LEMMA RequestFollows ==
  ASSUME ConnectionInv, sent \in Seq(Requests), ServedOK, Following,
         NEW does \in {"keeps", "closes", "loses"}, http_ready_request(does)
  PROVE  ServedOK' /\ (Following' \/ pc' = "closed")
<1>1. /\ sent' = sent /\ pc = "http" /\ http' = Reset(AfterByte.h) /\ ws' = ws /\ out' = out
      /\ served' = Append(served, AfterByte.h.path.text) /\ net' = net /\ NextByte
      /\ Byte.ok /\ Byte.ready /\ ~Asked /\ ~IsJson(AfterByte.h.transport)
  BY DEF http_ready_request, Ready, peer
<1>2. PICK k, u, g : k = Len(served) /\ u = Unread(data, i + 1, net) /\ g = AfterByte.h
  OBVIOUS
<1>3. /\ Input(data, i, net) /\ i <= Len(data) /\ k \in Nat /\ k < Len(sent)
      /\ Finished(sent[k + 1], g) /\ IsComplete(sent[k + 1]) /\ u = SentFrom(sent, k + 2)
  BY <1>1, <1>2, ByteFollows
<1>4. k + 1 \in 1..Len(sent) /\ Len(sent) \in Nat
  BY <1>3, LenProperties
<1>5. PICK r \in Request : r = sent[k + 1]
  BY <1>4, SentRequests DEF WellFormed
<1>6. /\ Lookup(g.list.text, <<"upgrade">>) # <<"websocket">> /\ ~IsJson(g.transport)
  BY <1>1, <1>2 DEF Asked
<1>7. ForScripts(r) /\ g.path.text = PathOf(r.path) /\ g.path.text \in Seq(Bytes)
  BY <1>3, <1>5, <1>6, FinishedAsks
<1>8. ServedOK' /\ Len(served') = k + 1
  BY <1>1, <1>2, <1>3, <1>5, <1>7, ServedMore
<1>9. \/ pc' = "closed"
      \/ pc' \in {"idle", "http"} /\ InputOK' /\ Unread(data', i', net') = u
  BY <1>1, <1>2, <1>3, NextByteFollows
<1>10. http'.p = NewHttpParser
  <2>1. HttpLike(g)
    BY <1>1, <1>2, InRequest, AfterByteOK
  <2>2. Reset(g).p = NewHttpParser
    BY <2>1 DEF Reset, HttpLike
  <2> QED BY <1>1, <1>2, <2>2
<1>11. (k + 1) + 1 = k + 2
  BY <1>3
<1> QED BY <1>1, <1>3, <1>8, <1>9, <1>10, <1>11 DEF Following, Follows

\* The last byte of another request.
LEMMA OthersStick ==
  ASSUME ConnectionInv, sent \in Seq(Requests), ServedOK, Following,
         http_ready_upgrade \/ http_ready_ignored
  PROVE  Stuck'
<1>1. /\ sent' = sent /\ pc = "http" /\ served' = served /\ Byte.ok /\ Byte.ready
      /\ Asked \/ IsJson(AfterByte.h.transport)
  BY DEF http_ready_upgrade, http_ready_ignored, Ready, peer, history, Asked, Upgrades
<1>2. PICK k, u, g : k = Len(served) /\ u = Unread(data, i + 1, net) /\ g = AfterByte.h
  OBVIOUS
<1>3. /\ k \in Nat /\ k < Len(sent) /\ Finished(sent[k + 1], g) /\ IsComplete(sent[k + 1])
  BY <1>1, <1>2, ByteFollows
<1>4. k + 1 \in 1..Len(sent) /\ Len(sent) \in Nat
  BY <1>3, LenProperties
<1>5. PICK r \in Request : r = sent[k + 1]
  BY <1>4, SentRequests DEF WellFormed
<1>6. ~ForScripts(r)
  BY <1>1, <1>2, <1>3, <1>5, FinishedAsks DEF Asked
<1>7. http'.p.ready
  <2>1. HttpLike(http) /\ BuffersOK(http) /\ link \in Links
    BY <1>1, InRequest
  <2>2. HttpLike(g) /\ BuffersOK(g) /\ g.p.ready
    BY <1>1, <1>2, <2>1, AfterByteOK
  <2>3. PICK h : h = WithTransport(g, "WS")
    OBVIOUS
  <2>4. HttpLike(h) /\ h.p = g.p /\ SameBuffers(g, h)
    BY <2>2, <2>3, HttpFacts, "WS" \in Transports DEF Transports
  <2>5. BuffersOK(h) /\ h.p.ready
    BY <2>2, <2>4 DEF BuffersOK, SameBuffers
  <2>6. CASE http_ready_upgrade
    <3>1. Write(<<"101">>, h)
      BY <1>2, <2>3, <2>6 DEF http_ready_upgrade, WithTransport
    <3> QED BY <2>1, <2>4, <2>5, <3>1, WriteOK
  <2>7. CASE http_ready_ignored
    <3>1. [g EXCEPT !.transport = g.transport] = g
      BY <2>2 DEF HttpLike
    <3>2. http' = h \/ http' = g
      BY <1>2, <2>3, <2>7, <3>1 DEF http_ready_ignored, WithTransport
    <3> QED BY <2>2, <2>5, <3>2
  <2> QED BY <2>6, <2>7
<1> QED BY <1>1, <1>2, <1>3, <1>5, <1>6, <1>7 DEF Stuck

\* A byte that is refused.
LEMMA RefusedStick ==
  ASSUME ConnectionInv, sent \in Seq(Requests), ServedOK, Following, http_refused
  PROVE  Stuck' \/ Derailed'
<1>1. /\ sent' = sent /\ pc = "http" /\ served' = served /\ ~Byte.ok
      /\ http' = WithParser(http, Byte.p) /\ link' = Shut(link)
  BY DEF http_refused, peer, history, WithParser
<1>2. PICK k, u, g : k = Len(served) /\ u = Unread(data, i + 1, net) /\ g = AfterByte.h
  OBVIOUS
<1>3. /\ k \in Nat /\ k < Len(sent) /\ ~IsComplete(sent[k + 1])
      /\ Byte.p.ready \/ NumberOf(sent[k + 1].length) > MaxCl
  BY <1>1, <1>2, ByteFollows
<1>4. http'.p = Byte.p
  <2>1. HttpLike(http)
    BY <1>1, InRequest
  <2>2. ParserOK(Byte.p)
    BY <2>1, BuffersAre, ParserKept DEF StepOK, ByteOK, Byte
  <2> QED BY <1>1, <2>1, <2>2, HttpFacts
<1>5. CASE Byte.p.ready
  <2>1. ~ForScripts(sent[k + 1])
    BY <1>3 DEF ForScripts
  <2> QED BY <1>1, <1>2, <1>3, <1>4, <1>5, <2>1 DEF Stuck
<1>6. CASE NumberOf(sent[k + 1].length) > MaxCl
  <2>1. k + 1 \in DOMAIN sent
    BY <1>3, LenProperties
  <2>2. ~Up'
    BY <1>1 DEF Up, Shut
  <2> QED BY <1>1, <1>6, <2>1, <2>2 DEF Derailed
<1> QED BY <1>3, <1>5, <1>6

\* Steps that leave the requests alone.
LEMMA AloneFollows ==
  ASSUME Following, sent' = sent, served' = served, data' = data, i' = i, net' = net,
         pc' = pc, http' = http, ws' = ws, out' = out
  PROVE  Following'
BY DEF Following, InputOK

\* Every step of a connection whose parser follows.
LEMMA FollowingNext ==
  ASSUME ConnectionInv, sent \in Seq(Requests), ServedOK, Following, [Next]_vars
  PROVE  \/ Derailed'
         \/ served' = served /\ (Following' \/ Stuck' \/ pc' = "closed")
         \/ sent' = sent /\ ServedOK' /\ (Following' \/ pc' = "closed")
<1>1. ASSUME NEW r \in Requests, send_request(r) PROVE served' = served /\ Following'
  BY <1>1, SendFollows DEF send_request, history
<1>2. ASSUME NEW f \in Frames, send_frame(f) PROVE FALSE
  <2>1. out = <<>> /\ \E n \in DOMAIN out : out[n] = "101"
    BY <1>2 DEF send_frame, Following
  <2> QED BY <2>1
<1>3. CASE peer_closes \/ peer_resets \/ UNCHANGED vars
  BY <1>3, AloneFollows DEF peer_closes, peer_resets, vars, reading, client, peer, history
<1>4. CASE read
  BY <1>4, ReadFollows DEF read, history
<1>5. CASE disconnect
  BY <1>5 DEF disconnect, history
<1>6. CASE http_char
  BY <1>6, CharFollows DEF http_char, history
<1>7. CASE http_refused
  BY <1>7, RefusedStick DEF http_refused, history
<1>8. CASE http_ready_upgrade \/ http_ready_ignored
  BY <1>8, OthersStick DEF http_ready_upgrade, http_ready_ignored, history
<1>9. ASSUME NEW does \in {"keeps", "closes", "loses"}, http_ready_request(does)
      PROVE  sent' = sent /\ ServedOK' /\ (Following' \/ pc' = "closed")
  BY <1>9, RequestFollows DEF http_ready_request, peer
<1>10. ~LastByte /\ \A step : ~On(step)
  BY DEF LastByte, On, Following
<1>11. /\ ~ws_start /\ ~ws_length /\ ~ws_short_length /\ ~ws_extended_length
       /\ ~ws_key /\ ~ws_data /\ ~ws_close /\ ~ws_ping /\ \A does : ~ws_frame(does)
  BY <1>10 DEF ws_start, ws_length, ws_short_length, ws_extended_length, ws_key, ws_data,
               ws_close, ws_ping, ws_frame
<1> QED
  BY <1>1, <1>2, <1>3, <1>4, <1>5, <1>6, <1>7, <1>8, <1>9, <1>11 DEF Next, Step

LEMMA StreamInit == Init => StreamInv
<1>1. SUFFICES ASSUME Init PROVE StreamInv
  OBVIOUS
<1>2. /\ net = <<>> /\ data = <<>> /\ i = 1 /\ pc = "idle" /\ http = NewHttp /\ ws = <<>>
      /\ out = <<>> /\ served = <<>> /\ sent = <<>>
  BY <1>1 DEF Init
<1>3. /\ sent \in Seq(Requests) /\ served \in Seq(Seq(Bytes)) /\ net \in Seq(Packets)
      /\ Len(served) = 0 /\ Len(sent) = 0
  BY <1>2
<1>4. ServedOK
  BY <1>3 DEF ServedOK
<1>5. Input(<<>>, 1, net) /\ Unread(<<>>, 1, net) = FlattenSeq(net)
  BY <1>3, UnreadEmpty
<1>6. InputOK
  BY <1>2, <1>5 DEF InputOK
<1>7. Follows(<<>>, NewHttp, sent, 0)
  <2>1. PICK k \in Nat \ {0} : k = 0 + 1 /\ k > Len(sent)
    BY <1>3
  <2>2. SentFrom(sent, k) = <<>>
    BY <1>3, <2>1, SentFromIs
  <2>3. NewHttp.p = NewHttpParser
    BY DEF NewHttp
  <2> QED BY <2>1, <2>2, <2>3 DEF Follows
<1>8. Following
  BY <1>2, <1>3, <1>5, <1>6, <1>7, FlattenEmpty DEF Following
<1> QED BY <1>3, <1>4, <1>8 DEF StreamInv

LEMMA StreamNext ==
  ASSUME ConnectionInv, StreamInv, [Next]_vars
  PROVE  StreamInv'
<1>1. sent \in Seq(Requests)
  BY DEF StreamInv
<1>2. Prolonged(sent, sent') /\ sent' \in Seq(Requests)
  <2>1. sent' = sent \/ \E r \in Requests : sent' = Append(sent, r)
    BY SentGrows DEF send_request
  <2> QED BY <1>1, <2>1, GrownOne DEF Prolonged
<1>3. CASE Derailed
  <2>1. ~Up'
    BY <1>3, DownStays DEF Derailed
  <2> QED BY <1>1, <1>2, <1>3, <2>1, DerailedStays DEF StreamInv
<1>4. CASE ServedOK /\ Stuck
  <2>1. http'.p.ready /\ served' = served
    BY <1>4, ReadyStays DEF Stuck
  <2> QED BY <1>2, <1>4, <2>1, ServedKept DEF StreamInv, Stuck
<1>5. CASE ServedOK /\ pc = "closed"
  BY <1>2, <1>5, ClosedStays, ServedKept DEF StreamInv
<1>6. CASE ServedOK /\ Following
  <2>1. \/ Derailed'
        \/ served' = served /\ (Following' \/ Stuck' \/ pc' = "closed")
        \/ sent' = sent /\ ServedOK' /\ (Following' \/ pc' = "closed")
    BY <1>1, <1>6, FollowingNext
  <2> QED BY <1>2, <1>6, <2>1, ServedKept DEF StreamInv
<1> QED BY <1>3, <1>4, <1>5, <1>6 DEF StreamInv

LEMMA StreamInvariance == Spec => [](ConnectionInv /\ StreamInv)
<1>1. ConnectionInv /\ StreamInv /\ [Next]_vars => (ConnectionInv /\ StreamInv)'
  BY NextKeeps, StreamNext DEF Kept
<1> QED BY InitOK, StreamInit, <1>1, PTL DEF Spec

\* What was served is what was to be served, as far as it got.
LEMMA ServedFirst ==
  ASSUME sent \in Seq(Requests), ServedOK, NEW last \in 0..Len(sent), Len(served) <= last,
         NEW all, all = [n \in 1..last |-> PathOf(sent[n].path)]
  PROVE  IsPrefix(served, all) /\ (Len(served) = last => served = all)
<1>1. /\ Len(served) \in Nat /\ Len(sent) \in Nat /\ last \in Nat /\ served \in Seq(Seq(Bytes))
      /\ \A n \in 1..Len(served) : served[n] = PathOf(sent[n].path)
  BY LenProperties DEF ServedOK
<1>2. PICK k \in Nat : k = Len(served) /\ k <= last
  BY <1>1
<1> DEFINE f(n) == PathOf(sent[n].path)
<1>3. all = [n \in 1..last |-> f(n)] /\ \A n \in 1..k : served[n] = f(n)
  BY <1>1, <1>2
<1> HIDE DEF f
<1>4. Len(all) = last /\ \A n \in 1..k : all[n] = served[n]
  BY <1>1, <1>2, <1>3
<1>5. SubSeq(all, 1, k) = SubSeq(served, 1, k)
  <2>1. \A n \in 1..k : served[n] \in Seq(Bytes) /\ all[n] \in Seq(Bytes)
    BY <1>1, <1>2, <1>4, ElementOfSeq
  <2>2. /\ SubSeq(all, 1, k) \in Seq(Seq(Bytes)) /\ SubSeq(served, 1, k) \in Seq(Seq(Bytes))
        /\ Len(SubSeq(all, 1, k)) = IF 1 <= k THEN k - 1 + 1 ELSE 0
        /\ Len(SubSeq(served, 1, k)) = IF 1 <= k THEN k - 1 + 1 ELSE 0
        /\ \A n \in 1..k - 1 + 1 : SubSeq(all, 1, k)[n] = all[1 + n - 1]
        /\ \A n \in 1..k - 1 + 1 : SubSeq(served, 1, k)[n] = served[1 + n - 1]
    BY <2>1, SubSeqProperties
  <2>3. k - 1 + 1 = k /\ (IF 1 <= k THEN k - 1 + 1 ELSE 0) = k /\ \A n \in 1..k : 1 + n - 1 = n
    BY <1>2
  <2>4. \A n \in 1..k : SubSeq(all, 1, k)[n] = SubSeq(served, 1, k)[n]
    BY <1>4, <2>2, <2>3
  <2>5. PICK a \in Seq(Seq(Bytes)), b \in Seq(Seq(Bytes)) :
          a = SubSeq(all, 1, k) /\ b = SubSeq(served, 1, k)
    BY <2>2
  <2>6. Len(a) = k /\ Len(b) = k /\ \A n \in 1..k : a[n] = b[n]
    BY <2>2, <2>3, <2>4, <2>5
  <2>7. a = b
    BY <2>6
  <2> QED BY <2>5, <2>7
<1>6. IsPrefix(served, all)
  BY <1>1, <1>2, <1>4, <1>5 DEF IsPrefix
<1>7. ASSUME k = last PROVE served = all
  <2>1. all = [n \in 1..k |-> f(n)] /\ \A n \in 1..k : served[n] = f(n)
    BY <1>3, <1>7
  <2>2. served = [n \in 1..k |-> served[n]]
    BY <1>1, <1>2
  <2> QED BY <2>1, <2>2
<1> QED BY <1>2, <1>6, <1>7

LEMMA ServedHolds ==
  ASSUME ConnectionInv, StreamInv
  PROVE  ServedAsSent
<1>1. CASE Derailed
  BY <1>1 DEF ServedAsSent
<1>2. CASE ServedOK /\ (Following \/ Stuck \/ pc = "closed")
  <2> DEFINE upto == {n \in 0..Len(sent) : \A m \in 1..n : ForScripts(sent[m])}
             last == CHOOSE n \in upto : \A m \in upto : m <= n
  <2>1. sent \in Seq(Requests) /\ Len(sent) \in Nat /\ Len(served) \in Nat
    BY <1>2, LenProperties DEF StreamInv, ServedOK
  <2>2. upto \subseteq Nat /\ Len(served) \in upto /\ upto \subseteq 0..Len(sent)
    BY <1>2, <2>1 DEF ServedOK
  <2>3. \E n \in upto : \A m \in upto : m <= n
    <3> DEFINE T == {n + 1 : n \in upto}
    <3>1. T \subseteq 1..Len(sent) + 1 /\ T # {} /\ Len(sent) + 1 \in Nat
      BY <2>1, <2>2
    <3>2. \E n \in T : \A m \in T : m <= n
      <4> HIDE DEF T
      <4> QED BY <3>1, GreatestExists
    <3>3. PICK n \in upto : \A m \in T : m <= n + 1
      BY <3>2
    <3>4. \A m \in upto : m + 1 <= n + 1
      BY <3>3
    <3> HIDE DEF upto
    <3>5. \A m \in upto : m <= n
      BY <2>2, <3>4
    <3> QED BY <3>5
  <2>4. last \in upto /\ \A m \in upto : m <= last
    BY <2>3
  <2>5. last \in 0..Len(sent) /\ Len(served) <= last
    BY <2>2, <2>4
  <2>6. Settled => Len(served) = last
    <3>1. CASE Stuck
      <4>1. /\ last \in Nat /\ Len(served) + 1 \in Nat /\ \A m \in 1..last : ForScripts(sent[m])
            /\ ~ForScripts(sent[Len(served) + 1])
        BY <2>1, <2>4, <3>1 DEF Stuck
      <4>2. ~(Len(served) + 1 <= last)
        BY <4>1, <2>1
      <4> HIDE DEF last
      <4> QED BY <2>1, <2>5, <4>1, <4>2
    <3>2. CASE Following
      <4>1. SUFFICES ASSUME Settled PROVE Len(served) = last
        OBVIOUS
      <4>2. /\ pc = "idle" /\ net = <<>> /\ data = <<>> /\ Input(data, i, net)
            /\ Follows(Unread(data, i, net), http, sent, Len(served))
        BY <3>2, <4>1 DEF Settled, Following, InputOK
      <4>3. i = 1 /\ net \in Seq(Packets)
        BY <4>2 DEF Input
      <4>4. Unread(data, i, net) = <<>>
        BY <4>2, <4>3, UnreadEmpty, FlattenEmpty
      <4>5. PICK k \in 0..Len(sent) : k = Len(served)
        BY <2>2
      <4>6. k = Len(sent)
        BY <2>1, <4>2, <4>4, <4>5, FollowsEnd
      <4> HIDE DEF last
      <4> QED BY <2>1, <2>5, <4>5, <4>6
    <3>3. CASE pc = "closed"
      BY <3>3 DEF Settled
    <3> QED BY <1>2, <3>1, <3>2, <3>3
  <2>7. AsExpected(served, [n \in 1..last |-> PathOf(sent[n].path)])
    <3> HIDE DEF last
    <3> QED BY <1>2, <2>1, <2>5, <2>6, ServedFirst DEF AsExpected
  <2> QED BY <2>7 DEF ServedAsSent
<1> QED BY <1>1, <1>2 DEF StreamInv

\* Whatever well-formed requests a peer sends, cut into reads in any way, the
\* scripts are given each once, in order and with its own path, up to the
\* first that is not for them (ape_server.c:328-400, ape_http_parser.c:160-330).
THEOREM ServedAsSentHolds == Spec => []ServedAsSent
<1>1. ConnectionInv /\ StreamInv => ServedAsSent
  BY ServedHolds
<1> QED BY <1>1, StreamInvariance, PTL

-----------------------------------------------------------------------------
(* The texts of frames, and the answers to texts. *)

LEMMA TextsEquation ==
  ASSUME NEW fs, NEW N \in Nat, Len(fs) = N
  PROVE  /\ TextsOf(fs)[0] = <<>>
         /\ \A n \in 1..N : TextsOf(fs)[n] =
              IF fs[n].op = "text" THEN Append(TextsOf(fs)[n - 1], fs[n].text)
              ELSE TextsOf(fs)[n - 1]
<1> DEFINE Here(g, n) == IF n = 0 THEN <<>>
                         ELSE IF fs[n].op = "text" THEN Append(g[n - 1], fs[n].text) ELSE g[n - 1]
           S == {m \in Nat : \E g : g = [n \in 0..m |-> Here(g, n)]}
<1>1. 0 \in S
  <2>1. [n \in 0..0 |-> <<>>] = [n \in 0..0 |-> Here([k \in 0..0 |-> <<>>], n)]
    OBVIOUS
  <2> QED BY <2>1
<1>2. ASSUME NEW m \in Nat, m \in S PROVE m + 1 \in S
  <2>1. PICK g : g = [n \in 0..m |-> Here(g, n)]
    BY <1>2
  <2> DEFINE h == [n \in 0..m + 1 |-> IF n = m + 1 THEN Here(g, n) ELSE g[n]]
  <2>2. ASSUME NEW n \in 0..m + 1 PROVE h[n] = Here(h, n)
    <3>1. n # 0 => h[n - 1] = g[n - 1]
      <4>1. n # 0 => n - 1 \in 0..m + 1 /\ n - 1 # m + 1
        OBVIOUS
      <4> HIDE DEF Here
      <4> QED BY <4>1
    <3>2. h[n] = Here(g, n)
      <4>1. CASE n = m + 1
        BY <4>1
      <4>2. CASE n # m + 1
        <5>1. n \in 0..m /\ h[n] = g[n]
          BY <4>2
        <5> HIDE DEF h, Here
        <5> QED BY <5>1, <2>1
      <4> QED BY <4>1, <4>2
    <3> HIDE DEF h
    <3> QED BY <3>1, <3>2
  <2>3. h = [n \in 0..m + 1 |-> Here(h, n)]
    <3>1. h = [n \in 0..m + 1 |-> h[n]]
      OBVIOUS
    <3> HIDE DEF h, Here
    <3> QED BY <2>2, <3>1
  <2> HIDE DEF h, Here
  <2>4. \E f : f = [n \in 0..m + 1 |-> Here(f, n)]
    BY <2>3
  <2> QED BY <2>4
<1>3. N \in S
  <2> HIDE DEF S
  <2> QED BY <1>1, <1>2, SetInduction
<1>4. PICK g : g = [n \in 0..Len(fs) |-> Here(g, n)]
  BY <1>3
<1>5. TextsOf(fs) = [n \in 0..Len(fs) |-> Here(TextsOf(fs), n)]
  BY <1>4, Zenon DEF TextsOf
<1>6. PICK f : f = TextsOf(fs)
  OBVIOUS
<1>7. \A n \in 0..N : f[n] = Here(f, n)
  <2>1. f = [n \in 0..N |-> Here(f, n)]
    BY <1>5, <1>6
  <2> HIDE DEF Here
  <2> QED BY <2>1
<1>8. f[0] = <<>>
  BY <1>7
<1>9. ASSUME NEW n \in 1..N PROVE f[n] = Here(f, n) /\ n # 0
  <2>1. n \in 0..N /\ n # 0
    OBVIOUS
  <2> HIDE DEF Here
  <2> QED BY <1>7, <2>1
<1> QED BY <1>6, <1>8, <1>9

LEMMA AnswersEquation ==
  ASSUME NEW h, NEW N \in Nat, Len(h) = N
  PROVE  /\ AnswersTo(h)[0] = <<>>
         /\ \A n \in 1..N : AnswersTo(h)[n] =
              IF h[n][2] = "bad_json" THEN Append(AnswersTo(h)[n - 1], "bad_json")
              ELSE AnswersTo(h)[n - 1]
<1> DEFINE Here(g, n) == IF n = 0 THEN <<>>
                         ELSE IF h[n][2] = "bad_json" THEN Append(g[n - 1], "bad_json") ELSE g[n - 1]
           S == {m \in Nat : \E g : g = [n \in 0..m |-> Here(g, n)]}
<1>1. 0 \in S
  <2>1. [n \in 0..0 |-> <<>>] = [n \in 0..0 |-> Here([k \in 0..0 |-> <<>>], n)]
    OBVIOUS
  <2> QED BY <2>1
<1>2. ASSUME NEW m \in Nat, m \in S PROVE m + 1 \in S
  <2>1. PICK g : g = [n \in 0..m |-> Here(g, n)]
    BY <1>2
  <2> DEFINE k == [n \in 0..m + 1 |-> IF n = m + 1 THEN Here(g, n) ELSE g[n]]
  <2>2. ASSUME NEW n \in 0..m + 1 PROVE k[n] = Here(k, n)
    <3>1. n # 0 => k[n - 1] = g[n - 1]
      <4>1. n # 0 => n - 1 \in 0..m + 1 /\ n - 1 # m + 1
        OBVIOUS
      <4> HIDE DEF Here
      <4> QED BY <4>1
    <3>2. k[n] = Here(g, n)
      <4>1. CASE n = m + 1
        BY <4>1
      <4>2. CASE n # m + 1
        <5>1. n \in 0..m /\ k[n] = g[n]
          BY <4>2
        <5> HIDE DEF k, Here
        <5> QED BY <5>1, <2>1
      <4> QED BY <4>1, <4>2
    <3> HIDE DEF k
    <3> QED BY <3>1, <3>2
  <2>3. k = [n \in 0..m + 1 |-> Here(k, n)]
    <3>1. k = [n \in 0..m + 1 |-> k[n]]
      OBVIOUS
    <3> HIDE DEF k, Here
    <3> QED BY <2>2, <3>1
  <2> HIDE DEF k, Here
  <2>4. \E f : f = [n \in 0..m + 1 |-> Here(f, n)]
    BY <2>3
  <2> QED BY <2>4
<1>3. N \in S
  <2> HIDE DEF S
  <2> QED BY <1>1, <1>2, SetInduction
<1>4. PICK g : g = [n \in 0..Len(h) |-> Here(g, n)]
  BY <1>3
<1>5. AnswersTo(h) = [n \in 0..Len(h) |-> Here(AnswersTo(h), n)]
  BY <1>4, Zenon DEF AnswersTo
<1>6. PICK f : f = AnswersTo(h)
  OBVIOUS
<1>7. \A n \in 0..N : f[n] = Here(f, n)
  <2>1. f = [n \in 0..N |-> Here(f, n)]
    BY <1>5, <1>6
  <2> HIDE DEF Here
  <2> QED BY <2>1
<1>8. f[0] = <<>>
  BY <1>7
<1>9. ASSUME NEW n \in 1..N PROVE f[n] = Here(f, n) /\ n # 0
  <2>1. n \in 0..N /\ n # 0
    OBVIOUS
  <2> HIDE DEF Here
  <2> QED BY <1>7, <2>1
<1> QED BY <1>6, <1>8, <1>9

\* Frames more change nothing for the texts before.
LEMMA TextsAgree ==
  ASSUME NEW fs, NEW gs, NEW M \in Nat, NEW N \in Nat, Len(fs) = M, Len(gs) = N, M <= N,
         \A n \in 1..M : gs[n] = fs[n]
  PROVE  \A n \in 0..M : TextsOf(gs)[n] = TextsOf(fs)[n]
<1> DEFINE S == {n \in Nat : n <= M => TextsOf(gs)[n] = TextsOf(fs)[n]}
<1>1. 0 \in S
  BY TextsEquation
<1>2. ASSUME NEW n \in Nat, n \in S PROVE n + 1 \in S
  <2>1. SUFFICES ASSUME n + 1 <= M PROVE TextsOf(gs)[n + 1] = TextsOf(fs)[n + 1]
    OBVIOUS
  <2>2. PICK m \in 1..M : m = n + 1 /\ m \in 1..N /\ m - 1 = n
    BY <2>1
  <2>3. TextsOf(gs)[m - 1] = TextsOf(fs)[m - 1]
    BY <1>2, <2>1, <2>2
  <2>4. gs[m] = fs[m]
    BY <2>2
  <2>5. /\ TextsOf(gs)[m] = IF gs[m].op = "text" THEN Append(TextsOf(gs)[m - 1], gs[m].text)
                            ELSE TextsOf(gs)[m - 1]
        /\ TextsOf(fs)[m] = IF fs[m].op = "text" THEN Append(TextsOf(fs)[m - 1], fs[m].text)
                            ELSE TextsOf(fs)[m - 1]
    BY <2>2, TextsEquation
  <2> QED BY <2>2, <2>3, <2>4, <2>5
<1>3. Nat \subseteq S
  <2> HIDE DEF S
  <2> QED BY <1>1, <1>2, SetInduction
<1> QED BY <1>3

LEMMA AnswersAgree ==
  ASSUME NEW h, NEW k, NEW M \in Nat, NEW N \in Nat, Len(h) = M, Len(k) = N, M <= N,
         \A n \in 1..M : k[n] = h[n]
  PROVE  \A n \in 0..M : AnswersTo(k)[n] = AnswersTo(h)[n]
<1> DEFINE S == {n \in Nat : n <= M => AnswersTo(k)[n] = AnswersTo(h)[n]}
<1>1. 0 \in S
  BY AnswersEquation
<1>2. ASSUME NEW n \in Nat, n \in S PROVE n + 1 \in S
  <2>1. SUFFICES ASSUME n + 1 <= M PROVE AnswersTo(k)[n + 1] = AnswersTo(h)[n + 1]
    OBVIOUS
  <2>2. PICK m \in 1..M : m = n + 1 /\ m \in 1..N /\ m - 1 = n
    BY <2>1
  <2>3. AnswersTo(k)[m - 1] = AnswersTo(h)[m - 1]
    BY <1>2, <2>1, <2>2
  <2>4. k[m] = h[m]
    BY <2>2
  <2>5. /\ AnswersTo(k)[m] = IF k[m][2] = "bad_json" THEN Append(AnswersTo(k)[m - 1], "bad_json")
                             ELSE AnswersTo(k)[m - 1]
        /\ AnswersTo(h)[m] = IF h[m][2] = "bad_json" THEN Append(AnswersTo(h)[m - 1], "bad_json")
                             ELSE AnswersTo(h)[m - 1]
    BY <2>2, AnswersEquation
  <2> QED BY <2>2, <2>3, <2>4, <2>5
<1>3. Nat \subseteq S
  <2> HIDE DEF S
  <2> QED BY <1>1, <1>2, SetInduction
<1> QED BY <1>3

\* s is a beginning of t.
Begins(s, t) ==
  /\ Len(s) \in Nat /\ Len(t) \in Nat /\ Len(s) <= Len(t)
  /\ \A n \in 1..Len(s) : t[n] = s[n]

LEMMA BeginsPrefix ==
  ASSUME NEW S, NEW s \in Seq(S), NEW t \in Seq(S), Begins(s, t)
  PROVE  IsPrefix(s, t)
<1>1. PICK k \in Nat : k = Len(s) /\ k <= Len(t)
  BY DEF Begins
<1>2. \A n \in 1..k : t[n] = s[n]
  BY <1>1 DEF Begins
<1>3. \A n \in 1..k : s[n] \in S /\ t[n] \in S
  BY <1>1, <1>2, ElementOfSeq
<1>4. /\ SubSeq(s, 1, k) \in Seq(S) /\ SubSeq(t, 1, k) \in Seq(S)
      /\ Len(SubSeq(s, 1, k)) = IF 1 <= k THEN k - 1 + 1 ELSE 0
      /\ Len(SubSeq(t, 1, k)) = IF 1 <= k THEN k - 1 + 1 ELSE 0
      /\ \A n \in 1..k - 1 + 1 : SubSeq(s, 1, k)[n] = s[1 + n - 1]
      /\ \A n \in 1..k - 1 + 1 : SubSeq(t, 1, k)[n] = t[1 + n - 1]
  BY <1>3, SubSeqProperties
<1>5. k - 1 + 1 = k /\ (IF 1 <= k THEN k - 1 + 1 ELSE 0) = k /\ \A n \in 1..k : 1 + n - 1 = n
  BY <1>1
<1>6. \A n \in 1..k : SubSeq(s, 1, k)[n] = SubSeq(t, 1, k)[n]
  BY <1>2, <1>4, <1>5
<1>7. PICK a \in Seq(S), b \in Seq(S) : a = SubSeq(s, 1, k) /\ b = SubSeq(t, 1, k)
  BY <1>4
<1>8. Len(a) = k /\ Len(b) = k /\ \A n \in 1..k : a[n] = b[n]
  BY <1>4, <1>5, <1>6, <1>7
<1>9. a = b
  BY <1>8
<1> QED BY <1>1, <1>7, <1>9 DEF IsPrefix

LEMMA BeginsSelf ==
  ASSUME NEW S, NEW s \in Seq(S)
  PROVE  Begins(s, s) /\ \A x \in S : Begins(s, Append(s, x))
BY LenProperties, AppendProperties DEF Begins

LEMMA BeginsOn ==
  ASSUME NEW r, NEW s, NEW t, Begins(r, s), Begins(s, t)
  PROVE  Begins(r, t)
<1>1. PICK k \in Nat, m \in Nat, n \in Nat : k = Len(r) /\ m = Len(s) /\ n = Len(t) /\ k <= m /\ m <= n
  BY DEF Begins
<1>2. \A j \in 1..k : s[j] = r[j] /\ j \in 1..m
  BY <1>1 DEF Begins
<1>3. \A j \in 1..m : t[j] = s[j]
  BY <1>1 DEF Begins
<1> QED BY <1>1, <1>2, <1>3 DEF Begins

\* The texts of the first frames are the first texts.
LEMMA TextsTyped ==
  ASSUME NEW fs \in Seq(Frame)
  PROVE  \A n \in 0..Len(fs) : TextsOf(fs)[n] \in Seq(Texts)
<1>1. PICK N \in Nat : N = Len(fs)
  BY LenProperties
<1> DEFINE S == {n \in Nat : n <= N => TextsOf(fs)[n] \in Seq(Texts)}
<1>2. 0 \in S
  <2>1. TextsOf(fs)[0] = <<>>
    BY <1>1, TextsEquation
  <2>2. <<>> \in Seq(Texts)
    OBVIOUS
  <2> QED BY <2>1, <2>2
<1>3. ASSUME NEW n \in Nat, n \in S PROVE n + 1 \in S
  <2>1. SUFFICES ASSUME n + 1 <= N PROVE TextsOf(fs)[n + 1] \in Seq(Texts)
    OBVIOUS
  <2>2. PICK m \in 1..N : m = n + 1 /\ m - 1 = n
    BY <2>1
  <2>3. TextsOf(fs)[n] \in Seq(Texts)
    BY <1>3, <2>1
  <2>4. TextsOf(fs)[m] = IF fs[m].op = "text" THEN Append(TextsOf(fs)[m - 1], fs[m].text)
                         ELSE TextsOf(fs)[m - 1]
    BY <1>1, TextsEquation
  <2>5. fs[m].text \in Texts
    <3>1. fs[m] \in Frame
      BY <1>1, ElementOfSeq
    <3> QED BY <3>1 DEF Frame
  <2>6. PICK x \in Texts, s \in Seq(Texts) : x = fs[m].text /\ s = TextsOf(fs)[n]
    BY <2>3, <2>5
  <2>7. Append(s, x) \in Seq(Texts)
    BY AppendProperties
  <2>8. TextsOf(fs)[m] = Append(s, x) \/ TextsOf(fs)[m] = s
    BY <2>2, <2>4, <2>6
  <2>9. TextsOf(fs)[m] \in Seq(Texts)
    BY <2>7, <2>8
  <2> QED BY <2>2, <2>9
<1>4. Nat \subseteq S
  <2> HIDE DEF S
  <2> QED BY <1>2, <1>3, SetInduction
<1> QED BY <1>1, <1>4

LEMMA TextsBegin ==
  ASSUME NEW fs \in Seq(Frame), NEW c \in 0..Len(fs)
  PROVE  \A n \in c..Len(fs) : Begins(TextsOf(fs)[c], TextsOf(fs)[n])
<1>1. PICK N \in Nat : N = Len(fs) /\ c \in Nat /\ c <= N
  BY LenProperties
<1> DEFINE S == {n \in Nat : c + n <= N => Begins(TextsOf(fs)[c], TextsOf(fs)[c + n])}
<1>2. 0 \in S
  <2>1. TextsOf(fs)[c] \in Seq(Texts)
    BY TextsTyped
  <2>2. c + 0 = c
    BY <1>1
  <2> QED BY <2>1, <2>2, BeginsSelf
<1>3. ASSUME NEW n \in Nat, n \in S PROVE n + 1 \in S
  <2>1. SUFFICES ASSUME c + (n + 1) <= N PROVE Begins(TextsOf(fs)[c], TextsOf(fs)[c + (n + 1)])
    OBVIOUS
  <2>2. PICK m \in 1..N : m = c + (n + 1) /\ m - 1 = c + n /\ m - 1 \in 0..N
    BY <1>1, <2>1
  <2>3. Begins(TextsOf(fs)[c], TextsOf(fs)[m - 1])
    BY <1>1, <1>3, <2>1, <2>2
  <2>4. TextsOf(fs)[m] = IF fs[m].op = "text" THEN Append(TextsOf(fs)[m - 1], fs[m].text)
                         ELSE TextsOf(fs)[m - 1]
    BY <1>1, TextsEquation
  <2>5. fs[m].text \in Texts /\ TextsOf(fs)[m - 1] \in Seq(Texts)
    <3>1. fs[m] \in Frame
      BY <1>1, ElementOfSeq
    <3>2. TextsOf(fs)[m - 1] \in Seq(Texts)
      BY <1>1, <2>2, TextsTyped
    <3> QED BY <3>1, <3>2 DEF Frame
  <2>6. PICK x \in Texts, s \in Seq(Texts) : x = fs[m].text /\ s = TextsOf(fs)[m - 1]
    BY <2>5
  <2>7. Begins(s, s) /\ Begins(s, Append(s, x))
    BY BeginsSelf
  <2>8. Begins(TextsOf(fs)[m - 1], TextsOf(fs)[m])
    <3>1. PICK w : w = TextsOf(fs)[m]
      OBVIOUS
    <3>2. w = Append(s, x) \/ w = s
      BY <2>4, <2>6, <3>1
    <3>3. Begins(s, w)
      BY <2>7, <3>2
    <3> QED BY <2>6, <3>1, <3>3
  <2>9. PICK u, v, w : u = TextsOf(fs)[c] /\ v = TextsOf(fs)[m - 1] /\ w = TextsOf(fs)[m]
    OBVIOUS
  <2>10. Begins(u, w)
    BY <2>3, <2>8, <2>9, BeginsOn
  <2> QED BY <2>2, <2>9, <2>10
<1>4. Nat \subseteq S
  <2> HIDE DEF S
  <2> QED BY <1>2, <1>3, SetInduction
<1>5. ASSUME NEW n \in c..Len(fs) PROVE Begins(TextsOf(fs)[c], TextsOf(fs)[n])
  <2>1. PICK m \in Nat : m = n - c /\ c + m = n /\ c + m <= N
    BY <1>1
  <2> QED BY <1>4, <2>1
<1> QED BY <1>5

-----------------------------------------------------------------------------
(* The bytes of a frame. *)

Ops == {"text", "ping", "pong", "close"}
FramedBytes == Ops \cup Nat \cup (({"mask"} \cup Tokens) \X Nat)

\* How many bytes come before the key.
HeadOf(f) == IF f.form = 7 THEN 2 ELSE IF f.form = 16 THEN 4 ELSE 10

LEMMA FramesAre ==
  ASSUME NEW f \in Frames
  PROVE  /\ f \in Frame /\ f.op \in Ops /\ f.form \in {7, 16, 64}
         /\ f.text \in Seq(Tokens) /\ f.text # <<>> /\ f.text \in Texts
         /\ Len(f.text) \in Nat \ {0}
         /\ f.form = 7 => Len(f.text) <= 125
         /\ HeadOf(f) \in {2, 4, 10}
<1>1. f \in Frame /\ Len(f.text) <= (IF f.form = 7 THEN 125 ELSE 255)
  BY FramesAreWellFormed
<1>2. f.op \in Ops /\ f.form \in {7, 16, 64} /\ f.text \in Texts
  BY <1>1 DEF Frame, Ops
<1>3. f.text \in Seq(Tokens) /\ f.text # <<>>
  BY <1>2, FramesAreWellFormed
<1>4. Len(f.text) \in Nat \ {0}
  BY <1>3, EmptySeq, LenProperties
<1> QED BY <1>1, <1>2, <1>3, <1>4 DEF HeadOf

\* What follows the first byte.
LEMMA LengthBytesAre ==
  ASSUME NEW f \in Frames, NEW L, L = Len(f.text), NEW b, b = LengthBytes(f)
  PROVE  /\ b \in Seq(FramedBytes) /\ Len(b) = HeadOf(f) - 1
         /\ f.form = 7 => b[1][2] = L
         /\ f.form = 16 => b[1][2] = 126 /\ b[2] = 0 /\ b[3] = L
         /\ f.form = 64 => b[1][2] = 127 /\ (\A k \in 2..8 : b[k] = 0) /\ b[9] = L
<1>1. L \in Nat /\ f.form \in {7, 16, 64}
  BY FramesAre
<1>2. \A k \in Nat : <<"mask", k>> \in FramedBytes /\ <<"mask", k>>[2] = k /\ k \in FramedBytes
  BY DEF FramedBytes
<1>3. CASE f.form = 7
  <2>1. PICK x \in FramedBytes : x = <<"mask", L>> /\ x[2] = L
    BY <1>1, <1>2
  <2>2. b = <<x>>
    BY <1>3, <2>1 DEF LengthBytes
  <2> QED BY <1>3, <2>1, <2>2 DEF HeadOf
<1>4. CASE f.form = 16
  <2>1. PICK x \in FramedBytes : x = <<"mask", 126>> /\ x[2] = 126
    <3>1. PICK k \in Nat : k = 126
      OBVIOUS
    <3>2. <<"mask", k>> \in FramedBytes /\ <<"mask", k>>[2] = k
      BY <1>2
    <3> QED BY <3>1, <3>2
  <2>2. b = <<x, 0, L>>
    BY <1>4, <2>1 DEF LengthBytes
  <2>3. 0 \in FramedBytes /\ L \in FramedBytes
    BY <1>1, <1>2
  <2>4. b \in Seq(FramedBytes) /\ Len(b) = 3 /\ b[1] = x /\ b[2] = 0 /\ b[3] = L
    BY <2>1, <2>2, <2>3
  <2> QED BY <1>4, <2>1, <2>4 DEF HeadOf
<1>5. CASE f.form = 64
  <2>1. PICK x \in FramedBytes : x = <<"mask", 127>> /\ x[2] = 127
    <3>1. PICK k \in Nat : k = 127
      OBVIOUS
    <3>2. <<"mask", k>> \in FramedBytes /\ <<"mask", k>>[2] = k
      BY <1>2
    <3> QED BY <3>1, <3>2
  <2>2. b = <<x, 0, 0, 0, 0, 0, 0, 0, L>>
    BY <1>5, <2>1 DEF LengthBytes
  <2>3. PICK z \in FramedBytes, l \in FramedBytes : z = 0 /\ l = L
    BY <1>1, <1>2
  <2>4. b = <<x, z, z, z, z, z, z, z, l>>
    BY <2>2, <2>3
  <2>5. b \in Seq(FramedBytes) /\ Len(b) = 9 /\ b[1] = x /\ b[2] = z /\ b[3] = z /\ b[4] = z
        /\ b[5] = z /\ b[6] = z /\ b[7] = z /\ b[8] = z /\ b[9] = l
    BY <2>4
  <2>6. \A k \in 2..8 : k \in {2, 3, 4, 5, 6, 7, 8}
    OBVIOUS
  <2>7. \A k \in 2..8 : b[k] = 0
    BY <2>3, <2>5, <2>6
  <2> QED BY <1>5, <2>1, <2>3, <2>5, <2>7 DEF HeadOf
<1> QED BY <1>1, <1>3, <1>4, <1>5

\* The elements of sequences that are joined.
Two(s, m, t, n, z) ==
  /\ s \in Seq(FramedBytes) /\ t \in Seq(FramedBytes) /\ m \in Nat /\ n \in Nat
  /\ m = Len(s) /\ n = Len(t) /\ z = s \o t

InTurn(s, m, t, n, z) ==
  /\ z \in Seq(FramedBytes) /\ Len(z) = m + n
  /\ \A k \in 1..m : z[k] = s[k]
  /\ \A k \in 1..n : z[m + k] = t[k]

LEMMA JoinedAt ==
  ASSUME NEW s, NEW m, NEW t, NEW n, NEW z, Two(s, m, t, n, z)
  PROVE  InTurn(s, m, t, n, z)
<1>0. /\ s \in Seq(FramedBytes) /\ t \in Seq(FramedBytes) /\ m \in Nat /\ n \in Nat
      /\ m = Len(s) /\ n = Len(t) /\ z = s \o t
  BY DEF Two
<1>1. /\ z \in Seq(FramedBytes) /\ Len(z) = m + n
      /\ \A k \in 1..m + n : z[k] = IF k <= m THEN s[k] ELSE t[k - m]
  BY <1>0, ConcatProperties
<1>2. ASSUME NEW k \in 1..n PROVE z[m + k] = t[k]
  <2>1. PICK j \in 1..m + n : j = m + k /\ ~(j <= m) /\ j - m = k
    <3>1. m \in Nat /\ n \in Nat
      BY <1>0
    <3> QED BY <3>1
  <2> QED BY <1>1, <2>1
<1>3. ASSUME NEW k \in 1..m PROVE z[k] = s[k]
  <2>1. k \in 1..m + n /\ k <= m
    BY <1>0
  <2> QED BY <1>1, <2>1
<1> QED BY <1>1, <1>2, <1>3 DEF InTurn

\* The bytes of the nth frame, f, with a head of h bytes and a text of L.
HasBytes(b, f, n, h, L) ==
  /\ b \in Seq(FramedBytes) /\ Len(b) = h + 4 + L /\ b # <<>>
  /\ b[1] = f.op
  /\ f.form = 7 => b[2][2] = L
  /\ f.form = 16 => b[2][2] = 126 /\ b[3] = 0 /\ b[4] = L
  /\ f.form = 64 => b[2][2] = 127 /\ (\A k \in 3..9 : b[k] = 0) /\ b[10] = L
  /\ \A k \in 1..4 : b[h + k] = 10 * n + k
  /\ \A k \in 1..L : b[h + 4 + k] = <<f.text[k], 10 * n + (((k - 1) % 4) + 1)>>

LEMMA FrameIs ==
  ASSUME NEW f \in Frames, NEW n \in Nat, NEW b, b = FrameBytes(f, n),
         NEW L, L = Len(f.text), NEW h, h = HeadOf(f)
  PROVE  HasBytes(b, f, n, h, L)
<1>1. /\ f.op \in Ops /\ f.text \in Seq(Tokens) /\ L \in Nat \ {0} /\ h \in {2, 4, 10}
      /\ f.form \in {7, 16, 64}
  BY FramesAre
<1>2. PICK s \in Seq(FramedBytes) : s = <<f.op>> /\ Len(s) = 1 /\ s[1] = f.op
  <2>1. f.op \in FramedBytes
    BY <1>1 DEF FramedBytes
  <2> QED BY <2>1, OneIsSeq
<1>3. PICK t \in Seq(FramedBytes) :
        /\ t = LengthBytes(f) /\ Len(t) = h - 1
        /\ f.form = 7 => t[1][2] = L
        /\ f.form = 16 => t[1][2] = 126 /\ t[2] = 0 /\ t[3] = L
        /\ f.form = 64 => t[1][2] = 127 /\ (\A k \in 2..8 : t[k] = 0) /\ t[9] = L
  BY LengthBytesAre
<1>4. PICK u \in Seq(FramedBytes) : u = Key(n) /\ Len(u) = 4 /\ \A k \in 1..4 : u[k] = 10 * n + k
  <2>1. \A k \in 1..4 : 10 * n + k \in FramedBytes
    BY DEF FramedBytes
  <2>2. Key(n) = [k \in 1..4 |-> 10 * n + k]
    BY DEF Key
  <2> DEFINE q(k) == 10 * n + k
  <2>3. Key(n) = [k \in 1..4 |-> q(k)] /\ \A k \in 1..4 : q(k) \in FramedBytes
    BY <2>1, <2>2
  <2> HIDE DEF q
  <2>4. PICK u : u = [k \in 1..4 |-> q(k)]
    OBVIOUS
  <2>5. u \in Seq(FramedBytes) /\ Len(u) = 4 /\ \A k \in 1..4 : u[k] = q(k)
    BY <2>3, <2>4
  <2> QED BY <2>3, <2>4, <2>5 DEF q
<1>5. PICK v \in Seq(FramedBytes) :
        /\ v = Masked(f.text, Key(n)) /\ Len(v) = L
        /\ \A k \in 1..L : v[k] = <<f.text[k], 10 * n + (((k - 1) % 4) + 1)>>
  <2> DEFINE q(k) == <<f.text[k], 10 * n + (((k - 1) % 4) + 1)>>
  <2>1. \A k \in 1..L : ((k - 1) % 4) + 1 \in 1..4
    <3>1. \A k \in 1..L : k - 1 \in Int /\ (k - 1) % 4 \in 0..3
      BY <1>1
    <3> QED BY <3>1
  <2>2. \A k \in 1..L : Key(n)[((k - 1) % 4) + 1] = 10 * n + (((k - 1) % 4) + 1)
    BY <1>4, <2>1
  <2>3. DOMAIN f.text = 1..L /\ \A k \in 1..L : f.text[k] \in Tokens
    BY <1>1, LenProperties, ElementOfSeq
  <2>4. \A k \in 1..L : q(k) \in FramedBytes
    BY <2>1, <2>3 DEF FramedBytes
  <2>5. Masked(f.text, Key(n)) = [k \in 1..L |-> q(k)]
    BY <2>2, <2>3 DEF Masked
  <2> HIDE DEF q
  <2>6. PICK v : v = [k \in 1..L |-> q(k)]
    OBVIOUS
  <2>7. v \in Seq(FramedBytes) /\ Len(v) = L /\ \A k \in 1..L : v[k] = q(k)
    BY <1>1, <2>4, <2>6
  <2> QED BY <2>5, <2>6, <2>7 DEF q
<1>6. b = ((s \o t) \o u) \o v
  BY <1>2, <1>3, <1>4, <1>5 DEF FrameBytes
<1>7. PICK x \in Seq(FramedBytes) :
        /\ x = s \o t /\ Len(x) = h /\ x[1] = f.op
        /\ f.form = 7 => x[2][2] = L
        /\ f.form = 16 => x[2][2] = 126 /\ x[3] = 0 /\ x[4] = L
        /\ f.form = 64 => x[2][2] = 127 /\ (\A k \in 3..9 : x[k] = 0) /\ x[10] = L
  <2>1. PICK g \in Nat : g = h - 1 /\ 1 + g = h /\ Len(t) = g
    BY <1>1, <1>3
  <2>2. 1 \in Nat /\ 1 = Len(s)
    BY <1>2
  <2>3. PICK x : x = s \o t
    OBVIOUS
  <2>4. /\ x \in Seq(FramedBytes) /\ Len(x) = 1 + g
        /\ \A k \in 1..1 : x[k] = s[k]
        /\ \A k \in 1..g : x[1 + k] = t[k]
    <3>1. PICK a : a = 1
      OBVIOUS
    <3>2. Two(s, a, t, g, x)
      BY <2>1, <2>2, <2>3, <3>1 DEF Two
    <3>3. InTurn(s, a, t, g, x)
      BY <3>2, JoinedAt
    <3> QED BY <3>1, <3>3 DEF InTurn
  <2>5. x[1] = f.op
    BY <1>2, <2>4
  <2>6. (g = 1 /\ f.form = 7) \/ (g = 3 /\ f.form = 16) \/ (g = 9 /\ f.form = 64)
    BY <1>1, <2>1 DEF HeadOf
  <2>7. x[2] = t[1]
    BY <2>4, <2>6
  <2>8. f.form = 16 => x[3] = t[2] /\ x[4] = t[3]
    BY <2>4, <2>6
  <2>9. f.form = 64 => x[10] = t[9] /\ \A k \in 3..9 : x[k] = 0
    <3>1. SUFFICES ASSUME f.form = 64 PROVE x[10] = t[9] /\ \A k \in 3..9 : x[k] = 0
      OBVIOUS
    <3>2. g = 9 /\ x[10] = t[9]
      BY <2>4, <2>6, <3>1
    <3>3. ASSUME NEW k \in 3..9 PROVE x[k] = 0
      <4>1. PICK j \in 2..8 : j = k - 1 /\ 1 + j = k /\ j \in 1..g
        BY <3>2
      <4>2. t[j] = 0
        BY <1>3, <3>1
      <4> QED BY <2>4, <4>1, <4>2
    <3> QED BY <3>2, <3>3
  <2>10. Len(x) = h
    BY <1>1, <2>1, <2>4
  <2>11. /\ f.form = 7 => x[2][2] = L
         /\ f.form = 16 => x[2][2] = 126 /\ x[3] = 0 /\ x[4] = L
         /\ f.form = 64 => x[2][2] = 127 /\ (\A k \in 3..9 : x[k] = 0) /\ x[10] = L
    BY <1>3, <2>7, <2>8, <2>9
  <2> QED BY <2>3, <2>4, <2>5, <2>10, <2>11
<1>8. PICK y \in Seq(FramedBytes) :
        /\ y = x \o u /\ Len(y) = h + 4 /\ \A k \in 1..h : y[k] = x[k]
        /\ \A k \in 1..4 : y[h + k] = u[k]
  <2>1. h \in Nat /\ 4 \in Nat
    BY <1>1
  <2>2. PICK y : y = x \o u
    OBVIOUS
  <2>3. PICK m, n4 : m = h /\ n4 = 4
    OBVIOUS
  <2>4. /\ y \in Seq(FramedBytes) /\ Len(y) = h + 4 /\ \A k \in 1..h : y[k] = x[k]
        /\ \A k \in 1..4 : y[h + k] = u[k]
    <3>1. Two(x, m, u, n4, y)
      BY <1>4, <1>7, <2>1, <2>2, <2>3 DEF Two
    <3>2. InTurn(x, m, u, n4, y)
      BY <3>1, JoinedAt
    <3> QED BY <2>3, <3>2 DEF InTurn
  <2> QED BY <2>2, <2>4
<1>9. /\ b \in Seq(FramedBytes) /\ Len(b) = h + 4 + L
      /\ \A k \in 1..h + 4 : b[k] = y[k]
      /\ \A k \in 1..L : b[h + 4 + k] = v[k]
  <2>1. PICK m \in Nat : m = h + 4
    BY <1>1
  <2>2. b = y \o v /\ L \in Nat
    BY <1>1, <1>6, <1>7, <1>8
  <2>3. PICK l, z : l = L /\ z = b
    OBVIOUS
  <2>4. /\ b \in Seq(FramedBytes) /\ Len(b) = m + L
        /\ \A k \in 1..m : b[k] = y[k]
        /\ \A k \in 1..L : b[m + k] = v[k]
    <3>1. Two(y, m, v, l, z)
      BY <1>5, <1>8, <2>1, <2>2, <2>3 DEF Two
    <3>2. InTurn(y, m, v, l, z)
      BY <3>1, JoinedAt
    <3> QED BY <2>3, <3>2 DEF InTurn
  <2> QED BY <2>1, <2>4
<1>10. \A k \in 1..h : b[k] = x[k]
  <2>1. \A k \in 1..h : k \in 1..h + 4
    BY <1>1
  <2> QED BY <1>8, <1>9, <2>1
<1>11. \A k \in 1..4 : b[h + k] = 10 * n + k
  <2>1. \A k \in 1..4 : h + k \in 1..h + 4
    <3>1. h \in Nat
      BY <1>1
    <3> QED BY <3>1
  <2> QED BY <1>4, <1>8, <1>9, <2>1
<1>12. (f.form = 7 /\ h = 2) \/ (f.form = 16 /\ h = 4) \/ (f.form = 64 /\ h = 10)
  BY <1>1 DEF HeadOf
<1>13. b[1] = f.op /\ b[2] = x[2]
  <2>1. 1 \in 1..h /\ 2 \in 1..h
    BY <1>12
  <2>2. x[1] = f.op
    BY <1>7
  <2> QED BY <1>10, <2>1, <2>2
<1>14. f.form = 16 => b[3] = x[3] /\ b[4] = x[4]
  BY <1>10, <1>12
<1>15. f.form = 64 => b[10] = x[10] /\ \A k \in 3..9 : b[k] = 0
  <2>1. ASSUME f.form = 64 PROVE \A k \in 3..9 : k \in 1..h /\ x[k] = 0
    <3>1. h = 10
      BY <1>12, <2>1
    <3>2. \A k \in 3..9 : k \in 1..h
      BY <3>1
    <3> QED BY <1>7, <2>1, <3>2
  <2>2. f.form = 64 => 10 \in 1..h
    BY <1>12
  <2> QED BY <1>10, <2>1, <2>2
<1>16. b # <<>>
  <2>1. Len(b) # 0
    <3>1. h \in Nat /\ L \in Nat
      BY <1>1
    <3>2. Len(b) = h + 4 + L
      BY <1>9
    <3> QED BY <3>1, <3>2
  <2>2. Len(<<>>) = 0
    BY EmptySeq
  <2> QED BY <2>1, <2>2
<1>17. /\ f.form = 7 => b[2][2] = L
       /\ f.form = 16 => b[2][2] = 126 /\ b[3] = 0 /\ b[4] = L
       /\ f.form = 64 => b[2][2] = 127 /\ b[10] = L
  <2>1. /\ f.form = 7 => x[2][2] = L
        /\ f.form = 16 => x[2][2] = 126 /\ x[3] = 0 /\ x[4] = L
        /\ f.form = 64 => x[2][2] = 127 /\ x[10] = L
    BY <1>7
  <2>2. /\ b[2] = x[2]
        /\ f.form = 16 => b[3] = x[3] /\ b[4] = x[4]
        /\ f.form = 64 => b[10] = x[10]
    BY <1>13, <1>14, <1>15
  <2> QED BY <2>1, <2>2
<1>18. \A k \in 1..L : b[h + 4 + k] = <<f.text[k], 10 * n + (((k - 1) % 4) + 1)>>
  BY <1>5, <1>9
<1> QED BY <1>9, <1>11, <1>13, <1>15, <1>16, <1>17, <1>18 DEF HasBytes

-----------------------------------------------------------------------------
(* Where the reader of frames is in a frame. *)

KeyRead(w, n) == \A x \in 1..Len(w.key) : w.key[x] = 10 * n + x
TextRead(w, f) == \A x \in 1..Len(w.text) : w.text[x] = f.text[x]

AtStart(w) == w.step = "start" /\ w.at = 0 /\ w.len = 0 /\ w.key = <<>>
AtLength(w, f) == w.step = "length" /\ w.at = 1 /\ w.len = 0 /\ w.key = <<>> /\ w.op = f.op
InShort(w, f) ==
  /\ w.step = "short_length" /\ f.form = 16 /\ w.at \in {2, 3}
  /\ w.len = 0 /\ w.key = <<>> /\ w.op = f.op
InExtended(w, f) ==
  /\ w.step = "extended_length" /\ f.form = 64 /\ w.at \in 2..9
  /\ w.len = 0 /\ w.key = <<>> /\ w.op = f.op
InKey(w, f, n) ==
  /\ w.step = "key" /\ Len(w.key) \in 0..3 /\ w.at = HeadOf(f) + Len(w.key)
  /\ w.len = Len(f.text) /\ KeyRead(w, n) /\ w.op = f.op
InData(w, f, n) ==
  /\ w.step = "data" /\ Len(w.text) < Len(f.text) /\ w.at = HeadOf(f) + 4 + Len(w.text)
  /\ w.len = Len(f.text) - Len(w.text) /\ Len(w.key) = 4 /\ KeyRead(w, n) /\ w.op = f.op
  /\ TextRead(w, f)

Place(w, f, n) ==
  /\ w \in WsState
  /\ \/ AtStart(w) \/ AtLength(w, f) \/ InShort(w, f) \/ InExtended(w, f)
     \/ InKey(w, f, n) \/ InData(w, f, n)

\* Goes
Gone(u) == [u EXCEPT !.at = @ + 1, !.offset = @ + 1]
StepsOn(w, v) == v.at = w.at + 1 /\ v.offset = w.offset + 1

\* What the steps at the beginning of a frame do, but for Goes.
Opened(w, x) == [w EXCEPT !.op = x, !.step = "length"]
Measured(w, x) ==
  CASE x[2] = 126 -> [w EXCEPT !.step = "short_length"]
    [] x[2] = 127 -> [w EXCEPT !.step = "extended_length"]
    [] OTHER -> [w EXCEPT !.step = "key", !.len = x[2]]

LEMMA WsTyped ==
  ASSUME NEW w \in WsState
  PROVE  /\ w.step \in Steps /\ w.op \in {"none", "text", "ping", "pong", "close"}
         /\ w.len \in Nat /\ w.key \in Seq(Nat) /\ w.text \in Seq(Tokens \cup {"?"})
         /\ w.at \in Nat /\ w.offset \in Nat /\ Len(w.key) \in Nat /\ Len(w.text) \in Nat
<1>1. /\ w.step \in Steps /\ w.op \in {"none", "text", "ping", "pong", "close"}
      /\ w.len \in Nat /\ w.key \in Seq(Nat) /\ w.text \in Seq(Tokens \cup {"?"})
      /\ w.at \in Nat /\ w.offset \in Nat
  BY DEF WsState
<1> QED BY <1>1, LenProperties

LEMMA GoneIs ==
  ASSUME NEW u \in WsState, NEW v, v = Gone(u)
  PROVE  /\ v \in WsState /\ StepsOn(u, v) /\ v.step = u.step /\ v.op = u.op
         /\ v.len = u.len /\ v.key = u.key /\ v.text = u.text
<1>1. PICK a \in Nat, q \in Nat : a = u.at /\ q = u.offset
  BY WsTyped
<1>2. PICK c \in Nat, d \in Nat : c = a + 1 /\ d = q + 1
  OBVIOUS
<1>3. Gone(u) = [[u EXCEPT !.at = c] EXCEPT !.offset = d]
  BY <1>1, <1>2 DEF Gone
<1>4. PICK x : x = [u EXCEPT !.at = c]
  OBVIOUS
<1>5. /\ x \in WsState /\ x.at = c /\ x.offset = q /\ x.step = u.step /\ x.op = u.op
      /\ x.len = u.len /\ x.key = u.key /\ x.text = u.text
  BY <1>1, <1>2, <1>4 DEF WsState
<1>6. v = [x EXCEPT !.offset = d]
  BY <1>3, <1>4
<1>7. /\ v \in WsState /\ v.at = c /\ v.offset = d /\ v.step = u.step /\ v.op = u.op
      /\ v.len = u.len /\ v.key = u.key /\ v.text = u.text
  BY <1>2, <1>5, <1>6 DEF WsState
<1> QED BY <1>1, <1>2, <1>7 DEF StepsOn

\* In a frame there is something to read.
LEMMA PlaceBefore ==
  ASSUME NEW f \in Frames, NEW n \in Nat, NEW w, Place(w, f, n), NEW b, b = FrameBytes(f, n)
  PROVE  /\ w.at \in Nat /\ w.at < Len(b) /\ b \in Seq(FramedBytes)
<1>1. PICK h, L : h = HeadOf(f) /\ L = Len(f.text)
  OBVIOUS
<1>2. h \in {2, 4, 10} /\ L \in Nat \ {0} /\ f.form \in {7, 16, 64}
  BY <1>1, FramesAre
<1>3. (f.form = 7 /\ h = 2) \/ (f.form = 16 /\ h = 4) \/ (f.form = 64 /\ h = 10)
  BY <1>1, <1>2 DEF HeadOf
<1>4. b \in Seq(FramedBytes) /\ Len(b) = h + 4 + L
  <2>1. HasBytes(b, f, n, h, L)
    BY <1>1, FrameIs
  <2> QED BY <2>1 DEF HasBytes
<1>5. w \in WsState /\ w.at \in Nat /\ Len(w.key) \in Nat /\ Len(w.text) \in Nat
  BY WsTyped DEF Place
<1>6. CASE AtStart(w) \/ AtLength(w, f) \/ InShort(w, f) \/ InExtended(w, f)
  <2>1. w.at <= 3 \/ (f.form = 64 /\ w.at <= 9)
    BY <1>5, <1>6 DEF AtStart, AtLength, InShort, InExtended
  <2>2. w.at < h + 4 + L
    BY <1>2, <1>3, <1>5, <2>1
  <2> QED BY <1>4, <1>5, <2>2
<1>7. CASE InKey(w, f, n)
  <2>1. PICK k \in 0..3 : w.at = h + k
    BY <1>1, <1>7 DEF InKey
  <2>2. h + k < h + 4 + L
    BY <1>2
  <2> QED BY <1>4, <1>5, <2>1, <2>2
<1>8. CASE InData(w, f, n)
  <2>1. PICK k \in Nat : w.at = h + 4 + k /\ k < L
    BY <1>1, <1>5, <1>8 DEF InData
  <2>2. h + 4 + k < h + 4 + L
    BY <1>2, <2>1
  <2> QED BY <1>4, <1>5, <2>1, <2>2
<1> QED BY <1>6, <1>7, <1>8 DEF Place

LEMMA StartPlace ==
  ASSUME NEW f \in Frames, NEW n \in Nat, NEW w, Place(w, f, n), w.step = "start",
         NEW b, b = FrameBytes(f, n), NEW x, x = b[w.at + 1],
         NEW v, v = Gone(Opened(w, x))
  PROVE  Place(v, f, n) /\ StepsOn(w, v)
<1>1. w \in WsState /\ AtStart(w)
  BY DEF Place, AtLength, InShort, InExtended, InKey, InData
<1>2. x = f.op /\ f.op \in Ops
  <2>1. b[1] = f.op
    <3>1. PICK h, L : h = HeadOf(f) /\ L = Len(f.text)
      OBVIOUS
    <3>2. HasBytes(b, f, n, h, L)
      BY <3>1, FrameIs
    <3> QED BY <3>2 DEF HasBytes
  <2>2. w.at + 1 = 1
    BY <1>1 DEF AtStart
  <2> QED BY <2>1, <2>2, FramesAre
<1>3. PICK u : u = Opened(w, x)
  OBVIOUS
<1>4. /\ u \in WsState /\ u.at = w.at /\ u.offset = w.offset /\ u.step = "length"
      /\ u.op = f.op /\ u.len = 0 /\ u.key = <<>>
  BY <1>1, <1>2, <1>3 DEF WsState, AtStart, Steps, Ops, Opened
<1>5. /\ v \in WsState /\ StepsOn(u, v) /\ v.step = "length" /\ v.op = f.op /\ v.len = 0
      /\ v.key = <<>>
  BY <1>3, <1>4, GoneIs
<1>6. StepsOn(w, v) /\ v.at = 1
  BY <1>1, <1>4, <1>5 DEF StepsOn, AtStart
<1> QED BY <1>5, <1>6 DEF Place, AtLength

LEMMA LengthPlace ==
  ASSUME NEW f \in Frames, NEW n \in Nat, NEW w, Place(w, f, n), w.step = "length",
         NEW b, b = FrameBytes(f, n), NEW x, x = b[w.at + 1],
         NEW v, v = Gone(Measured(w, x))
  PROVE  Place(v, f, n) /\ StepsOn(w, v)
<1>1. w \in WsState /\ AtLength(w, f)
  BY DEF Place, AtStart, InShort, InExtended, InKey, InData
<1>2. PICK L \in Nat \ {0} : L = Len(f.text) /\ (f.form = 7 => L <= 125)
  BY FramesAre
<1>3. PICK h : h = HeadOf(f) /\ f.form \in {7, 16, 64} /\ f.op \in Ops
  BY FramesAre
<1>4. x = b[2]
  BY <1>1 DEF AtLength
<1>5. /\ f.form = 7 => x[2] = L
      /\ f.form = 16 => x[2] = 126
      /\ f.form = 64 => x[2] = 127
  <2>1. HasBytes(b, f, n, h, L)
    BY <1>2, <1>3, FrameIs
  <2> QED BY <1>4, <2>1 DEF HasBytes
<1>6. CASE f.form = 7
  <2>1. PICK u : u = [w EXCEPT !.step = "key", !.len = L]
    OBVIOUS
  <2>2. x[2] = L /\ L # 126 /\ L # 127
    <3>1. L \in Nat /\ L <= 125
      BY <1>2, <1>6
    <3>2. L # 126 /\ L # 127
      BY <3>1
    <3> QED BY <1>5, <1>6, <3>2
  <2>3. v = Gone(u)
    BY <2>1, <2>2 DEF Measured
  <2>4. /\ u \in WsState /\ u.at = 1 /\ u.offset = w.offset /\ u.step = "key" /\ u.op = f.op
        /\ u.len = L /\ u.key = <<>>
    BY <1>1, <2>1 DEF WsState, AtLength, Steps
  <2>5. /\ v \in WsState /\ StepsOn(u, v) /\ v.step = "key" /\ v.op = f.op /\ v.len = L
        /\ v.key = <<>>
    BY <2>3, <2>4, GoneIs
  <2>6. v.at = 2 /\ StepsOn(w, v)
    BY <1>1, <2>4, <2>5 DEF StepsOn, AtLength
  <2>7. Len(v.key) = 0 /\ HeadOf(f) = 2
    BY <1>6, <2>5 DEF HeadOf
  <2>8. Len(v.key) \in 0..3 /\ v.at = HeadOf(f) + Len(v.key)
    BY <2>6, <2>7
  <2>9. KeyRead(v, n)
    <3>1. PICK j : j = Len(v.key) /\ j = 0
      BY <2>7
    <3> QED BY <3>1 DEF KeyRead
  <2> QED BY <1>2, <2>5, <2>6, <2>8, <2>9 DEF Place, InKey
<1>7. CASE f.form = 16
  <2>1. PICK u : u = [w EXCEPT !.step = "short_length"]
    OBVIOUS
  <2>2. v = Gone(u)
    BY <1>5, <1>7, <2>1 DEF Measured
  <2>4. /\ u \in WsState /\ u.at = 1 /\ u.offset = w.offset /\ u.step = "short_length" /\ u.op = f.op
        /\ u.len = 0 /\ u.key = <<>>
    BY <1>1, <2>1 DEF WsState, AtLength, Steps
  <2>5. /\ v \in WsState /\ StepsOn(u, v) /\ v.step = "short_length" /\ v.op = f.op /\ v.len = 0
        /\ v.key = <<>>
    BY <2>2, <2>4, GoneIs
  <2>6. v.at = 2 /\ StepsOn(w, v)
    BY <1>1, <2>4, <2>5 DEF StepsOn, AtLength
  <2> QED BY <1>7, <2>5, <2>6 DEF Place, InShort
<1>8. CASE f.form = 64
  <2>1. PICK u : u = [w EXCEPT !.step = "extended_length"]
    OBVIOUS
  <2>2. v = Gone(u)
    BY <1>5, <1>8, <2>1 DEF Measured
  <2>4. /\ u \in WsState /\ u.at = 1 /\ u.offset = w.offset /\ u.step = "extended_length"
        /\ u.op = f.op /\ u.len = 0 /\ u.key = <<>>
    BY <1>1, <2>1 DEF WsState, AtLength, Steps
  <2>5. /\ v \in WsState /\ StepsOn(u, v) /\ v.step = "extended_length" /\ v.op = f.op /\ v.len = 0
        /\ v.key = <<>>
    BY <2>2, <2>4, GoneIs
  <2>6. v.at = 2 /\ StepsOn(w, v)
    BY <1>1, <2>4, <2>5 DEF StepsOn, AtLength
  <2> QED BY <1>8, <2>5, <2>6 DEF Place, InExtended
<1> QED BY <1>3, <1>6, <1>7, <1>8

\* The same in the middle of a frame.
Shortened(w, x) ==
  [w EXCEPT !.len = @ * 256 + x, !.step = IF w.at = 3 THEN "key" ELSE @]
Extended(w, x) ==
  [w EXCEPT !.len = IF w.at < 6 THEN @ ELSE @ * 256 + x, !.step = IF w.at = 9 THEN "key" ELSE @]
KeyRest(w, k) ==
  [w EXCEPT !.key = k, !.text = <<>>, !.step = IF Len(k) = 4 THEN "data" ELSE @]
DataRest(w, t) == [w EXCEPT !.text = t, !.len = @ - 1]

\* A length and a step are set.
LenAndStep(w, l, s) == [w EXCEPT !.len = l, !.step = s]

LEMMA LengthSet ==
  ASSUME NEW w \in WsState, NEW l \in Nat, NEW s \in Steps, NEW u,
         u = LenAndStep(w, l, s)
  PROVE  /\ u \in WsState /\ u.at = w.at /\ u.offset = w.offset /\ u.step = s /\ u.op = w.op
         /\ u.len = l /\ u.key = w.key /\ u.text = w.text
BY DEF WsState, LenAndStep

LEMMA ShortPlace ==
  ASSUME NEW f \in Frames, NEW n \in Nat, NEW w, Place(w, f, n), w.step = "short_length",
         NEW b, b = FrameBytes(f, n), NEW x, x = b[w.at + 1],
         NEW v, v = Gone(Shortened(w, x))
  PROVE  Place(v, f, n) /\ StepsOn(w, v)
<1>1. w \in WsState /\ InShort(w, f)
  BY DEF Place, AtStart, AtLength, InExtended, InKey, InData
<1>2. PICK L \in Nat : L = Len(f.text)
  BY FramesAre
<1>3. PICK h : h = HeadOf(f)
  OBVIOUS
<1>4. b[3] = 0 /\ b[4] = L /\ h = 4
  <2>1. HasBytes(b, f, n, h, L)
    BY <1>2, <1>3, FrameIs
  <2> QED BY <1>1, <1>3, <2>1 DEF HasBytes, InShort, HeadOf
<1>5. PICK u : u = Shortened(w, x)
  OBVIOUS
<1>6. CASE w.at = 2
  <2>1. x = 0
    <3>1. w.at + 1 = 3
      BY <1>6
    <3> QED BY <1>4, <3>1
  <2>2. u = LenAndStep(w, 0, "short_length")
    <3>1. w.len * 256 + x = 0 /\ w.step = "short_length" /\ w.at # 3
      BY <1>1, <1>6, <2>1 DEF InShort
    <3> QED BY <1>1, <1>5, <1>6, <3>1 DEF Shortened, LenAndStep, WsState
  <2>3. /\ u \in WsState /\ u.at = 2 /\ u.offset = w.offset /\ u.step = "short_length"
        /\ u.op = f.op /\ u.len = 0 /\ u.key = <<>>
    <3>1. "short_length" \in Steps
      BY DEF Steps
    <3>2. /\ u \in WsState /\ u.at = w.at /\ u.offset = w.offset /\ u.step = "short_length" /\ u.op = w.op
          /\ u.len = 0 /\ u.key = w.key
      BY <1>1, <2>2, <3>1, LengthSet
    <3> QED BY <1>1, <1>6, <3>2 DEF InShort
  <2>4. /\ v \in WsState /\ StepsOn(u, v) /\ v.step = "short_length" /\ v.op = f.op
        /\ v.len = 0 /\ v.key = <<>>
    BY <1>5, <2>3, GoneIs
  <2>5. StepsOn(w, v) /\ v.at = 3
    BY <1>6, <2>3, <2>4 DEF StepsOn
  <2> QED BY <1>1, <2>4, <2>5 DEF Place, InShort
<1>7. CASE w.at = 3
  <2>1. x = L
    <3>1. w.at + 1 = 4
      BY <1>7
    <3> QED BY <1>4, <3>1
  <2>2. u = LenAndStep(w, L, "key")
    <3>1. w.len * 256 + x = L
      BY <1>1, <1>2, <2>1 DEF InShort
    <3> QED BY <1>1, <1>5, <1>7, <3>1 DEF Shortened, LenAndStep, WsState
  <2>3. /\ u \in WsState /\ u.at = 3 /\ u.offset = w.offset /\ u.step = "key" /\ u.op = f.op
        /\ u.len = L /\ u.key = <<>>
    <3>1. "key" \in Steps
      BY DEF Steps
    <3>2. /\ u \in WsState /\ u.at = w.at /\ u.offset = w.offset /\ u.step = "key" /\ u.op = w.op
          /\ u.len = L /\ u.key = w.key
      BY <1>1, <1>2, <2>2, <3>1, LengthSet
    <3> QED BY <1>1, <1>7, <3>2 DEF InShort
  <2>4. /\ v \in WsState /\ StepsOn(u, v) /\ v.step = "key" /\ v.op = f.op
        /\ v.len = L /\ v.key = <<>>
    BY <1>5, <2>3, GoneIs
  <2>5. StepsOn(w, v) /\ v.at = 4
    BY <1>7, <2>3, <2>4 DEF StepsOn
  <2>6. Len(v.key) = 0
    BY <2>4
  <2>7. Len(v.key) \in 0..3 /\ v.at = HeadOf(f) + Len(v.key)
    BY <1>3, <1>4, <2>5, <2>6
  <2>8. KeyRead(v, n)
    <3>1. PICK j : j = Len(v.key) /\ j = 0
      BY <2>6
    <3> QED BY <3>1 DEF KeyRead
  <2> QED BY <1>2, <2>4, <2>5, <2>7, <2>8 DEF Place, InKey
<1> QED BY <1>1, <1>6, <1>7 DEF InShort

LEMMA ExtendedPlace ==
  ASSUME NEW f \in Frames, NEW n \in Nat, NEW w, Place(w, f, n), w.step = "extended_length",
         NEW b, b = FrameBytes(f, n), NEW x, x = b[w.at + 1],
         NEW v, v = Gone(Extended(w, x))
  PROVE  Place(v, f, n) /\ StepsOn(w, v)
<1>1. w \in WsState /\ InExtended(w, f)
  BY DEF Place, AtStart, AtLength, InShort, InKey, InData
<1>2. PICK L \in Nat : L = Len(f.text)
  BY FramesAre
<1>3. PICK h : h = HeadOf(f)
  OBVIOUS
<1>4. (\A k \in 3..9 : b[k] = 0) /\ b[10] = L /\ h = 10
  <2>1. HasBytes(b, f, n, h, L)
    BY <1>2, <1>3, FrameIs
  <2> QED BY <1>1, <1>3, <2>1 DEF HasBytes, InExtended, HeadOf
<1>5. PICK u : u = Extended(w, x)
  OBVIOUS
<1>6. CASE w.at \in 2..8
  <2>1. x = 0
    <3>1. PICK k \in 3..9 : k = w.at + 1
      BY <1>6
    <3> QED BY <1>4, <3>1
  <2>2. u = LenAndStep(w, 0, "extended_length")
    <3>1. w.len = 0 /\ w.len * 256 + x = 0 /\ w.step = "extended_length" /\ w.at # 9
      BY <1>1, <1>6, <2>1 DEF InExtended
    <3>2. (IF w.at < 6 THEN w.len ELSE w.len * 256 + x) = 0
      BY <3>1
    <3> QED BY <1>1, <1>5, <3>1, <3>2 DEF Extended, LenAndStep, WsState
  <2>3. /\ u \in WsState /\ u.at = w.at /\ u.offset = w.offset /\ u.step = "extended_length"
        /\ u.op = f.op /\ u.len = 0 /\ u.key = <<>>
    <3>1. "extended_length" \in Steps
      BY DEF Steps
    <3>2. /\ u \in WsState /\ u.at = w.at /\ u.offset = w.offset /\ u.step = "extended_length" /\ u.op = w.op
          /\ u.len = 0 /\ u.key = w.key
      BY <1>1, <2>2, <3>1, LengthSet
    <3> QED BY <1>1, <1>6, <3>2 DEF InExtended
  <2>4. /\ v \in WsState /\ StepsOn(u, v) /\ v.step = "extended_length" /\ v.op = f.op
        /\ v.len = 0 /\ v.key = <<>>
    BY <1>5, <2>3, GoneIs
  <2>5. StepsOn(w, v) /\ v.at = w.at + 1
    BY <2>3, <2>4 DEF StepsOn
  <2>6. v.at \in 2..9
    BY <1>6, <2>5
  <2> QED BY <1>1, <2>4, <2>5, <2>6 DEF Place, InExtended
<1>7. CASE w.at = 9
  <2>1. x = L
    <3>1. w.at + 1 = 10
      BY <1>7
    <3> QED BY <1>4, <3>1
  <2>2. u = LenAndStep(w, L, "key")
    <3>1. w.len * 256 + x = L /\ ~(w.at < 6)
      BY <1>1, <1>2, <1>7, <2>1 DEF InExtended
    <3> QED BY <1>1, <1>5, <1>7, <3>1 DEF Extended, LenAndStep, WsState
  <2>3. /\ u \in WsState /\ u.at = 9 /\ u.offset = w.offset /\ u.step = "key" /\ u.op = f.op
        /\ u.len = L /\ u.key = <<>>
    <3>1. "key" \in Steps
      BY DEF Steps
    <3>2. /\ u \in WsState /\ u.at = w.at /\ u.offset = w.offset /\ u.step = "key" /\ u.op = w.op
          /\ u.len = L /\ u.key = w.key
      BY <1>1, <1>2, <2>2, <3>1, LengthSet
    <3> QED BY <1>1, <1>7, <3>2 DEF InExtended
  <2>4. /\ v \in WsState /\ StepsOn(u, v) /\ v.step = "key" /\ v.op = f.op
        /\ v.len = L /\ v.key = <<>>
    BY <1>5, <2>3, GoneIs
  <2>5. StepsOn(w, v) /\ v.at = 10
    BY <1>7, <2>3, <2>4 DEF StepsOn
  <2>6. Len(v.key) = 0
    BY <2>4
  <2>7. Len(v.key) \in 0..3 /\ v.at = HeadOf(f) + Len(v.key)
    BY <1>3, <1>4, <2>5, <2>6
  <2>8. KeyRead(v, n)
    <3>1. PICK j : j = Len(v.key) /\ j = 0
      BY <2>6
    <3> QED BY <3>1 DEF KeyRead
  <2> QED BY <1>2, <2>4, <2>5, <2>7, <2>8 DEF Place, InKey
<1> QED BY <1>1, <1>6, <1>7 DEF InExtended

\* The key.
LEMMA KeyPlace ==
  ASSUME NEW f \in Frames, NEW n \in Nat, NEW w, Place(w, f, n), w.step = "key",
         NEW b, b = FrameBytes(f, n), NEW x, x = b[w.at + 1],
         NEW k, k = Append(w.key, x), NEW v, v = Gone(KeyRest(w, k))
  PROVE  Place(v, f, n) /\ StepsOn(w, v)
<1>1. w \in WsState /\ InKey(w, f, n)
  BY DEF Place, AtStart, AtLength, InShort, InExtended, InData
<1>2. PICK L \in Nat \ {0} : L = Len(f.text)
  BY FramesAre
<1>3. PICK h \in Nat : h = HeadOf(f)
  BY FramesAre
<1>4. PICK j \in 0..3 : j = Len(w.key) /\ w.at = h + j /\ w.len = L /\ w.op = f.op
  BY <1>1, <1>2, <1>3 DEF InKey
<1>5. w.key \in Seq(Nat) /\ w.offset \in Nat /\ \A y \in 1..j : w.key[y] = 10 * n + y
  BY <1>1, <1>4, WsTyped DEF InKey, KeyRead
<1>6. PICK m \in 1..4 : m = j + 1
  OBVIOUS
<1>7. x = 10 * n + m
  <2>1. HasBytes(b, f, n, h, L)
    BY <1>2, <1>3, FrameIs
  <2>2. w.at + 1 = h + m
    BY <1>4, <1>6
  <2>3. b[h + m] = 10 * n + m
    BY <2>1 DEF HasBytes
  <2> QED BY <2>2, <2>3
<1>8. k \in Seq(Nat) /\ Len(k) = m /\ \A y \in 1..m : k[y] = 10 * n + y
  <2>1. x \in Nat
    BY <1>7
  <2>2. /\ k \in Seq(Nat) /\ Len(k) = j + 1 /\ k[j + 1] = x
        /\ \A y \in 1..j : k[y] = w.key[y]
    BY <1>4, <1>5, <2>1, AppendProperties
  <2>3. ASSUME NEW y \in 1..m PROVE k[y] = 10 * n + y
    <3>1. CASE y = m
      BY <1>6, <1>7, <2>2, <3>1
    <3>2. CASE y \in 1..j
      BY <1>5, <2>2, <3>2
    <3>3. y = m \/ y \in 1..j
      BY <1>6
    <3> QED BY <3>1, <3>2, <3>3
  <2> QED BY <1>6, <2>2, <2>3
<1>9. PICK s \in {"key", "data"} : s = IF m = 4 THEN "data" ELSE "key"
  OBVIOUS
<1>10. PICK u : u = KeyRest(w, k)
  OBVIOUS
<1>11. /\ u \in WsState /\ u.at = w.at /\ u.offset = w.offset /\ u.step = s /\ u.op = f.op
       /\ u.len = L /\ u.key = k /\ u.text = <<>>
  <2>1. u = [[[w EXCEPT !.key = k] EXCEPT !.text = <<>>] EXCEPT !.step = s]
    <3>1. w.step = "key"
      OBVIOUS
    <3>2. (IF Len(k) = 4 THEN "data" ELSE w.step) = s
      BY <1>8, <1>9
    <3> QED BY <1>1, <1>10, <3>2 DEF KeyRest, WsState
  <2>2. PICK p : p = [w EXCEPT !.key = k]
    OBVIOUS
  <2>3. /\ p \in WsState /\ p.at = w.at /\ p.offset = w.offset /\ p.op = f.op
        /\ p.len = L /\ p.key = k
    BY <1>1, <1>4, <1>8, <2>2 DEF WsState
  <2>0. PICK e : e = <<>> /\ e \in Seq(Tokens \cup {"?"})
    <3>1. PICK T : T = Tokens \cup {"?"}
      OBVIOUS
    <3>2. <<>> \in Seq(T)
      OBVIOUS
    <3> QED BY <3>1, <3>2
  <2>4. PICK q : q = [p EXCEPT !.text = e]
    OBVIOUS
  <2>5. /\ q \in WsState /\ q.at = w.at /\ q.offset = w.offset /\ q.op = f.op
        /\ q.len = L /\ q.key = k /\ q.text = <<>>
    BY <2>0, <2>3, <2>4 DEF WsState
  <2>6. u = [q EXCEPT !.step = s] /\ s \in Steps
    BY <1>9, <2>0, <2>1, <2>2, <2>4 DEF Steps
  <2> QED BY <2>5, <2>6 DEF WsState
<1>12. /\ v \in WsState /\ StepsOn(u, v) /\ v.step = s /\ v.op = f.op /\ v.len = L
       /\ v.key = k /\ v.text = <<>>
  BY <1>10, <1>11, GoneIs
<1>13. StepsOn(w, v) /\ v.at = h + m
  BY <1>4, <1>6, <1>11, <1>12 DEF StepsOn
<1>14. KeyRead(v, n)
  BY <1>8, <1>12 DEF KeyRead
<1>15. CASE m = 4
  <2>1. Len(v.text) = 0 /\ Len(v.key) = 4
    BY <1>8, <1>12, <1>15
  <2>2. /\ Len(v.text) < Len(f.text) /\ v.at = HeadOf(f) + 4 + Len(v.text)
        /\ v.len = Len(f.text) - Len(v.text)
    BY <1>2, <1>3, <1>12, <1>13, <1>15, <2>1
  <2>3. TextRead(v, f)
    <3>1. PICK i0 : i0 = Len(v.text) /\ i0 = 0
      BY <2>1
    <3> QED BY <3>1 DEF TextRead
  <2> QED BY <1>9, <1>12, <1>13, <1>14, <1>15, <2>1, <2>2, <2>3 DEF Place, InData
<1>16. CASE m # 4
  <2>1. Len(v.key) \in 0..3 /\ v.at = HeadOf(f) + Len(v.key)
    BY <1>3, <1>8, <1>12, <1>13, <1>16
  <2> QED BY <1>2, <1>9, <1>12, <1>13, <1>14, <1>16, <2>1 DEF Place, InKey
<1> QED BY <1>15, <1>16

LEMMA FourMasks ==
  ASSUME NEW m \in Nat
  PROVE  (m % 4) + 1 \in 1..4
<1>1. m % 4 \in 0..3
  OBVIOUS
<1>2. PICK r \in 0..3 : r = m % 4
  BY <1>1
<1>3. r + 1 \in 1..4
  OBVIOUS
<1> QED BY <1>2, <1>3

\* A byte of the text is unmasked after m of L.
Unmasks(w, f, n, b, t, h, L, m) ==
  /\ w \in WsState /\ InData(w, f, n) /\ L \in Nat /\ h \in Nat /\ m \in Nat
  /\ m < L /\ w.at = h + 4 + m /\ w.len = L - m /\ Len(b) = h + 4 + L
  /\ t \in Seq(Tokens \cup {"?"}) /\ Len(t) = m + 1
  /\ \A y \in 1..m + 1 : t[y] = f.text[y]

LEMMA Unmasking ==
  ASSUME NEW f \in Frames, NEW n \in Nat, NEW w, Place(w, f, n), w.step = "data",
         NEW b, b = FrameBytes(f, n), NEW x, x = b[w.at + 1],
         NEW L, L = Len(f.text), NEW h, h = HeadOf(f), NEW m, m = Len(w.text),
         NEW t, t = Append(w.text, Unmasked(x, w.key, m))
  PROVE  Unmasks(w, f, n, b, t, h, L, m)
<1>1. w \in WsState /\ InData(w, f, n)
  BY DEF Place, AtStart, AtLength, InShort, InExtended, InKey
<1>2. L \in Nat /\ h \in Nat /\ m \in Nat /\ f.text \in Seq(Tokens)
  <2>1. f.text \in Seq(Tokens) /\ Len(f.text) \in Nat
    BY FramesAre
  <2>2. HeadOf(f) \in {2, 4, 10}
    BY FramesAre
  <2>3. Len(w.text) \in Nat
    BY <1>1, WsTyped
  <2> QED BY <2>1, <2>2, <2>3
<1>3. m < L /\ w.at = h + 4 + m /\ w.len = L - m /\ Len(w.key) = 4
  BY <1>1 DEF InData
<1>4. HasBytes(b, f, n, h, L)
  BY FrameIs
<1>5. PICK k \in 1..L : k = m + 1 /\ k - 1 = m
  BY <1>2, <1>3
<1>6. PICK j \in 1..4 : j = (m % 4) + 1
  <2>1. PICK z \in Nat : z = m
    BY <1>2
  <2>2. (z % 4) + 1 \in 1..4
    BY FourMasks
  <2> QED BY <2>1, <2>2
<1>7. x = <<f.text[k], 10 * n + j>>
  <2>1. w.at + 1 = h + 4 + k
    BY <1>2, <1>3, <1>5
  <2>2. b[h + 4 + k] = <<f.text[k], 10 * n + (((k - 1) % 4) + 1)>>
    BY <1>4 DEF HasBytes
  <2>3. ((k - 1) % 4) + 1 = j
    BY <1>5, <1>6
  <2> QED BY <2>1, <2>2, <2>3
<1>8. w.key[j] = 10 * n + j
  <2>1. \A y \in 1..4 : w.key[y] = 10 * n + y
    BY <1>1, <1>3 DEF InData, KeyRead
  <2> QED BY <2>1
<1>9. PICK a \in Tokens : a = f.text[k]
  BY <1>2, ElementOfSeq
<1>10. Unmasked(x, w.key, m) = a
  <2>1. x[2] = 10 * n + j /\ x[1] = a
    BY <1>7, <1>9
  <2> QED BY <1>6, <1>8, <2>1 DEF Unmasked
<1>11. /\ t \in Seq(Tokens \cup {"?"}) /\ Len(t) = m + 1 /\ t[m + 1] = a
       /\ \A y \in 1..m : t[y] = w.text[y]
  <2>1. PICK T : T = Tokens \cup {"?"} /\ w.text \in Seq(T) /\ a \in T
    BY <1>1, WsTyped
  <2>2. t = Append(w.text, a)
    BY <1>10
  <2> QED BY <2>1, <2>2, AppendProperties
<1>12. ASSUME NEW y \in 1..m + 1 PROVE t[y] = f.text[y]
  <2>1. CASE y = m + 1
    BY <1>5, <1>9, <1>11, <2>1
  <2>2. CASE y \in 1..m
    BY <1>1, <1>11, <2>2 DEF InData, TextRead
  <2> QED BY <1>2, <2>1, <2>2
<1> QED BY <1>1, <1>2, <1>3, <1>4, <1>11, <1>12 DEF HasBytes, Unmasks

LEMMA DataPlace ==
  ASSUME NEW f \in Frames, NEW n \in Nat, NEW w, Place(w, f, n), w.step = "data", w.len # 1,
         NEW b, b = FrameBytes(f, n), NEW x, x = b[w.at + 1],
         NEW t, t = Append(w.text, Unmasked(x, w.key, Len(w.text))),
         NEW v, v = Gone(DataRest(w, t))
  PROVE  Place(v, f, n) /\ StepsOn(w, v)
<1>1. PICK L, h, m : L = Len(f.text) /\ h = HeadOf(f) /\ m = Len(w.text)
  OBVIOUS
<1>2. /\ w \in WsState /\ InData(w, f, n) /\ L \in Nat /\ h \in Nat /\ m \in Nat
      /\ m < L /\ w.at = h + 4 + m /\ w.len = L - m
      /\ t \in Seq(Tokens \cup {"?"}) /\ Len(t) = m + 1
      /\ \A y \in 1..m + 1 : t[y] = f.text[y]
  <2>1. t = Append(w.text, Unmasked(x, w.key, m))
    BY <1>1
  <2>2. Unmasks(w, f, n, b, t, h, L, m)
    BY <1>1, <2>1, Unmasking
  <2> QED BY <2>2 DEF Unmasks
<1>3. PICK l \in Nat : l = w.len - 1 /\ l = L - (m + 1) /\ m + 1 < L
  BY <1>2
<1>4. PICK u : u = DataRest(w, t)
  OBVIOUS
<1>5. /\ u \in WsState /\ u.at = w.at /\ u.offset = w.offset /\ u.step = "data" /\ u.op = w.op
      /\ u.len = l /\ u.key = w.key /\ u.text = t
  <2>1. PICK p : p = [w EXCEPT !.text = t]
    OBVIOUS
  <2>2. /\ p \in WsState /\ p.at = w.at /\ p.offset = w.offset /\ p.step = w.step /\ p.op = w.op
        /\ p.len = w.len /\ p.key = w.key /\ p.text = t
    BY <1>2, <2>1 DEF WsState
  <2>3. u = [p EXCEPT !.len = l]
    BY <1>2, <1>3, <1>4, <2>1 DEF DataRest, WsState
  <2> QED BY <2>2, <2>3 DEF WsState
<1>6. /\ v \in WsState /\ StepsOn(u, v) /\ v.step = "data" /\ v.op = w.op /\ v.len = l
      /\ v.key = w.key /\ v.text = t
  BY <1>4, <1>5, GoneIs
<1>7. StepsOn(w, v) /\ v.at = h + 4 + (m + 1)
  BY <1>2, <1>5, <1>6 DEF StepsOn
<1>8. /\ Len(v.text) < Len(f.text) /\ v.at = HeadOf(f) + 4 + Len(v.text)
      /\ v.len = Len(f.text) - Len(v.text)
  BY <1>1, <1>2, <1>3, <1>6, <1>7
<1>9. Len(v.key) = 4 /\ KeyRead(v, n) /\ v.op = f.op
  BY <1>2, <1>6 DEF InData, KeyRead
<1>10. TextRead(v, f)
  BY <1>2, <1>6 DEF TextRead
<1> QED BY <1>6, <1>7, <1>8, <1>9, <1>10 DEF Place, InData

\* The last byte of a frame.
LastOf(w, f, n, b, x, t) ==
  /\ f \in Frames /\ n \in Nat /\ Place(w, f, n) /\ w.step = "data" /\ w.len = 1
  /\ b = FrameBytes(f, n) /\ x = b[w.at + 1]
  /\ t = Append(w.text, Unmasked(x, w.key, Len(w.text)))
LastIs(w, f, b, t) ==
  /\ t = f.text /\ w.op = f.op /\ w.at + 1 = Len(b) /\ w \in WsState
  /\ t \in Seq(Tokens \cup {"?"})

LEMMA LastByteIs ==
  ASSUME NEW w, NEW f, NEW n, NEW b, NEW x, NEW t, LastOf(w, f, n, b, x, t)
  PROVE  LastIs(w, f, b, t)
<1> SUFFICES ASSUME f \in Frames, n \in Nat, Place(w, f, n), w.step = "data", w.len = 1,
                    b = FrameBytes(f, n), x = b[w.at + 1],
                    t = Append(w.text, Unmasked(x, w.key, Len(w.text)))
             PROVE  LastIs(w, f, b, t)
  BY DEF LastOf
<1>1. PICK L, h, m : L = Len(f.text) /\ h = HeadOf(f) /\ m = Len(w.text)
  OBVIOUS
<1>2. /\ w \in WsState /\ InData(w, f, n) /\ L \in Nat /\ h \in Nat /\ m \in Nat
      /\ m < L /\ w.at = h + 4 + m /\ w.len = L - m /\ Len(b) = h + 4 + L
      /\ t \in Seq(Tokens \cup {"?"}) /\ Len(t) = m + 1
      /\ \A y \in 1..m + 1 : t[y] = f.text[y]
  <2>1. t = Append(w.text, Unmasked(x, w.key, m))
    BY <1>1
  <2>2. Unmasks(w, f, n, b, t, h, L, m)
    BY <1>1, <2>1, Unmasking
  <2> QED BY <2>2 DEF Unmasks
<1>3. m + 1 = L
  BY <1>2
<1>4. w.at + 1 = Len(b)
  BY <1>2, <1>3
<1>5. t = f.text
  <2>1. PICK T : T = Tokens \cup {"?"}
    OBVIOUS
  <2>2. PICK s \in Seq(T) : s = f.text
    <3>1. f.text \in Seq(Tokens)
      BY FramesAre
    <3>2. PICK s : s = f.text
      OBVIOUS
    <3>3. \A y \in 1..Len(s) : s[y] \in T
      BY <2>1, <3>1, <3>2, ElementOfSeq
    <3>4. s = [y \in 1..Len(s) |-> s[y]] /\ Len(s) \in Nat
      BY <3>1, <3>2, LenProperties
    <3>5. s \in Seq(T)
      BY <3>3, <3>4, SeqDef
    <3> QED BY <3>2, <3>5
  <2>3. t \in Seq(T) /\ Len(s) = L /\ Len(t) = L /\ \A y \in 1..L : t[y] = s[y]
    BY <1>1, <1>2, <1>3, <2>1, <2>2
  <2>4. t = s
    BY <2>3, SeqEqual
  <2> QED BY <2>2, <2>4
<1> QED BY <1>2, <1>4, <1>5 DEF InData, LastIs

-----------------------------------------------------------------------------
(* Frames in packets, and in data_in. *)

\* q holds the frames that follow the first g.
Lists(q, fs, g) ==
  /\ q \in Seq(Seq(FramedBytes)) /\ g \in Nat /\ fs \in Seq(Frames)
  /\ \A n \in 1..Len(q) : g + n \in 1..Len(fs) /\ q[n] = FrameBytes(fs[g + n], g + n)

\* From position o of d on there is what follows position a of a frame, then r.
Ahead(d, o, b, a, r) ==
  /\ d \in Seq(FramedBytes) /\ b \in Seq(FramedBytes) /\ r \in Seq(FramedBytes)
  /\ o \in Nat /\ a \in Nat /\ From(d, o + 1) = From(b, a + 1) \o r

After1(q, m) == FlattenSeq(From(q, m + 1))

LEMMA AheadStep ==
  ASSUME NEW d, NEW o, NEW b, NEW a, NEW r, Ahead(d, o, b, a, r), a < Len(b)
  PROVE  /\ o < Len(d) /\ d[o + 1] = b[a + 1] /\ d[o + 1] \in FramedBytes
         /\ Ahead(d, o + 1, b, a + 1, r)
<1>1. /\ d \in Seq(FramedBytes) /\ b \in Seq(FramedBytes) /\ r \in Seq(FramedBytes)
      /\ o \in Nat /\ a \in Nat /\ From(d, o + 1) = From(b, a + 1) \o r
      /\ Len(d) \in Nat /\ Len(b) \in Nat
  BY LenProperties DEF Ahead
<1>2. PICK k \in Nat \ {0} : k = o + 1
  BY <1>1
<1>3. PICK j \in Nat \ {0} : j = a + 1 /\ j <= Len(b)
  BY <1>1
<1>4. /\ From(b, j) \o r = Before(b[j], From(b, j + 1) \o r) /\ b[j] \in FramedBytes
  <2>1. b \in Seq(FramedBytes) /\ r \in Seq(FramedBytes) /\ j <= Len(b)
    BY <1>1, <1>3
  <2> QED BY <2>1, RestStep
<1>5. PICK x \in FramedBytes, s \in Seq(FramedBytes) : x = b[j] /\ s = From(b, j + 1) \o r
  <2>1. PICK j2 \in Nat \ {0} : j2 = j + 1
    OBVIOUS
  <2>2. From(b, j2) \o r \in Seq(FramedBytes)
    BY <1>1, RestStep
  <2> QED BY <1>4, <2>1, <2>2
<1>6. From(d, k) = Before(x, s)
  BY <1>1, <1>2, <1>3, <1>4, <1>5
<1>7. k <= Len(d)
  <2>1. Before(x, s) # <<>>
    BY BeforeSome
  <2> QED BY <1>1, <1>6, <2>1, FromEmpty
<1>8. From(d, k) = <<d[k]>> \o From(d, k + 1) /\ d[k] \in FramedBytes
  BY <1>1, <1>7, FromStep
<1>9. PICK y \in FramedBytes, t \in Seq(FramedBytes) : y = d[k] /\ t = From(d, k + 1)
  <2>1. From(d, k + 1) \in Seq(FramedBytes)
    BY <1>1, FromTyped
  <2> QED BY <1>8, <2>1
<1>10. Before(y, t) = Before(x, s)
  BY <1>6, <1>8, <1>9 DEF Before
<1>11. y = x /\ t = s
  BY <1>10, BeforeEqual
<1>12. o < Len(d)
  BY <1>1, <1>2, <1>7
<1>13. Ahead(d, k, b, j, r)
  BY <1>1, <1>5, <1>9, <1>11 DEF Ahead
<1> QED BY <1>2, <1>3, <1>5, <1>9, <1>11, <1>12, <1>13

\* At the end of a frame there is the rest.
LEMMA AheadEnd ==
  ASSUME NEW d, NEW o, NEW b, NEW a, NEW r, Ahead(d, o, b, a, r), a = Len(b)
  PROVE  From(d, o + 1) = r /\ (r = <<>> <=> o >= Len(d))
<1>1. /\ d \in Seq(FramedBytes) /\ b \in Seq(FramedBytes) /\ r \in Seq(FramedBytes)
      /\ o \in Nat /\ a \in Nat /\ From(d, o + 1) = From(b, a + 1) \o r
      /\ Len(d) \in Nat /\ Len(b) \in Nat
  BY LenProperties DEF Ahead
<1>2. PICK k \in Nat \ {0} : k = o + 1
  BY <1>1
<1>3. PICK j \in Nat \ {0} : j = a + 1 /\ j > Len(b)
  BY <1>1
<1>4. From(b, j) \o r = r
  BY <1>1, <1>3, RestStep
<1>5. From(d, k) = r
  BY <1>1, <1>2, <1>3, <1>4
<1>6. From(d, k) = <<>> <=> k > Len(d)
  BY <1>1, FromEmpty
<1>7. k > Len(d) <=> o >= Len(d)
  BY <1>1, <1>2
<1> QED BY <1>2, <1>5, <1>6, <1>7

LEMMA ListedFrame ==
  ASSUME NEW q, NEW fs, NEW g, Lists(q, fs, g), NEW m \in 1..Len(q)
  PROVE  /\ fs[g + m] \in Frames /\ g + m \in Nat /\ g + m \in 1..Len(fs)
         /\ q[m] = FrameBytes(fs[g + m], g + m)
         /\ q[m] \in Seq(FramedBytes) /\ q[m] # <<>>
<1>1. /\ q \in Seq(Seq(FramedBytes)) /\ g \in Nat /\ fs \in Seq(Frames)
      /\ g + m \in 1..Len(fs) /\ q[m] = FrameBytes(fs[g + m], g + m)
  BY DEF Lists
<1>2. PICK k : k = g + m /\ k \in Nat /\ k \in 1..Len(fs)
  BY <1>1, LenProperties
<1>3. fs[k] \in Frames
  BY <1>1, <1>2, ElementOfSeq
<1>4. PICK f \in Frames : f = fs[k]
  BY <1>3
<1>5. PICK b, h, L : b = FrameBytes(f, k) /\ h = HeadOf(f) /\ L = Len(f.text)
  OBVIOUS
<1>6. HasBytes(b, f, k, h, L)
  BY <1>2, <1>5, FrameIs
<1>7. b \in Seq(FramedBytes) /\ b # <<>>
  BY <1>6 DEF HasBytes
<1> QED BY <1>1, <1>2, <1>4, <1>5, <1>7

\* The frames of a buffer from one on.
LEMMA BufferStep ==
  ASSUME NEW q, NEW fs, NEW g, Lists(q, fs, g), NEW m \in 0..Len(q)
  PROVE  /\ After1(q, m) \in Seq(FramedBytes)
         /\ m = Len(q) => After1(q, m) = <<>>
         /\ m < Len(q) => /\ After1(q, m) = q[m + 1] \o After1(q, m + 1)
                          /\ q[m + 1] \in Seq(FramedBytes) /\ After1(q, m + 1) \in Seq(FramedBytes)
                          /\ After1(q, m) # <<>>
<1>1. q \in Seq(Seq(FramedBytes)) /\ Len(q) \in Nat /\ m \in Nat
  BY LenProperties DEF Lists
<1>2. PICK k \in Nat \ {0} : k = m + 1
  BY <1>1
<1>3. /\ FlattenSeq(From(q, k)) \in Seq(FramedBytes)
      /\ k <= Len(q) => /\ FlattenSeq(From(q, k)) = q[k] \o FlattenSeq(From(q, k + 1))
                        /\ q[k] \in Seq(FramedBytes)
      /\ k > Len(q) => FlattenSeq(From(q, k)) = <<>>
  BY <1>1, FlattenFrom
<1>4. After1(q, m) = FlattenSeq(From(q, k)) /\ After1(q, m + 1) = FlattenSeq(From(q, k + 1))
  BY <1>2 DEF After1
<1>5. ASSUME m < Len(q)
      PROVE  /\ After1(q, m) = q[k] \o After1(q, m + 1)
             /\ q[k] \in Seq(FramedBytes) /\ After1(q, m + 1) \in Seq(FramedBytes)
             /\ After1(q, m) # <<>>
  <2>1. k \in 1..Len(q)
    BY <1>1, <1>2, <1>5
  <2>2. q[k] \in Seq(FramedBytes) /\ q[k] # <<>>
    BY <2>1, ListedFrame
  <2>3. PICK j \in Nat \ {0} : j = k + 1
    OBVIOUS
  <2>4. FlattenSeq(From(q, j)) \in Seq(FramedBytes)
    BY <1>1, FlattenFrom
  <2>5. PICK x \in Seq(FramedBytes), y \in Seq(FramedBytes) : x = q[k] /\ y = After1(q, m + 1)
    BY <1>4, <2>2, <2>3, <2>4
  <2>6. After1(q, m) = x \o y
    <3>1. k <= Len(q)
      BY <1>1, <2>1
    <3> QED BY <1>3, <1>4, <2>5, <3>1
  <2>7. x \o y # <<>>
    BY <2>2, <2>5, ConcatEqualIffEmpty
  <2> QED BY <2>2, <2>5, <2>6, <2>7
<1>6. m = Len(q) => After1(q, m) = <<>>
  BY <1>1, <1>2, <1>3, <1>4
<1> QED BY <1>2, <1>3, <1>4, <1>5, <1>6

\* A sequence in two parts.
LEMMA LastPart ==
  ASSUME NEW S, NEW s \in Seq(S), NEW n \in Nat, n <= Len(s), NEW p, p = SubSeq(s, n + 1, Len(s))
  PROVE  p \in Seq(S) /\ Len(p) = Len(s) - n /\ \A k \in 1..Len(p) : p[k] = s[n + k]
<1>1. PICK L \in Nat : L = Len(s) /\ n <= L
  BY LenProperties
<1>2. PICK m \in Nat : m = n + 1
  OBVIOUS
<1>3. \A k \in m..L : s[k] \in S
  BY <1>1, <1>2, ElementOfSeq
<1>4. /\ SubSeq(s, m, L) \in Seq(S)
      /\ Len(SubSeq(s, m, L)) = IF m <= L THEN L - m + 1 ELSE 0
      /\ \A k \in 1..L - m + 1 : SubSeq(s, m, L)[k] = s[m + k - 1]
  <2>1. SubSeq(s, m, L) \in Seq(S)
    BY <1>3, SubSeqProperties
  <2>2. Len(SubSeq(s, m, L)) = IF m <= L THEN L - m + 1 ELSE 0
    BY <1>3, SubSeqProperties
  <2>3. \A k \in 1..L - m + 1 : SubSeq(s, m, L)[k] = s[m + k - 1]
    BY <1>3, SubSeqProperties
  <2> QED BY <2>1, <2>2, <2>3
<1>5. (IF m <= L THEN L - m + 1 ELSE 0) = L - n /\ L - m + 1 = L - n /\ L - n \in Nat
  BY <1>1, <1>2
<1>6. \A k \in 1..L - n : m + k - 1 = n + k
  BY <1>2
<1>7. p = SubSeq(s, m, L)
  BY <1>1, <1>2
<1>8. \A k \in 1..L - n : p[k] = s[n + k]
  BY <1>4, <1>5, <1>6, <1>7
<1> QED BY <1>1, <1>4, <1>5, <1>7, <1>8

LEMMA FirstPart ==
  ASSUME NEW S, NEW s \in Seq(S), NEW n \in Nat, n <= Len(s), NEW p, p = SubSeq(s, 1, n)
  PROVE  p \in Seq(S) /\ Len(p) = n /\ \A k \in 1..n : p[k] = s[k]
<1>1. \A k \in 1..n : s[k] \in S
  BY LenProperties, ElementOfSeq
<1>2. /\ p \in Seq(S) /\ Len(p) = IF 1 <= n THEN n - 1 + 1 ELSE 0
      /\ \A k \in 1..n - 1 + 1 : p[k] = s[1 + k - 1]
  BY <1>1, SubSeqProperties
<1>3. (IF 1 <= n THEN n - 1 + 1 ELSE 0) = n /\ n - 1 + 1 = n /\ \A k \in 1..n : 1 + k - 1 = k
  OBVIOUS
<1>4. \A k \in 1..n : p[k] = s[k]
  BY <1>2, <1>3
<1> QED BY <1>2, <1>3, <1>4

\* The first n of the frames in s are taken.
Cut(s, fs, g, n, q, p) ==
  /\ Lists(s, fs, g) /\ n \in Nat /\ n <= Len(s)
  /\ q = SubSeq(s, 1, n) /\ p = SubSeq(s, n + 1, Len(s))
Parts(s, fs, g, n, q, p) ==
  Lists(q, fs, g) /\ Len(q) = n /\ Lists(p, fs, g + n) /\ Len(p) = Len(s) - n

LEMMA ListsParts ==
  ASSUME NEW s, NEW fs, NEW g, NEW n, NEW q, NEW p, Cut(s, fs, g, n, q, p)
  PROVE  Parts(s, fs, g, n, q, p)
<1>0. /\ Lists(s, fs, g) /\ n \in Nat /\ n <= Len(s)
      /\ q = SubSeq(s, 1, n) /\ p = SubSeq(s, n + 1, Len(s))
  BY DEF Cut
<1>1. /\ s \in Seq(Seq(FramedBytes)) /\ g \in Nat /\ fs \in Seq(Frames) /\ Len(s) \in Nat
      /\ \A k \in 1..Len(s) : g + k \in 1..Len(fs) /\ s[k] = FrameBytes(fs[g + k], g + k)
  BY <1>0, LenProperties DEF Lists
<1>2. q \in Seq(Seq(FramedBytes)) /\ Len(q) = n /\ \A k \in 1..n : q[k] = s[k]
  BY <1>0, <1>1, FirstPart
<1>3. /\ p \in Seq(Seq(FramedBytes)) /\ Len(p) = Len(s) - n
      /\ \A k \in 1..Len(p) : p[k] = s[n + k]
  BY <1>0, <1>1, LastPart
<1>4. Lists(q, fs, g)
  BY <1>0, <1>1, <1>2 DEF Lists
<1>5. PICK c \in Nat : c = g + n
  BY <1>0, <1>1
<1>6. ASSUME NEW k \in 1..Len(p) PROVE c + k \in 1..Len(fs) /\ p[k] = FrameBytes(fs[c + k], c + k)
  <2>1. PICK j \in 1..Len(s) : j = n + k
    BY <1>0, <1>1, <1>3
  <2>2. g + j = c + k
    BY <1>0, <1>1, <1>5, <2>1
  <2>3. p[k] = s[j]
    BY <1>3, <2>1
  <2>4. g + j \in 1..Len(fs) /\ s[j] = FrameBytes(fs[g + j], g + j)
    BY <1>1
  <2> QED BY <2>2, <2>3, <2>4
<1>7. Lists(p, fs, c)
  BY <1>1, <1>3, <1>5, <1>6 DEF Lists
<1> QED BY <1>2, <1>3, <1>4, <1>5, <1>7 DEF Parts

-----------------------------------------------------------------------------
(* Where the connection is in the frames that were sent: d is what is in data_in,
   s what is in the kernel. *)

\* Between reads, after c frames.
Waiting(d, w, fs, s, c) ==
  /\ d = <<>> /\ w \in WsState /\ AtStart(w) /\ w.offset = 0
  /\ Lists(s, fs, c) /\ c + Len(s) = Len(fs)

\* In the mth frame of those of a read, which come after the first g.
Within(d, w, fs, s, g, q, m) ==
  /\ Lists(q, fs, g) /\ m \in 1..Len(q)
  /\ Lists(s, fs, g + Len(q)) /\ (g + Len(q)) + Len(s) = Len(fs)
  /\ Place(w, fs[g + m], g + m)
  /\ Ahead(d, w.offset, q[m], w.at, After1(q, m))

LEMMA WithinFacts ==
  ASSUME NEW d, NEW w, NEW fs, NEW s, NEW g, NEW q, NEW m, Within(d, w, fs, s, g, q, m)
  PROVE  /\ g \in Nat /\ m \in Nat \ {0} /\ Len(q) \in Nat /\ m <= Len(q)
         /\ Len(fs) \in Nat /\ Len(s) \in Nat
         /\ fs[g + m] \in Frames /\ g + m \in Nat /\ g + m \in 1..Len(fs)
         /\ q[m] = FrameBytes(fs[g + m], g + m) /\ w.at \in Nat /\ w.at < Len(q[m])
         /\ w \in WsState /\ w.offset \in Nat
<1>1. Lists(q, fs, g) /\ m \in 1..Len(q) /\ Place(w, fs[g + m], g + m) /\ Lists(s, fs, g + Len(q))
  BY DEF Within
<1>2. /\ g \in Nat /\ q \in Seq(Seq(FramedBytes)) /\ s \in Seq(Seq(FramedBytes)) /\ fs \in Seq(Frames)
  BY <1>1 DEF Lists
<1>3. Len(q) \in Nat /\ Len(s) \in Nat /\ Len(fs) \in Nat
  BY <1>2, LenProperties
<1>4. /\ fs[g + m] \in Frames /\ g + m \in Nat /\ g + m \in 1..Len(fs)
      /\ q[m] = FrameBytes(fs[g + m], g + m)
  BY <1>1, ListedFrame
<1>5. PICK f \in Frames, n \in Nat : f = fs[g + m] /\ n = g + m
  BY <1>4
<1>6. PICK b : b = q[m]
  OBVIOUS
<1>7. Place(w, f, n) /\ b = FrameBytes(f, n)
  BY <1>1, <1>4, <1>5, <1>6
<1>8. w.at \in Nat /\ w.at < Len(b)
  BY <1>7, PlaceBefore
<1>9. w \in WsState /\ w.offset \in Nat
  BY <1>7, WsTyped DEF Place
<1> QED BY <1>1, <1>2, <1>3, <1>4, <1>6, <1>8, <1>9

\* The byte that is read, and a step that stays in the frame.
LEMMA WithinByte ==
  ASSUME NEW d, NEW w, NEW fs, NEW s, NEW g, NEW q, NEW m, Within(d, w, fs, s, g, q, m),
         NEW f, f = fs[g + m], NEW n, n = g + m, NEW b, b = FrameBytes(f, n)
  PROVE  /\ f \in Frames /\ n \in Nat /\ Place(w, f, n) /\ d[w.offset + 1] = b[w.at + 1]
         /\ w.offset < Len(d) /\ b = q[m]
         /\ Ahead(d, w.offset + 1, b, w.at + 1, After1(q, m))
<1>1. /\ f \in Frames /\ n \in Nat /\ b = q[m] /\ w.at < Len(b)
  BY WithinFacts
<1>2. PICK o, a, r : o = w.offset /\ a = w.at /\ r = After1(q, m)
  OBVIOUS
<1>3. Ahead(d, o, b, a, r) /\ Place(w, f, n)
  BY <1>1, <1>2 DEF Within
<1>4. o < Len(d) /\ d[o + 1] = b[a + 1] /\ Ahead(d, o + 1, b, a + 1, r)
  <2>1. Ahead(d, o, b, a, r) /\ a < Len(b)
    BY <1>1, <1>2, <1>3
  <2> QED BY <2>1, AheadStep
<1> QED BY <1>1, <1>2, <1>3, <1>4

LEMMA WithinStep ==
  ASSUME NEW d, NEW w, NEW fs, NEW s, NEW g, NEW q, NEW m, Within(d, w, fs, s, g, q, m),
         NEW v, Place(v, fs[g + m], g + m), StepsOn(w, v)
  PROVE  Within(d, v, fs, s, g, q, m)
<1>1. PICK f, n, b : f = fs[g + m] /\ n = g + m /\ b = FrameBytes(f, n)
  OBVIOUS
<1>2. b = q[m] /\ Ahead(d, w.offset + 1, b, w.at + 1, After1(q, m))
  BY <1>1, WithinByte
<1>3. v.offset = w.offset + 1 /\ v.at = w.at + 1
  BY DEF StepsOn
<1>4. Ahead(d, v.offset, q[m], v.at, After1(q, m))
  BY <1>2, <1>3
<1> QED BY <1>4 DEF Within

\* After a frame, the end of the buffer or the next frame.
LEMMA WithinEnds ==
  ASSUME NEW d, NEW w, NEW fs, NEW s, NEW g, NEW q, NEW m, Within(d, w, fs, s, g, q, m),
         w.at + 1 = Len(q[m]), NEW v \in WsState, AtStart(v),
         w.offset + 1 = Len(d), v.offset = 0
  PROVE  Waiting(<<>>, v, fs, s, g + m)
<1>1. PICK f, n, b : f = fs[g + m] /\ n = g + m /\ b = FrameBytes(f, n)
  OBVIOUS
<1>2. b = q[m] /\ Ahead(d, w.offset + 1, b, w.at + 1, After1(q, m))
  BY <1>1, WithinByte
<1>3. /\ g \in Nat /\ m \in Nat \ {0} /\ Len(q) \in Nat /\ m <= Len(q)
      /\ Len(fs) \in Nat /\ Len(s) \in Nat /\ w.at \in Nat /\ w.offset \in Nat
  BY WithinFacts
<1>4. PICK o \in Nat, a \in Nat : o = w.offset + 1 /\ a = w.at + 1
  BY <1>3
<1>5. PICK r : r = After1(q, m)
  OBVIOUS
<1>6. Ahead(d, o, b, a, r) /\ a = Len(b)
  BY <1>2, <1>4, <1>5
<1>7. r = <<>>
  <2>1. r = <<>> <=> o >= Len(d)
    BY <1>6, AheadEnd
  <2> QED BY <1>4, <2>1
<1>8. Lists(q, fs, g) /\ Lists(s, fs, g + Len(q)) /\ (g + Len(q)) + Len(s) = Len(fs)
  BY DEF Within
<1>9. m = Len(q)
  <2>1. m \in 0..Len(q)
    BY <1>3
  <2>2. m < Len(q) => After1(q, m) # <<>>
    BY <1>8, <2>1, BufferStep
  <2> QED BY <1>3, <1>5, <1>7, <2>2
<1> QED BY <1>8, <1>9 DEF Waiting

LEMMA WithinNext ==
  ASSUME NEW d, NEW w, NEW fs, NEW s, NEW g, NEW q, NEW m, Within(d, w, fs, s, g, q, m),
         w.at + 1 = Len(q[m]), NEW v \in WsState, AtStart(v),
         w.offset + 1 # Len(d), v.offset = w.offset + 1
  PROVE  Within(d, v, fs, s, g, q, m + 1)
<1>1. PICK f, n, b : f = fs[g + m] /\ n = g + m /\ b = FrameBytes(f, n)
  OBVIOUS
<1>2. /\ b = q[m] /\ Ahead(d, w.offset + 1, b, w.at + 1, After1(q, m))
      /\ w.offset < Len(d)
  BY <1>1, WithinByte
<1>3. /\ g \in Nat /\ m \in Nat \ {0} /\ Len(q) \in Nat /\ m <= Len(q)
      /\ Len(fs) \in Nat /\ Len(s) \in Nat /\ w.at \in Nat /\ w.offset \in Nat
  BY WithinFacts
<1>4. PICK o \in Nat, a \in Nat : o = w.offset + 1 /\ a = w.at + 1
  BY <1>3
<1>5. PICK r : r = After1(q, m)
  OBVIOUS
<1>6. Ahead(d, o, b, a, r) /\ a = Len(b)
  BY <1>2, <1>4, <1>5
<1>7. From(d, o + 1) = r /\ (r = <<>> <=> o >= Len(d))
  BY <1>6, AheadEnd
<1>8. d \in Seq(FramedBytes) /\ Len(d) \in Nat
  BY <1>6, LenProperties DEF Ahead
<1>9. o < Len(d)
  BY <1>2, <1>3, <1>4, <1>8
<1>10. Lists(q, fs, g)
  BY DEF Within
<1>11. m \in 0..Len(q) /\ (m = Len(q) => After1(q, m) = <<>>)
  <2>1. m \in 0..Len(q)
    BY <1>3
  <2> QED BY <1>10, <2>1, BufferStep
<1>12. m < Len(q)
  BY <1>3, <1>5, <1>7, <1>8, <1>9, <1>11
<1>13. /\ After1(q, m) = q[m + 1] \o After1(q, m + 1)
       /\ q[m + 1] \in Seq(FramedBytes) /\ After1(q, m + 1) \in Seq(FramedBytes)
  BY <1>10, <1>11, <1>12, BufferStep
<1>14. PICK k \in Nat : k = m + 1 /\ k \in 1..Len(q)
  BY <1>3, <1>12
<1>15. PICK c \in Seq(FramedBytes), z \in Seq(FramedBytes) : c = q[k] /\ z = After1(q, k)
  BY <1>13, <1>14
<1>16. From(c, 1) = c
  BY FromFirst
<1>17. From(d, o + 1) = From(c, 0 + 1) \o z
  <2>1. From(c, 0 + 1) = c
    BY <1>16
  <2>2. From(d, o + 1) = c \o z
    BY <1>5, <1>7, <1>13, <1>14, <1>15
  <2> QED BY <2>1, <2>2
<1>18. v.offset = o /\ v.at = 0
  BY <1>4 DEF AtStart
<1>19. Ahead(d, v.offset, q[k], v.at, After1(q, k))
  <2>1. PICK l \in Nat : l = 0
    OBVIOUS
  <2>2. From(d, o + 1) = From(c, l + 1) \o z
    BY <1>17, <2>1
  <2>3. Ahead(d, o, c, l, z)
    BY <1>8, <2>2 DEF Ahead
  <2> QED BY <1>15, <1>18, <2>1, <2>3
<1>20. Place(v, fs[g + k], g + k)
  BY DEF Place
<1> QED BY <1>14, <1>19, <1>20 DEF Within

\* Nothing comes after a frame that closes.
ClosesLast(fs) == \A n \in 1..Len(fs) : fs[n].op = "close" => n = Len(fs)

LEMMA WithinCloses ==
  ASSUME NEW d, NEW w, NEW fs, NEW s, NEW g, NEW q, NEW m, Within(d, w, fs, s, g, q, m),
         ClosesLast(fs), fs[g + m].op = "close"
  PROVE  g + m = Len(fs) /\ s = <<>>
<1>1. /\ g \in Nat /\ m \in Nat \ {0} /\ Len(q) \in Nat /\ m <= Len(q)
      /\ Len(fs) \in Nat /\ Len(s) \in Nat /\ g + m \in 1..Len(fs)
  BY WithinFacts
<1>2. g + m = Len(fs)
  BY <1>1 DEF ClosesLast
<1>3. (g + Len(q)) + Len(s) = Len(fs) /\ Lists(s, fs, g + Len(q))
  BY DEF Within
<1>4. Len(s) = 0
  BY <1>1, <1>2, <1>3
<1>5. s \in Seq(Seq(FramedBytes))
  BY <1>3 DEF Lists
<1> QED BY <1>2, <1>4, <1>5, EmptySeq

\* A read of what waits.
LEMMA ReadBegins ==
  ASSUME NEW d, NEW w, NEW fs, NEW s, NEW c, Waiting(d, w, fs, s, c),
         NEW n \in Nat \ {0}, n <= Len(s), NEW p, p = SubSeq(s, n + 1, Len(s)),
         NEW q, q = SubSeq(s, 1, Len(s) - Len(p)), NEW e, e = FlattenSeq(q)
  PROVE  Within(e, w, fs, p, c, q, 1)
<1>1. /\ w \in WsState /\ AtStart(w) /\ w.offset = 0 /\ Lists(s, fs, c) /\ c + Len(s) = Len(fs)
      /\ c \in Nat /\ Len(s) \in Nat
  BY LenProperties DEF Waiting, Lists
<1>2. Len(s) - Len(p) = n
  <2>1. PICK N \in Nat : N = n
    OBVIOUS
  <2>2. s \in Seq(Seq(FramedBytes)) /\ N <= Len(s) /\ p = SubSeq(s, N + 1, Len(s))
    BY <1>1, <2>1 DEF Lists
  <2>3. Len(p) = Len(s) - N
    BY <2>2, LastPart
  <2> QED BY <1>1, <2>1, <2>3
<1>3. q = SubSeq(s, 1, n)
  BY <1>2
<1>4. Lists(q, fs, c) /\ Len(q) = n /\ Lists(p, fs, c + n) /\ Len(p) = Len(s) - n
  <2>1. Cut(s, fs, c, n, q, p)
    BY <1>1, <1>3 DEF Cut
  <2>2. Parts(s, fs, c, n, q, p)
    BY <2>1, ListsParts
  <2> QED BY <2>2 DEF Parts
<1>5. 1 \in 1..Len(q) /\ 0 \in 0..Len(q) /\ 0 < Len(q) /\ 0 + 1 = 1
  BY <1>4
<1>6. PICK z \in Nat : z = 0
  OBVIOUS
<1>7. /\ After1(q, z) = q[z + 1] \o After1(q, z + 1)
      /\ q[z + 1] \in Seq(FramedBytes) /\ After1(q, z + 1) \in Seq(FramedBytes)
      /\ After1(q, z) \in Seq(FramedBytes)
  <2>1. z \in 0..Len(q) /\ z < Len(q)
    BY <1>5, <1>6
  <2> QED BY <1>4, <2>1, BufferStep
<1>8. After1(q, z) = e
  <2>1. q \in Seq(Seq(FramedBytes))
    BY <1>4 DEF Lists
  <2>2. From(q, 1) = q
    BY <2>1, FromFirst
  <2> QED BY <1>5, <1>6, <2>2 DEF After1
<1>9. PICK b \in Seq(FramedBytes), r \in Seq(FramedBytes) : b = q[1] /\ r = After1(q, 1)
  BY <1>5, <1>6, <1>7
<1>10. e = b \o r /\ e \in Seq(FramedBytes)
  BY <1>5, <1>6, <1>7, <1>8, <1>9
<1>11. From(b, 1) = b /\ From(e, 1) = e
  BY <1>10, FromFirst
<1>12. From(e, 0 + 1) = From(b, 0 + 1) \o r
  BY <1>5, <1>10, <1>11
<1>13. w.at = 0
  BY <1>1 DEF AtStart
<1>14. Ahead(e, w.offset, q[1], w.at, After1(q, 1))
  <2>1. PICK o, a : o = w.offset /\ a = w.at
    OBVIOUS
  <2>2. o = 0 /\ a = 0 /\ o \in Nat /\ a \in Nat
    BY <1>1, <1>13, <2>1
  <2>3. From(e, o + 1) = From(b, a + 1) \o r
    BY <1>12, <2>2
  <2>4. Ahead(e, o, b, a, r)
    BY <1>10, <2>2, <2>3 DEF Ahead
  <2> QED BY <1>9, <2>1, <2>4
<1>15. Place(w, fs[c + 1], c + 1)
  BY <1>1 DEF Place
<1>16. (c + Len(q)) + Len(p) = Len(fs)
  <2>1. PICK x, y : x = n /\ y = Len(s) - n
    OBVIOUS
  <2>2. (c + n) + y = c + Len(s)
    BY <1>1, <2>1
  <2> QED BY <1>1, <1>4, <2>1, <2>2
<1> QED BY <1>4, <1>5, <1>14, <1>15, <1>16 DEF Within

\* A frame more is sent.
LEMMA ListsStay ==
  ASSUME NEW q, NEW fs, NEW g, Lists(q, fs, g), NEW f \in Frames, NEW gs, gs = Append(fs, f)
  PROVE  Lists(q, gs, g)
<1>1. /\ q \in Seq(Seq(FramedBytes)) /\ g \in Nat /\ fs \in Seq(Frames) /\ Len(fs) \in Nat
      /\ \A k \in 1..Len(q) : g + k \in 1..Len(fs) /\ q[k] = FrameBytes(fs[g + k], g + k)
  BY LenProperties DEF Lists
<1>2. gs \in Seq(Frames) /\ Len(gs) = Len(fs) + 1 /\ \A k \in 1..Len(fs) : gs[k] = fs[k]
  BY <1>1, AppendProperties
<1>3. ASSUME NEW k \in 1..Len(q) PROVE g + k \in 1..Len(gs) /\ q[k] = FrameBytes(gs[g + k], g + k)
  <2>1. PICK j : j = g + k /\ j \in 1..Len(fs) /\ q[k] = FrameBytes(fs[j], j)
    BY <1>1
  <2>2. j \in 1..Len(gs) /\ gs[j] = fs[j]
    BY <1>1, <1>2, <2>1
  <2> QED BY <2>1, <2>2
<1> QED BY <1>1, <1>2, <1>3 DEF Lists

AllOf(s, fs, g) == Lists(s, fs, g) /\ g + Len(s) = Len(fs)
Sends(s, fs, f, z, gs) ==
  /\ f \in Frames /\ gs = Append(fs, f) /\ z = Append(s, FrameBytes(f, Len(fs) + 1))

LEMMA ListsMore ==
  ASSUME NEW s, NEW fs, NEW g, AllOf(s, fs, g), NEW f, NEW z, NEW gs, Sends(s, fs, f, z, gs)
  PROVE  AllOf(z, gs, g)
<1>0. /\ Lists(s, fs, g) /\ g + Len(s) = Len(fs)
      /\ f \in Frames /\ gs = Append(fs, f) /\ z = Append(s, FrameBytes(f, Len(fs) + 1))
  BY DEF AllOf, Sends
<1>1. /\ s \in Seq(Seq(FramedBytes)) /\ g \in Nat /\ fs \in Seq(Frames) /\ Len(fs) \in Nat
      /\ Len(s) \in Nat
  BY <1>0, LenProperties DEF Lists
<1>2. Lists(s, gs, g)
  BY <1>0, ListsStay
<1>3. gs \in Seq(Frames) /\ Len(gs) = Len(fs) + 1 /\ gs[Len(fs) + 1] = f
  BY <1>0, <1>1, AppendProperties
<1>4. PICK n \in Nat : n = Len(fs) + 1
  BY <1>1
<1>5. PICK b : b = FrameBytes(f, n)
  OBVIOUS
<1>6. b \in Seq(FramedBytes)
  <2>1. PICK h, L : h = HeadOf(f) /\ L = Len(f.text)
    OBVIOUS
  <2>2. HasBytes(b, f, n, h, L)
    BY <1>0, <1>5, <2>1, FrameIs
  <2> QED BY <2>2 DEF HasBytes
<1>7. z = Append(s, b)
  BY <1>0, <1>4, <1>5
<1>8. PICK l \in Nat : l = Len(s)
  BY <1>1
<1>9. z \in Seq(Seq(FramedBytes)) /\ Len(z) = l + 1 /\ z[l + 1] = b /\ \A k \in 1..l : z[k] = s[k]
  BY <1>1, <1>6, <1>7, <1>8, AppendProperties
<1>10. g + (l + 1) = n
  <2>1. g \in Nat /\ g + l = Len(fs) /\ n = Len(fs) + 1
    BY <1>0, <1>1, <1>4, <1>8
  <2>2. PICK N \in Nat : N = Len(fs)
    BY <1>1
  <2>3. g + l = N /\ n = N + 1
    BY <2>1, <2>2
  <2> QED BY <2>1, <2>3
<1>11. ASSUME NEW k \in 1..Len(z) PROVE g + k \in 1..Len(gs) /\ z[k] = FrameBytes(gs[g + k], g + k)
  <2>1. CASE k = l + 1
    <3>1. g + k = n /\ z[k] = b /\ gs[n] = f /\ n \in 1..Len(gs)
      BY <1>1, <1>3, <1>4, <1>9, <1>10, <2>1
    <3> QED BY <1>5, <3>1
  <2>2. CASE k # l + 1
    <3>0. k \in 1..l
      BY <1>9, <2>2
    <3>1. k \in 1..l /\ z[k] = s[k]
      BY <1>9, <3>0
    <3>2. g + k \in 1..Len(gs) /\ s[k] = FrameBytes(gs[g + k], g + k)
      BY <1>2, <1>8, <3>1 DEF Lists
    <3> QED BY <3>1, <3>2
  <2> QED BY <2>1, <2>2
<1>12. Lists(z, gs, g)
  BY <1>1, <1>3, <1>9, <1>11 DEF Lists
<1>13. g + Len(z) = Len(gs)
  BY <1>1, <1>3, <1>4, <1>9, <1>10
<1> QED BY <1>12, <1>13 DEF AllOf

LEMMA WaitingMore ==
  ASSUME NEW d, NEW w, NEW fs, NEW s, NEW c, Waiting(d, w, fs, s, c),
         NEW f, NEW z, NEW gs, Sends(s, fs, f, z, gs)
  PROVE  Waiting(d, w, gs, z, c)
<1>1. AllOf(s, fs, c)
  BY DEF Waiting, AllOf
<1>2. AllOf(z, gs, c)
  BY <1>1, ListsMore
<1> QED BY <1>2 DEF Waiting, AllOf

LEMMA WithinMore ==
  ASSUME NEW d, NEW w, NEW fs, NEW s, NEW g, NEW q, NEW m, Within(d, w, fs, s, g, q, m),
         NEW f, NEW z, NEW gs, Sends(s, fs, f, z, gs)
  PROVE  Within(d, w, gs, z, g, q, m)
<1>1. PICK k : k = g + Len(q)
  OBVIOUS
<1>2. Lists(q, fs, g) /\ AllOf(s, fs, k) /\ Place(w, fs[g + m], g + m)
  BY <1>1 DEF Within, AllOf
<1>3. AllOf(z, gs, k)
  BY <1>2, ListsMore
<1>0. f \in Frames /\ gs = Append(fs, f)
  BY DEF Sends
<1>4. Lists(q, gs, g)
  BY <1>0, <1>2, ListsStay
<1>5. gs[g + m] = fs[g + m]
  <2>1. g + m \in 1..Len(fs)
    BY WithinFacts
  <2>2. PICK j : j = g + m
    OBVIOUS
  <2>3. fs \in Seq(Frames)
    BY <1>2 DEF Lists
  <2>4. \A n \in 1..Len(fs) : gs[n] = fs[n]
    BY <1>0, <2>3, AppendProperties
  <2> QED BY <2>1, <2>2, <2>4
<1> QED BY <1>1, <1>2, <1>3, <1>4, <1>5 DEF Within, AllOf

-----------------------------------------------------------------------------
(* The texts that were handled are those of the first c frames. *)

Verdicts == {"run", "bad_json", "crashed"}
TextsIn(h) == [n \in DOMAIN h |-> h[n][1]]

Heard(h, fs, c) ==
  /\ h \in Seq(Texts \X Verdicts) /\ fs \in Seq(Frames) /\ c \in 0..Len(fs)
  /\ TextsIn(h) = TextsOf(fs)[c]

LEMMA HeardNothing ==
  ASSUME NEW fs \in Seq(Frames), NEW h, h = <<>>
  PROVE  Heard(h, fs, 0)
<1>1. PICK N \in Nat : N = Len(fs)
  BY LenProperties
<1>2. TextsOf(fs)[0] = <<>>
  BY <1>1, TextsEquation
<1>3. TextsIn(h) = <<>>
  BY DEF TextsIn
<1>4. 0 \in 0..Len(fs) /\ h \in Seq(Texts \X Verdicts)
  BY <1>1
<1> QED BY <1>2, <1>3, <1>4 DEF Heard

LEMMA HeardSame ==
  ASSUME NEW h, NEW fs, NEW c, Heard(h, fs, c), c < Len(fs), fs[c + 1].op # "text"
  PROVE  Heard(h, fs, c + 1)
<1>1. fs \in Seq(Frames) /\ c \in 0..Len(fs) /\ TextsIn(h) = TextsOf(fs)[c] /\ Len(fs) \in Nat
  BY LenProperties DEF Heard
<1>2. PICK N \in Nat : N = Len(fs)
  BY <1>1
<1>3. PICK k \in 1..N : k = c + 1 /\ k - 1 = c
  BY <1>1, <1>2
<1>4. TextsOf(fs)[k] = TextsOf(fs)[k - 1]
  BY <1>2, <1>3, TextsEquation
<1>5. k \in 0..Len(fs)
  BY <1>2, <1>3
<1> QED BY <1>1, <1>3, <1>4, <1>5 DEF Heard

LEMMA HeardText ==
  ASSUME NEW h, NEW fs, NEW c, Heard(h, fs, c), c < Len(fs), fs[c + 1].op = "text",
         NEW a \in Verdicts, NEW k, k = Append(h, <<fs[c + 1].text, a>>)
  PROVE  Heard(k, fs, c + 1)
<1>1. /\ h \in Seq(Texts \X Verdicts)
      /\ fs \in Seq(Frames) /\ c \in 0..Len(fs) /\ TextsIn(h) = TextsOf(fs)[c]
      /\ Len(fs) \in Nat /\ Len(h) \in Nat
  BY LenProperties DEF Heard
<1>2. PICK N \in Nat : N = Len(fs)
  BY <1>1
<1>3. PICK j \in 1..N : j = c + 1 /\ j - 1 = c
  BY <1>1, <1>2
<1>4. TextsOf(fs)[j] = Append(TextsOf(fs)[j - 1], fs[j].text)
  BY <1>2, <1>3, TextsEquation
<1>5. j \in 0..Len(fs)
  BY <1>2, <1>3
<1>6. PICK t \in Texts : t = fs[j].text
  <2>1. fs[j] \in Frames
    BY <1>1, <1>2, ElementOfSeq
  <2> QED BY <2>1, FramesAre
<1>7. PICK e : e = <<t, a>> /\ e \in Texts \X Verdicts /\ e[1] = t
  <2>1. PICK e : e = <<t, a>>
    OBVIOUS
  <2>2. e \in Texts \X Verdicts /\ e[1] = t
    BY <2>1
  <2> QED BY <2>1, <2>2
<1>8. PICK M \in Nat : M = Len(h)
  BY <1>1
<1>9. PICK S : S = Texts \X Verdicts
  OBVIOUS
<1>10. /\ k \in Seq(S) /\ Len(k) = M + 1 /\ k[M + 1] = e /\ \A n \in 1..M : k[n] = h[n]
  <2>1. k = Append(h, e) /\ h \in Seq(S) /\ e \in S
    BY <1>1, <1>3, <1>6, <1>7, <1>9
  <2> QED BY <1>8, <2>1, AppendProperties
<1>11. /\ TextsIn(k) = [n \in 1..M + 1 |-> k[n][1]]
       /\ TextsIn(h) = [n \in 1..M |-> h[n][1]]
  <2>1. DOMAIN k = 1..M + 1 /\ DOMAIN h = 1..M
    BY <1>1, <1>8, <1>10, LenProperties
  <2> QED BY <2>1 DEF TextsIn
<1>12. PICK u : u = TextsIn(h)
  OBVIOUS
<1>13. u \in Seq(Texts) /\ Len(u) = M /\ \A n \in 1..M : u[n] = h[n][1]
  <2>1. \A n \in 1..M : h[n][1] \in Texts
    <3>1. \A n \in 1..M : h[n] \in Texts \X Verdicts
      BY <1>1, <1>8, ElementOfSeq
    <3> QED BY <3>1
  <2> QED BY <1>11, <1>12, <2>1
<1>14. Append(u, t) = TextsIn(k)
  <2>1. PICK v : v = TextsIn(k)
    OBVIOUS
  <2>2. PICK z : z = Append(u, t)
    OBVIOUS
  <2>3. z \in Seq(Texts) /\ Len(z) = M + 1 /\ z[M + 1] = t /\ \A n \in 1..M : z[n] = u[n]
    BY <1>13, <2>2, AppendProperties
  <2>4. \A n \in 1..M + 1 : v[n] = k[n][1]
    BY <1>11, <2>1
  <2>5. \A n \in 1..M + 1 : v[n] = z[n]
    <3>1. ASSUME NEW n \in 1..M + 1 PROVE v[n] = z[n]
      <4>1. CASE n = M + 1
        BY <1>7, <1>10, <2>3, <2>4, <4>1
      <4>2. CASE n # M + 1
        <5>1. n \in 1..M
          BY <4>2
        <5> QED BY <1>10, <1>13, <2>3, <2>4, <5>1
      <4> QED BY <4>1, <4>2
    <3> QED BY <3>1
  <2>6. v \in Seq(Texts) /\ Len(v) = M + 1
    <3>1. PICK K \in Nat : K = M + 1
      OBVIOUS
    <3>2. \A n \in 1..K : k[n][1] \in Texts
      <4>1. \A n \in 1..K : k[n] \in Texts \X Verdicts
        BY <1>9, <1>10, <3>1, ElementOfSeq
      <4> QED BY <4>1
    <3>3. v = [n \in 1..K |-> k[n][1]]
      BY <1>11, <2>1, <3>1
    <3> DEFINE r(n) == k[n][1]
    <3>4. v = [n \in 1..K |-> r(n)] /\ \A n \in 1..K : r(n) \in Texts
      BY <3>2, <3>3
    <3> HIDE DEF r
    <3>5. v \in Seq(Texts) /\ Len(v) = K
      BY <3>4
    <3> QED BY <3>1, <3>5
  <2>7. v = z
    BY <2>3, <2>5, <2>6, SeqEqual
  <2> QED BY <2>1, <2>2, <2>7
<1>15. TextsIn(k) = TextsOf(fs)[j]
  BY <1>1, <1>3, <1>4, <1>6, <1>12, <1>14
<1> QED BY <1>1, <1>3, <1>5, <1>9, <1>10, <1>15 DEF Heard

LEMMA HeardMore ==
  ASSUME NEW h, NEW fs, NEW c, Heard(h, fs, c), NEW f \in Frames, NEW gs, gs = Append(fs, f)
  PROVE  Heard(h, gs, c)
<1>1. /\ fs \in Seq(Frames) /\ c \in 0..Len(fs) /\ TextsIn(h) = TextsOf(fs)[c] /\ Len(fs) \in Nat
  BY LenProperties DEF Heard
<1>2. gs \in Seq(Frames) /\ Len(gs) = Len(fs) + 1 /\ \A k \in 1..Len(fs) : gs[k] = fs[k]
  BY <1>1, AppendProperties
<1>3. PICK M \in Nat, N \in Nat : M = Len(fs) /\ N = Len(gs) /\ M <= N
  BY <1>1, <1>2
<1>4. TextsOf(gs)[c] = TextsOf(fs)[c]
  <2>1. \A n \in 1..M : gs[n] = fs[n]
    BY <1>2, <1>3
  <2>2. \A n \in 0..M : TextsOf(gs)[n] = TextsOf(fs)[n]
    BY <1>3, <2>1, TextsAgree
  <2> QED BY <1>1, <1>3, <2>2
<1>5. c \in 0..Len(gs)
  BY <1>1, <1>2
<1> QED BY <1>1, <1>2, <1>4, <1>5 DEF Heard

-----------------------------------------------------------------------------
(* The steps of ape_ws_process_frame. *)

LEMMA Verdict ==
  ASSUME NEW j, NEW s \in {0, 1}, NEW text
  PROVE  ape_server_on_ws_frame(j, s, text).answer \in Verdicts
<1> DEFINE Runs(was, done) == was.ok /\ done.ok /\ ~was.cx.crashed
           Then(was, done) ==
             IF Runs(was, done) THEN ape_cmd_process_multi(was.cx.items, was.cx.head, s)
             ELSE s
           Says(was, done) == IF was.cx.crashed THEN "crashed"
                              ELSE IF Runs(was, done) THEN "run" ELSE "bad_json"
           Answer(was, done) ==
             [parser |-> <<IF was.ok THEN done.p ELSE was.p>>,
              session |-> Then(was, done),
              answer |-> Says(was, done)]
<1>1. \E u : ape_server_on_ws_frame(j, s, text) =
             CHOOSE a \in {Answer(was, JSON_parser_done(was.p)) : was \in {u}} : TRUE
  BY Zenon DEF ape_server_on_ws_frame
<1>2. PICK u : ape_server_on_ws_frame(j, s, text) =
               CHOOSE a \in {Answer(was, JSON_parser_done(was.p)) : was \in {u}} : TRUE
  BY <1>1
<1>3. ape_server_on_ws_frame(j, s, text) = Answer(u, JSON_parser_done(u.p))
  <2> HIDE DEF Answer
  <2> QED BY <1>2
<1>4. Says(u, JSON_parser_done(u.p)) \in Verdicts
  BY DEF Verdicts
<1> HIDE DEF Says
<1> QED BY <1>3, <1>4

\* One that stays in the frame goes on in it.
LEMMA FrameSteps ==
  ASSUME NEW f \in Frames, NEW n \in Nat, NEW b, b = FrameBytes(f, n),
         NEW w, w = W, Place(w, f, n), WsByte = b[w.at + 1],
         \/ ws_start \/ ws_length \/ ws_short_length \/ ws_extended_length \/ ws_key \/ ws_data,
         NEW v, v = ws'[1]
  PROVE  Place(v, f, n) /\ StepsOn(w, v)
<1>1. PICK x : x = WsByte /\ x = b[w.at + 1]
  OBVIOUS
<1>2. CASE ws_start
  <2>1. w.step = "start" /\ v = Gone(Opened(w, x))
    BY <1>1, <1>2 DEF ws_start, On, Goes, Gone, Opened
  <2> QED BY <1>1, <2>1, StartPlace
<1>3. CASE ws_length
  <2>1. w.step = "length" /\ v = Gone(Measured(w, x))
    BY <1>1, <1>3 DEF ws_length, On, Goes, Gone, Measured
  <2> QED BY <1>1, <2>1, LengthPlace
<1>4. CASE ws_short_length
  <2>1. w.step = "short_length" /\ v = Gone(Shortened(w, x))
    BY <1>1, <1>4 DEF ws_short_length, On, Goes, Gone, Shortened
  <2> QED BY <1>1, <2>1, ShortPlace
<1>5. CASE ws_extended_length
  <2>1. w.step = "extended_length" /\ v = Gone(Extended(w, x))
    BY <1>1, <1>5 DEF ws_extended_length, On, Goes, Gone, Extended
  <2> QED BY <1>1, <2>1, ExtendedPlace
<1>6. CASE ws_key
  <2>1. PICK k : k = Append(w.key, x)
    OBVIOUS
  <2>2. w.step = "key" /\ v = Gone(KeyRest(w, k))
    BY <1>1, <1>6, <2>1 DEF ws_key, On, Goes, Gone, KeyRest
  <2> QED BY <1>1, <2>1, <2>2, KeyPlace
<1>7. CASE ws_data
  <2>1. PICK t : t = Text
    OBVIOUS
  <2>2. t = Append(w.text, Unmasked(x, w.key, Len(w.text)))
    BY <1>1, <2>1 DEF Text
  <2>3. w.step = "data" /\ w.len # 1 /\ v = Gone(DataRest(w, t))
    BY <1>1, <1>7, <2>1 DEF ws_data, On, Goes, Gone, DataRest
  <2> QED BY <1>1, <2>2, <2>3, DataPlace
<1> QED BY <1>2, <1>3, <1>4, <1>5, <1>6, <1>7

\* After the last byte the state is that of the beginning.
LEMMA FreshIs ==
  ASSUME NEW w \in WsState, w = W, NEW t \in Seq(Tokens \cup {"?"}), t = Text, NEW v, v = Fresh
  PROVE  v \in WsState /\ AtStart(v) /\ v.offset = w.offset /\ v.at = 0
<1>1. PICK u : u = [w EXCEPT !.text = t]
  OBVIOUS
<1>2. u \in WsState /\ u.offset = w.offset
  BY <1>1 DEF WsState
<1>3. PICK e : e = <<>>
  OBVIOUS
<1>8. e \in Seq(Nat)
  BY <1>3
<1>4. PICK x : x = [[u EXCEPT !.step = "start"] EXCEPT !.len = 0]
  OBVIOUS
<1>5. x \in WsState /\ x.offset = w.offset /\ x.step = "start" /\ x.len = 0
  BY <1>2, <1>4 DEF WsState, Steps
<1>6. v = [[x EXCEPT !.key = e] EXCEPT !.at = 0]
  BY <1>1, <1>3, <1>4 DEF Fresh
<1>7. v \in WsState /\ v.offset = w.offset /\ v.step = "start" /\ v.len = 0 /\ v.key = e /\ v.at = 0
  BY <1>5, <1>6, <1>8 DEF WsState
<1> QED BY <1>3, <1>7 DEF AtStart

\* None of the first c frames closes; one of all does.
Unclosed(fs, c) == \A n \in 1..c : fs[n].op # "close"
HasClose(fs) == \E n \in 1..Len(fs) : fs[n].op = "close"
Down(l) == l \notin {"up", "eof"}

\* Where a connection is that frames are sent on, after c of them.
Phase(p, l, d, w, fs, s, c) ==
  \/ p \in {"closed", "crashed"}
  \/ p = "idle" /\ Waiting(d, w, fs, s, c) /\ Unclosed(fs, c)
  \/ /\ p = "ws" /\ Unclosed(fs, c)
     /\ \E g, q, m : Within(d, w, fs, s, g, q, m) /\ c + 1 = g + m
  \/ p = "idle" /\ s = <<>> /\ Down(l) /\ c = Len(fs) /\ HasClose(fs)

\* A frame is sent.
LEMMA ClosesMore ==
  ASSUME NEW fs \in Seq(Frames), \A n \in 1..Len(fs) : fs[n].op # "close",
         NEW f \in Frames, NEW gs, gs = Append(fs, f)
  PROVE  ClosesLast(gs) /\ Len(gs) = Len(fs) + 1 /\ \A n \in 1..Len(fs) : gs[n] = fs[n]
<1>1. Len(fs) \in Nat
  OBVIOUS
<1>2. Len(gs) = Len(fs) + 1 /\ \A n \in 1..Len(fs) : gs[n] = fs[n]
  OBVIOUS
<1> QED BY <1>1, <1>2 DEF ClosesLast

LEMMA UnclosedMore ==
  ASSUME NEW fs, NEW c, Unclosed(fs, c), NEW gs, NEW N \in Nat, c \in 0..N,
         \A n \in 1..N : gs[n] = fs[n]
  PROVE  Unclosed(gs, c)
BY DEF Unclosed

LEMMA PhaseMore ==
  ASSUME NEW p, NEW l, NEW d, NEW w, NEW fs, NEW s, NEW c, Phase(p, l, d, w, fs, s, c),
         fs \in Seq(Frames), c \in 0..Len(fs), \A n \in 1..Len(fs) : fs[n].op # "close",
         NEW f, NEW z, NEW gs, Sends(s, fs, f, z, gs)
  PROVE  Phase(p, l, d, w, gs, z, c)
<1>1. \A n \in 1..Len(fs) : gs[n] = fs[n]
  BY ClosesMore DEF Sends
<1>2. Len(fs) \in Nat
  OBVIOUS
<1>3. Unclosed(fs, c) => Unclosed(gs, c)
  BY <1>1, <1>2, UnclosedMore
<1>4. ~HasClose(fs)
  BY DEF HasClose
<1>5. CASE p \in {"closed", "crashed"}
  BY <1>5 DEF Phase
<1>6. CASE p = "idle" /\ Waiting(d, w, fs, s, c) /\ Unclosed(fs, c)
  <2>1. Waiting(d, w, gs, z, c)
    BY <1>6, WaitingMore
  <2> QED BY <1>3, <1>6, <2>1 DEF Phase
<1>7. CASE /\ p = "ws" /\ Unclosed(fs, c)
           /\ \E g, q, m : Within(d, w, fs, s, g, q, m) /\ c + 1 = g + m
  <2>1. PICK g, q, m : Within(d, w, fs, s, g, q, m) /\ c + 1 = g + m
    BY <1>7
  <2>2. Within(d, w, gs, z, g, q, m)
    BY <2>1, WithinMore
  <2> QED BY <1>3, <1>7, <2>1, <2>2 DEF Phase
<1> QED BY <1>4, <1>5, <1>6, <1>7 DEF Phase

\* A read.
LEMMA PhaseRead ==
  ASSUME NEW l, NEW d, NEW w, NEW fs, NEW s, NEW c, Phase("idle", l, d, w, fs, s, c),
         NEW n \in Nat \ {0}, n <= Len(s), Len(s) \in Nat, s # <<>>,
         NEW p, p = SubSeq(s, n + 1, Len(s)),
         NEW e, e = FlattenSeq(SubSeq(s, 1, Len(s) - Len(p)))
  PROVE  Phase("ws", l, e, w, fs, p, c)
<1>1. Waiting(d, w, fs, s, c) /\ Unclosed(fs, c)
  BY DEF Phase
<1>2. PICK q : q = SubSeq(s, 1, Len(s) - Len(p))
  OBVIOUS
<1>3. Within(e, w, fs, p, c, q, 1)
  BY <1>1, <1>2, ReadBegins
<1>4. c + 1 = c + 1
  OBVIOUS
<1> QED BY <1>1, <1>3, <1>4 DEF Phase

\* A step that stays in a frame.
LEMMA PhaseWithin ==
  ASSUME NEW l, NEW d, NEW w, NEW fs, NEW s, NEW c, Phase("ws", l, d, w, fs, s, c)
  PROVE  Unclosed(fs, c) /\ \E g, q, m : Within(d, w, fs, s, g, q, m) /\ c + 1 = g + m
BY DEF Phase

\* The frame that is read, the byte of it, and what is to be read after it.
ReadsFrame(d, w, fs, s, c, g, q, m, f, b) ==
  /\ Within(d, w, fs, s, g, q, m) /\ c + 1 = g + m
  /\ f = fs[c + 1] /\ b = FrameBytes(f, c + 1)

LEMMA FrameRead ==
  ASSUME NEW l, NEW d, NEW w, NEW fs, NEW s, NEW c, Phase("ws", l, d, w, fs, s, c)
  PROVE  \E g, q, m, f, b : ReadsFrame(d, w, fs, s, c, g, q, m, f, b)
<1>1. PICK g, q, m : Within(d, w, fs, s, g, q, m) /\ c + 1 = g + m
  BY PhaseWithin
<1>2. PICK f, b : f = fs[c + 1] /\ b = FrameBytes(f, c + 1)
  OBVIOUS
<1> QED BY <1>1, <1>2 DEF ReadsFrame

LEMMA FrameReadIs ==
  ASSUME NEW d, NEW w, NEW fs, NEW s, NEW c, NEW g, NEW q, NEW m, NEW f, NEW b,
         ReadsFrame(d, w, fs, s, c, g, q, m, f, b)
  PROVE  /\ f \in Frames /\ c + 1 \in Nat /\ c + 1 \in 1..Len(fs) /\ Place(w, f, c + 1)
         /\ d[w.offset + 1] = b[w.at + 1] /\ b = q[m] /\ b = FrameBytes(f, c + 1)
         /\ f = fs[c + 1]
<1>1. Within(d, w, fs, s, g, q, m) /\ c + 1 = g + m /\ f = fs[c + 1] /\ b = FrameBytes(f, c + 1)
  BY DEF ReadsFrame
<1>2. PICK n : n = g + m
  OBVIOUS
<1>3. Within(d, w, fs, s, g, q, m) /\ f = fs[g + m] /\ b = FrameBytes(f, n)
  BY <1>1, <1>2
<1>4. f \in Frames /\ n \in Nat /\ Place(w, f, n) /\ d[w.offset + 1] = b[w.at + 1] /\ b = q[m]
  BY <1>2, <1>3, WithinByte
<1>5. g + m \in 1..Len(fs)
  BY <1>3, WithinFacts
<1> QED BY <1>1, <1>2, <1>4, <1>5

\* A step that stays in the frame.
LEMMA PhaseStep ==
  ASSUME NEW l, NEW d, NEW w, NEW fs, NEW s, NEW c, Phase("ws", l, d, w, fs, s, c),
         NEW g, NEW q, NEW m, NEW f, NEW b, ReadsFrame(d, w, fs, s, c, g, q, m, f, b),
         NEW v, Place(v, f, c + 1), StepsOn(w, v), NEW k
  PROVE  Phase("ws", k, d, v, fs, s, c)
<1>1. Within(d, w, fs, s, g, q, m) /\ c + 1 = g + m /\ f = fs[c + 1]
  BY DEF ReadsFrame
<1>2. Place(v, fs[g + m], g + m)
  BY <1>1
<1>3. Within(d, v, fs, s, g, q, m)
  BY <1>1, <1>2, WithinStep
<1>4. Unclosed(fs, c)
  BY PhaseWithin
<1> QED BY <1>1, <1>3, <1>4 DEF Phase

\* The end of a frame: of the buffer too,
FrameEnds(d, w, fs, s, c, b, v) ==
  /\ \E l : Phase("ws", l, d, w, fs, s, c)
  /\ \E g, q, m, f : ReadsFrame(d, w, fs, s, c, g, q, m, f, b)
  /\ w.at + 1 = Len(b) /\ v \in WsState /\ AtStart(v)

LEMMA PhaseEnds ==
  ASSUME NEW d, NEW w, NEW fs, NEW s, NEW c, NEW b, NEW v, FrameEnds(d, w, fs, s, c, b, v),
         c \in Nat, fs[c + 1].op # "close", w.offset + 1 = Len(d), v.offset = 0, NEW k
  PROVE  Phase("idle", k, <<>>, v, fs, s, c + 1)
<1>1. PICK g, q, m, f : ReadsFrame(d, w, fs, s, c, g, q, m, f, b)
  BY DEF FrameEnds
<1>2. Within(d, w, fs, s, g, q, m) /\ c + 1 = g + m /\ b = q[m]
  <2>1. Within(d, w, fs, s, g, q, m) /\ c + 1 = g + m
    BY <1>1 DEF ReadsFrame
  <2>2. b = q[m]
    BY <1>1, FrameReadIs
  <2> QED BY <2>1, <2>2
<1>3. w.at + 1 = Len(q[m]) /\ v \in WsState /\ AtStart(v)
  BY <1>2 DEF FrameEnds
<1>4. Waiting(<<>>, v, fs, s, g + m)
  BY <1>2, <1>3, WithinEnds
<1>5. Unclosed(fs, c)
  BY PhaseWithin DEF FrameEnds
<1>6. Unclosed(fs, c + 1)
  BY <1>5 DEF Unclosed
<1> QED BY <1>2, <1>4, <1>6 DEF Phase

\* or another follows.
LEMMA PhaseNext ==
  ASSUME NEW d, NEW w, NEW fs, NEW s, NEW c, NEW b, NEW v, FrameEnds(d, w, fs, s, c, b, v),
         c \in Nat, fs[c + 1].op # "close", w.offset + 1 # Len(d), v.offset = w.offset + 1, NEW k
  PROVE  Phase("ws", k, d, v, fs, s, c + 1)
<1>1. PICK g, q, m, f : ReadsFrame(d, w, fs, s, c, g, q, m, f, b)
  BY DEF FrameEnds
<1>2. Within(d, w, fs, s, g, q, m) /\ c + 1 = g + m /\ b = q[m]
  <2>1. Within(d, w, fs, s, g, q, m) /\ c + 1 = g + m
    BY <1>1 DEF ReadsFrame
  <2>2. b = q[m]
    BY <1>1, FrameReadIs
  <2> QED BY <2>1, <2>2
<1>3. w.at + 1 = Len(q[m]) /\ v \in WsState /\ AtStart(v)
  BY <1>2 DEF FrameEnds
<1>4. Within(d, v, fs, s, g, q, m + 1)
  BY <1>2, <1>3, WithinNext
<1>5. Unclosed(fs, c)
  BY PhaseWithin DEF FrameEnds
<1>6. Unclosed(fs, c + 1)
  BY <1>5 DEF Unclosed
<1>7. (c + 1) + 1 = g + (m + 1)
  <2>1. g \in Nat /\ m \in Nat
    BY <1>2, WithinFacts
  <2> QED BY <1>2, <2>1
<1>8. PICK n : n = m + 1
  OBVIOUS
<1>9. Within(d, v, fs, s, g, q, n) /\ (c + 1) + 1 = g + n
  BY <1>4, <1>7, <1>8
<1> QED BY <1>6, <1>9 DEF Phase

\* The end of a frame that closes.
LEMMA PhaseCloses ==
  ASSUME NEW l, NEW d, NEW w, NEW fs, NEW s, NEW c, Phase("ws", l, d, w, fs, s, c),
         fs[c + 1].op = "close", ClosesLast(fs)
  PROVE  c + 1 = Len(fs) /\ s = <<>> /\ HasClose(fs)
<1>1. PICK g, q, m : Within(d, w, fs, s, g, q, m) /\ c + 1 = g + m
  BY PhaseWithin
<1>2. fs[g + m].op = "close"
  BY <1>1
<1>3. g + m = Len(fs) /\ s = <<>>
  BY <1>1, <1>2, WithinCloses
<1>4. g + m \in 1..Len(fs)
  BY <1>1, WithinFacts
<1> QED BY <1>1, <1>2, <1>3, <1>4 DEF HasClose

\* Frames were handled as they came, after c of them.
Framed(c) ==
  Heard(handled, frames, c) /\ ClosesLast(frames) /\ Phase(pc, link, data, W, frames, net, c)

LEMMA HeardTyped ==
  ASSUME NEW h, NEW fs, NEW c, Heard(h, fs, c)
  PROVE  fs \in Seq(Frames) /\ c \in 0..Len(fs) /\ c \in Nat /\ Len(fs) \in Nat
BY DEF Heard

LEMMA OffsetSet ==
  ASSUME NEW u \in WsState, AtStart(u), NEW o \in Nat, NEW v, v = [u EXCEPT !.offset = o]
  PROVE  v \in WsState /\ AtStart(v) /\ v.offset = o
<1>1. v \in WsState /\ v.step = u.step /\ v.at = u.at /\ v.len = u.len /\ v.key = u.key
      /\ v.offset = o
  BY DEF WsState
<1> QED BY <1>1 DEF AtStart

LEMMA StepsFramed ==
  ASSUME NEW c, Framed(c),
         \/ ws_start \/ ws_length \/ ws_short_length \/ ws_extended_length \/ ws_key \/ ws_data
  PROVE  Framed(c)'
<1>1. /\ pc = "ws" /\ pc' = pc /\ link' = link /\ data' = data /\ net' = net
      /\ frames' = frames /\ handled' = handled
  BY DEF ws_start, ws_length, ws_short_length, ws_extended_length, ws_key, ws_data, On, InFrame,
         reading, peer, history
<1>2. PICK w, v : w = W /\ v = ws'[1]
  OBVIOUS
<1>3. Phase("ws", link, data, w, frames, net, c)
  BY <1>1, <1>2 DEF Framed
<1>4. PICK g, q, m, f, b : ReadsFrame(data, w, frames, net, c, g, q, m, f, b)
  BY <1>3, FrameRead
<1>5. /\ f \in Frames /\ c + 1 \in Nat /\ Place(w, f, c + 1)
      /\ data[w.offset + 1] = b[w.at + 1] /\ b = FrameBytes(f, c + 1)
  BY <1>4, FrameReadIs
<1>6. PICK n : n = c + 1
  OBVIOUS
<1>7. f \in Frames /\ n \in Nat /\ b = FrameBytes(f, n) /\ Place(w, f, n) /\ WsByte = b[w.at + 1]
  BY <1>2, <1>5, <1>6 DEF WsByte
<1>8. Place(v, f, n) /\ StepsOn(w, v)
  BY <1>2, <1>7, FrameSteps
<1>9. Place(v, f, c + 1)
  BY <1>6, <1>8
<1>10. Phase("ws", link, data, v, frames, net, c)
  BY <1>3, <1>4, <1>8, <1>9, PhaseStep
<1>11. W' = v
  BY <1>2 DEF W
<1>12. Heard(handled, frames, c) /\ ClosesLast(frames)
  BY DEF Framed
<1> QED BY <1>1, <1>10, <1>11, <1>12 DEF Framed

LEMMA LastFramed ==
  ASSUME NEW c, Framed(c), LastByte
  PROVE  /\ c \in Nat /\ c < Len(frames) /\ Text = frames[c + 1].text /\ W.op = frames[c + 1].op
         /\ frames[c + 1].op \in Ops
         /\ \E b : FrameEnds(data, W, frames, net, c, b, Fresh)
         /\ Fresh.offset = W.offset /\ W.offset \in Nat /\ Fresh \in WsState /\ AtStart(Fresh)
<1>1. PICK w, t, u : w = W /\ t = Text /\ u = Fresh
  OBVIOUS
<1>2. w.step = "data" /\ w.len = 1 /\ Phase("ws", link, data, w, frames, net, c)
  BY <1>1 DEF Framed, LastByte, On
<1>3. PICK g, q, m, f, b : ReadsFrame(data, w, frames, net, c, g, q, m, f, b)
  BY <1>2, FrameRead
<1>4. /\ f \in Frames /\ c + 1 \in Nat /\ c + 1 \in 1..Len(frames) /\ Place(w, f, c + 1)
      /\ data[w.offset + 1] = b[w.at + 1] /\ b = FrameBytes(f, c + 1) /\ f = frames[c + 1]
  BY <1>3, FrameReadIs
<1>5. PICK n, x : n = c + 1 /\ x = b[w.at + 1]
  OBVIOUS
<1>6. f \in Frames /\ n \in Nat /\ Place(w, f, n) /\ b = FrameBytes(f, n)
  BY <1>4, <1>5
<1>7. x = WsByte
  BY <1>1, <1>4, <1>5 DEF WsByte
<1>8. t = Append(w.text, Unmasked(x, w.key, Len(w.text)))
  BY <1>1, <1>7 DEF Text
<1>9. /\ t = f.text /\ w.op = f.op /\ w.at + 1 = Len(b) /\ w \in WsState
      /\ t \in Seq(Tokens \cup {"?"})
  <2>1. LastOf(w, f, n, b, x, t)
    BY <1>2, <1>5, <1>6, <1>8 DEF LastOf
  <2>2. LastIs(w, f, b, t)
    BY <2>1, LastByteIs
  <2> QED BY <2>2 DEF LastIs
<1>10. u \in WsState /\ AtStart(u) /\ u.offset = w.offset
  BY <1>1, <1>9, FreshIs
<1>11. FrameEnds(data, w, frames, net, c, b, u)
  BY <1>2, <1>3, <1>9, <1>10 DEF FrameEnds
<1>12. w.offset \in Nat
  BY <1>9, WsTyped
<1>13. f.op \in Ops
  BY <1>4, FramesAre
<1>14. c \in Nat /\ Len(frames) \in Nat
  BY HeardTyped DEF Framed
<1>15. c < Len(frames)
  BY <1>4, <1>14
<1>16. Text = frames[c + 1].text /\ W.op = frames[c + 1].op /\ frames[c + 1].op \in Ops
  BY <1>1, <1>4, <1>9, <1>13
<1> QED BY <1>1, <1>10, <1>11, <1>12, <1>14, <1>15, <1>16

\* What comes after a frame that does not close.
LEMMA AfterFramed ==
  ASSUME NEW c, Framed(c), LastByte, W.op # "close", AfterFrame, frames' = frames, net' = net
  PROVE  Phase(pc', link', data', W', frames', net', c + 1)
<1>1. /\ c \in Nat /\ frames[c + 1].op # "close"
      /\ Fresh.offset = W.offset /\ W.offset \in Nat /\ Fresh \in WsState /\ AtStart(Fresh)
  BY LastFramed
<1>2. PICK b : FrameEnds(data, W, frames, net, c, b, Fresh)
  BY LastFramed
<1>3. PICK w, u, v : w = W /\ u = Fresh /\ v = ws'[1]
  OBVIOUS
<1>4. W' = v
  BY <1>3 DEF W
<1>5. FrameEnds(data, w, frames, net, c, b, u)
  BY <1>2, <1>3
<1>6. CASE w.offset + 1 = Len(data)
  <2>1. v = [u EXCEPT !.offset = 0] /\ Returns
    BY <1>3, <1>6 DEF AfterFrame
  <2>2. v \in WsState /\ AtStart(v) /\ v.offset = 0
    BY <1>1, <1>3, <2>1, OffsetSet
  <2>3. FrameEnds(data, w, frames, net, c, b, v)
    BY <1>5, <2>2 DEF FrameEnds
  <2>4. Phase("idle", link', <<>>, v, frames, net, c + 1)
    BY <1>1, <1>6, <2>2, <2>3, PhaseEnds
  <2>5. data' = <<>> /\ pc' \in {"closed", "idle"}
    BY <2>1 DEF Returns
  <2>6. CASE pc' = "closed"
    BY <2>6 DEF Phase
  <2>7. CASE pc' = "idle"
    BY <1>4, <2>4, <2>5, <2>7
  <2> QED BY <2>5, <2>6, <2>7
<1>7. CASE w.offset + 1 # Len(data)
  <2>1. v = [u EXCEPT !.offset = @ + 1] /\ data' = data /\ pc' = pc
    BY <1>3, <1>7 DEF AfterFrame
  <2>2. PICK o : o = w.offset + 1
    OBVIOUS
  <2>3. v = [u EXCEPT !.offset = o] /\ o \in Nat
    BY <1>1, <1>3, <2>1, <2>2
  <2>4. v \in WsState /\ AtStart(v) /\ v.offset = o
    BY <1>1, <1>3, <2>3, OffsetSet
  <2>5. FrameEnds(data, w, frames, net, c, b, v)
    BY <1>5, <2>4 DEF FrameEnds
  <2>6. v.offset = w.offset + 1
    BY <2>2, <2>4
  <2>7. Phase("ws", link', data, v, frames, net, c + 1)
    BY <1>1, <1>7, <2>5, <2>6, PhaseNext
  <2>8. pc = "ws"
    BY DEF LastByte, On
  <2> QED BY <1>4, <2>1, <2>7, <2>8
<1> QED BY <1>6, <1>7

LEMMA PingFramed ==
  ASSUME NEW c, Framed(c), ws_ping
  PROVE  Framed(c + 1)'
<1>1. /\ LastByte /\ W.op \in {"ping", "pong"} /\ AfterFrame
      /\ frames' = frames /\ net' = net /\ handled' = handled
  BY DEF ws_ping, peer, history
<1>2. c \in Nat /\ c < Len(frames) /\ frames[c + 1].op # "text"
  BY <1>1, LastFramed
<1>3. Heard(handled, frames, c) /\ ClosesLast(frames)
  BY DEF Framed
<1>4. Heard(handled, frames, c + 1)
  BY <1>2, <1>3, HeardSame
<1>5. Phase(pc', link', data', W', frames', net', c + 1)
  BY <1>1, AfterFramed
<1> QED BY <1>1, <1>3, <1>4, <1>5 DEF Framed

LEMMA CloseFramed ==
  ASSUME NEW c, Framed(c), ws_close
  PROVE  Framed(c + 1)'
<1>1. /\ LastByte /\ W.op = "close" /\ Returns
      /\ frames' = frames /\ net' = net /\ handled' = handled
  BY DEF ws_close, peer
<1>2. c \in Nat /\ c < Len(frames) /\ frames[c + 1].op = "close"
  BY <1>1, LastFramed
<1>3. Heard(handled, frames, c) /\ ClosesLast(frames) /\ Phase("ws", link, data, W, frames, net, c)
  BY <1>1 DEF Framed, LastByte, On
<1>4. frames[c + 1].op # "text"
  BY <1>2
<1>5. Heard(handled, frames, c + 1)
  BY <1>2, <1>3, <1>4, HeardSame
<1>6. c + 1 = Len(frames) /\ net = <<>> /\ HasClose(frames)
  BY <1>2, <1>3, PhaseCloses
<1>7. Down(link')
  BY DEF ws_close, Write, Up, Down
<1>8. pc' \in {"closed", "idle"}
  BY <1>1 DEF Returns
<1>9. Phase(pc', link', data', W', frames, net, c + 1)
  BY <1>6, <1>7, <1>8 DEF Phase
<1> QED BY <1>1, <1>3, <1>5, <1>9 DEF Framed

LEMMA TextFramed ==
  ASSUME ConnectionInv, NEW c, Framed(c),
         NEW does \in {"keeps", "closes", "loses"}, ws_frame(does)
  PROVE  Framed(c + 1)'
<1>1. PICK result : /\ result \in {ape_server_on_ws_frame(parser, session, Text)}
                    /\ handled' = Append(handled, <<Text, result.answer>>)
                    /\ IF result.answer = "crashed"
                       THEN pc' = "crashed" /\ does = "keeps" /\ UNCHANGED <<data, i, ws>>
                       ELSE AfterFrame
  BY DEF ws_frame
<1>2. LastByte /\ W.op = "text" /\ frames' = frames /\ net' = net
  BY DEF ws_frame, peer
<1>3. c \in Nat /\ c < Len(frames) /\ Text = frames[c + 1].text /\ frames[c + 1].op = "text"
  BY <1>2, LastFramed
<1>4. PICK a : a = result.answer
  OBVIOUS
<1>5. session \in {0, 1}
  BY DEF ConnectionInv, StateOK
<1>6. a \in Verdicts
  BY <1>1, <1>4, <1>5, Verdict
<1>7. Heard(handled, frames, c) /\ ClosesLast(frames)
  BY DEF Framed
<1>8. PICK k : k = handled'
  OBVIOUS
<1>9. k = Append(handled, <<frames[c + 1].text, a>>)
  BY <1>1, <1>3, <1>4, <1>8
<1>10. Heard(k, frames, c + 1)
  BY <1>3, <1>6, <1>7, <1>9, HeardText
<1>11. Phase(pc', link', data', W', frames', net', c + 1)
  <2>1. CASE a = "crashed"
    BY <1>1, <1>4, <2>1 DEF Phase
  <2>2. CASE a # "crashed"
    <3>1. AfterFrame /\ W.op # "close"
      BY <1>1, <1>2, <1>4, <2>2
    <3> QED BY <1>2, <3>1, AfterFramed
  <2> QED BY <2>1, <2>2
<1> QED BY <1>2, <1>7, <1>8, <1>10, <1>11 DEF Framed

\* A frame is sent.
LEMMA SendFramed ==
  ASSUME NEW c, Framed(c), NEW f \in Frames, send_frame(f)
  PROVE  Framed(c)'
<1>1. /\ \A n \in DOMAIN frames : frames[n].op # "close"
      /\ frames' = Append(frames, f) /\ net' = Append(net, FrameBytes(f, Len(frames) + 1))
      /\ pc' = pc /\ link' = link /\ data' = data /\ ws' = ws /\ handled' = handled
  BY DEF send_frame, client, history
<1>2. /\ Heard(handled, frames, c) /\ frames \in Seq(Frames) /\ c \in 0..Len(frames)
      /\ Phase(pc, link, data, W, frames, net, c)
  BY HeardTyped DEF Framed
<1>3. \A n \in 1..Len(frames) : frames[n].op # "close"
  BY <1>1, <1>2
<1>4. PICK gs, z : gs = frames' /\ z = net'
  OBVIOUS
<1>5. gs = Append(frames, f) /\ Sends(net, frames, f, z, gs)
  BY <1>1, <1>4 DEF Sends
<1>6. ClosesLast(gs)
  BY <1>2, <1>3, <1>5, ClosesMore
<1>7. Heard(handled, gs, c)
  BY <1>2, <1>5, HeardMore
<1>8. Phase(pc, link, data, W, gs, z, c)
  BY <1>2, <1>3, <1>5, PhaseMore
<1>9. W' = W
  BY <1>1 DEF W
<1> QED BY <1>1, <1>4, <1>6, <1>7, <1>8, <1>9 DEF Framed

\* What has arrived is read.
LEMMA ReadFramed ==
  ASSUME NEW c, Framed(c), ws # <<>>, read
  PROVE  Framed(c)'
<1>1. /\ pc = "idle" /\ pc' = "ws" /\ link' = link /\ ws' = ws /\ frames' = frames
      /\ handled' = handled
  BY DEF read, HasArrived, client, peer, history
<1>2. PICK n \in DOMAIN net : net' = SubSeq(net, n + 1, Len(net))
  BY DEF read
<1>3. PICK p, e : p = net' /\ e = data'
  OBVIOUS
<1>4. e = FlattenSeq(SubSeq(net, 1, Len(net) - Len(p)))
  BY <1>3 DEF read
<1>5. Heard(handled, frames, c) /\ ClosesLast(frames) /\ Phase("idle", link, data, W, frames, net, c)
  BY <1>1 DEF Framed
<1>6. net # <<>>
  BY <1>2
<1>7. Waiting(data, W, frames, net, c)
  BY <1>5, <1>6 DEF Phase
<1>8. net \in Seq(Seq(FramedBytes))
  BY <1>7 DEF Waiting, Lists
<1>9. n \in Nat \ {0} /\ n <= Len(net) /\ Len(net) \in Nat
  BY <1>8
<1>10. p = SubSeq(net, n + 1, Len(net))
  BY <1>2, <1>3
<1>11. Phase("ws", link, e, W, frames, p, c)
  BY <1>4, <1>5, <1>6, <1>9, <1>10, PhaseRead
<1>12. W' = W
  BY <1>1 DEF W
<1> QED BY <1>1, <1>3, <1>5, <1>11, <1>12 DEF Framed

-----------------------------------------------------------------------------
(* From the upgrade on. *)

\* What asks for an upgrade is the last request.
AsksLast ==
  \A n \in 1..Len(sent) : AsksUpgrade(sent[n]) => n = Len(sent)

\* It was asked for, and no length can be refused any more.
Upgraded ==
  /\ \E n \in 1..Len(sent) : AsksUpgrade(sent[n])
  /\ \A n \in 1..Len(sent) : ~(NumberOf(sent[n].length) > MaxCl)

FramingInv ==
  /\ AsksLast
  /\ ws = <<>> => out = <<>> /\ frames = <<>> /\ handled = <<>>
  /\ ws # <<>> => (Derailed /\ out = <<>>) \/ (Upgraded /\ \E c : Framed(c))

LEMMA NothingLeft ==
  ASSUME NEW d, NEW n, NEW s, Input(d, n, s), n <= Len(d), Unread(d, n + 1, s) = <<>>
  PROVE  n = Len(d) /\ s = <<>>
<1>1. n \in Nat /\ Len(d) \in Nat /\ s \in Seq(Packets)
  BY LenProperties DEF Input
<1>2. PICK m : m = n + 1
  OBVIOUS
<1>3. Input(d, m, s) /\ Unread(d, m, s) = <<>>
  BY <1>2, UnreadStep
<1>4. ~(m <= Len(d))
  <2>1. SUFFICES ASSUME m <= Len(d) PROVE FALSE
    OBVIOUS
  <2>2. PICK t, v : t = d[m] /\ v = Unread(d, m + 1, s)
    OBVIOUS
  <2>3. Unread(d, m, s) = Before(t, v) /\ t \in Bytes /\ v \in Seq(Bytes)
    BY <1>3, <2>1, <2>2, UnreadStep
  <2> QED BY <1>3, <2>3, BeforeSome
<1>5. n = Len(d) /\ m > Len(d)
  BY <1>1, <1>2, <1>4
<1>6. FlattenSeq(s) = <<>>
  BY <1>3, <1>5, UnreadStep
<1>7. s = <<>>
  <2>1. SUFFICES ASSUME s # <<>> PROVE FALSE
    OBVIOUS
  <2>2. s \in Seq(Seq(Bytes)) /\ Len(s) \in Nat \ {0}
    BY <1>1, <2>1, PacketsAre, EmptySeq
  <2>3. PICK k \in Nat \ {0} : k = 1 /\ k <= Len(s)
    BY <2>2
  <2>4. s[k] \in Packets
    BY <1>1, <2>2, <2>3, ElementOfSeq
  <2>5. From(s, k) = s
    BY <2>2, <2>3, FromFirst
  <2>6. PICK j \in Nat \ {0} : j = k + 1
    OBVIOUS
  <2>7. FlattenSeq(From(s, k)) = s[k] \o FlattenSeq(From(s, j)) /\ s[k] \in Seq(Bytes)
    BY <2>2, <2>3, <2>6, FlattenFrom
  <2>8. FlattenSeq(From(s, j)) \in Seq(Bytes)
    BY <2>2, <2>6, FlattenFrom
  <2>9. s[k] # <<>>
    BY <2>4 DEF Packets
  <2>10. PICK x \in Seq(Bytes), y \in Seq(Bytes) : x = s[k] /\ y = FlattenSeq(From(s, j))
    BY <2>7, <2>8
  <2>11. FlattenSeq(From(s, k)) = x \o y
    BY <2>7, <2>10
  <2>12. x \o y = <<>>
    BY <1>6, <2>5, <2>11
  <2>13. x # <<>>
    BY <2>9, <2>10
  <2> QED BY <2>12, <2>13, ConcatEqualIffEmpty
<1> QED BY <1>5, <1>7

\* The connection begins to wait for frames.
LEMMA NothingFramed ==
  ASSUME NEW fs, fs = <<>>, NEW h, h = <<>>, NEW s, s = <<>>, NEW w, w = NewWsState, NEW l,
         NEW p \in {"idle", "closed"}, NEW z, z = 0
  PROVE  Heard(h, fs, z) /\ ClosesLast(fs) /\ Phase(p, l, <<>>, w, fs, s, z)
<1>1. fs \in Seq(Frames) /\ Len(fs) = 0 /\ s \in Seq(Seq(FramedBytes)) /\ Len(s) = 0
  OBVIOUS
<1>2. Heard(h, fs, z)
  BY <1>1, HeardNothing
<1>3. ClosesLast(fs)
  BY <1>1 DEF ClosesLast
<1>4. w \in WsState /\ AtStart(w) /\ w.offset = 0
  <2>1. <<>> \in Seq(Nat) /\ <<>> \in Seq(Tokens \cup {"?"})
    OBVIOUS
  <2> QED BY <2>1 DEF NewWsState, WsState, AtStart, Steps
<1>5. Lists(s, fs, z)
  BY <1>1 DEF Lists
<1>6. Waiting(<<>>, w, fs, s, z)
  BY <1>1, <1>4, <1>5 DEF Waiting
<1>7. Unclosed(fs, z)
  BY DEF Unclosed
<1> QED BY <1>2, <1>3, <1>6, <1>7 DEF Phase

\* The request that is answered with the upgrade is the last, and all were read.
LEMMA UpgradeFinds ==
  ASSUME ConnectionInv, sent \in Seq(Requests), ServedOK, Following, AsksLast, http_ready_upgrade
  PROVE  Upgraded /\ i = Len(data) /\ net = <<>>
<1>1. pc = "http" /\ Byte.ok /\ Byte.ready /\ Asked
  BY DEF http_ready_upgrade, Ready, Asked, Upgrades
<1>2. PICK k, u, g : k = Len(served) /\ u = Unread(data, i + 1, net) /\ g = AfterByte.h
  OBVIOUS
<1>3. /\ k \in Nat /\ k < Len(sent) /\ Input(data, i, net) /\ i <= Len(data)
      /\ Finished(sent[k + 1], g) /\ IsComplete(sent[k + 1]) /\ u = SentFrom(sent, k + 2)
  BY <1>1, <1>2, ByteFollows
<1>4. k + 1 \in 1..Len(sent) /\ Len(sent) \in Nat
  BY <1>3, LenProperties
<1>5. PICK r \in Request : r = sent[k + 1]
  BY <1>4, SentRequests DEF WellFormed
<1>6. AsksUpgrade(r)
  BY <1>1, <1>2, <1>3, <1>5, FinishedAsks DEF Asked
<1>7. k + 1 = Len(sent)
  BY <1>4, <1>5, <1>6 DEF AsksLast
<1>8. u = <<>>
  <2>1. PICK j \in Nat \ {0} : j = k + 2 /\ j > Len(sent)
    BY <1>3, <1>4, <1>7
  <2> QED BY <1>3, <2>1, SentFromIs
<1>9. i = Len(data) /\ net = <<>>
  BY <1>2, <1>3, <1>8, NothingLeft
<1>10. ASSUME NEW n \in 1..Len(sent) PROVE ~(NumberOf(sent[n].length) > MaxCl)
  <2>1. IsComplete(sent[n])
    <3>1. CASE n \in 1..k
      BY <1>2, <3>1 DEF ServedOK, ForScripts
    <3>2. CASE n = k + 1
      BY <1>3, <3>2
    <3> QED BY <1>3, <1>7, <3>1, <3>2
  <2>2. NumberOf(sent[n].length) \in Nat
    BY SentRequests, LengthIs DEF WellFormed
  <2>3. NumberOf(sent[n].length) <= MaxCl
    BY <2>1 DEF IsComplete
  <2> QED BY <2>2, <2>3, MaxClIsNatural
<1>11. AsksUpgrade(sent[k + 1])
  BY <1>5, <1>6
<1>12. \E n \in 1..Len(sent) : AsksUpgrade(sent[n])
  BY <1>4, <1>11
<1> QED BY <1>9, <1>10, <1>12 DEF Upgraded

\* Before the upgrade nothing is written and nothing handled.
LEMMA BeforeUpgrade ==
  ASSUME ConnectionInv, [Next]_vars, ws = <<>>, out = <<>>, ~http_ready_upgrade
  PROVE  ws' = ws /\ out' = out /\ frames' = frames /\ handled' = handled
<1>1. pc # "ws"
  BY DEF ConnectionInv, UpgradeInv
<1>2. ~LastByte /\ \A step : ~On(step)
  BY <1>1 DEF LastByte, On
<1>3. /\ ~ws_start /\ ~ws_length /\ ~ws_short_length /\ ~ws_extended_length
      /\ ~ws_key /\ ~ws_data /\ ~ws_close /\ ~ws_ping /\ \A does : ~ws_frame(does)
  BY <1>2 DEF ws_start, ws_length, ws_short_length, ws_extended_length, ws_key, ws_data,
              ws_close, ws_ping, ws_frame
<1>4. \A f \in Frames : ~send_frame(f)
  BY DEF send_frame
<1>5. CASE \/ \E r \in Requests : send_request(r)
           \/ peer_closes \/ peer_resets \/ UNCHANGED vars
  BY <1>5 DEF send_request, peer_closes, peer_resets, vars, client, peer, history
<1>6. CASE read \/ disconnect
  BY <1>6 DEF read, disconnect, client, peer, history
<1>7. CASE \/ http_char \/ http_refused \/ http_ready_ignored
           \/ \E does \in {"keeps", "closes", "loses"} : http_ready_request(does)
  BY <1>7 DEF http_char, http_refused, http_ready_ignored, http_ready_request, peer, history
<1> QED BY <1>3, <1>4, <1>5, <1>6, <1>7 DEF Next, Step

\* Nothing is written to a socket that is down.
LEMMA DownWrites ==
  ASSUME [Next]_vars, ~Up
  PROVE  out' = out
<1>1. CASE \/ \E r \in Requests : send_request(r)
           \/ \E f \in Frames : send_frame(f)
           \/ peer_closes \/ peer_resets \/ UNCHANGED vars \/ read \/ disconnect
  BY <1>1 DEF send_request, send_frame, peer_closes, peer_resets, vars, read, disconnect, history
<1>2. CASE \/ http_char \/ http_refused \/ http_ready_ignored
           \/ \E does \in {"keeps", "closes", "loses"} : http_ready_request(does)
  BY <1>2 DEF http_char, http_refused, http_ready_ignored, http_ready_request, history
<1>3. CASE http_ready_upgrade
  BY <1>3 DEF http_ready_upgrade, Write
<1>4. CASE \/ ws_start \/ ws_length \/ ws_short_length \/ ws_extended_length
           \/ ws_key \/ ws_data \/ ws_ping
  BY <1>4 DEF ws_start, ws_length, ws_short_length, ws_extended_length, ws_key, ws_data, ws_ping,
              InFrame, history
<1>5. CASE ws_close
  BY <1>5 DEF ws_close, Write
<1>6. CASE \E does \in {"keeps", "closes", "loses"} : ws_frame(does)
  BY <1>6 DEF ws_frame, Write
<1> QED BY <1>1, <1>2, <1>3, <1>4, <1>5, <1>6 DEF Next, Step

\* No request follows one that asks for an upgrade.
LEMMA AsksLastKept ==
  ASSUME sent \in Seq(Requests), AsksLast, [Next]_vars
  PROVE  AsksLast'
<1>1. CASE sent' = sent
  BY <1>1 DEF AsksLast
<1>2. ASSUME NEW r \in Requests, send_request(r) PROVE AsksLast'
  <2>1. sent' = Append(sent, r) /\ \A n \in 1..Len(sent) : ~AsksUpgrade(sent[n])
    BY <1>2, LenProperties DEF send_request
  <2>2. Len(sent) \in Nat /\ Len(sent') = Len(sent) + 1 /\ \A n \in 1..Len(sent) : sent'[n] = sent[n]
    BY <2>1
  <2> QED BY <2>1, <2>2 DEF AsksLast
<1> QED BY <1>1, <1>2, SentGrows

\* After an upgrade no request is sent.
LEMMA UpgradedStays ==
  ASSUME sent \in Seq(Requests), Upgraded, [Next]_vars
  PROVE  sent' = sent /\ Upgraded' /\ \A r \in Requests : ~send_request(r)
<1>1. \A r \in Requests : ~send_request(r)
  BY LenProperties DEF Upgraded, send_request
<1>2. sent' = sent
  BY <1>1, SentGrows
<1> QED BY <1>1, <1>2 DEF Upgraded

\* Every step on frames.
LEMMA FramedAlone ==
  ASSUME NEW c, Framed(c), data' = data, net' = net, pc' = pc, ws' = ws, frames' = frames,
         handled' = handled, link' = link \/ link' \in {"eof", "broken"},
         link' = "eof" => link \in {"up", "eof"}
  PROVE  Framed(c)'
<1>1. W' = W
  BY DEF W
<1>2. Down(link) => Down(link')
  BY DEF Down
<1>3. Heard(handled, frames, c) /\ ClosesLast(frames) /\ Phase(pc, link, data, W, frames, net, c)
  BY DEF Framed
<1>4. Phase(pc, link', data, W, frames, net, c)
  BY <1>2, <1>3 DEF Phase
<1> QED BY <1>1, <1>3, <1>4 DEF Framed

LEMMA FramedNext ==
  ASSUME ConnectionInv, ws # <<>>, NEW c, Framed(c), [Next]_vars,
         \A r \in Requests : ~send_request(r)
  PROVE  Framed(c)' \/ Framed(c + 1)'
<1>1. pc \in {"closed", "crashed", "idle", "ws"}
  BY DEF Framed, Phase
<1>2. ASSUME NEW f \in Frames, send_frame(f) PROVE Framed(c)'
  BY <1>2, SendFramed
<1>3. CASE peer_closes \/ peer_resets \/ UNCHANGED vars
  <2>1. /\ data' = data /\ net' = net /\ pc' = pc /\ ws' = ws /\ frames' = frames
        /\ handled' = handled /\ (link' = link \/ link' \in {"eof", "broken"})
        /\ (link' = "eof" => link \in {"up", "eof"})
    BY <1>3 DEF peer_closes, peer_resets, vars, reading, client, peer, history
  <2> QED BY <2>1, FramedAlone
<1>4. CASE read
  BY <1>4, ReadFramed
<1>5. CASE disconnect
  <2>1. pc' = "closed" /\ frames' = frames /\ handled' = handled
    BY <1>5 DEF disconnect, peer, history
  <2>2. Heard(handled, frames, c) /\ ClosesLast(frames)
    BY DEF Framed
  <2>3. Phase(pc', link', data', W', frames', net', c)
    BY <2>1 DEF Phase
  <2> QED BY <2>1, <2>2, <2>3 DEF Framed
<1>6. /\ ~http_char /\ ~http_refused /\ ~http_ready_upgrade /\ ~http_ready_ignored
      /\ \A does : ~http_ready_request(does)
  BY <1>1 DEF http_char, http_refused, http_ready_upgrade, http_ready_ignored, http_ready_request,
              Ready
<1>7. CASE ws_start \/ ws_length \/ ws_short_length \/ ws_extended_length \/ ws_key \/ ws_data
  BY <1>7, StepsFramed
<1>8. CASE ws_close
  BY <1>8, CloseFramed
<1>9. CASE ws_ping
  BY <1>9, PingFramed
<1>10. ASSUME NEW does \in {"keeps", "closes", "loses"}, ws_frame(does) PROVE Framed(c + 1)'
  BY <1>10, TextFramed
<1> QED BY <1>2, <1>3, <1>4, <1>5, <1>6, <1>7, <1>8, <1>9, <1>10 DEF Next, Step

LEMMA ReadyRefuses ==
  ASSUME ConnectionInv, http.p.ready
  PROVE  ~Byte.ready
<1>1. HttpLike(http)
  BY DEF ConnectionInv, StateOK
<1>2. ParserOK(http.p)
  BY <1>1, BuffersAre
<1>3. Byte = Refuses(http.p)
  BY <1>2, ParserKept DEF Byte
<1> QED BY <1>3, AcceptsFacts

LEMMA UpgradeFramed ==
  ASSUME ConnectionInv, StreamInv, FramingInv, ~Derailed, ws = <<>>, http_ready_upgrade
  PROVE  ws' # <<>> /\ Upgraded' /\ \E c : Framed(c)'
<1>1. /\ Ready /\ ws' = <<NewWsState>> /\ sent' = sent /\ frames' = frames /\ handled' = handled
      /\ net' = net /\ NextByte
  BY DEF http_ready_upgrade, peer
<1>2. ~http.p.ready /\ pc # "closed"
  BY <1>1, ReadyRefuses DEF Ready
<1>3. sent \in Seq(Requests) /\ ServedOK /\ Following /\ AsksLast
  BY <1>2 DEF StreamInv, FramingInv, Stuck
<1>4. Upgraded /\ i = Len(data) /\ net = <<>>
  BY <1>3, UpgradeFinds
<1>5. data' = <<>> /\ pc' \in {"idle", "closed"}
  BY <1>1, <1>4 DEF NextByte, Returns
<1>6. frames = <<>> /\ handled = <<>>
  BY DEF FramingInv
<1>7. PICK w, fs, h, s, z : w = NewWsState /\ fs = frames /\ h = handled /\ s = net /\ z = 0
  OBVIOUS
<1>8. fs = <<>> /\ h = <<>> /\ s = <<>>
  BY <1>4, <1>6, <1>7
<1>9. Heard(h, fs, z) /\ ClosesLast(fs) /\ Phase(pc', link', <<>>, w, fs, s, z)
  BY <1>5, <1>7, <1>8, NothingFramed
<1>10. W' = w
  BY <1>1, <1>7 DEF W
<1>11. Framed(z)'
  BY <1>1, <1>5, <1>7, <1>9, <1>10 DEF Framed
<1>12. Upgraded'
  BY <1>1, <1>4 DEF Upgraded
<1> QED BY <1>1, <1>11, <1>12

LEMMA FramingInit == Init => FramingInv
<1>1. SUFFICES ASSUME Init PROVE FramingInv
  OBVIOUS
<1>2. ws = <<>> /\ out = <<>> /\ frames = <<>> /\ handled = <<>> /\ sent = <<>>
  BY <1>1 DEF Init
<1>3. Len(sent) = 0
  BY <1>2
<1> QED BY <1>2, <1>3 DEF FramingInv, AsksLast

LEMMA FramingNext ==
  ASSUME ConnectionInv, StreamInv, FramingInv, [Next]_vars
  PROVE  FramingInv'
<1>1. sent \in Seq(Requests)
  BY DEF StreamInv
<1>2. AsksLast'
  BY <1>1, AsksLastKept DEF FramingInv
<1>3. CASE ws = <<>> /\ ~http_ready_upgrade
  <2>1. ws' = ws /\ out' = out /\ frames' = frames /\ handled' = handled
    BY <1>3, BeforeUpgrade DEF FramingInv
  <2> QED BY <1>2, <1>3, <2>1 DEF FramingInv
<1>4. CASE Derailed /\ out = <<>> /\ (ws # <<>> \/ http_ready_upgrade)
  <2>1. Prolonged(sent, sent')
    <3>1. sent' = sent \/ \E r \in Requests : sent' = Append(sent, r)
      BY SentGrows DEF send_request
    <3> QED BY <1>1, <3>1, GrownOne
  <2>2. ~Up'
    BY <1>4, DownStays DEF Derailed
  <2>3. Derailed'
    BY <1>1, <1>4, <2>1, <2>2, DerailedStays
  <2>4. out' = <<>>
    BY <1>4, DownWrites DEF Derailed
  <2>5. ws' # <<>>
    <3>1. CASE ws # <<>>
      BY <3>1, NextKeeps DEF Kept, UpgradeIsFinal
    <3>2. CASE http_ready_upgrade
      BY <3>2 DEF http_ready_upgrade
    <3> QED BY <1>4, <3>1, <3>2
  <2> QED BY <1>2, <2>3, <2>4, <2>5 DEF FramingInv
<1>5. CASE ~Derailed /\ ws = <<>> /\ http_ready_upgrade
  <2>1. ws' # <<>> /\ Upgraded' /\ \E c : Framed(c)'
    BY <1>5, UpgradeFramed
  <2> QED BY <1>2, <2>1 DEF FramingInv
<1>6. CASE ws # <<>> /\ Upgraded /\ \E c : Framed(c)
  <2>1. Upgraded' /\ \A r \in Requests : ~send_request(r)
    BY <1>1, <1>6, UpgradedStays
  <2>2. PICK c : Framed(c)
    BY <1>6
  <2>3. Framed(c)' \/ Framed(c + 1)'
    BY <1>6, <2>1, <2>2, FramedNext
  <2>4. ws' # <<>>
    BY <1>6, NextKeeps DEF Kept, UpgradeIsFinal
  <2> QED BY <1>2, <2>1, <2>3, <2>4 DEF FramingInv
<1> QED BY <1>3, <1>4, <1>5, <1>6 DEF FramingInv

LEMMA FramingInvariance == Spec => [](ConnectionInv /\ StreamInv /\ FramingInv)
<1>1. ConnectionInv /\ StreamInv /\ FramingInv /\ [Next]_vars => FramingInv'
  BY FramingNext
<1> QED BY FramingInit, StreamInvariance, <1>1, PTL DEF Spec

-----------------------------------------------------------------------------
(* What was handled is what was to be handled. *)

LEMMA HeardExpected ==
  ASSUME NEW h, NEW fs, NEW c, Heard(h, fs, c)
  PROVE  /\ IsPrefix(TextsIn(h), TextsOf(fs)[Len(fs)])
         /\ c = Len(fs) => TextsIn(h) = TextsOf(fs)[Len(fs)]
<1>1. fs \in Seq(Frames) /\ c \in 0..Len(fs) /\ Len(fs) \in Nat /\ TextsIn(h) = TextsOf(fs)[c]
  BY HeardTyped DEF Heard
<1>2. fs \in Seq(Frame)
  <2>1. \A n \in 1..Len(fs) : fs[n] \in Frame
    BY <1>1, ElementOfSeq, FramesAre
  <2>2. fs = [n \in 1..Len(fs) |-> fs[n]]
    BY <1>1
  <2> QED BY <1>1, <2>1, <2>2
<1>3. PICK s, t : s = TextsOf(fs)[c] /\ t = TextsOf(fs)[Len(fs)]
  OBVIOUS
<1>4. s \in Seq(Texts) /\ t \in Seq(Texts)
  BY <1>1, <1>2, <1>3, TextsTyped
<1>5. Begins(s, t)
  BY <1>1, <1>2, <1>3, TextsBegin
<1>6. IsPrefix(s, t)
  BY <1>4, <1>5, BeginsPrefix
<1> QED BY <1>1, <1>3, <1>6

LEMMA SettledFramed ==
  ASSUME NEW c, Framed(c), Settled
  PROVE  c = Len(frames)
<1>1. Phase("idle", link, data, W, frames, <<>>, c) /\ Heard(handled, frames, c)
  BY DEF Framed, Settled
<1>2. CASE Waiting(data, W, frames, <<>>, c)
  <2>1. c + Len(<<>>) = Len(frames) /\ c \in Nat
    BY <1>1, <1>2, HeardTyped DEF Waiting
  <2> QED BY <2>1
<1> QED BY <1>1, <1>2 DEF Phase

LEMMA FramesHold ==
  ASSUME ConnectionInv, StreamInv, FramingInv
  PROVE  FramesAsSent
<1>1. [n \in DOMAIN handled |-> handled[n][1]] = TextsIn(handled)
  BY DEF TextsIn
<1>2. CASE Derailed
  BY <1>2 DEF FramesAsSent
<1>3. CASE ws = <<>>
  <2>1. frames = <<>> /\ handled = <<>>
    BY <1>3 DEF FramingInv
  <2>2. frames \in Seq(Frames) /\ Len(frames) = 0
    BY <2>1
  <2>3. PICK z : z = 0
    OBVIOUS
  <2>4. Heard(handled, frames, z)
    BY <2>1, <2>2, <2>3, HeardNothing
  <2>5. z = Len(frames)
    BY <2>2, <2>3
  <2> QED BY <1>1, <2>4, <2>5, HeardExpected DEF FramesAsSent, AsExpected
<1>4. CASE Upgraded /\ \E c : Framed(c)
  <2>1. PICK c : Framed(c)
    BY <1>4
  <2>2. Heard(handled, frames, c)
    BY <2>1 DEF Framed
  <2>3. Settled => c = Len(frames)
    BY <2>1, SettledFramed
  <2> QED BY <1>1, <2>2, <2>3, HeardExpected DEF FramesAsSent, AsExpected
<1> QED BY <1>2, <1>3, <1>4 DEF FramingInv

\* Whatever frames a peer sends after the upgrade, many or few in a read and with
\* lengths of any size, their texts are given to on_frame each once, in order
\* and unmasked, and all of them when everything was read
\* (ape_websocket.c:78-226, ape_server.c:204-241).
THEOREM FramesAsSentHolds == Spec => []FramesAsSent
<1>1. ConnectionInv /\ StreamInv /\ FramingInv => FramesAsSent
  BY FramesHold
<1> QED BY <1>1, FramingInvariance, PTL

-----------------------------------------------------------------------------
(* What is written. *)

IsSequence(h) == \E S : h \in Seq(S)

OneMore(h, e, k) ==
  /\ IsSequence(k) /\ Len(h) \in Nat /\ Len(k) = Len(h) + 1
  /\ k[Len(h) + 1] = e /\ \A n \in 1..Len(h) : k[n] = h[n]

LEMMA SequenceMore ==
  ASSUME NEW h, IsSequence(h), NEW e, NEW k, k = Append(h, e)
  PROVE  OneMore(h, e, k)
<1>1. PICK S : h \in Seq(S)
  BY DEF IsSequence
<1>2. PICK T : T = S \cup {e}
  OBVIOUS
<1>3. Len(h) \in Nat /\ h = [n \in 1..Len(h) |-> h[n]]
  BY <1>1
<1>4. \A n \in 1..Len(h) : h[n] \in T
  BY <1>1, <1>2, ElementOfSeq
<1>5. h \in Seq(T)
  BY <1>3, <1>4, SeqDef
<1>6. e \in T
  BY <1>2
<1>7. k \in Seq(T) /\ Len(k) = Len(h) + 1 /\ k[Len(h) + 1] = e /\ \A n \in 1..Len(h) : k[n] = h[n]
  BY <1>5, <1>6
<1> QED BY <1>3, <1>7 DEF IsSequence, OneMore

LEMMA AnswersTyped ==
  ASSUME NEW h, NEW N \in Nat, Len(h) = N
  PROVE  \A n \in 0..N : AnswersTo(h)[n] \in Seq({"bad_json"})
<1> DEFINE G == {m \in Nat : m <= N => AnswersTo(h)[m] \in Seq({"bad_json"})}
<1>1. 0 \in G
  <2>1. AnswersTo(h)[0] = <<>>
    BY AnswersEquation
  <2>2. <<>> \in Seq({"bad_json"})
    OBVIOUS
  <2> QED BY <2>1, <2>2
<1>2. ASSUME NEW m \in Nat, m \in G PROVE m + 1 \in G
  <2>1. SUFFICES ASSUME m + 1 <= N PROVE AnswersTo(h)[m + 1] \in Seq({"bad_json"})
    OBVIOUS
  <2>2. AnswersTo(h)[m] \in Seq({"bad_json"})
    BY <1>2, <2>1
  <2>3. PICK k \in 1..N : k = m + 1 /\ k - 1 = m
    BY <2>1
  <2>4. AnswersTo(h)[k] = IF h[k][2] = "bad_json" THEN Append(AnswersTo(h)[m], "bad_json")
                          ELSE AnswersTo(h)[m]
    BY <2>3, AnswersEquation
  <2>5. AnswersTo(h)[k] \in Seq({"bad_json"})
    BY <2>2, <2>4
  <2> QED BY <2>3, <2>5
<1>3. Nat \subseteq G
  <2> HIDE DEF G
  <2> QED BY <1>1, <1>2, SetInduction
<1> QED BY <1>3

\* The answers up to the close.
RepliesTo(h) == <<"101">> \o AnswersTo(h)[Len(h)]
Said == {"101", "bad_json"}

LEMMA RepliesTyped ==
  ASSUME NEW h, IsSequence(h)
  PROVE  RepliesTo(h) \in Seq(Said) /\ AnswersTo(h)[Len(h)] \in Seq(Said)
<1>1. Len(h) \in Nat
  BY LenProperties DEF IsSequence
<1>2. PICK s \in Seq({"bad_json"}) : s = AnswersTo(h)[Len(h)]
  BY <1>1, AnswersTyped
<1>3. s \in Seq(Said)
  <2>1. \A n \in 1..Len(s) : s[n] \in Said
    BY ElementOfSeq DEF Said
  <2>2. s = [n \in 1..Len(s) |-> s[n]] /\ Len(s) \in Nat
    OBVIOUS
  <2> QED BY <2>1, <2>2, SeqDef
<1>4. <<"101">> \in Seq(Said)
  BY DEF Said
<1> QED BY <1>2, <1>3, <1>4, ConcatProperties DEF RepliesTo

LEMMA RepliesNone ==
  ASSUME NEW h, h = <<>>
  PROVE  IsSequence(h) /\ RepliesTo(h) = <<"101">>
<1>1. h \in Seq(Said) /\ Len(h) = 0
  OBVIOUS
<1>2. AnswersTo(h)[Len(h)] = <<>>
  BY <1>1, AnswersEquation
<1>3. IsSequence(h)
  BY <1>1 DEF IsSequence
<1>4. <<"101">> \in Seq(Said)
  BY DEF Said
<1>5. RepliesTo(h) = <<"101">> \o <<>>
  BY <1>2 DEF RepliesTo
<1>6. <<"101">> \o <<>> = <<"101">>
  BY <1>4, ConcatEmptySeq
<1> QED BY <1>3, <1>5, <1>6

\* The text t is answered with a.
Answers(h, t, a, k) == IsSequence(h) /\ k = Append(h, <<t, a>>)
RepliesAdd(h, a, k) ==
  /\ a = "bad_json" => RepliesTo(k) = Append(RepliesTo(h), "bad_json")
  /\ a # "bad_json" => RepliesTo(k) = RepliesTo(h)

LEMMA RepliesMore ==
  ASSUME NEW h, NEW t, NEW a, NEW k, Answers(h, t, a, k)
  PROVE  RepliesAdd(h, a, k)
<1>1. PICK e : e = <<t, a>>
  OBVIOUS
<1>2. k = Append(h, e) /\ IsSequence(h)
  BY <1>1 DEF Answers
<1>0. OneMore(h, e, k)
  BY <1>2, SequenceMore
<1>3. PICK M \in Nat, N \in Nat : M = Len(h) /\ N = Len(k) /\ N = M + 1
  BY <1>0 DEF OneMore
<1>4. k[N] = e /\ \A n \in 1..M : k[n] = h[n]
  BY <1>0, <1>3 DEF OneMore
<1>5. k[N][2] = a
  <2>1. e[2] = a
    BY <1>1
  <2> QED BY <1>4, <2>1
<1>6. N \in 1..N /\ M \in 0..M /\ N - 1 = M /\ M <= N
  BY <1>3
<1>7. AnswersTo(k)[M] = AnswersTo(h)[M]
  BY <1>3, <1>4, <1>6, AnswersAgree
<1>8. AnswersTo(k)[N] = IF k[N][2] = "bad_json" THEN Append(AnswersTo(k)[M], "bad_json")
                        ELSE AnswersTo(k)[M]
  BY <1>3, <1>6, AnswersEquation
<1>9. PICK s : s = AnswersTo(h)[M]
  OBVIOUS
<1>10. s \in Seq(Said) /\ RepliesTo(h) = <<"101">> \o s
  BY <1>2, <1>3, <1>9, RepliesTyped DEF RepliesTo
<1>11. RepliesTo(k) = <<"101">> \o AnswersTo(k)[N]
  BY <1>3 DEF RepliesTo
<1>12. ASSUME a = "bad_json" PROVE RepliesTo(k) = Append(RepliesTo(h), "bad_json")
  <2>1. RepliesTo(k) = <<"101">> \o Append(s, "bad_json")
    BY <1>5, <1>7, <1>8, <1>9, <1>11, <1>12
  <2>5. <<"101">> \in Seq(Said)
    BY DEF Said
  <2>2. PICK r \in Seq(Said) : r = <<"101">>
    BY <2>5
  <2>3. PICK x \in Said : x = "bad_json"
    BY DEF Said
  <2>4. r \o Append(s, x) = Append(r \o s, x)
    BY <1>10
  <2> QED BY <1>10, <2>1, <2>2, <2>3, <2>4
<1>13. ASSUME a # "bad_json" PROVE RepliesTo(k) = RepliesTo(h)
  BY <1>5, <1>7, <1>8, <1>9, <1>10, <1>11, <1>13
<1> QED BY <1>12, <1>13 DEF RepliesAdd

\* What was written after the upgrade: the replies, or a beginning of them if
\* the socket went down before, or the replies and a close after which nothing
\* is handled.
ClosedOn ==
  /\ ~Up /\ out = Append(RepliesTo(handled), "close") /\ HasClose(frames)
  /\ pc = "closed" \/ (pc = "idle" /\ net = <<>>)

Written ==
  \/ Up /\ out = RepliesTo(handled)
  \/ ~Up /\ out \in Seq(Said) /\ Begins(out, RepliesTo(handled))
  \/ ClosedOn

LEMMA HandledGrows ==
  ASSUME [Next]_vars
  PROVE  handled' = handled \/ \E does \in {"keeps", "closes", "loses"} : ws_frame(does)
<1>1. CASE \/ \E r \in Requests : send_request(r)
           \/ \E f \in Frames : send_frame(f)
           \/ peer_closes \/ peer_resets \/ UNCHANGED vars \/ read \/ disconnect
  BY <1>1 DEF send_request, send_frame, peer_closes, peer_resets, vars, read, disconnect, history
<1>2. CASE \/ http_char \/ http_refused \/ http_ready_ignored \/ http_ready_upgrade
           \/ \E does \in {"keeps", "closes", "loses"} : http_ready_request(does)
  BY <1>2 DEF http_char, http_refused, http_ready_ignored, http_ready_upgrade, http_ready_request,
              history
<1>3. CASE \/ ws_start \/ ws_length \/ ws_short_length \/ ws_extended_length
           \/ ws_key \/ ws_data \/ ws_ping \/ ws_close
  BY <1>3 DEF ws_start, ws_length, ws_short_length, ws_extended_length, ws_key, ws_data, ws_ping,
              ws_close, InFrame, history
<1> QED BY <1>1, <1>2, <1>3 DEF Next, Step

\* Without an upgrade, a close or a text nothing is written.
LEMMA NothingWritten ==
  ASSUME [Next]_vars, ~http_ready_upgrade, ~ws_close,
         \A does \in {"keeps", "closes", "loses"} : ~ws_frame(does)
  PROVE  out' = out /\ handled' = handled
<1>1. CASE \/ \E r \in Requests : send_request(r)
           \/ \E f \in Frames : send_frame(f)
           \/ peer_closes \/ peer_resets \/ UNCHANGED vars \/ read \/ disconnect
  BY <1>1 DEF send_request, send_frame, peer_closes, peer_resets, vars, read, disconnect, history
<1>2. CASE \/ http_char \/ http_refused \/ http_ready_ignored
           \/ \E does \in {"keeps", "closes", "loses"} : http_ready_request(does)
  BY <1>2 DEF http_char, http_refused, http_ready_ignored, http_ready_request, history
<1>3. CASE \/ ws_start \/ ws_length \/ ws_short_length \/ ws_extended_length
           \/ ws_key \/ ws_data \/ ws_ping
  BY <1>3 DEF ws_start, ws_length, ws_short_length, ws_extended_length, ws_key, ws_data, ws_ping,
              InFrame, history
<1> QED BY <1>1, <1>2, <1>3 DEF Next, Step

\* What a text leaves.
LEMMA TextReplies ==
  ASSUME NEW does \in {"keeps", "closes", "loses"}, ws_frame(does)
  PROVE  \E t, a : /\ handled' = Append(handled, <<t, a>>)
                   /\ a = "bad_json" => Write(BadJson, http)
                   /\ a # "bad_json" => out' = out
<1>1. PICK result : /\ handled' = Append(handled, <<Text, result.answer>>)
                    /\ IF result.answer = "bad_json" THEN Write(BadJson, http) ELSE out' = out
  BY DEF ws_frame
<1>2. PICK t, a : t = Text /\ a = result.answer
  OBVIOUS
<1> QED BY <1>1, <1>2

LEMMA SequenceStays ==
  ASSUME IsSequence(handled), [Next]_vars
  PROVE  IsSequence(handled')
<1>1. ASSUME NEW does \in {"keeps", "closes", "loses"}, ws_frame(does) PROVE IsSequence(handled')
  <2>1. PICK t, a : handled' = Append(handled, <<t, a>>)
    BY <1>1, TextReplies
  <2>2. PICK e, k : e = <<t, a>> /\ k = handled'
    OBVIOUS
  <2>3. k = Append(handled, e)
    BY <2>1, <2>2
  <2>4. OneMore(handled, e, k)
    BY <2>3, SequenceMore
  <2> QED BY <2>2, <2>4 DEF OneMore
<1> QED BY <1>1, HandledGrows

LEMMA ClosedOnStays ==
  ASSUME ClosedOn, [Next]_vars, \A r \in Requests : ~send_request(r)
  PROVE  ClosedOn'
<1>1. ~Up' /\ out' = out
  BY DownStays, DownWrites DEF ClosedOn
<1>2. \A f \in Frames : ~send_frame(f)
  <2>1. SUFFICES ASSUME NEW f \in Frames, send_frame(f) PROVE FALSE
    OBVIOUS
  <2>2. PICK n \in 1..Len(frames) : frames[n].op = "close"
    BY DEF ClosedOn, HasClose
  <2> QED BY <2>1, <2>2 DEF send_frame
<1>3. ~LastByte /\ \A step : ~On(step)
  BY DEF LastByte, On, ClosedOn
<1>4. /\ ~ws_start /\ ~ws_length /\ ~ws_short_length /\ ~ws_extended_length
      /\ ~ws_key /\ ~ws_data /\ ~ws_close /\ ~ws_ping /\ \A does : ~ws_frame(does)
  BY <1>3 DEF ws_start, ws_length, ws_short_length, ws_extended_length, ws_key, ws_data,
              ws_close, ws_ping, ws_frame
<1>5. /\ ~http_char /\ ~http_refused /\ ~http_ready_upgrade /\ ~http_ready_ignored
      /\ \A does : ~http_ready_request(does)
  BY DEF http_char, http_refused, http_ready_upgrade, http_ready_ignored, http_ready_request,
         Ready, ClosedOn
<1>6. ~read
  BY DEF read, HasArrived, ClosedOn
<1>7. CASE peer_closes \/ peer_resets \/ UNCHANGED vars
  BY <1>1, <1>7 DEF peer_closes, peer_resets, vars, reading, peer, history, ClosedOn
<1>8. CASE disconnect
  BY <1>1, <1>8 DEF disconnect, peer, history, ClosedOn
<1> QED BY <1>2, <1>4, <1>5, <1>6, <1>7, <1>8 DEF Next, Step

\* The first write.
LEMMA UpgradeWritten ==
  ASSUME http_ready_upgrade, out = <<>>, handled = <<>>
  PROVE  Written'
<1>1. handled' = handled /\ \E h : Write(<<"101">>, h)
  BY DEF http_ready_upgrade
<1>2. PICK k : k = handled
  OBVIOUS
<1>3. IsSequence(k) /\ RepliesTo(k) = <<"101">>
  BY <1>2, RepliesNone
<1>4. RepliesTo(handled') = <<"101">>
  BY <1>1, <1>2, <1>3
<1>5. <<>> \o <<"101">> = <<"101">>
  <2>1. <<"101">> \in Seq(Said)
    BY DEF Said
  <2> QED BY <2>1, ConcatEmptySeq
<1>6. CASE Up
  <2>1. Up' /\ out' = <<"101">>
    BY <1>1, <1>5, <1>6 DEF Write, Up
  <2> QED BY <1>4, <2>1 DEF Written
<1>7. CASE ~Up
  <2>1. ~Up' /\ out' = <<>>
    BY <1>1, <1>7 DEF Write, Up
  <2>2. PICK s, t : s = out' /\ t = RepliesTo(handled')
    OBVIOUS
  <2>3. s = <<>> /\ t = <<"101">>
    BY <1>4, <2>1, <2>2
  <2>4. Len(s) = 0 /\ Len(t) = 1
    BY <2>3
  <2>5. Begins(s, t)
    BY <2>4 DEF Begins
  <2>6. out' \in Seq(Said)
    BY <2>1
  <2> QED BY <2>1, <2>2, <2>5, <2>6 DEF Written
<1> QED BY <1>6, <1>7

\* Replies go on as they began.
LEMMA RepliesBegin ==
  ASSUME NEW h, NEW t, NEW a, NEW k, Answers(h, t, a, k)
  PROVE  Begins(RepliesTo(h), RepliesTo(k))
<1>1. PICK s \in Seq(Said) : s = RepliesTo(h)
  BY RepliesTyped DEF Answers
<1>2. PICK x \in Said : x = "bad_json"
  BY DEF Said
<1>3. Begins(s, s) /\ Begins(s, Append(s, x))
  BY BeginsSelf
<1>4. RepliesTo(k) = s \/ RepliesTo(k) = Append(s, x)
  <2>1. RepliesAdd(h, a, k)
    BY RepliesMore
  <2> QED BY <1>1, <1>2, <2>1 DEF RepliesAdd
<1> QED BY <1>1, <1>3, <1>4

LEMMA RepliesBeginThemselves ==
  ASSUME NEW h, IsSequence(h)
  PROVE  Begins(RepliesTo(h), RepliesTo(h))
<1>1. PICK s \in Seq(Said) : s = RepliesTo(h)
  BY RepliesTyped
<1>2. Begins(s, s)
  BY BeginsSelf
<1> QED BY <1>1, <1>2

\* A close.
LEMMA CloseWritten ==
  ASSUME Up, out = RepliesTo(handled), NEW c, Framed(c), ws_close
  PROVE  Written'
<1>1. /\ LastByte /\ W.op = "close" /\ Returns /\ frames' = frames /\ net' = net
      /\ handled' = handled /\ link' = "shut" /\ out' = Append(out, "close")
  BY DEF ws_close, peer
<1>2. frames[c + 1].op = "close"
  BY <1>1, LastFramed
<1>3. ClosesLast(frames) /\ Phase("ws", link, data, W, frames, net, c)
  BY <1>1 DEF Framed, LastByte, On
<1>4. net = <<>> /\ HasClose(frames)
  BY <1>2, <1>3, PhaseCloses
<1>5. ~Up' /\ pc' = "idle"
  BY <1>1 DEF Up, Returns
<1>6. ClosedOn'
  BY <1>1, <1>4, <1>5 DEF ClosedOn
<1> QED BY <1>6 DEF Written

\* A text.
LEMMA TextWritten ==
  ASSUME Up, out = RepliesTo(handled), IsSequence(handled), [Next]_vars,
         NEW does \in {"keeps", "closes", "loses"}, ws_frame(does)
  PROVE  Written'
<1>1. PICK t, a : /\ handled' = Append(handled, <<t, a>>)
                  /\ a = "bad_json" => Write(BadJson, http)
                  /\ a # "bad_json" => out' = out
  BY TextReplies
<1>2. PICK h, k : h = handled /\ k = handled'
  OBVIOUS
<1>3. IsSequence(h) /\ Answers(h, t, a, k)
  BY <1>1, <1>2 DEF Answers
<1>0. RepliesAdd(h, a, k)
  BY <1>3, RepliesMore
<1>4. Begins(RepliesTo(h), RepliesTo(k))
  BY <1>3, RepliesBegin
<1>5. out' = RepliesTo(k) \/ (out' = RepliesTo(h) /\ ~Up')
  <2>1. CASE a = "bad_json"
    <3>1. out' = out \o <<"bad_json">>
      BY <1>1, <2>1 DEF Write, BadJson
    <3>2. PICK s \in Seq(Said) : s = RepliesTo(h)
      BY <1>3, RepliesTyped
    <3>3. PICK x \in Said : x = "bad_json"
      BY DEF Said
    <3>4. s \o <<x>> = Append(s, x)
      OBVIOUS
    <3>5. RepliesTo(k) = Append(RepliesTo(h), "bad_json")
      BY <1>0, <2>1 DEF RepliesAdd
    <3> QED BY <1>2, <3>1, <3>2, <3>3, <3>4, <3>5
  <2>2. CASE a # "bad_json"
    <3>1. RepliesTo(k) = RepliesTo(h)
      BY <1>0, <2>2 DEF RepliesAdd
    <3> QED BY <1>1, <1>2, <2>2, <3>1
  <2> QED BY <2>1, <2>2
<1>6. IsSequence(k)
  BY <1>2, SequenceStays
<1>7. Begins(RepliesTo(k), RepliesTo(k))
  BY <1>6, RepliesBeginThemselves
<1>8. PICK o, r : o = out' /\ r = RepliesTo(k)
  OBVIOUS
<1>9. o = r \/ (o = RepliesTo(h) /\ ~Up')
  BY <1>5, <1>8
<1>10. Begins(o, r)
  BY <1>4, <1>7, <1>8, <1>9
<1>11. o \in Seq(Said)
  <2>1. RepliesTo(k) \in Seq(Said) /\ RepliesTo(h) \in Seq(Said)
    BY <1>3, <1>6, RepliesTyped
  <2> QED BY <1>8, <1>9, <2>1
<1> QED BY <1>2, <1>8, <1>9, <1>10, <1>11 DEF Written

AnsweringInv ==
  /\ IsSequence(handled)
  /\ ws # <<>> /\ Upgraded => Written

LEMMA AnsweringInit == Init => AnsweringInv
<1>1. SUFFICES ASSUME Init PROVE AnsweringInv
  OBVIOUS
<1>2. ws = <<>> /\ handled = <<>>
  BY <1>1 DEF Init
<1>3. IsSequence(handled)
  BY <1>2, RepliesNone
<1> QED BY <1>2, <1>3 DEF AnsweringInv

\* Every step after an upgrade.
LEMMA WrittenNext ==
  ASSUME ConnectionInv, ws # <<>>, IsSequence(handled), Written, NEW c, Framed(c), [Next]_vars,
         \A r \in Requests : ~send_request(r)
  PROVE  Written'
<1>1. ~http_ready_upgrade
  BY DEF Framed, Phase, http_ready_upgrade, Ready
<1>2. CASE Up /\ out = RepliesTo(handled)
  <2>1. CASE ws_close
    BY <1>2, <2>1, CloseWritten
  <2>2. ASSUME NEW does \in {"keeps", "closes", "loses"}, ws_frame(does) PROVE Written'
    BY <1>2, <2>2, TextWritten
  <2>3. CASE ~ws_close /\ \A does \in {"keeps", "closes", "loses"} : ~ws_frame(does)
    <3>1. out' = out /\ handled' = handled
      BY <1>1, <2>3, NothingWritten
    <3>2. Begins(RepliesTo(handled), RepliesTo(handled))
      BY RepliesBeginThemselves
    <3>3. out \in Seq(Said)
      BY <1>2, RepliesTyped
    <3> QED BY <1>2, <3>1, <3>2, <3>3 DEF Written
  <2> QED BY <2>1, <2>2, <2>3
<1>3. CASE ~Up /\ out \in Seq(Said) /\ Begins(out, RepliesTo(handled))
  <2>1. ~Up' /\ out' = out
    BY <1>3, DownStays, DownWrites
  <2>2. CASE handled' = handled
    BY <1>3, <2>1, <2>2 DEF Written
  <2>3. ASSUME NEW does \in {"keeps", "closes", "loses"}, ws_frame(does) PROVE Written'
    <3>1. PICK t, a : handled' = Append(handled, <<t, a>>)
      BY <2>3, TextReplies
    <3>2. PICK h, k : h = handled /\ k = handled'
      OBVIOUS
    <3>3. Answers(h, t, a, k)
      BY <3>1, <3>2 DEF Answers
    <3>4. Begins(RepliesTo(h), RepliesTo(k))
      BY <3>3, RepliesBegin
    <3>5. PICK o, p, q : o = out /\ p = RepliesTo(h) /\ q = RepliesTo(k)
      OBVIOUS
    <3>6. Begins(o, p) /\ Begins(p, q)
      BY <1>3, <3>2, <3>4, <3>5
    <3>7. Begins(o, q)
      BY <3>6, BeginsOn
    <3> QED BY <1>3, <2>1, <3>2, <3>5, <3>7 DEF Written
  <2> QED BY <2>2, <2>3, HandledGrows
<1>4. CASE ClosedOn
  BY <1>4, ClosedOnStays DEF Written
<1> QED BY <1>2, <1>3, <1>4 DEF Written

LEMMA AnsweringNext ==
  ASSUME ConnectionInv, StreamInv, FramingInv, AnsweringInv, [Next]_vars
  PROVE  AnsweringInv'
<1>1. sent \in Seq(Requests)
  BY DEF StreamInv
<1>2. IsSequence(handled')
  BY SequenceStays DEF AnsweringInv
<1>3. ASSUME (ws # <<>> /\ Upgraded)' PROVE Written'
  <2>1. ~Derailed
    <3>1. SUFFICES ASSUME Derailed PROVE FALSE
      OBVIOUS
    <3>2. Prolonged(sent, sent')
      <4>1. sent' = sent \/ \E r \in Requests : sent' = Append(sent, r)
        BY SentGrows DEF send_request
      <4> QED BY <1>1, <4>1, GrownOne
    <3>3. ~Up'
      BY <3>1, DownStays DEF Derailed
    <3>4. Derailed'
      BY <1>1, <3>1, <3>2, <3>3, DerailedStays
    <3>5. PICK n \in DOMAIN sent' : NumberOf(sent'[n].length) > MaxCl
      BY <3>4 DEF Derailed
    <3>6. n \in 1..Len(sent')
      BY <3>2, <3>5, LenProperties DEF Prolonged
    <3> QED BY <1>3, <3>5, <3>6 DEF Upgraded
  <2>2. CASE ws = <<>>
    <3>1. out = <<>> /\ handled = <<>>
      BY <2>2 DEF FramingInv
    <3>2. http_ready_upgrade
      BY <1>3, <2>2, <3>1, BeforeUpgrade
    <3> QED BY <3>1, <3>2, UpgradeWritten
  <2>3. CASE ws # <<>>
    <3>1. Upgraded /\ \E c : Framed(c)
      BY <2>1, <2>3 DEF FramingInv
    <3>2. PICK c : Framed(c)
      BY <3>1
    <3>3. \A r \in Requests : ~send_request(r)
      BY <1>1, <3>1, UpgradedStays
    <3>4. Written /\ IsSequence(handled)
      BY <2>3, <3>1 DEF AnsweringInv
    <3> QED BY <2>3, <3>2, <3>3, <3>4, WrittenNext
  <2> QED BY <2>2, <2>3
<1> QED BY <1>2, <1>3 DEF AnsweringInv

LEMMA AnsweringInvariance == Spec => [](ConnectionInv /\ StreamInv /\ FramingInv /\ AnsweringInv)
<1>1. ConnectionInv /\ StreamInv /\ FramingInv /\ AnsweringInv /\ [Next]_vars => AnsweringInv'
  BY AnsweringNext
<1> QED BY AnsweringInit, FramingInvariance, <1>1, PTL DEF Spec

-----------------------------------------------------------------------------
(* What was written is what was to be written. *)

\* The answers that are due.
Due(first, h, last) == first \o AnswersTo(h)[Len(h)] \o last
AllSaid == Said \cup {"close"}

LEMMA SaidIsAll ==
  ASSUME NEW s \in Seq(Said)
  PROVE  s \in Seq(AllSaid) /\ \A n \in DOMAIN s : s[n] # "close"
<1>1. \A n \in 1..Len(s) : s[n] \in Said
  BY ElementOfSeq
<1>2. s = [n \in 1..Len(s) |-> s[n]] /\ Len(s) \in Nat
  OBVIOUS
<1>3. \A n \in 1..Len(s) : s[n] \in AllSaid
  BY <1>1 DEF AllSaid
<1>4. s \in Seq(AllSaid)
  BY <1>2, <1>3, SeqDef
<1> QED BY <1>1, <1>4 DEF Said

\* In a connection where everything was read no frame closes.
LEMMA SettledUnclosed ==
  ASSUME NEW c, Framed(c), Settled
  PROVE  ~HasClose(frames)
<1>1. c = Len(frames) /\ Phase("idle", link, data, W, frames, <<>>, c)
  BY SettledFramed DEF Framed, Settled
<1>2. ~Down(link)
  BY DEF Settled, Up, Down
<1>3. Unclosed(frames, c)
  BY <1>1, <1>2 DEF Phase
<1> QED BY <1>1, <1>3 DEF Unclosed, HasClose

\* As expected, and nothing after a close.
InOrder(o, due) == AsExpected(o, due) /\ ((\E n \in DOMAIN o : o[n] = "close") => o = due)

LEMMA InOrderSame ==
  ASSUME NEW o \in Seq(AllSaid)
  PROVE  InOrder(o, o)
<1>1. Begins(o, o)
  BY BeginsSelf
<1>2. IsPrefix(o, o)
  BY <1>1, BeginsPrefix
<1> QED BY <1>2 DEF InOrder, AsExpected

LEMMA InOrderPart ==
  ASSUME NEW o \in Seq(Said), NEW due \in Seq(AllSaid), Begins(o, due), ~Settled
  PROVE  InOrder(o, due)
<1>1. o \in Seq(AllSaid) /\ \A n \in DOMAIN o : o[n] # "close"
  BY SaidIsAll
<1>2. IsPrefix(o, due)
  BY <1>1, BeginsPrefix
<1> QED BY <1>1, <1>2 DEF InOrder, AsExpected

LEMMA InOrderIs ==
  ASSUME NEW first, first = (IF ws = <<>> THEN <<>> ELSE <<"101">>),
         NEW last, last = (IF \E n \in DOMAIN frames : frames[n].op = "close" THEN <<"close">> ELSE <<>>),
         InOrder(out, Due(first, handled, last))
  PROVE  AnsweredInOrder
BY DEF AnsweredInOrder, InOrder, Due

\* Before the upgrade.
LEMMA NothingDue ==
  ASSUME NEW h, h = <<>>, NEW z, z = <<>>
  PROVE  Due(z, h, z) = <<>>
<1>1. Len(h) = 0
  OBVIOUS
<1>2. AnswersTo(h)[Len(h)] = <<>>
  BY <1>1, AnswersEquation
<1>3. Due(z, h, z) = (<<>> \o <<>>) \o <<>>
  BY <1>2 DEF Due
<1>4. <<>> \o <<>> = <<>>
  <2>1. <<>> \in Seq(Said)
    OBVIOUS
  <2> QED BY <2>1, ConcatEmptySeq
<1> QED BY <1>3, <1>4

\* After it, with and without a close.
LEMMA DueIs ==
  ASSUME NEW h, IsSequence(h), NEW first, first = <<"101">>, NEW r, r = RepliesTo(h),
         NEW z, z = <<>>, NEW x, x = <<"close">>
  PROVE  /\ r \in Seq(Said) /\ r \in Seq(AllSaid)
         /\ Due(first, h, z) = r /\ Due(first, h, x) = Append(r, "close")
         /\ Due(first, h, x) \in Seq(AllSaid) /\ Begins(r, Due(first, h, x)) /\ Begins(r, r)
<1>1. r \in Seq(Said)
  BY RepliesTyped
<1>2. r \in Seq(AllSaid)
  BY <1>1, SaidIsAll
<1>3. Due(first, h, z) = r \o z /\ Due(first, h, x) = r \o x
  BY DEF Due, RepliesTo
<1>4. r \o z = r
  BY <1>2, ConcatEmptySeq
<1>5. PICK c \in AllSaid : c = "close"
  BY DEF AllSaid
<1>6. r \o <<c>> = Append(r, c) /\ Append(r, c) \in Seq(AllSaid)
  BY <1>2
<1>7. Begins(r, r) /\ Begins(r, Append(r, c))
  BY <1>2, BeginsSelf
<1> QED BY <1>1, <1>2, <1>3, <1>4, <1>5, <1>6, <1>7

LEMMA AnswersHold ==
  ASSUME ConnectionInv, StreamInv, FramingInv, AnsweringInv
  PROVE  AnsweredInOrder
<1>0. PICK z, x : z = <<>> /\ x = <<"close">>
  OBVIOUS
<1>1. CASE ws = <<>>
  <2>1. out = <<>> /\ frames = <<>> /\ handled = <<>>
    BY <1>1 DEF FramingInv
  <2>2. z = (IF ws = <<>> THEN <<>> ELSE <<"101">>)
    BY <1>0, <1>1
  <2>3. z = (IF \E n \in DOMAIN frames : frames[n].op = "close" THEN <<"close">> ELSE <<>>)
    BY <1>0, <2>1
  <2>4. Due(z, handled, z) = <<>>
    BY <1>0, <2>1, NothingDue
  <2>5. out \in Seq(AllSaid) /\ Due(z, handled, z) = out
    BY <2>1, <2>4
  <2>6. InOrder(out, Due(z, handled, z))
    BY <2>5, InOrderSame
  <2> QED BY <2>2, <2>3, <2>6, InOrderIs
<1>2. CASE ws # <<>>
  <2>1. IsSequence(handled)
    BY DEF AnsweringInv
  <2>2. PICK first : first = <<"101">>
    OBVIOUS
  <2>3. PICK r : r = RepliesTo(handled)
    OBVIOUS
  <2>4. /\ r \in Seq(Said) /\ r \in Seq(AllSaid)
        /\ Due(first, handled, z) = r /\ Due(first, handled, x) = Append(r, "close")
        /\ Due(first, handled, x) \in Seq(AllSaid) /\ Begins(r, Due(first, handled, x))
        /\ Begins(r, r)
    BY <1>0, <2>1, <2>2, <2>3, DueIs
  <2>5. PICK last : last = (IF \E n \in DOMAIN frames : frames[n].op = "close"
                            THEN <<"close">> ELSE <<>>)
    OBVIOUS
  <2>6. PICK due : due = Due(first, handled, last)
    OBVIOUS
  <2>7. /\ due \in Seq(AllSaid) /\ Begins(r, due)
        /\ last = z => due = r
        /\ last = x => due = Append(r, "close")
        /\ last = z \/ last = x
    BY <1>0, <2>4, <2>5, <2>6
  <2>8. first = (IF ws = <<>> THEN <<>> ELSE <<"101">>)
    BY <1>2, <2>2
  <2>9. CASE Derailed /\ out = <<>>
    <3>1. ~Settled
      BY <2>9 DEF Derailed, Settled
    <3>2. out \in Seq(Said) /\ Len(out) = 0
      BY <2>9
    <3>3. Begins(out, due)
      BY <2>7, <3>2 DEF Begins
    <3>4. InOrder(out, due)
      BY <2>7, <3>1, <3>2, <3>3, InOrderPart
    <3> QED BY <2>5, <2>6, <2>8, <3>4, InOrderIs
  <2>10. CASE Upgraded /\ \E c : Framed(c)
    <3>1. Written
      BY <1>2, <2>10 DEF AnsweringInv
    <3>2. PICK c : Framed(c)
      BY <2>10
    <3>3. frames \in Seq(Frames)
      BY <3>2, HeardTyped DEF Framed
    <3>4. DOMAIN frames = 1..Len(frames)
      BY <3>3
    <3>5. HasClose(frames) => last = x
      BY <1>0, <2>5, <3>4 DEF HasClose
    <3>6. ~HasClose(frames) => last = z
      BY <1>0, <2>5, <3>4 DEF HasClose
    <3>7. CASE Up /\ out = RepliesTo(handled)
      <4>1. out = r
        BY <2>3, <3>7
      <4>2. CASE HasClose(frames)
        <5>1. ~Settled
          BY <3>2, <4>2, SettledUnclosed
        <5>2. out \in Seq(Said) /\ Begins(out, due)
          BY <2>4, <2>7, <4>1
        <5> QED BY <2>7, <5>1, <5>2, InOrderPart, <2>5, <2>6, <2>8, InOrderIs
      <4>3. CASE ~HasClose(frames)
        <5>1. due = out
          BY <2>7, <3>6, <4>1, <4>3
        <5>2. InOrder(out, due)
          BY <2>7, <5>1, InOrderSame
        <5> QED BY <2>5, <2>6, <2>8, <5>2, InOrderIs
      <4> QED BY <4>2, <4>3
    <3>8. CASE ~Up /\ out \in Seq(Said) /\ Begins(out, RepliesTo(handled))
      <4>1. ~Settled
        BY <3>8 DEF Settled
      <4>2. Begins(out, r)
        BY <2>3, <3>8
      <4>3. Begins(out, due)
        BY <2>7, <4>2, BeginsOn
      <4>4. InOrder(out, due)
        BY <2>7, <3>8, <4>1, <4>3, InOrderPart
      <4> QED BY <2>5, <2>6, <2>8, <4>4, InOrderIs
    <3>9. CASE ClosedOn
      <4>1. out = Append(r, "close") /\ HasClose(frames)
        BY <2>3, <3>9 DEF ClosedOn
      <4>2. due = out
        BY <2>7, <3>5, <4>1
      <4>3. InOrder(out, due)
        BY <2>7, <4>2, InOrderSame
      <4> QED BY <2>5, <2>6, <2>8, <4>3, InOrderIs
    <3> QED BY <3>1, <3>7, <3>8, <3>9 DEF Written
  <2> QED BY <1>2, <2>9, <2>10 DEF FramingInv
<1> QED BY <1>1, <1>2

\* The peer is told of the upgrade, then of each text that was not accepted, and
\* last of its close, and of nothing else, whatever it sends and whenever the
\* socket goes down (ape_server.c:222-239, ape_websocket.c:163-175).
THEOREM AnsweredInOrderHolds == Spec => []AnsweredInOrder
<1>1. ConnectionInv /\ StreamInv /\ FramingInv /\ AnsweringInv => AnsweredInOrder
  BY AnswersHold
<1> QED BY <1>1, AnsweringInvariance, PTL
=============================================================================
