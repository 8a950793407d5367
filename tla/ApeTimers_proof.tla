--------------------------- MODULE ApeTimers_proof ---------------------------
(***************************************************************************)
(* Proofs about ApeTimers, for any delays, repeats and number of timers.   *)
(***************************************************************************)
EXTENDS ApeTimers, SequenceTheorems, TLAPS

-----------------------------------------------------------------------------
(* The two list operations of the code, position by position.               *)

\* What linking a node before position p does to a list.
LEMMA InsertAtShape ==
  ASSUME NEW S, NEW s \in Seq(S), NEW x \in S, NEW p \in 1..(Len(s) + 1)
  PROVE  /\ InsertAt(s, p, x) \in Seq(S)
         /\ Len(InsertAt(s, p, x)) = Len(s) + 1
         /\ \A k \in 1..(Len(s) + 1) :
              InsertAt(s, p, x)[k] = IF k < p THEN s[k]
                                     ELSE IF k = p THEN x ELSE s[k - 1]
<1> DEFINE a == SubSeq(s, 1, p - 1)
           b == SubSeq(s, p, Len(s))
<1>1. /\ a \in Seq(S) /\ Len(a) = p - 1
      /\ \A k \in 1..(p - 1) : a[k] = s[k]
  OBVIOUS
<1>2. /\ b \in Seq(S) /\ Len(b) = Len(s) - p + 1
      /\ \A k \in 1..(Len(s) - p + 1) : b[k] = s[p + k - 1]
  OBVIOUS
<1>3. /\ a \o <<x>> \in Seq(S) /\ Len(a \o <<x>>) = p
      /\ \A k \in 1..p : (a \o <<x>>)[k] = IF k < p THEN s[k] ELSE x
  <2> HIDE DEF a
  <2> QED BY <1>1
<1>4. InsertAt(s, p, x) = (a \o <<x>>) \o b
  BY DEF InsertAt
<1> DEFINE c == a \o <<x>>
<1>5. /\ c \in Seq(S) /\ Len(c) = p
      /\ \A k \in 1..p : c[k] = IF k < p THEN s[k] ELSE x
  BY <1>3
<1> HIDE DEF a, b, c
<1>6. /\ c \o b \in Seq(S)
      /\ Len(c \o b) = Len(s) + 1
      /\ \A k \in 1..(Len(s) + 1) :
           (c \o b)[k] = IF k <= p THEN c[k] ELSE b[k - p]
  BY <1>2, <1>5, ConcatProperties
<1>7. \A k \in 1..(Len(s) + 1) :
        (c \o b)[k] = IF k < p THEN s[k] ELSE IF k = p THEN x ELSE s[k - 1]
  <2> TAKE k \in 1..(Len(s) + 1)
  <2>1. CASE k <= p
    BY <1>5, <1>6, <2>1
  <2>2. CASE ~(k <= p)
    <3>1. k - p \in 1..(Len(s) - p + 1)
      BY <2>2
    <3>2. b[k - p] = s[p + (k - p) - 1]
      BY <1>2, <3>1
    <3>3. p + (k - p) - 1 = k - 1
      OBVIOUS
    <3>4. (c \o b)[k] = b[k - p]
      BY <1>6, <2>2
    <3>5. b[k - p] = s[k - 1]
      BY <3>2, <3>3
    <3> QED BY <2>2, <3>4, <3>5
  <2> QED BY <2>1, <2>2
<1>8. InsertAt(s, p, x) = c \o b
  BY <1>4 DEF c
<1> QED BY <1>6, <1>7, <1>8

\* What unlinking the nodes up to and including position p does to a list.
LEMMA DropShape ==
  ASSUME NEW S, NEW s \in Seq(S), NEW p \in 1..Len(s)
  PROVE  /\ SubSeq(s, p + 1, Len(s)) \in Seq(S)
         /\ Len(SubSeq(s, p + 1, Len(s))) = Len(s) - p
         /\ \A k \in 1..(Len(s) - p) : SubSeq(s, p + 1, Len(s))[k] = s[p + k]
  OBVIOUS

\* A list updated node by node is a list of the same length.
LEMMA SameLength ==
  ASSUME NEW S, NEW s \in Seq(S), NEW t,
         t = [k \in DOMAIN s |-> t[k]], \A k \in DOMAIN s : t[k] \in S
  PROVE  /\ t \in Seq(S)
         /\ Len(t) = Len(s)
         /\ DOMAIN t = DOMAIN s
<1>1. Len(s) \in Nat /\ DOMAIN s = 1..Len(s)
  OBVIOUS
<1>2. t \in [1..Len(s) -> S]
  BY <1>1
<1>3. t \in Seq(S)
  BY <1>1, <1>2, SeqDef
<1> QED BY <1>1, <1>2, <1>3

-----------------------------------------------------------------------------
(* Type correctness.                                                        *)

\* The positions that add_timeout and process_tick hold are positions of the list.
Positions ==
  /\ new # NoTimer => at \in 1..(Len(timers) + 1)
  /\ pc \in {"callback", "skipped"} => cur \in 1..Len(timers)
  /\ pc \in {"idle", "loop"} => cur = 0

TypeInv == TypeOK /\ Positions

\* The updates of a node that the code makes keep it a timer.
LEMMA TimerUpdates ==
  ASSUME NEW t \in Timer, NEW d \in Int
  PROVE  /\ [t EXCEPT !.delta = d] \in Timer
         /\ \A l \in Int : [t EXCEPT !.delta = d, !.left = l] \in Timer
<1>1. [t EXCEPT !.delta = d] \in Timer
  BY DEF Timer
<1>2. ASSUME NEW l \in Int PROVE [t EXCEPT !.delta = d, !.left = l] \in Timer
  BY DEF Timer
<1> QED BY <1>1, <1>2

\* New counters keep a node a timer (run_timer changes nothing else of it).
LEMMA TimerCounts ==
  ASSUME NEW t \in Timer, NEW n \in Nat, NEW o \in Nat \cup {Forever}
  PROVE  [t EXCEPT !.times = n, !.owed = o] \in Timer
  BY DEF Timer

\* The fields of a timer have their types.
LEMMA TimerFields ==
  ASSUME NEW t \in Timer
  PROVE  /\ t.id \in Nat /\ t.delta \in Int /\ t.left \in Int /\ t.need \in Int
         /\ t.times \in Nat /\ t.owed \in Nat \cup {Forever}
         /\ t.js \in BOOLEAN
  BY DelaysAreInts DEF Timer

\* The list after link, node by node.
LEMMA LinkShape ==
  ASSUME TypeInv, link
  PROVE  /\ timers' \in Seq(Timer)
         /\ Len(timers') = Len(timers) + 1
         /\ \A k \in 1..(Len(timers) + 1) :
              timers'[k] = IF k < at THEN timers[k]
                           ELSE IF k = at THEN new
                           ELSE IF k = at + 1
                             THEN [timers[at] EXCEPT !.delta = @ - new.delta]
                           ELSE timers[k - 1]
<1>1. /\ timers \in Seq(Timer) /\ new \in Timer /\ at \in 1..(Len(timers) + 1)
      /\ Len(timers) \in Nat
  BY DEF TypeInv, TypeOK, Positions, link
<1>2. \A k \in DOMAIN timers : timers[k] \in Timer
  BY <1>1
<1>3. \A k \in DOMAIN timers : Shortened[k] \in Timer
  <2> TAKE k \in DOMAIN timers
  <2>1. timers[k].delta - new.delta \in Int
    BY <1>1, <1>2, TimerFields
  <2>2. [timers[k] EXCEPT !.delta = timers[k].delta - new.delta] \in Timer
    BY <1>2, <2>1, TimerUpdates
  <2> QED BY <1>2, <2>2 DEF Shortened
<1>4. /\ Shortened \in Seq(Timer)
      /\ Len(Shortened) = Len(timers)
  <2>1. Shortened = [k \in DOMAIN timers |-> Shortened[k]]
    BY DEF Shortened
  <2> QED BY <1>1, <1>3, <2>1, SameLength
<1>5. /\ timers' \in Seq(Timer)
      /\ Len(timers') = Len(timers) + 1
      /\ \A k \in 1..(Len(timers) + 1) :
           timers'[k] = IF k < at THEN Shortened[k]
                        ELSE IF k = at THEN new ELSE Shortened[k - 1]
  <2>1. at \in 1..(Len(Shortened) + 1)
    BY <1>1, <1>4
  <2>2. timers' = InsertAt(Shortened, at, new)
    BY DEF link
  <2> HIDE DEF Shortened
  <2>3. /\ InsertAt(Shortened, at, new) \in Seq(Timer)
        /\ Len(InsertAt(Shortened, at, new)) = Len(Shortened) + 1
        /\ \A k \in 1..(Len(Shortened) + 1) :
             InsertAt(Shortened, at, new)[k] =
               IF k < at THEN Shortened[k]
               ELSE IF k = at THEN new ELSE Shortened[k - 1]
    BY <1>1, <1>4, <2>1, InsertAtShape, SMTT(30)
  <2> QED BY <1>4, <2>2, <2>3
<1>6. \A k \in 1..Len(timers) :
        Shortened[k] = IF k = at
                       THEN [timers[at] EXCEPT !.delta = @ - new.delta]
                       ELSE timers[k]
  BY <1>1 DEF Shortened
<1>7. ASSUME NEW k \in 1..(Len(timers) + 1)
      PROVE  timers'[k] = IF k < at THEN timers[k]
                          ELSE IF k = at THEN new
                          ELSE IF k = at + 1
                            THEN [timers[at] EXCEPT !.delta = @ - new.delta]
                          ELSE timers[k - 1]
  <2>1. CASE k < at
    BY <1>1, <1>5, <1>6, <2>1
  <2>2. CASE k = at
    BY <1>1, <1>5, <2>2
  <2>3. CASE ~(k < at) /\ k # at
    <3>1. k - 1 \in 1..Len(timers) /\ timers'[k] = Shortened[k - 1]
      BY <1>1, <1>5, <2>3
    <3>2. k - 1 = at <=> k = at + 1
      BY <1>1
    <3> QED BY <1>1, <1>6, <2>3, <3>1, <3>2
  <2> QED BY <2>1, <2>2, <2>3
<1> QED BY <1>5, <1>7

\* The list after tick, node by node.
LEMMA TickShape ==
  ASSUME TypeInv, tick
  PROVE  /\ timers' \in Seq(Timer)
         /\ Len(timers') = Len(timers)
         /\ \A k \in 1..Len(timers) : timers'[k] = Ticked(k)
<1>1. timers \in Seq(Timer) /\ Len(timers) \in Nat
  BY DEF TypeInv, TypeOK
<1>2. \A k \in DOMAIN timers : Ticked(k) \in Timer
  <2> TAKE k \in DOMAIN timers
  <2>1. timers[k] \in Timer
    BY <1>1
  <2>2. /\ (IF k = 1 THEN timers[k].delta - 1 ELSE timers[k].delta) \in Int
        /\ timers[k].left - 1 \in Int
    BY <2>1, TimerFields
  <2> QED BY <2>1, <2>2, TimerUpdates DEF Ticked
<1>3. /\ timers' = [k \in DOMAIN timers |-> timers'[k]]
      /\ \A k \in DOMAIN timers : timers'[k] = Ticked(k)
  BY DEF tick
<1> QED BY <1>1, <1>2, <1>3, SameLength

\* The list after run_timer, node by node.
LEMMA RunShape ==
  ASSUME TypeInv, run_timer
  PROVE  /\ timers' \in Seq(Timer)
         /\ Len(timers') = Len(timers)
         /\ Len(timers) >= 1
         /\ \A k \in 1..Len(timers) :
              /\ timers'[k].id = timers[k].id
              /\ timers'[k].js = timers[k].js
              /\ timers'[k].delta = timers[k].delta
              /\ timers'[k].left = timers[k].left
              /\ timers'[k].need = timers[k].need
              /\ k # 1 => timers'[k] = timers[k]
<1>1. timers \in Seq(Timer) /\ Len(timers) \in Nat /\ Len(timers) >= 1
  BY EmptySeq DEF TypeInv, TypeOK, run_timer, HeadDue
<1> DEFINE t == timers[1]
           n == IF t.times > 0 THEN t.times - 1 ELSE t.times
           o == IF t.owed > 0 /\ ~Skipped(t) THEN t.owed - 1 ELSE t.owed
           head == [t EXCEPT !.times = n, !.owed = o]
<1>2. t \in Timer
  BY <1>1
<1>3. n \in Nat /\ o \in Nat \cup {Forever}
  <2> HIDE DEF t
  <2>1. t.times \in Nat /\ t.owed \in Nat \cup {Forever}
    BY <1>2, TimerFields
  <2> QED BY <2>1 DEF Forever
<1>4. timers' = [timers EXCEPT ![1] = head]
  BY <1>1, <1>2 DEF run_timer, Timer
<1> HIDE DEF t, n, o
<1>5. /\ head \in Timer
      /\ head.id = t.id /\ head.js = t.js /\ head.delta = t.delta
      /\ head.left = t.left /\ head.need = t.need
  <2>1. head \in Timer
    BY <1>2, <1>3, TimerCounts
  <2> QED BY <1>2, <2>1 DEF Timer
<1> HIDE DEF head
<1> QED BY <1>1, <1>4, <1>5 DEF t

\* The list after callback_returns, node by node.
LEMMA ReturnShape ==
  ASSUME TypeInv, callback_returns
  PROVE  /\ cur \in 1..Len(timers)
         /\ timers[cur] \in Timer
         /\ timers' \in Seq(Timer)
         /\ Len(timers') = Len(timers) - cur
         /\ \A k \in 1..(Len(timers) - cur) : timers'[k] = timers[cur + k]
<1>1. timers \in Seq(Timer) /\ cur \in 1..Len(timers)
  BY DEF TypeInv, TypeOK, Positions, callback_returns
<1> QED BY <1>1, DropShape DEF callback_returns

\* The initial list is empty, so the type invariant holds of it.
LEMMA TypeInit == Init => TypeInv
<1> SUFFICES ASSUME Init PROVE TypeInv
  OBVIOUS
<1>1. timers \in Seq(Timer)
  BY EmptySeq DEF Init
<1> QED BY <1>1 DEF Init, TypeInv, TypeOK, Positions

\* Every step keeps the type invariant: one case per operation of the timers and of process_tick.
LEMMA TypeStep == TypeInv /\ [Next]_vars => TypeInv'
<1> SUFFICES ASSUME TypeInv, [Next]_vars PROVE TypeInv'
  OBVIOUS
<1> USE DelaysAreInts, RepeatsAreNats, NoTimerIsNone
<1>0. timers \in Seq(Timer) /\ Len(timers) \in Nat
  BY DEF TypeInv, TypeOK
<1>1. ASSUME NEW msec \in Delays, NEW times \in Repeats, NEW js \in BOOLEAN,
             add_timer(msec, times, js)
      PROVE  TypeInv'
  <2>1. NewTimer(msec, times, js) \in Timer
    BY DEF NewTimer, Timer, TypeInv, TypeOK
  <2> QED BY <1>0, <1>1, <2>1 DEF add_timer, TypeInv, TypeOK, Positions
<1>2. ASSUME NEW id \in Ids, clear_timeout(id) PROVE TypeInv'
  BY <1>2, MaxTimersIsNat DEF clear_timeout, Ids, TypeInv, TypeOK, Positions
<1>3. CASE walk_past
  <2>1. at \in 1..Len(timers) /\ timers[at] \in Timer /\ new \in Timer
    BY <1>0, <1>3 DEF walk_past, Fits, TypeInv, TypeOK
  <2>2. new' \in Timer
    <3>1. new.delta - timers[at].delta \in Int
      BY <2>1, TimerFields
    <3>2. [new EXCEPT !.delta = new.delta - timers[at].delta] \in Timer
      BY <2>1, <3>1, TimerUpdates
    <3> QED BY <1>3, <3>2 DEF walk_past
  <2> QED BY <1>0, <1>3, <2>1, <2>2 DEF walk_past, TypeInv, TypeOK, Positions
<1>4. CASE link
  BY <1>0, <1>4, LinkShape DEF link, TypeInv, TypeOK, Positions
<1>5. CASE tick
  BY <1>0, <1>5, TickShape DEF tick, TypeInv, TypeOK, Positions
<1>6. CASE run_timer
  BY <1>0, <1>6, RunShape DEF run_timer, TypeInv, TypeOK, Positions
<1>7. CASE callback_returns
  <2>1. new' \in Timer \cup {NoTimer}
    <3>1. timers[cur] \in Timer
      BY <1>7, ReturnShape
    <3>2. [timers[cur] EXCEPT !.delta = timers[cur].need,
                              !.left = timers[cur].need] \in Timer
      BY <3>1 DEF Timer
    <3> QED BY <1>7, <3>2 DEF callback_returns
  <2>2. done' \subseteq Nat /\ freed' \subseteq Nat /\ at' \in Nat
    <3>1. timers[cur].id \in Nat
      BY <1>7, ReturnShape DEF Timer
    <3> QED BY <1>7, <3>1 DEF callback_returns, TypeInv, TypeOK
  <2>3. new' # NoTimer => at' = 1
    BY <1>7 DEF callback_returns
  <2>4. timers' \in Seq(Timer) /\ Len(timers') \in Nat
    BY <1>7, ReturnShape
  <2> QED BY <1>7, <2>1, <2>2, <2>3, <2>4
          DEF callback_returns, TypeInv, TypeOK, Positions
<1>8. CASE tick_done
  BY <1>0, <1>8 DEF tick_done, TypeInv, TypeOK, Positions
<1>9. CASE UNCHANGED vars
  BY <1>9 DEF vars, TypeInv, TypeOK, Positions
<1> QED
  BY <1>1, <1>2, <1>3, <1>4, <1>5, <1>6, <1>7, <1>8, <1>9
  DEF Next, Client, Server

\* The state of ape_timers.c is well formed, and the node pointers held across
\* a callback or a walk are nodes of the list.
THEOREM TypeCorrect == Spec => []TypeOK
<1>1. Spec => []TypeInv
  BY TypeInit, TypeStep, PTL DEF Spec
<1>2. TypeInv => TypeOK
  BY DEF TypeInv
<1> QED BY <1>1, <1>2, PTL

-----------------------------------------------------------------------------
(* Identities and the life of a script timer's params, for any delays.      *)

\* Every id in use was handed out and has not ended, no two are the same, and
\* only the params of ended timers are freed.
IdInv ==
  /\ \A k \in 1..Len(timers) :
       timers[k].id < ntimers /\ timers[k].id \notin done
  /\ \A i, j \in 1..Len(timers) : timers[i].id = timers[j].id => i = j
  /\ new # NoTimer =>
       /\ new.id < ntimers
       /\ new.id \notin done
       /\ \A k \in 1..Len(timers) : timers[k].id # new.id
  /\ \A id \in done : id < ntimers
  /\ freed \subseteq done

\* Nothing exists at first, so identifiers cannot clash.
LEMMA IdInit == Init => IdInv
  BY DEF Init, IdInv

\* Identifiers come from ntimers, which is above every one in use: each step keeps them apart.
LEMMA IdStep == TypeInv /\ IdInv /\ [Next]_vars => IdInv'
<1> SUFFICES ASSUME TypeInv, IdInv, [Next]_vars PROVE IdInv'
  OBVIOUS
<1>0. /\ timers \in Seq(Timer) /\ Len(timers) \in Nat /\ ntimers \in Nat
      /\ \A k \in 1..Len(timers) : timers[k] \in Timer /\ timers[k].id \in Nat
      /\ done \subseteq Nat
      /\ new # NoTimer => new \in Timer /\ new.id \in Nat
  BY TimerFields DEF TypeInv, TypeOK
<1>1. ASSUME NEW msec \in Delays, NEW times \in Repeats, NEW js \in BOOLEAN,
             add_timer(msec, times, js)
      PROVE  IdInv'
  <2>1. new'.id = ntimers /\ ntimers' = ntimers + 1
    BY <1>1 DEF add_timer, NewTimer
  <2>2. UNCHANGED <<timers, done, freed>>
    BY <1>1 DEF add_timer
  <2> QED BY <1>0, <2>1, <2>2 DEF IdInv
<1>2. ASSUME NEW id \in Ids, clear_timeout(id) PROVE IdInv'
  BY <1>2 DEF clear_timeout, IdInv
<1>3. CASE walk_past
  <2>1. new \in Timer /\ new # NoTimer
    BY <1>0, <1>3 DEF walk_past
  <2>2. new'.id = new.id
    BY <1>3, <2>1 DEF walk_past, Timer
  <2> QED BY <1>3, <2>1, <2>2 DEF walk_past, IdInv
<1>4. CASE link
  <2>1. /\ at \in 1..(Len(timers) + 1) /\ Len(timers') = Len(timers) + 1
        /\ new # NoTimer
    BY <1>4, LinkShape DEF link, TypeInv, Positions
  <2>2. ASSUME NEW k \in 1..Len(timers')
        PROVE  /\ k < at => timers'[k].id = timers[k].id
               /\ k = at => timers'[k].id = new.id
               /\ k > at => timers'[k].id = timers[k - 1].id
    <3>1. CASE k < at
      BY <1>4, <2>1, <3>1, LinkShape
    <3>2. CASE k = at
      BY <1>4, <2>1, <3>2, LinkShape
    <3>3. CASE k > at
      <4>1. timers'[k] = IF k = at + 1
                         THEN [timers[at] EXCEPT !.delta = @ - new.delta]
                         ELSE timers[k - 1]
        BY <1>4, <2>1, <3>3, LinkShape
      <4>2. CASE k = at + 1
        <5>1. timers[at] \in Timer /\ at = k - 1
          BY <1>0, <2>1, <3>3, <4>2
        <5>2. [timers[at] EXCEPT !.delta = @ - new.delta].id = timers[at].id
          BY <5>1 DEF Timer
        <5> QED BY <2>1, <3>3, <4>1, <4>2, <5>1, <5>2
      <4>3. CASE k # at + 1
        BY <2>1, <3>3, <4>1, <4>3
      <4> QED BY <4>2, <4>3
    <3> QED BY <2>1, <3>1, <3>2, <3>3
  <2> DEFINE old(k) == IF k < at THEN k ELSE k - 1
  <2>src. \A k \in 1..Len(timers') : k # at =>
          old(k) \in 1..Len(timers) /\ timers'[k].id = timers[old(k)].id
    BY <1>0, <2>1, <2>2
  <2>3. new' = NoTimer /\ UNCHANGED <<ntimers, done, freed>>
    BY <1>4 DEF link
  <2>4. \A k \in 1..Len(timers') :
          timers'[k].id < ntimers' /\ timers'[k].id \notin done'
    <3> TAKE k \in 1..Len(timers')
    <3>1. CASE k = at
      BY <2>2, <2>3, <2>1, <3>1 DEF IdInv
    <3>2. CASE k # at
      BY <2>3, <2>src, <3>2 DEF IdInv
    <3> QED BY <3>1, <3>2
  <2>5. \A i, j \in 1..Len(timers') : timers'[i].id = timers'[j].id => i = j
    <3> SUFFICES ASSUME NEW i \in 1..Len(timers'), NEW j \in 1..Len(timers'),
                        timers'[i].id = timers'[j].id
                 PROVE  i = j
      OBVIOUS
    <3>1. CASE i = at /\ j # at
      BY <2>1, <2>2, <2>src, <3>1 DEF IdInv
    <3>2. CASE i # at /\ j = at
      BY <2>1, <2>2, <2>src, <3>2 DEF IdInv
    <3>3. CASE i # at /\ j # at
      <4>1. old(i) = old(j)
        BY <2>src, <3>3 DEF IdInv
      <4> QED BY <2>1, <3>3, <4>1
    <3> QED BY <3>1, <3>2, <3>3
  <2> QED BY <2>3, <2>4, <2>5 DEF IdInv
<1>5. CASE tick
  <2>1. \A k \in 1..Len(timers) : Ticked(k).id = timers[k].id
    BY <1>0 DEF Ticked, Timer
  <2>2. /\ Len(timers') = Len(timers)
        /\ \A k \in 1..Len(timers) : timers'[k].id = timers[k].id
    BY <1>5, <2>1, TickShape
  <2>3. UNCHANGED <<ntimers, new, done, freed>>
    BY <1>5 DEF tick
  <2> QED BY <2>2, <2>3 DEF IdInv
<1>6. CASE run_timer
  <2>1. UNCHANGED <<ntimers, new, done, freed>>
    BY <1>6 DEF run_timer
  <2> QED BY <1>6, <2>1, RunShape DEF IdInv
<1>7. CASE callback_returns
  <2> DEFINE t == timers[cur]
  <2>1. /\ cur \in 1..Len(timers) /\ Len(timers') = Len(timers) - cur
        /\ \A k \in 1..Len(timers') : timers'[k] = timers[cur + k]
        /\ t \in Timer /\ ntimers' = ntimers /\ new = NoTimer
    BY <1>7, ReturnShape DEF callback_returns
  <2>2. /\ \A k \in 1..Len(timers') : cur + k \in 1..Len(timers)
        /\ \A k \in 1..Len(timers') : timers'[k].id # t.id
        /\ \A k \in 1..Len(timers') :
             timers'[k].id < ntimers /\ timers'[k].id \notin done
        /\ \A i, j \in 1..Len(timers') : timers'[i].id = timers'[j].id => i = j
        /\ t.id < ntimers /\ t.id \notin done
    <3>1. \A k \in 1..Len(timers') : cur + k \in 1..Len(timers) /\ cur + k # cur
      BY <1>0, <2>1
    <3>2. \A k \in 1..Len(timers') : timers'[k].id = timers[cur + k].id
      BY <2>1
    <3>3. \A k \in 1..Len(timers') : timers'[k].id # t.id
      BY <2>1, <3>1, <3>2 DEF IdInv
    <3>4. \A k \in 1..Len(timers') :
            timers'[k].id < ntimers /\ timers'[k].id \notin done
      BY <3>1, <3>2 DEF IdInv
    <3>5. ASSUME NEW i \in 1..Len(timers'), NEW j \in 1..Len(timers'),
                 timers'[i].id = timers'[j].id
          PROVE  i = j
      <4>1. cur + i = cur + j
        BY <3>1, <3>2, <3>5 DEF IdInv
      <4> QED BY <1>0, <2>1, <4>1
    <3>6. t.id < ntimers /\ t.id \notin done
      BY <2>1 DEF IdInv
    <3> QED BY <3>1, <3>3, <3>4, <3>5, <3>6
  <2>3. CASE LastRun
    <3>1. /\ new' = NoTimer /\ done' = done \cup {t.id}
          /\ freed' \subseteq freed \cup {t.id}
      BY <1>7, <2>1, <2>3 DEF callback_returns
    <3> QED BY <2>1, <2>2, <3>1 DEF IdInv
  <2>4. CASE ~LastRun
    <3>1. /\ new' = [t EXCEPT !.delta = t.need, !.left = t.need]
          /\ done' = done /\ freed' = freed
      BY <1>7, <2>4 DEF callback_returns
    <3>2. new'.id = t.id
      BY <2>1, <3>1 DEF Timer
    <3> QED BY <2>1, <2>2, <3>1, <3>2 DEF IdInv
  <2> QED BY <2>3, <2>4
<1>8. CASE tick_done
  BY <1>8 DEF tick_done, IdInv
<1>9. CASE UNCHANGED vars
  BY <1>9 DEF vars, IdInv
<1> QED
  BY <1>1, <1>2, <1>3, <1>4, <1>5, <1>6, <1>7, <1>8, <1>9
  DEF Next, Client, Server

\* The identifier invariant holds throughout.
LEMMA IdsInvariant == Spec => [](TypeInv /\ IdInv)
  BY TypeInit, TypeStep, IdInit, IdStep, PTL DEF Spec

\* The ids that add_timeout hands out and process_tick carries over to re-added
\* timers never name two timers at once, and never come back after the end.
THEOREM IdsAreUnique == Spec => []UniqueIds
<1>1. TypeInv /\ IdInv => UniqueIds
  BY DEF TypeInv, TypeOK, IdInv, UniqueIds, IdsIn, Inserting
<1> QED BY <1>1, IdsInvariant, PTL

\* No callback and no clearTimeout reaches the params of a script's timer after
\* they are freed, and they are not freed twice.
THEOREM ParamsNeverDangle == Spec => []ParamsLive
<1>1. TypeInv /\ IdInv => ParamsLive
  <2> SUFFICES ASSUME TypeInv, IdInv, NEW k \in DOMAIN timers
               PROVE  timers[k].id \notin freed
    BY DEF ParamsLive
  <2>1. k \in 1..Len(timers)
    BY DEF TypeInv, TypeOK
  <2> QED BY <2>1 DEF IdInv
<1> QED BY <1>1, IdsInvariant, PTL

-----------------------------------------------------------------------------
(* The schedule, when every delay asked for is at least a millisecond.      *)

PositiveDelays == \A d \in Delays : d >= 1

\* The delta of a node is the difference of the deadlines around it, deadlines
\* never decrease along the list, and the node being run is the head, due now.
Schedule ==
  /\ cur \in {0, 1}
  /\ Len(timers) >= 1 => timers[1].delta = timers[1].left
  /\ \A k \in 2..Len(timers) :
       timers[k].delta = timers[k].left - timers[k - 1].left
  /\ \A i, j \in 1..Len(timers) : i <= j => timers[i].left <= timers[j].left
  /\ \A k \in 1..Len(timers) :
       timers[k].left >= 0 /\ (pc = "idle" => timers[k].left >= 1)
  /\ pc \in {"callback", "skipped"} => cur = 1 /\ timers[1].left = 0

\* add_timeout has walked past nodes due earlier only, and its delta is what is
\* left from the last of them on.
Walk ==
  new # NoTimer =>
    /\ new.left >= 1
    /\ at = 1 => new.delta = new.left
    /\ at > 1 => new.delta = new.left - timers[at - 1].left
    /\ \A k \in 1..Len(timers) : k < at => timers[k].left <= new.left

ScheduleInv == Schedule /\ Walk

\* The schedule invariant holds of the empty list.
LEMMA ScheduleInit == Init => ScheduleInv
  BY DEF Init, ScheduleInv, Schedule, Walk

\* Every step keeps the schedule: the relative delays sum to the time each timer has left.
LEMMA ScheduleStep ==
  PositiveDelays /\ TypeInv /\ ScheduleInv /\ [Next]_vars => ScheduleInv'
<1> SUFFICES ASSUME PositiveDelays, TypeInv, ScheduleInv, [Next]_vars
             PROVE  ScheduleInv'
  OBVIOUS
<1>0. /\ timers \in Seq(Timer) /\ Len(timers) \in Nat
      /\ \A k \in 1..Len(timers) :
           /\ timers[k] \in Timer /\ timers[k].delta \in Int
           /\ timers[k].left \in Int
      /\ new # NoTimer =>
           /\ new \in Timer /\ new.delta \in Int /\ new.left \in Int
           /\ at \in 1..(Len(timers) + 1)
  BY TimerFields DEF TypeInv, TypeOK, Positions
<1>1. ASSUME NEW msec \in Delays, NEW times \in Repeats, NEW js \in BOOLEAN,
             add_timer(msec, times, js)
      PROVE  ScheduleInv'
  <2>1. new'.left = msec /\ new'.delta = msec /\ at' = 1 /\ msec >= 1
    BY <1>1 DEF add_timer, NewTimer, PositiveDelays
  <2>2. UNCHANGED <<timers, pc, cur>>
    BY <1>1 DEF add_timer
  <2>3. Schedule'
    BY <2>2 DEF ScheduleInv, Schedule
  <2>4. Walk'
    BY <1>0, <2>1, <2>2 DEF Walk
  <2> QED BY <2>3, <2>4 DEF ScheduleInv
<1>2. ASSUME NEW id \in Ids, clear_timeout(id) PROVE ScheduleInv'
  BY <1>2 DEF clear_timeout, ScheduleInv, Schedule, Walk
<1>3. CASE walk_past
  <2>1. /\ new \in Timer /\ new # NoTimer /\ at \in 1..Len(timers)
        /\ new.delta > timers[at].delta
    BY <1>0, <1>3 DEF walk_past, Fits
  <2>2. /\ new'.left = new.left /\ new'.delta = new.delta - timers[at].delta
        /\ at' = at + 1
    BY <1>3, <2>1 DEF walk_past, Timer
  <2>3. UNCHANGED <<timers, pc, cur>>
    BY <1>3 DEF walk_past
  <2>4. Schedule'
    BY <2>3 DEF ScheduleInv, Schedule
  <2>5. new.delta - timers[at].delta = new.left - timers[at].left
    BY <1>0, <2>1, SMTT(30) DEF ScheduleInv, Schedule, Walk
  <2>6. timers[at].left <= new.left
    BY <1>0, <2>1, <2>5
  <2>7. Walk'
    BY <1>0, <2>1, <2>2, <2>3, <2>5, <2>6 DEF ScheduleInv, Walk
  <2> QED BY <2>4, <2>7 DEF ScheduleInv
<1>4. CASE link
  <2>1. /\ new # NoTimer /\ new' = NoTimer /\ pc' = pc
        /\ at \in 1..(Len(timers) + 1)
        /\ cur' = IF cur >= at THEN cur + 1 ELSE cur
        /\ Len(timers') = Len(timers) + 1
    BY <1>0, <1>4, LinkShape DEF link
  <2>2. /\ timers'[at] = new
        /\ \A k \in 1..(at - 1) : timers'[k] = timers[k]
    BY <1>0, <1>4, <2>1, LinkShape
  <2>3. at <= Len(timers) =>
          /\ timers'[at + 1].left = timers[at].left
          /\ timers'[at + 1].delta = timers[at].delta - new.delta
          /\ new.delta <= timers[at].delta
    <3> SUFFICES ASSUME at <= Len(timers)
                 PROVE  /\ timers'[at + 1].left = timers[at].left
                        /\ timers'[at + 1].delta = timers[at].delta - new.delta
                        /\ new.delta <= timers[at].delta
      OBVIOUS
    <3>1. at \in 1..Len(timers) /\ timers[at] \in Timer
      BY <1>0, <2>1
    <3>2. timers'[at + 1] = [timers[at] EXCEPT !.delta = @ - new.delta]
      <4>1. at + 1 \in 1..(Len(timers) + 1) /\ ~(at + 1 < at) /\ at + 1 # at
        BY <1>0, <3>1
      <4> QED BY <1>4, <4>1, LinkShape
    <3>3. /\ timers'[at + 1].left = timers[at].left
          /\ timers'[at + 1].delta = timers[at].delta - new.delta
      BY <3>1, <3>2 DEF Timer
    <3> QED BY <1>0, <1>4, <3>1, <3>3 DEF link, Fits
  <2>4. \A k \in (at + 2)..(Len(timers) + 1) : timers'[k] = timers[k - 1]
    BY <1>0, <1>4, <2>1, LinkShape
  <2> DEFINE old(k) == IF k < at THEN k ELSE k - 1
  <2>5. \A k \in 1..Len(timers') : k # at =>
          old(k) \in 1..Len(timers) /\ timers'[k].left = timers[old(k)].left
    BY <1>0, <2>1, <2>2, <2>3, <2>4
  <2>6. ASSUME NEW k \in 1..Len(timers), k >= at
        PROVE  new.left <= timers[k].left
    <3>1. at \in 1..Len(timers) /\ new.delta <= timers[at].delta
      BY <1>0, <2>1, <2>3, <2>6
    <3>2. new.left <= timers[at].left
      BY <1>0, <2>1, <3>1, SMTT(30) DEF ScheduleInv, Schedule, Walk
    <3>3. timers[at].left <= timers[k].left
      BY <2>6, <3>1 DEF ScheduleInv, Schedule
    <3> QED BY <1>0, <2>1, <3>1, <3>2, <3>3
  <2>7. cur' \in {0, 1} /\ (pc' \in {"callback", "skipped"} => cur' = 1 /\ at > 1)
    <3>1. CASE cur = 0
      BY <2>1, <3>1 DEF ScheduleInv, Schedule
    <3>2. CASE cur = 1
      <4>1. timers[1].left = 0 /\ 1 \in 1..Len(timers)
        BY <3>2 DEF ScheduleInv, Schedule, TypeInv, TypeOK, Positions
      <4>2. at # 1
        BY <1>0, <2>1, <2>6, <4>1 DEF ScheduleInv, Walk
      <4> QED BY <2>1, <3>2, <4>2
    <3> QED BY <3>1, <3>2 DEF ScheduleInv, Schedule
  <2>8. timers'[1].delta = timers'[1].left
    BY <1>0, <2>1, <2>2 DEF ScheduleInv, Schedule, Walk
  <2>9. ASSUME NEW k \in 2..Len(timers')
        PROVE  timers'[k].delta = timers'[k].left - timers'[k - 1].left
    <3>1. CASE k < at
      BY <1>0, <2>1, <2>2, <3>1 DEF ScheduleInv, Schedule
    <3>2. CASE k = at
      BY <1>0, <2>1, <2>2, <3>2 DEF ScheduleInv, Walk
    <3>3. CASE k = at + 1
      <4>1. at \in 1..Len(timers) /\ k - 1 = at
        BY <1>0, <2>1, <3>3
      <4>2. timers[at].delta - new.delta = timers[at].left - new.left
        BY <1>0, <2>1, <4>1, SMTT(30) DEF ScheduleInv, Schedule, Walk
      <4> QED BY <1>0, <2>1, <2>2, <2>3, <3>3, <4>1, <4>2
    <3>4. CASE k > at + 1
      <4>1. /\ k \in (at + 2)..(Len(timers) + 1) /\ k - 1 \in 2..Len(timers)
            /\ (k - 1) - 1 = old(k - 1) /\ k - 1 # at /\ k - 1 \in 1..Len(timers')
        BY <1>0, <2>1, <3>4
      <4>2. timers'[k] = timers[k - 1]
        BY <2>4, <4>1
      <4>3. timers'[k - 1].left = timers[(k - 1) - 1].left
        BY <2>5, <4>1
      <4> QED BY <1>0, <4>1, <4>2, <4>3 DEF ScheduleInv, Schedule
    <3> QED BY <1>0, <2>1, <3>1, <3>2, <3>3, <3>4
  <2>10. ASSUME NEW i \in 1..Len(timers'), NEW j \in 1..Len(timers'), i <= j
         PROVE  timers'[i].left <= timers'[j].left
    <3>1. CASE i = at /\ j = at
      BY <1>0, <2>1, <2>2, <3>1
    <3>2. CASE i = at /\ j # at
      <4>1. old(j) \in 1..Len(timers) /\ old(j) >= at
        BY <1>0, <2>1, <2>5, <2>10, <3>2
      <4> QED BY <2>2, <2>5, <2>6, <3>2, <4>1
    <3>3. CASE i # at /\ j = at
      <4>1. old(i) \in 1..Len(timers) /\ old(i) < at
        BY <1>0, <2>1, <2>5, <2>10, <3>3
      <4> QED BY <2>1, <2>2, <2>5, <3>3, <4>1 DEF ScheduleInv, Walk
    <3>4. CASE i # at /\ j # at
      <4>1. old(i) <= old(j)
        BY <1>0, <2>1, <2>10, <3>4
      <4> QED BY <2>5, <3>4, <4>1 DEF ScheduleInv, Schedule
    <3> QED BY <3>1, <3>2, <3>3, <3>4
  <2>11. ASSUME NEW k \in 1..Len(timers')
         PROVE  timers'[k].left >= 0 /\ (pc' = "idle" => timers'[k].left >= 1)
    <3>1. CASE k = at
      BY <1>0, <2>1, <2>2, <3>1 DEF ScheduleInv, Walk
    <3>2. CASE k # at
      BY <2>1, <2>5, <3>2 DEF ScheduleInv, Schedule
    <3> QED BY <3>1, <3>2
  <2>12. pc' \in {"callback", "skipped"} => timers'[1].left = 0
    BY <1>0, <2>1, <2>2, <2>7 DEF ScheduleInv, Schedule
  <2>13. Schedule'
    BY <2>7, <2>8, <2>9, <2>10, <2>11, <2>12 DEF Schedule
  <2> QED BY <2>1, <2>13 DEF ScheduleInv, Walk
<1>5. CASE tick
  <2>1. \A k \in 1..Len(timers) :
          /\ Ticked(k).left = timers[k].left - 1
          /\ Ticked(k).delta = IF k = 1 THEN timers[k].delta - 1
                                        ELSE timers[k].delta
    BY <1>0 DEF Ticked, Timer
  <2>2. /\ Len(timers') = Len(timers)
        /\ \A k \in 1..Len(timers) :
             /\ timers'[k].left = timers[k].left - 1
             /\ timers'[k].delta = IF k = 1 THEN timers[k].delta - 1
                                            ELSE timers[k].delta
    BY <1>5, <2>1, TickShape
  <2>3. pc = "idle" /\ pc' = "loop" /\ new = NoTimer /\ UNCHANGED <<cur, new>>
    BY <1>5 DEF tick
  <2>4. \A k \in 1..Len(timers') : timers'[k].left >= 0
    BY <1>0, <2>2, <2>3 DEF ScheduleInv, Schedule
  <2>5. ASSUME NEW i \in 1..Len(timers'), NEW j \in 1..Len(timers'), i <= j
        PROVE  timers'[i].left <= timers'[j].left
    <3>1. timers[i].left <= timers[j].left
      BY <2>2, <2>5 DEF ScheduleInv, Schedule
    <3> QED BY <1>0, <2>2, <3>1
  <2>6. ASSUME NEW k \in 2..Len(timers')
        PROVE  timers'[k].delta = timers'[k].left - timers'[k - 1].left
    <3>1. k \in 1..Len(timers) /\ k - 1 \in 1..Len(timers) /\ k # 1
      BY <1>0, <2>2
    <3>2. timers[k].delta = timers[k].left - timers[k - 1].left
      BY <1>0, <2>2 DEF ScheduleInv, Schedule
    <3>3. timers'[k].delta = timers[k].delta /\ timers'[k].left = timers[k].left - 1
      BY <2>2, <3>1
    <3>4. timers'[k - 1].left = timers[k - 1].left - 1
      BY <2>2, <3>1
    <3>5. timers[k].left \in Int /\ timers[k - 1].left \in Int
      BY <1>0, <3>1
    <3> QED BY <3>2, <3>3, <3>4, <3>5
  <2>7. Len(timers') >= 1 => timers'[1].delta = timers'[1].left
    BY <1>0, <2>2 DEF ScheduleInv, Schedule
  <2> QED BY <2>3, <2>4, <2>5, <2>6, <2>7 DEF ScheduleInv, Schedule, Walk
<1>6. CASE run_timer
  <2>1. /\ Len(timers') = Len(timers) /\ Len(timers) >= 1
        /\ \A k \in 1..Len(timers) :
             timers'[k].delta = timers[k].delta /\ timers'[k].left = timers[k].left
    BY <1>6, RunShape
  <2>2. /\ cur' = 1 /\ new = NoTimer /\ new' = new
        /\ pc' \in {"callback", "skipped"} /\ timers[1].delta <= 0
    BY <1>6 DEF run_timer, HeadDue
  <2>3. timers'[1].left = 0
    BY <1>0, <2>1, <2>2 DEF ScheduleInv, Schedule
  <2>4. \A k \in 2..Len(timers') : k \in 1..Len(timers) /\ k - 1 \in 1..Len(timers)
    BY <1>0, <2>1
  <2> QED BY <1>0, <2>1, <2>2, <2>3, <2>4, SMTT(30) DEF ScheduleInv, Schedule, Walk
<1>7. CASE callback_returns
  <2>1. cur = 1 /\ timers[1].left = 0 /\ pc' = "loop" /\ cur' = 0 /\ new = NoTimer
    BY <1>7 DEF callback_returns, ScheduleInv, Schedule
  <2>2. /\ Len(timers) >= 1 /\ Len(timers') = Len(timers) - 1
        /\ \A k \in 1..(Len(timers) - 1) : timers'[k] = timers[1 + k]
    BY <1>0, <1>7, <2>1, ReturnShape
  <2>3. \A k \in 1..Len(timers') : 1 + k \in 2..Len(timers) /\ timers'[k] = timers[1 + k]
    BY <1>0, <2>2
  <2>4. \A k \in 1..Len(timers') : timers'[k].left >= 0
    BY <1>0, <2>3 DEF ScheduleInv, Schedule
  <2>5. \A i, j \in 1..Len(timers') : i <= j => timers'[i].left <= timers'[j].left
    BY <1>0, <2>3, SMTT(30) DEF ScheduleInv, Schedule
  <2>6. ASSUME NEW k \in 2..Len(timers')
        PROVE  timers'[k].delta = timers'[k].left - timers'[k - 1].left
    <3>1. /\ k \in 1..Len(timers') /\ k - 1 \in 1..Len(timers')
          /\ 1 + (k - 1) = (1 + k) - 1
      BY <1>0, <2>2
    <3>2. timers[1 + k].delta = timers[1 + k].left - timers[(1 + k) - 1].left
      BY <2>3, <3>1 DEF ScheduleInv, Schedule
    <3> QED BY <2>3, <3>1, <3>2
  <2>7. Len(timers') >= 1 => timers'[1].delta = timers'[1].left
    <3> SUFFICES ASSUME Len(timers') >= 1 PROVE timers'[1].delta = timers'[1].left
      OBVIOUS
    <3>1. 2 \in 2..Len(timers) /\ timers'[1] = timers[2]
      BY <1>0, <2>2
    <3>2. timers[2].delta = timers[2].left - timers[1].left
      BY <3>1 DEF ScheduleInv, Schedule
    <3> QED BY <1>0, <2>1, <3>1, <3>2
  <2>8. Schedule'
    BY <2>1, <2>4, <2>5, <2>6, <2>7 DEF Schedule
  <2>9. Walk'
    <3>1. CASE LastRun
      BY <1>7, <2>1, <3>1 DEF callback_returns, Walk
    <3>2. CASE ~LastRun
      <4> DEFINE t == timers[cur]
      <4>1. t \in Timer
        BY <1>7, ReturnShape
      <4>2. new' = [t EXCEPT !.delta = t.need, !.left = t.need] /\ at' = 1
        BY <1>7, <3>2 DEF callback_returns
      <4>3. t.need \in Delays
        BY <4>1 DEF Timer
      <4>4. new'.left = t.need /\ new'.delta = t.need
        BY <4>1, <4>2 DEF Timer
      <4>5. t.need >= 1 /\ t.need \in Int
        BY <4>3, DelaysAreInts DEF PositiveDelays
      <4> HIDE DEF t
      <4>6. \A k \in 1..Len(timers') : ~(k < at')
        BY <1>0, <2>2, <4>2
      <4> QED BY <4>2, <4>4, <4>5, <4>6 DEF Walk
    <3> QED BY <3>1, <3>2
  <2> QED BY <2>8, <2>9 DEF ScheduleInv
<1>8. CASE tick_done
  <2>1. /\ UNCHANGED <<timers, cur, new, at>> /\ new = NoTimer
        /\ pc = "loop" /\ pc' = "idle" /\ ~HeadDue
    BY <1>8 DEF tick_done
  <2>2. ASSUME NEW k \in 1..Len(timers) PROVE timers[k].left >= 1
    <3>1. Len(timers) >= 1 /\ 1 \in 1..Len(timers)
      BY <1>0
    <3>2. timers[1].delta > 0
      BY <1>0, <2>1, <3>1 DEF HeadDue
    <3> QED BY <1>0, <3>1, <3>2 DEF ScheduleInv, Schedule
  <2> QED BY <2>1, <2>2 DEF ScheduleInv, Schedule, Walk
<1>9. CASE UNCHANGED vars
  BY <1>9 DEF vars, ScheduleInv, Schedule, Walk
<1> QED
  BY <1>1, <1>2, <1>3, <1>4, <1>5, <1>6, <1>7, <1>8, <1>9
  DEF Next, Client, Server

\* The schedule invariant holds throughout, for positive delays.
LEMMA ScheduleInvariant ==
  ASSUME PositiveDelays
  PROVE  Spec => [](TypeInv /\ ScheduleInv)
<1>1. TypeInv /\ ScheduleInv /\ [Next]_vars => (TypeInv /\ ScheduleInv)'
  BY TypeStep, ScheduleStep
<1> QED BY <1>1, TypeInit, ScheduleInit, PTL DEF Spec

\* With delays of at least a millisecond every timer runs exactly in the tick at
\* which its delay is over, however many timers there are and whatever callbacks
\* add, clear or re-add while the tick is processed.
THEOREM TimersRunOnTime ==
  ASSUME PositiveDelays
  PROVE  Spec => []OnTime
<1>1. TypeInv /\ ScheduleInv => OnTime
  BY DEF TypeInv, TypeOK, ScheduleInv, Schedule, OnTime
<1> QED BY <1>1, ScheduleInvariant, PTL

-----------------------------------------------------------------------------
(* No timer is dropped, under the same condition on the delays.             *)

\* Every id handed out is in the list, being inserted, or ended.
Covered ==
  \A id \in 0..(ntimers - 1) :
    \/ id \in done
    \/ new # NoTimer /\ new.id = id
    \/ \E k \in 1..Len(timers) : timers[k].id = id

\* With positive delays no step drops a timer: a timer leaves the list only when it ends or is re-added.
LEMMA CoveredStep ==
  TypeInv /\ IdInv /\ ScheduleInv /\ Covered /\ [Next]_vars => Covered'
<1> SUFFICES ASSUME TypeInv, IdInv, ScheduleInv, Covered, [Next]_vars,
                    NEW id \in 0..(ntimers' - 1)
             PROVE  \/ id \in done'
                    \/ new' # NoTimer /\ new'.id = id
                    \/ \E k \in 1..Len(timers') : timers'[k].id = id
  BY DEF Covered
<1>0. /\ timers \in Seq(Timer) /\ Len(timers) \in Nat /\ ntimers \in Nat
      /\ \A k \in 1..Len(timers) : timers[k] \in Timer
      /\ new # NoTimer => new \in Timer /\ at \in 1..(Len(timers) + 1)
  BY DEF TypeInv, TypeOK, Positions
<1>1. ASSUME NEW msec \in Delays, NEW times \in Repeats, NEW js \in BOOLEAN,
             add_timer(msec, times, js)
      PROVE  \/ id \in done'
             \/ new' # NoTimer /\ new'.id = id
             \/ \E k \in 1..Len(timers') : timers'[k].id = id
  <2>1. /\ new = NoTimer /\ new'.id = ntimers /\ ntimers' = ntimers + 1
        /\ UNCHANGED <<timers, done>>
    BY <1>1 DEF add_timer, ClientRuns, NewTimer
  <2>2. new' \in Timer /\ new' # NoTimer
    <3>1. NewTimer(msec, times, js) \in Timer
      BY RepeatsAreNats, DelaysAreInts DEF NewTimer, Timer, TypeInv, TypeOK
    <3> QED BY <1>1, <3>1, NoTimerIsNone DEF add_timer
  <2> QED BY <1>0, <2>1, <2>2 DEF Covered
<1>2. CASE \E i \in Ids : clear_timeout(i)
  BY <1>2 DEF clear_timeout, Covered
<1>3. CASE walk_past
  <2>1. new \in Timer /\ new # NoTimer
    BY <1>0, <1>3 DEF walk_past
  <2>2. new'.id = new.id /\ UNCHANGED <<timers, ntimers, done>>
    BY <1>3, <2>1 DEF walk_past, Timer
  <2>3. new' # NoTimer
    <3>1. at \in 1..Len(timers) /\ timers[at] \in Timer
      BY <1>0, <1>3 DEF walk_past, Fits
    <3>2. new.delta - timers[at].delta \in Int
      BY <2>1, <3>1, TimerFields
    <3>3. [new EXCEPT !.delta = new.delta - timers[at].delta] \in Timer
      BY <2>1, <3>2, TimerUpdates
    <3> QED BY <1>3, <3>3, NoTimerIsNone DEF walk_past
  <2> QED BY <2>1, <2>2, <2>3 DEF Covered
<1>4. CASE link
  <2>1. /\ new # NoTimer /\ new \in Timer /\ at \in 1..(Len(timers) + 1)
        /\ Len(timers') = Len(timers) + 1 /\ UNCHANGED <<ntimers, done>>
    BY <1>0, <1>4, LinkShape DEF link
  <2>2. at \in 1..Len(timers') /\ timers'[at] = new
    BY <1>0, <1>4, <2>1, LinkShape
  <2>3. ASSUME NEW k \in 1..Len(timers)
        PROVE  \E l \in 1..Len(timers') : timers'[l].id = timers[k].id
    <3>1. CASE k < at
      BY <1>0, <1>4, <2>1, <3>1, LinkShape
    <3>2. CASE ~(k < at)
      <4>1. /\ k + 1 \in 1..(Len(timers) + 1) /\ ~(k + 1 < at) /\ k + 1 # at
            /\ (k + 1 = at + 1 <=> k = at) /\ (k + 1) - 1 = k
        BY <1>0, <2>1, <3>2
      <4>2. timers'[k + 1] = IF k = at
                             THEN [timers[at] EXCEPT !.delta = @ - new.delta]
                             ELSE timers[k]
        BY <1>4, <4>1, LinkShape
      <4>3. timers'[k + 1].id = timers[k].id
        BY <1>0, <4>2, SMTT(30) DEF Timer
      <4> QED BY <2>1, <4>1, <4>3
    <3> QED BY <3>1, <3>2
  <2> QED BY <2>1, <2>2, <2>3 DEF Covered
<1>5. CASE tick
  <2>1. \A k \in 1..Len(timers) : Ticked(k).id = timers[k].id
    BY <1>0 DEF Ticked, Timer
  <2> QED BY <1>5, <2>1, TickShape DEF tick, Covered
<1>6. CASE run_timer
  BY <1>6, RunShape DEF run_timer, Covered
<1>7. CASE callback_returns
  <2> DEFINE t == timers[1]
  <2>1. /\ cur = 1 /\ t \in Timer /\ Len(timers') = Len(timers) - 1
        /\ \A k \in 1..(Len(timers) - 1) : timers'[k] = timers[1 + k]
        /\ new = NoTimer /\ UNCHANGED ntimers
    BY <1>7, ReturnShape DEF callback_returns, ScheduleInv, Schedule
  <2>2. t.id \in done' \/ (new' # NoTimer /\ new'.id = t.id)
    <3>1. CASE LastRun
      BY <1>7, <2>1, <3>1 DEF callback_returns
    <3>2. CASE ~LastRun
      <4>1. new' = [t EXCEPT !.delta = t.need, !.left = t.need]
        BY <1>7, <2>1, <3>2 DEF callback_returns
      <4>2. [t EXCEPT !.delta = t.need, !.left = t.need].id = t.id
        BY <2>1 DEF Timer
      <4>3. [t EXCEPT !.delta = t.need, !.left = t.need] \in Timer
        BY <2>1, TimerFields, TimerUpdates
      <4> QED BY <4>1, <4>2, <4>3, NoTimerIsNone
    <3> QED BY <3>1, <3>2
  <2>3. ASSUME NEW k \in 1..Len(timers)
        PROVE  k = 1 \/ \E l \in 1..Len(timers') : timers'[l].id = timers[k].id
    <3>1. CASE k # 1
      <4>1. k - 1 \in 1..(Len(timers) - 1) /\ 1 + (k - 1) = k
        BY <1>0, <3>1
      <4>2. timers'[k - 1] = timers[k]
        BY <2>1, <4>1
      <4> QED BY <2>1, <4>1, <4>2
    <3> QED BY <3>1
  <2>4. done \subseteq done'
    BY <1>7 DEF callback_returns
  <2>5. id \in done \/ \E k \in 1..Len(timers) : timers[k].id = id
    BY <2>1 DEF Covered
  <2>6. CASE id \in done
    BY <2>4, <2>6
  <2>7. CASE \E k \in 1..Len(timers) : timers[k].id = id
    <3>1. PICK k \in 1..Len(timers) : timers[k].id = id
      BY <2>7
    <3>2. CASE k = 1
      BY <2>2, <3>1, <3>2
    <3>3. CASE k # 1
      BY <2>3, <3>1, <3>3
    <3> QED BY <3>2, <3>3
  <2> QED BY <2>5, <2>6, <2>7
<1>8. CASE tick_done
  BY <1>8 DEF tick_done, Covered
<1>9. CASE UNCHANGED vars
  BY <1>9 DEF vars, Covered
<1> QED
  BY <1>1, <1>2, <1>3, <1>4, <1>5, <1>6, <1>7, <1>8, <1>9
  DEF Next, Client, Server

\* With delays of at least a millisecond no timer is dropped from the list: it
\* stays until process_tick has ended it.
THEOREM NoTimerIsLost ==
  ASSUME PositiveDelays
  PROVE  Spec => []NothingLost
<1> DEFINE Inv == TypeInv /\ IdInv /\ ScheduleInv /\ Covered
<1>1. Init => Inv
  <2>1. Init => Covered
    BY DEF Init, Covered
  <2> QED BY <2>1, TypeInit, IdInit, ScheduleInit
<1>2. Inv /\ [Next]_vars => Inv'
  BY TypeStep, IdStep, ScheduleStep, CoveredStep
<1>3. Inv => NothingLost
  <2> SUFFICES ASSUME Inv PROVE NothingLost
    OBVIOUS
  <2>0. /\ DOMAIN timers = 1..Len(timers) /\ ntimers \in Nat /\ done \subseteq Nat
        /\ \A k \in 1..Len(timers) : timers[k].id \in Nat
        /\ new # NoTimer => new.id \in Nat
    BY TimerFields DEF TypeInv, TypeOK
  <2>1. 0..(ntimers - 1) \subseteq IdsIn(timers) \cup Inserting \cup done
    BY <2>0 DEF Covered, IdsIn, Inserting
  <2>2. IdsIn(timers) \cup Inserting \cup done \subseteq 0..(ntimers - 1)
    <3>1. IdsIn(timers) \subseteq 0..(ntimers - 1)
      BY <2>0 DEF IdInv, IdsIn
    <3>2. Inserting \subseteq 0..(ntimers - 1)
      BY <2>0 DEF IdInv, Inserting
    <3>3. done \subseteq 0..(ntimers - 1)
      BY <2>0 DEF IdInv
    <3> QED BY <3>1, <3>2, <3>3
  <2> QED BY <2>1, <2>2 DEF NothingLost
<1> QED BY <1>1, <1>2, <1>3, PTL DEF Spec
=============================================================================
