------------------------------ MODULE ApeTimers ------------------------------
(***************************************************************************)
(* The timer list of ape_timers.c, with the JavaScript timers that         *)
(* ape_jsapi.c builds on it.                                               *)
(*                                                                         *)
(* Timers are kept in a list in which each node stores its delay RELATIVE  *)
(* to the node before it.  add_timeout walks the list to the place of a    *)
(* new timer, process_tick takes one millisecond off the head and runs     *)
(* every timer that is due.  Callbacks run inside process_tick and may     *)
(* themselves add or clear timers.                                         *)
(*                                                                         *)
(* The fields left and owed of a timer are history: the ticks until the    *)
(* timer is due and the runs its creator is still owed, counted            *)
(* independently of delta and times.  done is history too.                 *)
(***************************************************************************)
EXTENDS Integers, Sequences, SequencesExt

CONSTANTS Delays,     \* the delays, in ms, that callers ask for
          Repeats,    \* the values of "times" that callers ask for
          MaxTimers,  \* bound on the timers ever created
          NoTimer     \* stands for a NULL new_timer

VARIABLES timers,     \* ape->timers.timers
          ntimers,    \* ape->timers.ntimers
          pc,         \* where process_tick is
          cur,        \* position of the timer being run, 0 if none
          lastcall,   \* process_tick's local of that name
          new,        \* the timer add_timeout is inserting, or NoTimer
          at,         \* position add_timeout has walked to
          cleared,    \* ids whose params->cleared is set
          freed,      \* ids whose params are freed
          done        \* history: ids of the timers that have ended

vars == <<timers, ntimers, pc, cur, lastcall, new, at, cleared, freed, done>>

Forever == -1

Timer == [id : Nat, delta : Int, need : Delays, times : Nat, js : BOOLEAN,
          left : Int, owed : Nat \cup {Forever}]

ASSUME DelaysAreInts == Delays \subseteq Int
ASSUME RepeatsAreNats == Repeats \subseteq Nat
ASSUME MaxTimersIsNat == MaxTimers \in Nat
ASSUME NoTimerIsNone == NoTimer \notin Timer

TypeOK ==
  /\ timers \in Seq(Timer)
  /\ ntimers \in Nat
  /\ pc \in {"idle", "loop", "callback", "skipped"}
  /\ cur \in Nat
  /\ lastcall \in BOOLEAN
  /\ new \in Timer \cup {NoTimer}
  /\ at \in Nat
  /\ cleared \subseteq Nat
  /\ freed \subseteq Nat
  /\ done \subseteq Nat

Init ==
  /\ timers = <<>>
  /\ ntimers = 0
  /\ pc = "idle"
  /\ cur = 0
  /\ lastcall = FALSE
  /\ new = NoTimer
  /\ at = 0
  /\ cleared = {}
  /\ freed = {}
  /\ done = {}

-----------------------------------------------------------------------------
(* What the timers' clients do, from the event loop or from a callback.     *)

\* Client code runs: between ticks, or in a callback that was really called.
ClientRuns == new = NoTimer /\ pc \in {"idle", "callback"}

\* What the variants below get wrong: "times" kept as -1 for endless timers, and
\* an identifier that is the length of the list.
NewTimerMinusOne(msec, times, js) ==
  [id |-> ntimers, delta |-> msec, need |-> msec,
   times |-> IF times = 0 THEN -1 ELSE times, js |-> js,
   left |-> msec, owed |-> IF times = 0 THEN Forever ELSE times]
NewTimerLengthId(msec, times, js) ==
  [id |-> Len(timers), delta |-> msec, need |-> msec, times |-> times, js |-> js,
   left |-> msec, owed |-> IF times = 0 THEN Forever ELSE times]

\* add_timeout allocates the node; add_periodical, setTimeout and setInterval
\* then set times and protect.  Only 1 and 0 repeats are offered to scripts.
NewTimer(msec, times, js) ==
  [id |-> ntimers, delta |-> msec, need |-> msec, times |-> times, js |-> js,
   left |-> msec, owed |-> IF times = 0 THEN Forever ELSE times]

add_timer(msec, times, js) ==
  /\ ClientRuns
  /\ ntimers < MaxTimers
  /\ js => times \in {0, 1}
  /\ new' = NewTimer(msec, times, js)
  /\ at' = 1
  /\ ntimers' = ntimers + 1
  /\ UNCHANGED <<timers, pc, cur, lastcall, cleared, freed, done>>

\* Variant: clearTimeout frees the params at once.
clear_timeout_frees(id) ==
  /\ ClientRuns
  /\ \E k \in DOMAIN timers : timers[k].id = id /\ timers[k].js
  /\ cleared' = cleared \cup {id}
  /\ freed' = freed \cup {id}
  /\ UNCHANGED <<timers, ntimers, pc, cur, lastcall, new, at, done>>

\* clearTimeout only marks the params of a script's timer that is in the list.
clear_timeout(id) ==
  /\ ClientRuns
  /\ \E k \in DOMAIN timers : timers[k].id = id /\ timers[k].js
  /\ cleared' = cleared \cup {id}
  /\ UNCHANGED <<timers, ntimers, pc, cur, lastcall, new, at, freed, done>>

-----------------------------------------------------------------------------
(* add_timeout's loop: walk past the nodes due earlier, then link.          *)

Fits == at \in DOMAIN timers => new.delta <= timers[at].delta

walk_past ==
  /\ new # NoTimer
  /\ ~Fits
  /\ new' = [new EXCEPT !.delta = @ - timers[at].delta]
  /\ at' = at + 1
  /\ UNCHANGED <<timers, ntimers, pc, cur, lastcall, cleared, freed, done>>

\* Variants: the later node keeps its delta, or new_timer->next is not set.
ShortenedNot == timers
ShortenedCut == SubSeq(timers, 1, at - 1)

\* The node found to be due later gives up what the new one takes.
Shortened ==
  [k \in DOMAIN timers |->
     IF k = at THEN [timers[k] EXCEPT !.delta = @ - new.delta] ELSE timers[k]]

link ==
  /\ new # NoTimer
  /\ Fits
  /\ timers' = InsertAt(Shortened, at, new)
  /\ cur' = IF cur >= at THEN cur + 1 ELSE cur
  /\ new' = NoTimer
  /\ at' = 0
  /\ UNCHANGED <<ntimers, pc, lastcall, cleared, freed, done>>

-----------------------------------------------------------------------------
(* process_tick.  In "loop" the head's delta has been decremented already:  *)
(* the decrement of the loop test undoes the increment that ends the body.  *)

Ticked(k) == [timers[k] EXCEPT !.delta = IF k = 1 THEN @ - 1 ELSE @,
                               !.left = @ - 1]

tick ==
  /\ pc = "idle"
  /\ new = NoTimer
  /\ timers' = [k \in DOMAIN timers |-> Ticked(k)]
  /\ pc' = "loop"
  /\ UNCHANGED <<ntimers, cur, lastcall, new, at, cleared, freed, done>>

HeadDue == timers # <<>> /\ timers[1].delta <= 0

\* Variant: the wrapper does not look at params->cleared.
SkippedNever(t) == FALSE

\* The JS wrapper does not call the function of a cleared timer.
Skipped(t) == t.js /\ t.id \in cleared

run_timer ==
  /\ pc = "loop"
  /\ new = NoTimer
  /\ HeadDue
  /\ lastcall' = (timers[1].times = 1)
  /\ timers' = [timers EXCEPT
       ![1].times = IF @ > 0 THEN @ - 1 ELSE @,
       ![1].owed = IF @ > 0 /\ ~Skipped(timers[1]) THEN @ - 1 ELSE @]
  /\ cur' = 1
  /\ pc' = IF Skipped(timers[1]) THEN "skipped" ELSE "callback"
  /\ UNCHANGED <<ntimers, new, at, cleared, freed, done>>

\* Variant: times is tested again after it was decremented.
LastRunEarly == lastcall \/ Skipped(timers[cur]) \/ timers[cur].times = 1

\* What the JS wrapper leaves in *last.
LastRun == lastcall \/ Skipped(timers[cur])

\* The node is unlinked (with whatever precedes it), then freed or re-added.
callback_returns ==
  /\ pc \in {"callback", "skipped"}
  /\ new = NoTimer
  /\ LET t == timers[cur] IN
       \/ /\ LastRun
          /\ done' = done \cup {t.id}
          /\ freed' = IF t.js THEN freed \cup {t.id} ELSE freed
          /\ UNCHANGED <<new, at>>
       \/ /\ ~LastRun
          /\ new' = [t EXCEPT !.delta = t.need, !.left = t.need]
          /\ at' = 1
          /\ UNCHANGED <<done, freed>>
  /\ timers' = SubSeq(timers, cur + 1, Len(timers))
  /\ cur' = 0
  /\ pc' = "loop"
  /\ UNCHANGED <<ntimers, lastcall, cleared>>

tick_done ==
  /\ pc = "loop"
  /\ new = NoTimer
  /\ ~HeadDue
  /\ pc' = "idle"
  /\ UNCHANGED <<timers, ntimers, cur, lastcall, new, at, cleared, freed, done>>

-----------------------------------------------------------------------------
Ids == 0..(MaxTimers - 1)

Client ==
  \/ \E msec \in Delays, times \in Repeats, js \in BOOLEAN :
       add_timer(msec, times, js)
  \/ \E id \in Ids : clear_timeout(id)

Server ==
  walk_past \/ link \/ tick \/ run_timer \/ callback_returns \/ tick_done

Next == Client \/ Server

Spec == Init /\ [][Next]_vars

\* The event loop calls process_tick for every elapsed millisecond, the loops
\* of the code go on, and callbacks return; clients need never do anything.
FairSpec == Spec /\ WF_vars(Server)

-----------------------------------------------------------------------------
(* Properties                                                               *)

IdsIn(ts) == {ts[k].id : k \in DOMAIN ts}
Inserting == IF new = NoTimer THEN {} ELSE {new.id}

\* A timer's id names one timer: the ids in the list, of the timer being
\* inserted and of the ended timers are all different, also across the re-adds
\* of periodic timers, so that clearTimeout and get_timer_identifier reach the
\* timer that was meant.
UniqueIds ==
  /\ \A i, j \in DOMAIN timers : timers[i].id = timers[j].id => i = j
  /\ Inserting \cap IdsIn(timers) = {}
  /\ (IdsIn(timers) \cup Inserting) \cap done = {}

\* No timer is early or late, whatever callbacks add in the middle of a tick: a
\* timer runs exactly when its delay has elapsed, and when process_tick has
\* returned no timer that is due is left.
OnTime ==
  /\ pc \in {"callback", "skipped"} => timers[cur].left = 0
  /\ pc = "idle" => \A k \in DOMAIN timers : timers[k].left >= 1

\* Every timer ever created is in the list, is being inserted, or has ended:
\* process_tick and add_timeout never drop a node that still has to run.
NothingLost ==
  0..(ntimers - 1) = IdsIn(timers) \cup Inserting \cup done

\* process_tick and clearTimeout never touch the params of a script's timer
\* after the wrapper has freed them.
ParamsLive ==
  \A k \in DOMAIN timers : timers[k].js => timers[k].id \notin freed

\* A timer ends only after as many runs as its creator asked for ("times"x), or
\* because it was cleared; an endless timer only because it was cleared.
ServedInFull ==
  [][\A id \in done' \ done :
       \/ id \in cleared
       \/ \E k \in DOMAIN timers : timers[k].id = id /\ timers[k].owed = 0]_vars

\* Every timer that is in the list runs, or ends.
EveryTimerRuns ==
  \A id \in Ids :
    id \in IdsIn(timers) ~> \/ id \in done
                            \/ cur # 0 /\ timers[cur].id = id

\* A cleared timer's params are freed in the end: clearing does not leak them.
ClearedIsFreed == \A id \in Ids : id \in cleared ~> id \in freed
=============================================================================
