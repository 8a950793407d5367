---------------------------- MODULE ScriptObjects ----------------------------
(***************************************************************************)
(* What scripts and the server hold of each other (ape_jsapi.c): the        *)
(* objects of sockets, the listeners of events, the timers' functions, and  *)
(* the roots that keep the engine's garbage collector away from them.       *)
(*                                                                         *)
(* The object of a socket is called like the socket.  A cell is what        *)
(* addEventListener and setTimeout allocate for a function.  Listeners and  *)
(* timers are never looked at by the collector: only a root keeps their     *)
(* functions.                                                              *)
(***************************************************************************)
EXTENDS ApeArray, Integers, Sequences

CONSTANTS Socks,    \* ape_sockets
          Server,   \* the Server object
          None,     \* no socket
          Keys,     \* names scripts listen to: records of event and spelling
          MaxCells, \* bound on listeners and timers
          MaxDepth, \* bound on the nesting of callbacks
          Keeps     \* scripts keep the sockets they make until they are gone,
                    \* and what they hand to timers until it is handed back

VARIABLES
  socket,   \* states.state of each socket, "none" before and "freed" after
  made,     \* who made it: "none", "accept" or "script"
  ctx,      \* the sockets whose ctx points to their object
  object,   \* the objects: "none", "live" or "collected"
  events,   \* slots[0] of their privates: an array, its values heads of lists
  next,     \* the list of listeners a cell is in
  func,     \* the function of each cell: "none", "live" or "collected"
  waiting,  \* the timers' cells, each with an argument
  cells,    \* the cells whose function is rooted
  sockets,  \* the sockets whose ctx is rooted
  kept,     \* the objects that variables of scripts and functions refer to
  stack,    \* calls into the scripts that have not returned, innermost first
  registered \* history: the calls of addEventListener

heap == <<object, func>>
lists == <<events, next, registered>>
roots == <<cells, sockets>>
vars == <<socket, made, ctx, heap, lists, waiting, roots, kept, stack>>

Objects == Socks \cup {Server}
Events == {"connect", "read", "disconnect", "request", "wsframe"}
Key == [event : Events, spelling : {"lower", "other"}]
Spellings(event) == [event : {event}, spelling : {"lower", "other"}]
Cell == 1..MaxCells

ASSUME KeysAreKeys == Keys \subseteq Key
ASSUME BoundsAreNatural == MaxCells \in Nat /\ MaxDepth \in Nat /\ Keeps \in BOOLEAN
ASSUME NamesDiffer == Server \notin Socks /\ None \notin Objects

\* A call: of the listeners of an event of object this, of a timer, or of the
\* main script; at is the cell whose function runs, and owed (history) the
\* registrations that are to run, this one among them.
Call == [what : Events \cup {"timer", "main"}, this : Objects, args : SUBSET Socks,
         at : Cell \cup {0}, owed : SUBSET Nat]

TypeOK ==
  /\ socket \in [Socks -> {"none", "pending", "online", "offline", "freed"}]
  /\ made \in [Socks -> {"none", "accept", "script"}]
  /\ ctx \subseteq Socks
  /\ object \in [Objects -> {"none", "live", "collected"}]
  /\ events \in [Objects -> {<<>>} \cup ArrayOf(Key, Cell)]
  /\ next \in [Cell -> Cell \cup {0}]
  /\ func \in [Cell -> {"none", "live", "collected"}]
  /\ waiting \subseteq Cell \X (Socks \cup {None})
  /\ cells \subseteq Cell
  /\ sockets \subseteq Socks
  /\ kept \subseteq Socks
  /\ stack \in Seq(Call)
  /\ registered \in Seq([object : Objects, key : Key, cell : Cell])

\* JS_InitAPEClasses, and then main.js runs.
Init ==
  /\ socket = [s \in Socks |-> "none"]
  /\ made = [s \in Socks |-> "none"]
  /\ ctx = {}
  /\ object = [o \in Objects |-> IF o = Server THEN "live" ELSE "none"]
  /\ events = [o \in Objects |-> IF o = Server THEN ape_array_new ELSE <<>>]
  /\ next = [c \in Cell |-> 0]
  /\ func = [c \in Cell |-> "none"]
  /\ waiting = {}
  /\ cells = {} /\ sockets = {} /\ kept = {}
  /\ stack = <<[what |-> "main", this |-> Server, args |-> {}, at |-> 0, owed |-> {}]>>
  /\ registered = <<>>

-----------------------------------------------------------------------------
(* Events                                                                   *)

Top == stack[1]

\* The registrations with this object and key.
Listeners(o, key) ==
  {n \in DOMAIN registered : registered[n].object = o /\ registered[n].key = key}

LastOf(positions) == CHOOSE p \in positions : \A q \in positions : q <= p

\* What is to be called for an event: the listeners registered under the
\* spelling that was used first.
Owed(o, event) ==
  LET ours == {n \in DOMAIN registered : registered[n].object = o
                                         /\ registered[n].key.event = event}
  IN  IF ours = {} THEN {} ELSE Listeners(o, registered[FirstOf(ours)].key)

\* ape_js_trigger_event, of an object with privates.
FirstListener(o, event) ==
  LET p == ape_array_lookup(events[o], Spellings(event))
  IN  IF p = 0 THEN 0 ELSE events[o].slots[p].value

Trigger(o, event, args) ==
  /\ Len(stack) < MaxDepth
  /\ stack' = <<[what |-> event, this |-> o, args |-> args, at |-> FirstListener(o, event),
                 owed |-> Owed(o, event)]>> \o stack

\* APE_socket_destroy.  A script's socket tells its listeners first; the client
\* of an accepted one is not the scripts' business.  Listeners told that their
\* socket goes do not use it (ReentrantClose is FALSE, in ApeSockets).
InDestroy(s) == \E n \in DOMAIN stack : stack[n].what = "disconnect" /\ stack[n].this = s
Destroy(s) ==
  /\ ~InDestroy(s)
  /\ \/ made[s] = "script" /\ Trigger(s, "disconnect", {}) /\ UNCHANGED socket
     \/ made[s] = "accept" /\ socket' = [socket EXCEPT ![s] = "offline"] /\ UNCHANGED stack

\* A listener returns: the next one in the list is called.  After the last one
\* the socket it was told about goes offline; the cell of a timer that ran for
\* the last time is freed, without its root.
returns(last) ==
  /\ stack # <<>>
  /\ LET at == IF Top.at = 0 \/ Top.what = "timer" THEN 0 ELSE next[Top.at]
         ends == Top.what = "timer" /\ last
         gone == Top.what = "disconnect" /\ at = 0
     IN  /\ stack' = IF at = 0 THEN Tail(stack)
                     ELSE [stack EXCEPT ![1] = [Top EXCEPT !.at = at,
                                                           !.owed = @ \ {LastOf(@)}]]
         /\ socket' = IF gone THEN [socket EXCEPT ![Top.this] = "offline"] ELSE socket
         /\ waiting' = IF ends THEN {w \in waiting : w[1] # Top.at} ELSE waiting
         /\ cells' = IF ends THEN cells \ {Top.at} ELSE cells
  /\ last => Top.what = "timer"
  /\ UNCHANGED <<made, ctx, heap, lists, sockets, kept>>

-----------------------------------------------------------------------------
(* Scripts                                                                  *)

\* Script code runs, and these objects it can name.
Running == stack # <<>> /\ (Top.at # 0 \/ Top.what = "main")
Known == kept \cup Top.args \cup ({Top.this} \cap Socks)

\* ape_native_socket_constructor.  If the connection fails at once the object
\* has no privates yet, and its listeners cannot be told.
new_socket(s) ==
  /\ Running /\ made[s] = "none"
  /\ made' = [made EXCEPT ![s] = "script"]
  /\ socket' \in {[socket EXCEPT ![s] = state] : state \in {"pending", "offline"}}
  /\ ctx' = ctx \cup {s}
  /\ object' = [object EXCEPT ![s] = "live"]
  /\ events' = [events EXCEPT ![s] = ape_array_new]
  /\ kept' = kept \cup {s}
  /\ UNCHANGED <<next, func, waiting, roots, stack, registered>>

\* The cell of a new listener or timer.
NextCell(c) == func[c] = "none" /\ \A d \in Cell : d < c => func[d] # "none"
\* Variant: the function is only stored.
RootedNot(c) == UNCHANGED cells

\* JS_AddValueRoot
Rooted(c) == cells' = cells \cup {c}
NewCell(c) ==
  /\ Running /\ NextCell(c)
  /\ func' = [func EXCEPT ![c] = "live"]
  /\ Rooted(c)

\* Variant: the new listener is linked behind the first one.
LinkedSecond(c, head) ==
  IF head = 0 THEN [head |-> c, next |-> [next EXCEPT ![c] = 0]]
  ELSE [head |-> head, next |-> [next EXCEPT ![c] = next[head], ![head] = c]]

\* A listener goes in front of those that are there.
Linked(c, head) == [head |-> c, next |-> [next EXCEPT ![c] = head]]

\* The value of the item at p is replaced.
Holds(a, p, value) ==
  [a EXCEPT !.slots = [a.slots EXCEPT ![p] = [a.slots[p] EXCEPT !.value = value]]]

\* ape_native_add_event_listener, on the object of a socket or on Server.
add_event_listener(o, key, c) ==
  /\ NewCell(c)
  /\ o \in Known \cup {Server} /\ events[o] # <<>>
  /\ LET p == ape_array_lookup_item(events[o], key)
         link == Linked(c, IF p = 0 THEN 0 ELSE events[o].slots[p].value)
     IN  /\ events' = IF p = 0
                      THEN [events EXCEPT ![o] = ape_array_add(@, key, link.head)]
                      ELSE [events EXCEPT ![o] = Holds(@, p, link.head)]
         /\ next' = link.next
  /\ registered' = Append(registered, [object |-> o, key |-> key, cell |-> c])
  /\ UNCHANGED <<socket, made, ctx, object, waiting, sockets, kept, stack>>

\* ape_native_set_timeout and ape_native_set_interval; the argument has no root.
set_timer(c, arg) ==
  /\ NewCell(c)
  /\ arg \in Known \cup {None}
  /\ waiting' = waiting \cup {<<c, arg>>}
  /\ kept' = IF Keeps THEN kept \cup ({arg} \cap Socks) ELSE kept
  /\ UNCHANGED <<socket, made, ctx, object, lists, sockets, stack>>

keep(s) ==
  /\ Running /\ s \in Known \ kept
  /\ kept' = kept \cup {s}
  /\ UNCHANGED <<socket, made, ctx, heap, lists, waiting, roots, stack>>

let_go(s) ==
  /\ Running /\ s \in kept
  /\ Keeps => /\ made[s] = "script" => socket[s] \in {"offline", "freed"}
              /\ \A w \in waiting : w[2] # s
  /\ kept' = kept \ {s}
  /\ UNCHANGED <<socket, made, ctx, heap, lists, waiting, roots, stack>>

\* close, write or sendfile of a socket whose peer has gone: it is destroyed.
use_fails(s) ==
  /\ Running /\ s \in Known /\ socket[s] = "online"
  /\ Destroy(s)
  /\ UNCHANGED <<made, ctx, heap, lists, waiting, roots, kept>>

\* The collector.  It marks from the stack, from variables and from roots, and
\* takes what it has not marked; the ctx of a socket that was freed is a root
\* still, of which nobody knows what it holds.
RunningCells == {stack[n].at : n \in DOMAIN stack} \ {0}
Marked ==
  kept \cup {s \in sockets : socket[s] # "freed"}
       \cup UNION {stack[n].args \cup {stack[n].this} : n \in DOMAIN stack}
gc ==
  /\ Running
  /\ \E junk \in SUBSET {s \in sockets : socket[s] = "freed"} :
       object' = [o \in Objects |->
                    IF object[o] = "live" /\ o \notin {Server} \cup Marked \cup junk
                    THEN "collected" ELSE object[o]]
  /\ func' = [c \in Cell |->
               IF func[c] = "live" /\ c \notin cells \cup RunningCells THEN "collected"
               ELSE func[c]]
  /\ UNCHANGED <<socket, made, ctx, lists, waiting, roots, kept, stack>>

-----------------------------------------------------------------------------
(* The loop                                                                 *)

\* A connection that a script asked for is made.
connected(s) ==
  /\ stack = <<>> /\ made[s] = "script" /\ socket[s] = "pending"
  /\ socket' = [socket EXCEPT ![s] = "online"]
  /\ Trigger(s, "connect", {})
  /\ UNCHANGED <<made, ctx, heap, lists, waiting, roots, kept>>

accepts(s) ==
  /\ stack = <<>> /\ made[s] = "none"
  /\ made' = [made EXCEPT ![s] = "accept"]
  /\ socket' = [socket EXCEPT ![s] = "online"]
  /\ UNCHANGED <<ctx, heap, lists, waiting, roots, kept, stack>>

reads(s) ==
  /\ stack = <<>> /\ made[s] = "script" /\ socket[s] = "online"
  /\ Trigger(s, "read", {})
  /\ UNCHANGED <<socket, made, ctx, heap, lists, waiting, roots, kept>>

\* Variant: the new object has no root.
RootedCtxNot(s) == UNCHANGED sockets

\* JS_AddObjectRoot; nothing removes this root.
RootedCtx(s) == sockets' = sockets \cup {s}

\* A request, which comes with the object of its socket, or a frame, without:
\* the object is made for the first of them (ape_socket_to_jsobj).
requests(s, event, args) ==
  /\ stack = <<>> /\ made[s] = "accept" /\ socket[s] = "online"
  /\ \/ s \in ctx /\ UNCHANGED <<ctx, object, events, sockets>>
     \/ /\ s \notin ctx
        /\ ctx' = ctx \cup {s}
        /\ object' = [object EXCEPT ![s] = "live"]
        /\ events' = [events EXCEPT ![s] = ape_array_new]
        /\ RootedCtx(s)
  /\ Trigger(Server, event, args)
  /\ UNCHANGED <<socket, made, func, next, registered, waiting, cells, kept>>

\* A lookup or connect fails, or the peer has gone.
goes(s) ==
  /\ stack = <<>>
  /\ socket[s] \in IF made[s] = "script" THEN {"pending", "online"} ELSE {"online"}
  /\ Destroy(s)
  /\ UNCHANGED <<made, ctx, heap, lists, waiting, roots, kept>>

\* ape_socket_free, a timer of the loop.
ape_socket_free(s) ==
  /\ stack = <<>> /\ socket[s] = "offline"
  /\ socket' = [socket EXCEPT ![s] = "freed"]
  /\ UNCHANGED <<made, ctx, heap, lists, waiting, roots, kept, stack>>

\* ape_jsapi_timer_wrapper, of a timer that was not cleared.
timer_wrapper(c, arg) ==
  /\ stack = <<>> /\ <<c, arg>> \in waiting
  /\ stack' = <<[what |-> "timer", this |-> Server, args |-> {arg} \cap Socks, at |-> c,
                 owed |-> {}]>>
  /\ UNCHANGED <<socket, made, ctx, heap, lists, waiting, roots, kept>>

-----------------------------------------------------------------------------
Script ==
  \/ \E s \in Socks : new_socket(s) \/ keep(s) \/ let_go(s) \/ use_fails(s)
  \/ \E c \in Cell :
       \/ \E o \in Objects, key \in Keys : add_event_listener(o, key, c)
       \/ \E arg \in Socks \cup {None} : set_timer(c, arg)
  \/ \E last \in BOOLEAN : returns(last)
  \/ gc

Loop ==
  \/ \E s \in Socks :
       \/ connected(s) \/ accepts(s) \/ reads(s) \/ goes(s) \/ ape_socket_free(s)
       \/ requests(s, "request", {s}) \/ requests(s, "wsframe", {})
  \/ \E w \in waiting : timer_wrapper(w[1], w[2])

Next == Script \/ Loop

Spec == Init /\ [][Next]_vars

-----------------------------------------------------------------------------
(* Properties                                                               *)

\* The cell of the last of some registrations.
CellOf(positions) == IF positions = {} THEN 0 ELSE registered[LastOf(positions)].cell

\* The first of the listeners with this object and key.
FirstCell(o, key) ==
  LET p == ape_array_lookup_item(events[o], key)
  IN  IF p = 0 THEN 0 ELSE events[o].slots[p].value

\* Every listener stays where it was registered, the last one first, each in front
\* of the one registered before it, however the array grows and whatever other
\* names are added to it (ape_jsapi.c:669-687, ape_array.c:75-108).
KeptAsRegistered ==
  /\ \A o \in Objects, key \in Keys :
       events[o] # <<>> => FirstCell(o, key) = CellOf(Listeners(o, key))
  /\ \A n \in DOMAIN registered :
       LET r == registered[n]
       IN  next[r.cell] = CellOf({m \in Listeners(r.object, r.key) : m < n})

\* An event calls the listeners that were there when it began, under the
\* spelling that was used first, each once, the last one first, whatever they
\* register meanwhile (ape_jsapi.c:608-634).
CalledAsRegistered ==
  \A n \in DOMAIN stack : stack[n].what \in Events =>
    LET owed == stack[n].owed
    IN  /\ stack[n].at = CellOf(owed)
        /\ \A m \in owed : next[registered[m].cell] = CellOf({k \in owed : k < m})

\* Whatever the server may call or hand over is still there: the functions of
\* listeners and timers, the objects of sockets that can have events, and what
\* the running calls were given (ape_jsapi.c:240, 684, 855, 900).
InUseIsLive ==
  /\ \A n \in DOMAIN registered : func[registered[n].cell] = "live"
  /\ \A w \in waiting : func[w[1]] = "live"
  /\ \A s \in ctx : socket[s] \in {"pending", "online"} => object[s] = "live"
  /\ \A n \in DOMAIN stack : \A s \in stack[n].args \cup {stack[n].this} :
       object[s] = "live"
=============================================================================
