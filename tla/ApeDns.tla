------------------------------- MODULE ApeDns -------------------------------
(***************************************************************************)
(* Host lookups: ape_dns.c, between the event loop and c-ares.             *)
(*                                                                         *)
(* c-ares opens a socket for each name server it asks, tells ape_dns.c of  *)
(* every opening and closing (ares_socket_cb) and does nothing by itself:  *)
(* it reads answers and notices timeouts only when ares_io is called for   *)
(* one of its descriptors.  ape_dns.c keeps the descriptors in a table and *)
(* registers them level-triggered for reading and writing, so epoll        *)
(* reports them in every round, a UDP socket being always writable.        *)
(*                                                                         *)
(* Of c-ares (deps/c-ares) the model has what decides when sockets are     *)
(* opened and closed and when a lookup ends: ares__send_query, next_server, *)
(* handle_error, process_timeouts, end_query.  Its functions call each     *)
(* other; stack holds the calls that have not returned, innermost last.    *)
(* Answers fit into a datagram, so no TCP connection is made.              *)
(***************************************************************************)
EXTENDS Integers, Sequences, FiniteSets

CONSTANTS Lookups,    \* the calls of ape_gethostbyname that ask a name server
          NServers,   \* name servers (channel->nservers)
          Tries,      \* how often each is asked (channel->tries)
          MaxFd,      \* the process has the descriptors 1..MaxFd for sockets
          TableSize   \* dns.sockets.size

ASSUME ServersAreAsked == NServers \in Nat \ {0} /\ Tries \in Nat \ {0}
ASSUME SizesAreNats == MaxFd \in Nat \ {0} /\ TableSize \in Nat \ {0}

VARIABLES
  query,    \* c-ares's queries: how far each is, which server, which attempt
  sock,     \* udp_socket of each server, or Bad
  list,     \* dns.sockets.list: the fd in each slot, 0 for an unused one
  watch,    \* kernel: the slot epoll reports for each descriptor, or Bad
  others,   \* descriptors held by the rest of the program
  asked,    \* network: queries sent through each server's socket
  inbox,    \* kernel: answers waiting in each server's socket
  refused,  \* kernel: servers whose socket has an error pending
  due,      \* queries whose timeout has passed
  batch,    \* the events events_loop has fetched and not yet looked at
  stack,    \* the calls in c-ares that have not returned
  called    \* history: how often the callback of each lookup was called

vars == <<query, sock, list, watch, others, asked, inbox, refused, due, batch,
          stack, called>>

network == <<asked, inbox, refused>>

Servers == 0..(NServers - 1)
Slots == 0..(TableSize - 1)
Fds == 1..MaxFd
Bad == -1

Kinds == {"answer", "failure"}
Events == [slot : Slots, read : BOOLEAN]

\* A query in one of c-ares's functions; ares_process_fd for a descriptor;
\* handle_error with the queries it has still to move on from server v; the loop
\* of end_query that closes the sockets, at server v.
QueryCalls == [at : {"send", "next", "end", "callback"}, l : Lookups]
IoCalls == [at : {"read", "timeouts"}, fd : Fds]
ErrorCalls == [at : {"error"}, v : Servers, moved : SUBSET Lookups]
CloseCalls == [at : {"close"}, v : Servers]
Calls == QueryCalls \cup IoCalls \cup ErrorCalls \cup CloseCalls

Call(at, l) == [at |-> at, l |-> l]
Io(at, f) == [at |-> at, fd |-> f]
Error(v, moved) == [at |-> "error", v |-> v, moved |-> moved]
Close(v) == [at |-> "close", v |-> v]

NoQuery == [state |-> "none", server |-> 0, try |-> 0, skip |-> {}]
Open(l) == query[l].state = "open"
Done(l) == query[l].state = "done"

Queries == [state : {"none", "open", "done"}, server : Servers,
            try : 0..(NServers * Tries), skip : SUBSET Servers]

TypeOK ==
  /\ query \in [Lookups -> Queries]
  /\ sock \in [Servers -> Fds \cup {Bad}]
  /\ list \in [Slots -> Fds \cup {0}]
  /\ watch \in [Fds -> Slots \cup {Bad}]
  /\ others \subseteq Fds
  /\ asked \in [Servers -> SUBSET Lookups]
  /\ inbox \in [Servers -> SUBSET (Lookups \X Kinds)]
  /\ refused \subseteq Servers
  /\ due \subseteq Lookups
  /\ batch \subseteq Events
  /\ stack \in Seq(Calls)
  /\ called \in [Lookups -> Nat]

Init ==
  /\ query = [l \in Lookups |-> NoQuery]
  /\ sock = [v \in Servers |-> Bad]
  /\ list = [i \in Slots |-> 0]
  /\ watch = [f \in Fds |-> Bad]
  /\ others = {}
  /\ asked = [v \in Servers |-> {}]
  /\ inbox = [v \in Servers |-> {}]
  /\ refused = {}
  /\ due = {}
  /\ batch = {}
  /\ stack = <<>>
  /\ called = [l \in Lookups |-> 0]

-----------------------------------------------------------------------------
(* The table of descriptors                                                 *)

\* Variant: the loop ends one slot early.
FreeSlotShort(ls) ==
  LET unused == {i \in 1..(TableSize - 2) : ls[i] = 0}
  IN  IF unused = {} THEN 0 ELSE CHOOSE i \in unused : \A j \in unused : i <= j

\* The slot the loop of ares_socket_cb settles on.  0 also stands for "none
\* found yet", so slot 0 is taken when no other is unused, and when none is.
FreeSlot(ls) ==
  LET unused == {i \in Slots \ {0} : ls[i] = 0}
  IN  IF unused = {} THEN 0 ELSE CHOOSE i \in unused : \A j \in unused : i <= j

Listed(ls, f) == \E i \in Slots : ls[i] = f

\* ares_socket_cb: the same for an opening and a closing.
ares_socket_cb(t, f) ==
  IF Listed(t.list, f) THEN t
  ELSE [list  |-> [t.list EXCEPT ![FreeSlot(t.list)] = f],
        watch |-> IF t.watch[f] = Bad
                    THEN [t.watch EXCEPT ![f] = FreeSlot(t.list)]
                    ELSE t.watch]

Table == [list |-> list, watch |-> watch]
TableBecomes(t) == list' = t.list /\ watch' = t.watch

\* ares__close_sockets: the callback, then close, which ends the registration.
Closed(t, f) ==
  IF f = Bad THEN t
  ELSE LET told == ares_socket_cb(t, f)
       IN  [list |-> told.list, watch |-> [told.watch EXCEPT ![f] = Bad]]

\* The socket of a server is closed; what was on its way is lost.
ares__close_sockets(v) ==
  /\ TableBecomes(Closed(Table, sock[v]))
  /\ sock' = [sock EXCEPT ![v] = Bad]
  /\ asked' = [asked EXCEPT ![v] = {}]
  /\ inbox' = [inbox EXCEPT ![v] = {}]
  /\ refused' = refused \ {v}

\* The kernel gives out the lowest number that is free.
FreeFds == {f \in Fds : f \notin others /\ \A v \in Servers : sock[v] # f}
NewFd == CHOOSE f \in FreeFds : \A g \in FreeFds : f <= g

-----------------------------------------------------------------------------
(* c-ares                                                                   *)

Top == stack[Len(stack)]
Running(at) == stack # <<>> /\ Top.at = at
Enter(c) == stack' = Append(stack, c)
Replace(c) == stack' = [stack EXCEPT ![Len(stack)] = c]
Return == stack' = SubSeq(stack, 1, Len(stack) - 1)

\* skip_server: pointless when there is only one.
Skip(q, v) == IF NServers > 1 THEN [q EXCEPT !.skip = @ \cup {v}] ELSE q

\* next_server: the attempts a query has.
Left(n) == n < NServers * Tries

\* Is this the last query when it is freed?  Variant: asked before it is freed.
LastWhenAsked(l) == \A k \in Lookups : ~Open(k)
LastOne(l) == \A k \in Lookups \ {l} : ~Open(k)

\* process_answer finds the query an answer belongs to.  Variant: it finds those
\* that have ended, too.
KnownEver(l) == query[l].state # "none"
Known(l) == Open(l)

\* ape_gethostbyname for a name: a query is made and sent, by a script or by
\* what the callback of another lookup does.
ape_gethostbyname(l) ==
  /\ stack = <<>> \/ Running("callback")
  /\ query[l].state = "none"
  /\ query' = [query EXCEPT ![l] = [NoQuery EXCEPT !.state = "open"]]
  /\ Enter(Call("send", l))
  /\ UNCHANGED <<sock, list, watch, others, network, due, batch, called>>

\* ares__send_query: a server without a socket gets one, of which ares_socket_cb
\* is told, and the query is written to it.
send_opens ==
  /\ Running("send")
  /\ LET l == Top.l
         v == query[l].server
     IN  /\ sock[v] = Bad
         /\ FreeFds # {}
         /\ sock' = [sock EXCEPT ![v] = NewFd]
         /\ TableBecomes(ares_socket_cb(Table, NewFd))
         /\ asked' = [asked EXCEPT ![v] = {l}]
         /\ due' = due \ {l}
  /\ Return
  /\ UNCHANGED <<query, others, inbox, refused, batch, called>>

send_written ==
  /\ Running("send")
  /\ LET l == Top.l
         v == query[l].server
     IN  /\ sock[v] # Bad
         /\ v \notin refused
         /\ asked' = [asked EXCEPT ![v] = @ \cup {l}]
         /\ due' = due \ {l}
  /\ Return
  /\ UNCHANGED <<query, sock, list, watch, others, inbox, refused, batch, called>>

\* No descriptor is left, or the write reports the error that was pending.
send_fails ==
  /\ Running("send")
  /\ LET l == Top.l
         v == query[l].server
     IN  /\ \/ sock[v] = Bad /\ FreeFds = {}
            \/ sock[v] # Bad /\ v \in refused
         /\ query' = [query EXCEPT ![l] = Skip(query[l], v)]
         /\ refused' = refused \ {v}
         /\ Replace(Call("next", l))
  /\ UNCHANGED <<sock, list, watch, others, asked, inbox, due, batch, called>>

\* One turn of the loop of next_server.
next_server ==
  /\ Running("next")
  /\ LET l == Top.l
         n == query[l].try + 1
         v == (query[l].server + 1) % NServers
     IN  IF Left(n)
           THEN /\ query' = [query EXCEPT ![l] = [query[l] EXCEPT !.try = n,
                                                               !.server = v]]
                /\ Replace(Call(IF v \in query[l].skip THEN "next" ELSE "send", l))
           ELSE /\ query' = [query EXCEPT ![l] = [query[l] EXCEPT !.try = n]]
                /\ Replace(Call("end", l))
  /\ UNCHANGED <<sock, list, watch, others, network, due, batch, called>>

\* end_query calls back; ares_gethostbyname_cb tells the socket that waits and
\* frees its argument.
end_query ==
  /\ Running("end")
  /\ LET l == Top.l
     IN  /\ called' = [called EXCEPT ![l] = @ + 1]
         /\ Replace(Call("callback", l))
  /\ UNCHANGED <<query, sock, list, watch, others, network, due, batch>>

\* Then the query is freed.  When it was the last one the sockets of all servers
\* are closed, one after the other.
callback_returns ==
  /\ Running("callback")
  /\ LET l == Top.l
     IN  /\ query' = [query EXCEPT ![l] = [NoQuery EXCEPT !.state = "done"]]
         /\ due' = due \ {l}
         /\ IF LastOne(l) THEN Replace(Close(0)) ELSE Return
  /\ UNCHANGED <<sock, list, watch, others, network, batch, called>>

close_sockets ==
  /\ Running("close")
  /\ ares__close_sockets(Top.v)
  /\ IF Top.v + 1 < NServers THEN Replace(Close(Top.v + 1)) ELSE Return
  /\ UNCHANGED <<query, others, due, batch, called>>

\* read_udp_packets: one answer from the server that has this descriptor.  An
\* answer to a query that has ended is ignored, a failure counts only if it
\* comes from the server that is being asked.
read_answer ==
  /\ Running("read")
  /\ \E v \in Servers : \E a \in inbox[v] :
       LET l == a[1]
       IN  /\ sock[v] = Top.fd
           /\ v \notin refused
           /\ inbox' = [inbox EXCEPT ![v] = @ \ {a}]
           /\ query' = IF Known(l) /\ a[2] = "failure"
                         THEN [query EXCEPT ![l] = Skip(query[l], v)] ELSE query
           /\ stack' = CASE Known(l) /\ a[2] = "answer" -> Append(stack, Call("end", l))
                         [] Known(l) /\ a[2] = "failure" /\ query[l].server = v
                              -> Append(stack, Call("next", l))
                         [] OTHER -> stack
  /\ UNCHANGED <<sock, list, watch, others, asked, refused, due, batch, called>>

\* recvfrom reports the pending error: handle_error closes the socket, and takes
\* the list of the queries that wait for the server.
read_error ==
  /\ Running("read")
  /\ \E v \in Servers :
       /\ sock[v] = Top.fd
       /\ v \in refused
       /\ ares__close_sockets(v)
       /\ stack' = Append([stack EXCEPT ![Len(stack)] = Io("timeouts", Top.fd)],
                          Error(v, {l \in Lookups : Open(l) /\ query[l].server = v}))
  /\ UNCHANGED <<query, others, due, batch, called>>

\* One of them moves on to the next server.
move_on ==
  /\ Running("error")
  /\ \E l \in Top.moved :
       /\ query' = [query EXCEPT ![l] = Skip(query[l], Top.v)]
       /\ stack' = Append([stack EXCEPT ![Len(stack)] = Error(Top.v, Top.moved \ {l})],
                          Call("next", l))
  /\ UNCHANGED <<sock, list, watch, others, network, due, batch, called>>

all_moved ==
  /\ Running("error")
  /\ Top.moved = {}
  /\ Return
  /\ UNCHANGED <<query, sock, list, watch, others, network, due, batch, called>>

\* The descriptor has nothing more, or is none of c-ares's.
read_nothing ==
  /\ Running("read")
  /\ \A v \in Servers : sock[v] = Top.fd => v \notin refused /\ inbox[v] = {}
  /\ Replace(Io("timeouts", Top.fd))
  /\ UNCHANGED <<query, sock, list, watch, others, network, due, batch, called>>

\* process_timeouts, for each query that is late.
process_timeout ==
  /\ Running("timeouts")
  /\ \E l \in due :
       /\ due' = due \ {l}
       /\ Enter(Call("next", l))
  /\ UNCHANGED <<query, sock, list, watch, others, network, batch, called>>

timeouts_done ==
  /\ Running("timeouts")
  /\ due = {}
  /\ Return
  /\ UNCHANGED <<query, sock, list, watch, others, network, due, batch, called>>

-----------------------------------------------------------------------------
(* The event loop                                                           *)

Watched == {f \in Fds : watch[f] # Bad}
Readable(f) ==
  \E v \in Servers : sock[v] = f /\ (inbox[v] # {} \/ v \in refused)

\* What epoll_wait has to report: every descriptor, being level-triggered and
\* writable.  Variant: edge-triggered, only what has something new to read.
ReportedEdges == {f \in Watched : Readable(f)}
Reported == Watched

poll ==
  /\ stack = <<>> /\ batch = {} /\ Reported # {}
  /\ batch' = {[slot |-> watch[f], read |-> Readable(f)] : f \in Reported}
  /\ UNCHANGED <<query, sock, list, watch, others, network, due, stack, called>>

\* One event: the loop takes the descriptor from the slot and calls ares_io.
ares_io ==
  /\ stack = <<>>
  /\ \E e \in batch :
       /\ batch' = batch \ {e}
       /\ stack' = <<Io(IF e.read THEN "read" ELSE "timeouts", list[e.slot])>>
  /\ UNCHANGED <<query, sock, list, watch, others, network, due, called>>

-----------------------------------------------------------------------------
(* The environment                                                          *)

\* A server answers, or says it cannot; the answer may come late or never.
server_answers(v, l, kind) ==
  /\ l \in asked[v]
  /\ inbox' = [inbox EXCEPT ![v] = @ \cup {<<l, kind>>}]
  /\ asked' = [asked EXCEPT ![v] = @ \ {l}]
  /\ UNCHANGED <<query, sock, list, watch, others, refused, due, batch, stack,
                 called>>

\* Nobody listens there.
server_refuses(v) ==
  /\ asked[v] # {}
  /\ refused' = refused \cup {v}
  /\ asked' = [asked EXCEPT ![v] = {}]
  /\ UNCHANGED <<query, sock, list, watch, others, inbox, due, batch, stack,
                 called>>

time_passes(l) ==
  /\ stack = <<>>
  /\ Open(l)
  /\ l \notin due
  /\ due' = due \cup {l}
  /\ UNCHANGED <<query, sock, list, watch, others, network, batch, stack, called>>

\* The rest of the program opens and closes sockets between the lookups.
others_open ==
  /\ stack = <<>>
  /\ FreeFds # {}
  /\ others' = others \cup {NewFd}
  /\ UNCHANGED <<query, sock, list, watch, network, due, batch, stack, called>>

others_close(f) ==
  /\ stack = <<>>
  /\ f \in others
  /\ others' = others \ {f}
  /\ UNCHANGED <<query, sock, list, watch, network, due, batch, stack, called>>

-----------------------------------------------------------------------------

Cares ==
  \/ send_opens \/ send_written \/ send_fails
  \/ next_server \/ end_query \/ callback_returns \/ close_sockets
  \/ read_answer \/ read_error \/ move_on \/ all_moved \/ read_nothing
  \/ process_timeout \/ timeouts_done

Loop == poll \/ ares_io

Environment ==
  \/ \E l \in Lookups : ape_gethostbyname(l) \/ time_passes(l)
  \/ \E v \in Servers, l \in Lookups, k \in Kinds : server_answers(v, l, k)
  \/ \E v \in Servers : server_refuses(v)
  \/ others_open
  \/ \E f \in Fds : others_close(f)

Next == Cares \/ Loop \/ Environment

Spec == Init /\ [][Next]_vars

\* c-ares's functions return and the loop goes round; time passes.  Servers,
\* scripts and the rest of the program need never do anything.
FairSpec ==
  /\ Spec
  /\ WF_vars(Cares)
  /\ WF_vars(Loop)
  /\ \A l \in Lookups : SF_vars(time_passes(l))

-----------------------------------------------------------------------------
(* Properties                                                               *)

\* An event is handled for the descriptor it is about: the slot epoll points to
\* holds that descriptor as long as it is registered (ares_socket_cb, ares_io).
RightDescriptor == \A f \in Fds : watch[f] # Bad => list[watch[f]] = f

\* However answers, late answers, refusals and timeouts cross each other, the
\* callback of a lookup is called at most once (ares_gethostbyname_cb frees
\* what a second call would use) and when the lookup has ended it was called.
CalledOnce ==
  \A l \in Lookups :
    /\ called[l] <= 1
    /\ Done(l) => called[l] = 1

\* Without lookups, and when it has closed them, c-ares holds no socket and epoll
\* reports nothing of it.
ClosedWhenIdle ==
  (\A l \in Lookups : ~Open(l)) /\ ~Running("close")
    => (\A v \in Servers : sock[v] = Bad) /\ Watched = {}

\* A lookup ends, with an answer or an error, or a time comes when the loop
\* watches no descriptor of c-ares and therefore never calls it again.
EndsWhileWatched == \A l \in Lookups : Open(l) ~> (Done(l) \/ Watched = {})

\* What callers of ape_gethostbyname count on: every lookup ends.
LookupsEnd == \A l \in Lookups : Open(l) ~> Done(l)

=============================================================================
