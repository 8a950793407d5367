------------------------------ MODULE ApeSockets ------------------------------
(***************************************************************************)
(* The life of ape_socket objects: creation, listening, connecting,        *)
(* accepting, reading, shutting down and destroying (ape_socket.c), driven  *)
(* by the event loop (ape_events_loop.c) over edge-triggered epoll          *)
(* (ape_event_epoll.c), with the host lookups of ape_dns.c and the          *)
(* server of ape_server.c.                                                  *)
(*                                                                         *)
(* Everything runs in one thread, but callbacks nest: a read handler may   *)
(* destroy another socket, whose disconnect handler may destroy a third,   *)
(* while the events of all of them wait in the same batch.  The C stack is *)
(* the variable stack.  What a socket's output queue holds is the business *)
(* of SocketJobs; here writing is what it can do to the socket's life.     *)
(***************************************************************************)
EXTENDS Integers, Sequences, FiniteSets

CONSTANTS Socks,         \* the ape_socket objects, each allocated at most once
          Fds,           \* the descriptors the process may hold
          None,          \* no socket, no descriptor
          MaxBacklog,    \* bound on a server's connections waiting for accept
          MaxDepth,      \* bound on nested callbacks
          ReentrantClose \* may a disconnect handler use its own socket again?

VARIABLES
  phase,      \* where events_loop is: "boot", "poll", "batch" or "ticks"
  stack,      \* the callbacks and loops being executed, innermost last
  state,      \* states.state, or "none" before malloc and "freed" after free
  type,       \* states.type
  fd,         \* s.fd
  owner,      \* kernel: the socket whose file each descriptor refers to
  reg,        \* kernel: the sockets registered with epoll
  edge,       \* kernel: the edges epoll has to report for each socket
  eof,        \* kernel: the sockets on which read returns 0
  backlog,    \* kernel: connections waiting for accept on each server
  batch,      \* the events events_loop has fetched and not yet looked at
  lookups,    \* the sockets a pending host lookup points to
  tofree,     \* how many times ape_socket_free is dispatched for each socket
  told,       \* history: how many times on_disconnect was called for each
  accepted    \* history: the sockets that accept created

vars == <<phase, stack, state, type, fd, owner, reg, edge, eof, backlog, batch,
          lookups, tofree, told, accepted>>

kernel == <<owner, reg, edge, eof, backlog>>

\* What is executed, for which socket, and what the loop does next with it.
Frames ==
  [at : {"read", "write", "connected", "accept", "disconnect"}, s : Socks,
   then : {"destroy", "write", "end"}]
  \cup [at : {"timer"}, s : {None}, then : {"end"}]

ASSUME NoneIsNone == None \notin Socks /\ None \notin Fds
ASSUME BoundsAreNats == MaxBacklog \in Nat /\ MaxDepth \in Nat
ASSUME ReentrantCloseIsBool == ReentrantClose \in BOOLEAN

Bits == {"in", "out"}

TypeOK ==
  /\ phase \in {"boot", "poll", "batch", "ticks"}
  /\ stack \in Seq(Frames)
  /\ state \in [Socks -> {"none", "pending", "progress", "online", "offline",
                          "freed"}]
  /\ type \in [Socks -> {"unknown", "server", "client"}]
  /\ fd \in [Socks -> Fds \cup {None}]
  /\ owner \in [Fds -> Socks \cup {None}]
  /\ reg \subseteq Socks
  /\ edge \in [Socks -> SUBSET Bits]
  /\ eof \subseteq Socks
  /\ backlog \in [Socks -> 0..MaxBacklog]
  /\ batch \in [Socks -> SUBSET Bits]
  /\ lookups \subseteq Socks
  /\ tofree \in [Socks -> Nat]
  /\ told \in [Socks -> Nat]
  /\ accepted \subseteq Socks

Init ==
  /\ phase = "boot"
  /\ stack = <<>>
  /\ state = [s \in Socks |-> "none"]
  /\ type = [s \in Socks |-> "unknown"]
  /\ fd = [s \in Socks |-> None]
  /\ owner = [f \in Fds |-> None]
  /\ reg = {}
  /\ edge = [s \in Socks |-> {}]
  /\ eof = {}
  /\ backlog = [s \in Socks |-> 0]
  /\ batch = [s \in Socks |-> {}]
  /\ lookups = {}
  /\ tofree = [s \in Socks |-> 0]
  /\ told = [s \in Socks |-> 0]
  /\ accepted = {}

-----------------------------------------------------------------------------
(* Parts of actions                                                         *)

Top == stack[Len(stack)]
Pop == SubSeq(stack, 1, Len(stack) - 1)
Frame(at, s, then) == [at |-> at, s |-> s, then |-> then]
Running(at) == stack # <<>> /\ Top.at = at

\* Bound: an object is kept for each connection waiting for accept.
Waiting == {w \in Socks \X (1..MaxBacklog) : w[2] <= backlog[w[1]]}
Spare == Cardinality(Waiting) < Cardinality({s \in Socks : state[s] = "none"})

\* malloc and the kernel hand out objects and descriptors in a fixed order; a
\* closed descriptor is handed out again, an object is not.
NewSock(s) == state[s] = "none" /\ s = CHOOSE t \in Socks : state[t] = "none"
NewFd(f) == owner[f] = None /\ f = CHOOSE g \in Fds : owner[g] = None

\* APE_socket_new: an object and a descriptor.  socket() or accept() fails when
\* the process has no descriptor left.
New(s, f, st, ty) ==
  /\ NewSock(s)
  /\ NewFd(f)
  /\ state' = [state EXCEPT ![s] = st]
  /\ type' = [type EXCEPT ![s] = ty]
  /\ fd' = [fd EXCEPT ![s] = f]
  /\ owner' = [owner EXCEPT ![f] = s]

\* Variant: the state is not looked at.
DestroyAgain(s, rest) ==
  /\ stack' = Append(rest, Frame("disconnect", s, "end"))
  /\ told' = [told EXCEPT ![s] = @ + 1]

\* APE_socket_destroy, up to the call of on_disconnect.
Destroy(s, rest) ==
  IF state[s] = "offline"
    THEN stack' = rest /\ UNCHANGED told
    ELSE /\ stack' = Append(rest, Frame("disconnect", s, "end"))
         /\ told' = [told EXCEPT ![s] = @ + 1]

\* shutdown(fd, 2) wakes the socket's own poller; if it fails the socket is
\* destroyed.  A shutdown job that has to wait its turn changes nothing yet.
Shutdown(s, rest) ==
  \/ /\ eof' = eof \cup {s}
     /\ edge' = [edge EXCEPT ![s] = IF s \in reg THEN @ \cup {"in"} ELSE @]
     /\ stack' = rest
     /\ UNCHANGED told
  \/ /\ Destroy(s, rest)
     /\ UNCHANGED <<eof, edge>>

\* Variant: ape_dispatch_async is forgotten.
FreeNever(s) == tofree

\* ape_dispatch_async(ape_socket_free, s).
FreeLater(s) == [tofree EXCEPT ![s] = @ + 1]

\* events_add.  The descriptor of a connected socket is writable at once.
Register(s, bits) ==
  /\ reg' = reg \cup {s}
  /\ edge' = [edge EXCEPT ![s] = bits]

-----------------------------------------------------------------------------
(* Start-up: ape_server_init for each configured server                     *)

server_init(s, f) ==
  /\ phase = "boot"
  /\ Spare
  /\ New(s, f, "online", "server")
  /\ Register(s, {})
  /\ UNCHANGED <<phase, stack, eof, backlog, batch, lookups, tofree, told, accepted>>

\* bind or listen fails: APE_socket_listen closes the descriptor, and
\* APE_socket_destroy (no callback is set yet) closes it a second time.
server_init_fails(s, f) ==
  /\ phase = "boot"
  /\ Spare
  /\ NewSock(s)
  /\ NewFd(f)
  /\ state' = [state EXCEPT ![s] = "offline"]
  /\ fd' = [fd EXCEPT ![s] = f]
  /\ tofree' = FreeLater(s)
  /\ UNCHANGED <<phase, stack, type, kernel, batch, lookups, told, accepted>>

start ==
  /\ phase = "boot"
  /\ phase' = "poll"
  /\ UNCHANGED <<stack, state, type, fd, kernel, batch, lookups, tofree, told,
                 accepted>>

-----------------------------------------------------------------------------
(* events_loop                                                              *)

\* events_poll hands over the pending edges; being edges, they are gone then.
poll ==
  /\ phase = "poll"
  /\ batch' = edge
  /\ edge' = [s \in Socks |-> {}]
  /\ phase' = "batch"
  /\ UNCHANGED <<stack, state, type, fd, owner, reg, eof, backlog, lookups,
                 tofree, told, accepted>>

Dispatching(s) ==
  /\ phase = "batch"
  /\ stack = <<>>
  /\ batch[s] # {}
  /\ batch' = [batch EXCEPT ![s] = {}]
  /\ UNCHANGED <<phase, state, type, fd, owner, reg, backlog, lookups, tofree,
                 accepted>>

After(s) == IF "out" \in batch[s] THEN <<Frame("write", s, "end")>> ELSE <<>>

dispatch_server(s) ==
  /\ Dispatching(s)
  /\ type[s] = "server"
  /\ stack' = IF "in" \in batch[s] THEN <<Frame("accept", s, "end")>> ELSE <<>>
  /\ UNCHANGED <<edge, eof, told>>

\* Variant: an event is a read or a write, not both.
ReadableElse(s) ==
  "in" \in batch[s] /\ "out" \notin batch[s] /\ state[s] = "online"

Readable(s) == "in" \in batch[s] /\ state[s] = "online"

\* No EVENT_READ, or ape_socket_read returns 0 because the socket is not online.
dispatch_write(s) ==
  /\ Dispatching(s)
  /\ type[s] = "client"
  /\ ~Readable(s)
  /\ stack' = After(s)
  /\ UNCHANGED <<edge, eof, told>>

\* ape_socket_read got data: on_read is called, and the end of file dealt with
\* when it returns.
dispatch_read(s) ==
  /\ Dispatching(s)
  /\ type[s] = "client"
  /\ Readable(s)
  /\ stack' = <<Frame("read", s, IF s \in eof THEN "destroy"
                                 ELSE IF "out" \in batch[s] THEN "write"
                                 ELSE "end")>>
  /\ UNCHANGED <<edge, eof, told>>

\* ape_socket_read got nothing: read gave 0 and the socket is destroyed, or an
\* error, which is ignored.
dispatch_read_nothing(s) ==
  /\ Dispatching(s)
  /\ type[s] = "client"
  /\ Readable(s)
  /\ IF s \in eof THEN Destroy(s, <<>>) ELSE stack' = After(s) /\ UNCHANGED told
  /\ UNCHANGED <<edge, eof>>

\* An SSL error: ape_socket_shutdown_force, and on to the write event.  At the
\* end of file OpenSSL reads 0 rather than an error.
dispatch_ssl_error(s) ==
  /\ Dispatching(s)
  /\ type[s] = "client"
  /\ Readable(s)
  /\ s \notin eof
  /\ Shutdown(s, After(s))

read_returns ==
  /\ Running("read")
  /\ \/ /\ Top.then = "destroy"
        /\ Destroy(Top.s, Pop)
     \/ /\ Top.then # "destroy"
        /\ stack' = IF Top.then = "write"
                      THEN Append(Pop, Frame("write", Top.s, "end")) ELSE Pop
        /\ UNCHANGED told
  /\ UNCHANGED <<phase, state, type, fd, kernel, batch, lookups, tofree, accepted>>

\* The write event of an online socket: ape_socket_do_jobs, which may meet a
\* shutdown job or a fatal SSL error.
write_online ==
  /\ Running("write")
  /\ state[Top.s] = "online"
  /\ \/ Shutdown(Top.s, Pop)
     \/ stack' = Pop /\ UNCHANGED <<eof, edge, told>>
  /\ UNCHANGED <<phase, state, type, fd, owner, reg, backlog, batch, lookups,
                 tofree, accepted>>

\* The write event of a connecting socket: SO_ERROR says how it went.  Nothing
\* is done when it failed.
write_progress ==
  /\ Running("write")
  /\ state[Top.s] = "progress"
  /\ \/ /\ state' = [state EXCEPT ![Top.s] = "online"]
        /\ stack' = Append(Pop, Frame("connected", Top.s, "end"))
     \/ /\ stack' = Pop
        /\ UNCHANGED state
  /\ UNCHANGED <<phase, type, fd, kernel, batch, lookups, tofree, told, accepted>>

write_offline ==
  /\ Running("write")
  /\ state[Top.s] \notin {"online", "progress"}
  /\ stack' = Pop
  /\ UNCHANGED <<phase, state, type, fd, kernel, batch, lookups, tofree, told,
                 accepted>>

\* One round of ape_socket_accept's loop; ape_server_on_connect runs no script.
accept_one(s, f) ==
  /\ Running("accept")
  /\ backlog[Top.s] > 0
  /\ New(s, f, "online", "client")
  /\ Register(s, {"out"})
  /\ backlog' = [backlog EXCEPT ![Top.s] = @ - 1]
  /\ accepted' = accepted \cup {s}
  /\ UNCHANGED <<phase, stack, eof, batch, lookups, tofree, told>>

\* accept() gives -1: nobody is waiting, or no descriptor is left.
accept_done ==
  /\ Running("accept")
  /\ backlog[Top.s] = 0 \/ \A f \in Fds : owner[f] # None
  /\ stack' = Pop
  /\ UNCHANGED <<phase, state, type, fd, kernel, batch, lookups, tofree, told,
                 accepted>>

connected_returns ==
  /\ Running("connected")
  /\ stack' = Pop
  /\ UNCHANGED <<phase, state, type, fd, kernel, batch, lookups, tofree, told,
                 accepted>>

\* The rest of APE_socket_destroy.  close() closes whatever the descriptor now
\* refers to, and epoll forgets that file.
disconnect_returns ==
  /\ Running("disconnect")
  /\ LET f == fd[Top.s] IN
       /\ owner' = [owner EXCEPT ![f] = None]
       /\ reg' = reg \ {owner[f]}
       /\ edge' = [s \in Socks |-> IF s = owner[f] THEN {} ELSE edge[s]]
  /\ state' = [state EXCEPT ![Top.s] = "offline"]
  /\ tofree' = FreeLater(Top.s)
  /\ stack' = Pop
  /\ UNCHANGED <<phase, type, fd, eof, backlog, batch, lookups, told, accepted>>

batch_done ==
  /\ phase = "batch"
  /\ stack = <<>>
  /\ \A s \in Socks : batch[s] = {}
  /\ phase' = "ticks"
  /\ UNCHANGED <<stack, state, type, fd, kernel, batch, lookups, tofree, told,
                 accepted>>

-----------------------------------------------------------------------------
(* process_tick: the callbacks that sockets and scripts have dispatched     *)

\* Variant: the socket is freed as soon as no callback is running.
ape_socket_free_now(s) ==
  /\ stack = <<>>
  /\ tofree[s] > 0
  /\ tofree' = [tofree EXCEPT ![s] = @ - 1]
  /\ state' = [state EXCEPT ![s] = "freed"]
  /\ UNCHANGED <<phase, stack, type, fd, kernel, batch, lookups, told, accepted>>

\* ape_socket_free.
ape_socket_free(s) ==
  /\ phase = "ticks"
  /\ stack = <<>>
  /\ tofree[s] > 0
  /\ tofree' = [tofree EXCEPT ![s] = @ - 1]
  /\ state' = [state EXCEPT ![s] = "freed"]
  /\ UNCHANGED <<phase, stack, type, fd, kernel, batch, lookups, told, accepted>>

timer_callback ==
  /\ phase = "ticks"
  /\ stack = <<>>
  /\ stack' = <<Frame("timer", None, "end")>>
  /\ UNCHANGED <<phase, state, type, fd, kernel, batch, lookups, tofree, told,
                 accepted>>

timer_returns ==
  /\ Running("timer")
  /\ stack' = Pop
  /\ UNCHANGED <<phase, state, type, fd, kernel, batch, lookups, tofree, told,
                 accepted>>

ticks_done ==
  /\ phase = "ticks"
  /\ stack = <<>>
  /\ phase' = "poll"
  /\ UNCHANGED <<stack, state, type, fd, kernel, batch, lookups, tofree, told,
                 accepted>>

-----------------------------------------------------------------------------
(* What handlers do                                                         *)

InHandler ==
  /\ stack # <<>>
  /\ Top.at \in {"read", "connected", "disconnect", "timer"}
  /\ Len(stack) < MaxDepth

Disconnecting(s) == \E k \in DOMAIN stack : stack[k] = Frame("disconnect", s, "end")

\* APE_socket_shutdown, or APE_socket_write meeting an I/O error.
close_socket(s) ==
  /\ InHandler
  /\ state[s] = "online"
  /\ type[s] = "client"
  /\ Disconnecting(s) => ReentrantClose
  /\ Shutdown(s, stack)
  /\ UNCHANGED <<phase, state, type, fd, owner, reg, backlog, batch, lookups,
                 tofree, accepted>>

\* A script makes a socket and connects it to a named host: the lookup is
\* started.
connect_host(s, f) ==
  /\ InHandler
  /\ Spare
  /\ New(s, f, "pending", "unknown")
  /\ lookups' = lookups \cup {s}
  /\ UNCHANGED <<phase, stack, reg, edge, eof, backlog, batch, tofree, told, accepted>>

\* The same to an address: ape_gethostbyname answers at once and connect() is
\* in progress.
connect_address(s, f) ==
  /\ InHandler
  /\ Spare
  /\ New(s, f, "progress", "client")
  /\ Register(s, {})
  /\ UNCHANGED <<phase, stack, eof, backlog, batch, lookups, tofree, told, accepted>>

\* The same with port 0, or connect() does not answer EINPROGRESS.
connect_fails(s, f) ==
  /\ InHandler
  /\ Spare
  /\ New(s, f, "pending", "unknown")
  /\ Destroy(s, stack)
  /\ UNCHANGED <<phase, reg, edge, eof, backlog, batch, lookups, tofree, accepted>>

-----------------------------------------------------------------------------
(* ares_gethostbyname_cb, on an event of a DNS socket                       *)

Answered(s) ==
  /\ phase = "batch"
  /\ stack = <<>>
  /\ s \in lookups
  /\ lookups' = lookups \ {s}

lookup_succeeds(s) ==
  /\ Answered(s)
  /\ state' = [state EXCEPT ![s] = "progress"]
  /\ type' = [type EXCEPT ![s] = "client"]
  /\ Register(s, {})
  /\ UNCHANGED <<phase, stack, fd, owner, eof, backlog, batch, tofree, told, accepted>>

lookup_fails(s) ==
  /\ Answered(s)
  /\ Destroy(s, stack)
  /\ UNCHANGED <<phase, state, type, fd, kernel, batch, tofree, accepted>>

-----------------------------------------------------------------------------
(* Peers and kernel.  What a peer sends can be told apart only between two   *)
(* callbacks, when the loop looks at a descriptor again; a connection may    *)
(* also arrive in the middle of the accept loop.                             *)

\* Variant: EPOLLHUP is handed over as it is.
RaiseHup(s, bits) ==
  /\ s \in reg
  /\ edge' = [edge EXCEPT ![s] = @ \cup bits \cup {"hup"}]
  /\ UNCHANGED <<phase, stack, state, type, fd, owner, reg, batch, lookups,
                 tofree, told, accepted>>

Raise(s, bits) ==
  /\ s \in reg
  /\ edge' = [edge EXCEPT ![s] = @ \cup bits]
  /\ UNCHANGED <<phase, stack, state, type, fd, owner, reg, batch, lookups,
                 tofree, told, accepted>>

peer_connects(s) ==
  /\ Raise(s, {"in"})
  /\ type[s] = "server"
  /\ backlog[s] < MaxBacklog
  /\ Spare
  /\ backlog' = [backlog EXCEPT ![s] = @ + 1]
  /\ UNCHANGED eof

\* Data or room in the send buffer; for a connecting socket also its outcome.
peer_acts(s) ==
  /\ stack = <<>>
  /\ \E bits \in {{"out"}, {"in", "out"}} : Raise(s, bits)
  /\ type[s] = "client"
  /\ UNCHANGED <<eof, backlog>>

peer_closes(s) ==
  /\ stack = <<>>
  /\ Raise(s, {"in", "out"})
  /\ type[s] = "client"
  /\ s \notin eof
  /\ eof' = eof \cup {s}
  /\ UNCHANGED backlog

-----------------------------------------------------------------------------
Boot == start \/ \E s \in Socks, f \in Fds : server_init(s, f) \/ server_init_fails(s, f)

Loop ==
  \/ poll
  \/ \E s \in Socks :
       \/ dispatch_server(s)
       \/ dispatch_write(s)
       \/ dispatch_read(s)
       \/ dispatch_read_nothing(s)
       \/ dispatch_ssl_error(s)
       \/ \E f \in Fds : accept_one(s, f)
  \/ read_returns
  \/ write_online
  \/ write_progress
  \/ write_offline
  \/ accept_done
  \/ connected_returns
  \/ disconnect_returns
  \/ batch_done
  \/ timer_returns
  \/ ticks_done

Handlers ==
  \/ timer_callback
  \/ \E s \in Socks :
       \/ close_socket(s)
       \/ \E f \in Fds : connect_host(s, f) \/ connect_address(s, f)
                         \/ connect_fails(s, f)

Lookups == \E s \in Socks : lookup_succeeds(s) \/ lookup_fails(s)

Peers == \E s \in Socks : peer_connects(s) \/ peer_acts(s) \/ peer_closes(s)

Next == Boot \/ Loop \/ Handlers \/ Lookups \/ Peers \/ \E s \in Socks : ape_socket_free(s)

Spec == Init /\ [][Next]_vars

\* The loop goes on and handlers return; process_tick returns, and calls each
\* dispatched callback when its millisecond is over.
FairSpec ==
  /\ Spec
  /\ WF_vars(start \/ Loop)
  /\ SF_vars(ticks_done)
  /\ \A s \in Socks : SF_vars(ape_socket_free(s))

-----------------------------------------------------------------------------
(* Properties                                                               *)

\* No pointer that will still be followed leads to a freed socket: not the ones
\* of the callbacks being executed, of the rest of the batch, of epoll's
\* registrations and of the host lookups ("ape_socket is planned to be release
\* after the for block").
NoUseAfterFree ==
  \A s \in Socks : state[s] \in {"none", "freed"} =>
    /\ \A k \in DOMAIN stack : stack[k].s # s
    /\ batch[s] = {}
    /\ s \notin reg
    /\ s \notin lookups

\* ape_socket_free is dispatched once, and exactly for the destroyed sockets:
\* none is freed twice, none is forgotten.
FreedOnce ==
  \A s \in Socks : tofree[s] = IF state[s] = "offline" THEN 1 ELSE 0

\* The descriptor of a socket in use is open and its own: no close() ever hits
\* a descriptor that was closed before and given to another socket.
OwnDescriptor ==
  \A s \in Socks : state[s] \in {"pending", "progress", "online"} =>
    fd[s] \in Fds /\ owner[fd[s]] = s

\* on_disconnect is called once for each client socket that is destroyed, and
\* for no socket that is not being destroyed, however callbacks nest.
ToldOnce ==
  \A s \in Socks :
    /\ told[s] <= 1
    /\ told[s] = 1 => Disconnecting(s) \/ state[s] \in {"offline", "freed"}
    /\ type[s] = "client" /\ state[s] \in {"offline", "freed"} => told[s] = 1

\* A destroyed socket is freed in the end.
DestroyedIsFreed ==
  \A s \in Socks : state[s] = "offline" ~> state[s] = "freed"

\* When a client of the server has closed its end, or was shut down, its socket
\* is destroyed and freed in the end.
ClientEofIsSeen ==
  \A s \in Socks : s \in eof /\ s \in accepted ~> state[s] = "freed"

\* The same for every socket, the ones that scripts connect included: the data
\* and the end of file that epoll announces are read ("Consume socket buffer").
EofIsSeen ==
  \A s \in Socks : s \in eof ~> state[s] = "freed"
=============================================================================
