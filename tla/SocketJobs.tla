----------------------------- MODULE SocketJobs -----------------------------
(***************************************************************************)
(* The output of one ape_socket: APE_socket_write, APE_sendfile and         *)
(* APE_socket_shutdown write to the descriptor while it takes bytes, and    *)
(* queue jobs when it would block; ape_socket_do_jobs runs the jobs when    *)
(* epoll reports the descriptor writable (ape_socket.c, with the job list   *)
(* of ape_pool.c and the write event of ape_events_loop.c).  The socket is  *)
(* online when the story begins; a secure one may still be in the TLS       *)
(* handshake.                                                               *)
(*                                                                         *)
(* The kernel's side is its send buffer and edge-triggered epoll: it wakes  *)
(* the process when it has room again only if it refused bytes before.      *)
(***************************************************************************)
EXTENDS Integers, Sequences, FiniteSets

CONSTANTS Ops,       \* what the program does: of "write", "sendfile", "shutdown"
          Kinds,     \* data types it writes: of "static", "autorelease", "own"
          Lens,      \* lengths of what it writes
          MaxOps,    \* bound on the number of operations
          MaxChunks, \* IOV_MAX: packets given to one writev
          Cap,       \* size of the kernel's send buffer
          Tls,       \* the sockets: "none" (plain), "shaking", "up" (secure)
          None       \* no file, no shutdown

VARIABLES
  slots,   \* the job list: jobs.head is slots[1]
  cur,     \* the position of jobs.current
  block,   \* states.flags has APE_SOCKET_WOULD_BLOCK
  st,      \* states.state
  pc,      \* "idle", "event" (write event, before do_jobs) or "jobs"
  chunks,  \* packets the last writev has taken
  tls,     \* how far TLS is: "none", "shaking" or "up"
  record,  \* OpenSSL: the packet it holds a part of, and how much is written
  unread,  \* kernel: bytes in the send buffer
  nospace, \* kernel: bytes were refused and the wake-up is still owed
  ready,   \* kernel: epoll has an edge to report
  broken,  \* kernel: the peer has reset the connection
  n,       \* history: operations so far; each has its number
  mem,     \* history: who has to free the bytes of each operation
  freed,   \* history: how many times they were freed
  sent,    \* history: the bytes accepted
  wire,    \* history: the bytes the kernel has taken
  limit,   \* history: how many were accepted before the first shutdown
  closed   \* the descriptor is shut down

jobs == <<slots, cur, block, pc, chunks>>
ssl == <<tls, record>>
kernel == <<unread, nospace, ready, broken>>
memory == <<mem, freed>>
stream == <<sent, wire, limit, closed>>
vars == <<jobs, ssl, st, kernel, n, memory, stream>>

ASSUME OpsAreOps == Ops \subseteq {"write", "sendfile", "shutdown"}
ASSUME KindsAreKinds == Kinds \subseteq {"static", "autorelease", "own"}
ASSUME LensArePositive == Lens \subseteq Nat \ {0}
ASSUME BoundsArePositive == MaxOps \in Nat /\ MaxChunks \in Nat \ {0} /\ Cap \in Nat \ {0}
ASSUME TlsAreStages == Tls \subseteq {"none", "shaking", "up"}
ASSUME NoneIsNoLength == None \notin Nat

Id == 1..MaxOps
Byte == Id \X (Nat \ {0})
Types == {"writev", "sendfile", "shutdown"}

\* A packet, or what is left of a file: the bytes off + 1..len of operation id.
Packet == [id : Id, len : Lens, off : Nat]

\* A job.  The type bits stay when a job is done; only ACTIVE is cleared.
Slot == [on : BOOLEAN, types : SUBSET Types, packets : Seq(Packet),
         file : Seq(Packet)]

\* A part of a packet that SSL_write has encrypted and not yet written.
NoRecord == [id |-> 0, off |-> 0]

Fresh == [on |-> FALSE, types |-> {}, packets |-> <<>>, file |-> <<>>]

First == slots[1]
Secure == tls # "none"
Room == Cap - unread

TypeOK ==
  /\ slots \in Seq(Slot)
  /\ cur \in 1..Len(slots)
  /\ block \in BOOLEAN
  /\ st \in {"online", "offline", "crashed"}
  /\ pc \in {"idle", "event", "jobs"}
  /\ chunks \in 0..MaxChunks
  /\ tls \in {"none", "shaking", "up"}
  /\ record \in [id : Id \cup {0}, off : Nat]
  /\ unread \in 0..Cap
  /\ nospace \in BOOLEAN
  /\ ready \in BOOLEAN
  /\ broken \in BOOLEAN
  /\ n \in 0..MaxOps
  /\ mem \in [Id -> {"none", "caller", "socket"}]
  /\ freed \in [Id -> Nat]
  /\ sent \in Seq(Byte)
  /\ wire \in Seq(Byte)
  /\ limit \in Nat \cup {None}
  /\ closed \in BOOLEAN

Init ==
  /\ slots = <<Fresh, Fresh>>
  /\ cur = 1
  /\ block = FALSE
  /\ st = "online"
  /\ pc = "idle"
  /\ chunks = 0
  /\ tls \in Tls
  /\ record = NoRecord
  /\ unread = 0
  /\ nospace = FALSE
  /\ ready = FALSE
  /\ broken = FALSE
  /\ n = 0
  /\ mem = [i \in Id |-> "none"]
  /\ freed = [i \in Id |-> 0]
  /\ sent = <<>>
  /\ wire = <<>>
  /\ limit = None
  /\ closed = FALSE

-----------------------------------------------------------------------------
(* Parts of actions                                                         *)

Bytes(id, from, to) == [k \in 1..(to - from) |-> <<id, from + k>>]
Whole(id, len) == [id |-> id, len |-> len, off |-> 0]

\* The next operation of the program, in a callback or a handler.
Calls(op) ==
  /\ op \in Ops
  /\ pc # "jobs"
  /\ n < MaxOps
  /\ n' = n + 1

\* Variant: only the flag is looked at.
BusyIsBlock == block

\* Something is queued, or must be.
Busy == block \/ First.on

\* Variant: any job may join the packets of a write job.
SlotForAny(type) ==
  IF ~slots[cur].on \/ "writev" \in slots[cur].types THEN cur ELSE cur + 1

\* ape_socket_job_get_slot: current, if it is free or takes more packets;
\* otherwise the next job, of a list that grows by two.
SlotFor(type) ==
  IF ~slots[cur].on \/ (type = "writev" /\ "writev" \in slots[cur].types)
    THEN cur ELSE cur + 1

\* Variant: the new jobs are linked in front.
GrownInFront(p) == IF p > Len(slots) THEN <<Fresh, Fresh>> \o slots ELSE slots

Grown(p) == IF p > Len(slots) THEN slots \o <<Fresh, Fresh>> ELSE slots

Activated(type) ==
  LET p == SlotFor(type)
      l == Grown(p)
  IN  [l EXCEPT ![p] = [l[p] EXCEPT !.on = TRUE, !.types = @ \cup {type}]]

\* A job for a packet.  ptr of a job that had a file is not a packet list.
Queue(packet) ==
  LET p == SlotFor("writev")
      l == Activated("writev")
  IN
    /\ l[p].file = <<>>
    /\ slots' = [l EXCEPT ![p] = [l[p] EXCEPT !.packets = Append(@, packet)]]
    /\ cur' = p

\* A job for a file takes ptr, whatever it pointed to.
QueueFile(file) ==
  LET p == SlotFor("sendfile")
      l == Activated("sendfile")
  IN
    /\ slots' = [l EXCEPT ![p] = [l[p] EXCEPT !.packets = <<>>, !.file = <<file>>]]
    /\ cur' = p

\* The kernel takes k bytes of operation id from the byte after off on.
Take(id, off, k) ==
  /\ unread' = unread + k
  /\ wire' = wire \o Bytes(id, off, off + k)

Least(a, b) == IF a < b THEN a ELSE b

\* Queued data that the caller may reuse is copied; own data is not.
Held(kind) == IF kind = "own" THEN "caller" ELSE "socket"

\* shutdown(fd, 2) wakes the socket; on a broken connection it fails, and the
\* socket is destroyed.
ShutDown ==
  \/ ~broken /\ closed' = TRUE /\ ready' = TRUE /\ UNCHANGED st
  \/ broken /\ st' = "offline" /\ UNCHANGED <<closed, ready>>

-----------------------------------------------------------------------------
(* APE_socket_write                                                         *)

\* The socket is not online: data to be released is.
write_refused(kind) ==
  /\ Calls("write")
  /\ st = "offline"
  /\ mem' = [mem EXCEPT ![n'] = IF kind = "autorelease" THEN "socket" ELSE "caller"]
  /\ freed' = [freed EXCEPT ![n'] = IF kind = "autorelease" THEN @ + 1 ELSE @]
  /\ UNCHANGED <<ssl, jobs, st, kernel, stream>>

\* Variant: WOULD_BLOCK is set, as APE_sendfile does.
write_queued_blocks(len, kind) ==
  /\ Calls("write")
  /\ st = "online"
  /\ Busy
  /\ block' = TRUE
  /\ Queue(Whole(n', len))
  /\ sent' = sent \o Bytes(n', 0, len)
  /\ mem' = [mem EXCEPT ![n'] = Held(kind)]
  /\ UNCHANGED <<ssl, pc, chunks, st, kernel, freed, wire, limit, closed>>

write_queued(len, kind) ==
  /\ Calls("write")
  /\ st = "online"
  /\ Busy
  /\ Queue(Whole(n', len))
  /\ sent' = sent \o Bytes(n', 0, len)
  /\ mem' = [mem EXCEPT ![n'] = Held(kind)]
  /\ UNCHANGED <<ssl, block, pc, chunks, st, kernel, freed, wire, limit, closed>>

\* write() is called until all is written or EAGAIN; what is left is queued.
write_now(len, kind) ==
  /\ Calls("write")
  /\ st = "online"
  /\ ~Busy /\ ~Secure
  /\ ~broken /\ ~closed
  /\ sent' = sent \o Bytes(n', 0, len)
  /\ Take(n', 0, Least(len, Room))
  /\ \/ /\ len <= Room
        /\ mem' = [mem EXCEPT ![n'] = IF kind = "autorelease" THEN "socket" ELSE "caller"]
        /\ freed' = [freed EXCEPT ![n'] = IF kind = "autorelease" THEN @ + 1 ELSE @]
        /\ UNCHANGED <<slots, cur, block, nospace>>
     \/ /\ len > Room
        /\ block' = TRUE
        /\ nospace' = TRUE
        /\ Queue([Whole(n', len) EXCEPT !.off = Room])
        /\ mem' = [mem EXCEPT ![n'] = Held(kind)]
        /\ UNCHANGED freed
  /\ UNCHANGED <<ssl, pc, chunks, st, ready, broken, limit, closed>>

\* SSL_write takes the whole packet; or it wants to write or, in the handshake,
\* to read first: then the whole packet is queued, though OpenSSL may have
\* written a part of it.
ssl_write_now(len, kind) ==
  /\ Calls("write")
  /\ st = "online"
  /\ ~Busy /\ Secure
  /\ ~broken /\ ~closed /\ record = NoRecord
  /\ sent' = sent \o Bytes(n', 0, len)
  /\ \/ /\ tls = "up"
        /\ len <= Room
        /\ Take(n', 0, len)
        /\ mem' = [mem EXCEPT ![n'] = IF kind = "autorelease" THEN "socket" ELSE "caller"]
        /\ freed' = [freed EXCEPT ![n'] = IF kind = "autorelease" THEN @ + 1 ELSE @]
        /\ UNCHANGED <<slots, cur, block, record, nospace>>
     \/ /\ tls = "up"
        /\ len > Room
        /\ Take(n', 0, Room)
        /\ record' = [id |-> n', off |-> Room]
        /\ block' = TRUE
        /\ nospace' = TRUE
        /\ Queue(Whole(n', len))
        /\ mem' = [mem EXCEPT ![n'] = Held(kind)]
        /\ UNCHANGED freed
     \/ /\ tls = "shaking"
        /\ block' = TRUE
        /\ Queue(Whole(n', len))
        /\ mem' = [mem EXCEPT ![n'] = Held(kind)]
        /\ UNCHANGED <<record, nospace, unread, freed, wire>>
  /\ UNCHANGED <<tls, pc, chunks, st, ready, broken, limit, closed>>

\* write() or SSL_write fails, which SSL_write also does when it is given another
\* packet than the one it holds a part of: the data is released, and the socket
\* shut down.
write_fails(kind) ==
  /\ Calls("write")
  /\ st = "online"
  /\ ~Busy
  /\ broken \/ closed \/ record # NoRecord
  /\ mem' = [mem EXCEPT ![n'] = IF kind = "autorelease" THEN "socket" ELSE "caller"]
  /\ freed' = [freed EXCEPT ![n'] = IF kind = "autorelease" THEN @ + 1 ELSE @]
  /\ ShutDown
  /\ UNCHANGED <<ssl, jobs, unread, nospace, broken, sent, wire, limit>>

\* The slot's ptr is the descriptor of a file, and is followed as a pointer.
write_crashes ==
  /\ Calls("write")
  /\ st = "online"
  /\ Busy \/ (~Secure /\ ~broken /\ ~closed /\ Room = 0)
  /\ Activated("writev")[SlotFor("writev")].file # <<>>
  /\ st' = "crashed"
  /\ UNCHANGED <<ssl, jobs, kernel, memory, stream>>

-----------------------------------------------------------------------------
(* APE_sendfile, of a file that can be opened, and APE_socket_shutdown      *)

sendfile_queued(len) ==
  /\ Calls("sendfile")
  /\ st = "online"
  /\ Busy
  /\ block' = TRUE
  /\ QueueFile(Whole(n', len))
  /\ sent' = sent \o Bytes(n', 0, len)
  /\ UNCHANGED <<ssl, pc, chunks, st, kernel, memory, wire, limit, closed>>

sendfile_now(len) ==
  /\ Calls("sendfile")
  /\ st = "online"
  /\ ~Busy
  /\ ~broken /\ ~closed
  /\ sent' = sent \o Bytes(n', 0, len)
  /\ Take(n', 0, Least(len, Room))
  /\ \/ len <= Room /\ UNCHANGED <<slots, cur, block, nospace>>
     \/ /\ len > Room
        /\ block' = TRUE
        /\ nospace' = TRUE
        /\ QueueFile([Whole(n', len) EXCEPT !.off = Room])
  /\ UNCHANGED <<ssl, pc, chunks, st, ready, broken, memory, limit, closed>>

shutdown_queued ==
  /\ Calls("shutdown")
  /\ st = "online"
  /\ Busy
  /\ slots' = Activated("shutdown")
  /\ cur' = SlotFor("shutdown")
  /\ limit' = IF limit = None THEN Len(sent) ELSE limit
  /\ UNCHANGED <<ssl, block, pc, chunks, st, kernel, memory, sent, wire, closed>>

shutdown_now ==
  /\ Calls("shutdown")
  /\ st = "online"
  /\ ~Busy
  /\ ShutDown
  /\ limit' = IF limit = None THEN Len(sent) ELSE limit
  /\ UNCHANGED <<ssl, jobs, unread, nospace, broken, memory, sent, wire>>

-----------------------------------------------------------------------------
(* The write event                                                          *)

\* epoll reports the edge.  If the descriptor is writable WOULD_BLOCK goes, and
\* the read handler runs before the jobs do; if not, asking for room is a
\* refusal of its own.
poll ==
  /\ pc = "idle"
  /\ st = "online"
  /\ ready
  /\ ready' = FALSE
  /\ \/ /\ Room > 0 \/ broken \/ closed
        /\ block' = FALSE
        /\ pc' = "event"
        /\ UNCHANGED nospace
     \/ /\ ~(Room > 0 \/ broken \/ closed)
        /\ nospace' = TRUE
        /\ UNCHANGED <<block, pc>>
  /\ UNCHANGED <<ssl, slots, cur, chunks, st, unread, broken, n, memory, stream>>

\* The read handler is done.  The jobs run unless a write of the handler was
\* refused; the end of the file, once the connection is over, destroys the
\* socket, and its jobs are not looked at again.
handler_done ==
  /\ pc = "event"
  /\ \/ /\ st = "online"
        /\ broken \/ closed
        /\ st' = "offline"
        /\ pc' = "idle"
        /\ UNCHANGED chunks
     \/ /\ ~(st = "online" /\ (broken \/ closed))
        /\ pc' = IF st = "online" /\ ~block THEN "jobs" ELSE "idle"
        /\ chunks' = IF st = "online" /\ ~block THEN 0 ELSE chunks
        /\ UNCHANGED st
  /\ UNCHANGED <<ssl, slots, cur, block, kernel, n, memory, stream>>

-----------------------------------------------------------------------------
(* ape_socket_do_jobs, job by job; a writev packet by packet                *)

Running(types) == pc = "jobs" /\ First.on /\ First.types = types

\* ape_pool_head_to_current, after the job has lost its ACTIVE flag.
HeadToCurrent(job) ==
  slots' = IF cur = 1 THEN [slots EXCEPT ![1] = job]
           ELSE SubSeq(slots, 2, cur) \o <<job>> \o SubSeq(slots, cur + 1, Len(slots))

Finished(job) == HeadToCurrent([job EXCEPT !.on = FALSE])

Front == First.packets[1]
Takes == Least(Front.len - Front.off, Room)

\* k more bytes of the first packet, or of the file, are written.
PartTaken(packets, k) == [packets EXCEPT ![1] = [packets[1] EXCEPT !.off = @ + k]]

\* Variant: the data is not freed.
ReleasedNot(id) == freed

\* ape_socket_release_data of a queued packet.
Released(id) == IF mem[id] = "socket" THEN [freed EXCEPT ![id] = @ + 1] ELSE freed

\* The next packet of the iov fits: it is released and goes to the end of the
\* packet list.
writev_packet ==
  /\ Running({"writev"}) /\ ~Secure
  /\ First.packets # <<>>
  /\ chunks < MaxChunks
  /\ ~broken
  /\ Front.len - Front.off <= Room
  /\ Take(Front.id, Front.off, Takes)
  /\ freed' = Released(Front.id)
  /\ slots' = [slots EXCEPT ![1] = [First EXCEPT !.packets = Tail(@)]]
  /\ chunks' = chunks + 1
  /\ UNCHANGED <<ssl, cur, block, pc, st, nospace, ready, broken, n, mem, sent, limit, closed>>

\* Variant: the packet is released before it is known to be finished.
writev_blocks_frees ==
  /\ Running({"writev"}) /\ ~Secure
  /\ First.packets # <<>>
  /\ chunks < MaxChunks
  /\ ~broken
  /\ Front.len - Front.off > Room
  /\ Take(Front.id, Front.off, Takes)
  /\ slots' = [slots EXCEPT ![1] = [First EXCEPT !.packets = PartTaken(@, Takes)]]
  /\ freed' = Released(Front.id)
  /\ nospace' = TRUE
  /\ block' = TRUE
  /\ pc' = "idle"
  /\ UNCHANGED <<ssl, cur, chunks, st, ready, broken, n, mem, sent, limit, closed>>

\* It does not, wholly or in part, or writev fails: the job waits.
writev_blocks ==
  /\ Running({"writev"}) /\ ~Secure
  /\ First.packets # <<>>
  /\ chunks < MaxChunks
  /\ \/ /\ broken
        /\ UNCHANGED <<slots, unread, nospace, wire>>
     \/ /\ ~broken
        /\ Front.len - Front.off > Room
        /\ Take(Front.id, Front.off, Takes)
        /\ slots' = [slots EXCEPT ![1] = [First EXCEPT !.packets = PartTaken(@, Takes)]]
        /\ nospace' = TRUE
  /\ block' = TRUE
  /\ pc' = "idle"
  /\ UNCHANGED <<ssl, cur, chunks, st, ready, broken, n, memory, sent, limit, closed>>

\* IOV_MAX packets are written and there are more: the job waits too.
writev_cut ==
  /\ Running({"writev"}) /\ ~Secure
  /\ First.packets # <<>>
  /\ chunks = MaxChunks
  /\ block' = TRUE
  /\ pc' = "idle"
  /\ UNCHANGED <<ssl, slots, cur, chunks, st, kernel, n, memory, stream>>

writev_done ==
  /\ Running({"writev"})
  /\ First.packets = <<>>
  /\ Finished(First)
  /\ chunks' = 0
  /\ UNCHANGED <<ssl, cur, block, pc, st, kernel, n, memory, stream>>

\* What SSL_write has already written of the packet it is given.
Written(id) == IF record.id = id THEN record.off ELSE 0
SslTakes == Least(Front.len - Written(Front.id), Room)
MayRetry == record.id \in {0, Front.id}

\* Through SSL the packets are written one by one, each with the length it was
\* queued with, until one is not taken as a whole.
ssl_packet ==
  /\ Running({"writev"}) /\ tls = "up"
  /\ First.packets # <<>>
  /\ ~broken /\ ~closed /\ MayRetry
  /\ Front.len - Written(Front.id) <= Room
  /\ Take(Front.id, Written(Front.id), SslTakes)
  /\ record' = NoRecord
  /\ freed' = Released(Front.id)
  /\ slots' = [slots EXCEPT ![1] = [First EXCEPT !.packets = Tail(@)]]
  /\ UNCHANGED <<tls, cur, block, pc, chunks, st, nospace, ready, broken, n, mem,
                 sent, limit, closed>>

ssl_blocks ==
  /\ Running({"writev"}) /\ Secure
  /\ First.packets # <<>>
  /\ ~broken /\ ~closed /\ MayRetry
  /\ \/ /\ tls = "shaking"
        /\ UNCHANGED <<record, unread, nospace, wire>>
     \/ /\ tls = "up"
        /\ Front.len - Written(Front.id) > Room
        /\ Take(Front.id, Written(Front.id), SslTakes)
        /\ record' = [id |-> Front.id, off |-> Written(Front.id) + SslTakes]
        /\ nospace' = TRUE
  /\ block' = TRUE
  /\ pc' = "idle"
  /\ UNCHANGED <<tls, slots, cur, chunks, st, ready, broken, n, memory, sent, limit,
                 closed>>

\* SSL_write fails: ape_socket_shutdown_force, and the job stays.
ssl_fails ==
  /\ Running({"writev"}) /\ Secure
  /\ First.packets # <<>>
  /\ broken \/ closed \/ ~MayRetry
  /\ ShutDown
  /\ pc' = "idle"
  /\ UNCHANGED <<ssl, slots, cur, block, chunks, unread, nospace, broken, n, memory,
                 sent, wire, limit>>

\* sendfile() is called until all is sent or EAGAIN.
sendfile_job ==
  /\ Running({"sendfile"})
  /\ LET file == First.file[1]
         k == Least(file.len - file.off, Room) IN
       \/ /\ ~broken
          /\ Take(file.id, file.off, k)
          /\ \/ /\ file.len - file.off <= Room
                /\ Finished([First EXCEPT !.file = <<>>])
                /\ UNCHANGED <<block, pc, nospace>>
             \/ /\ file.len - file.off > Room
                /\ slots' = [slots EXCEPT ![1] = [First EXCEPT !.file = PartTaken(@, k)]]
                /\ block' = TRUE
                /\ nospace' = TRUE
                /\ pc' = "idle"
       \/ /\ broken
          /\ Finished([First EXCEPT !.file = <<>>])
          /\ UNCHANGED <<block, pc, unread, nospace, wire>>
  /\ UNCHANGED <<ssl, cur, chunks, st, ready, broken, n, memory, sent, limit, closed>>

\* The job stays at the head, active.
shutdown_job ==
  /\ Running({"shutdown"})
  /\ ShutDown
  /\ pc' = "idle"
  /\ UNCHANGED <<ssl, slots, cur, block, chunks, unread, nospace, broken, n, memory,
                 sent, wire, limit>>

\* The type bits of an earlier use make the switch take its default.
mixed_job ==
  /\ pc = "jobs"
  /\ First.on
  /\ Cardinality(First.types) > 1
  /\ Finished(First)
  /\ UNCHANGED <<ssl, cur, block, pc, chunks, st, kernel, n, memory, stream>>

jobs_done ==
  /\ pc = "jobs"
  /\ ~First.on
  /\ pc' = "idle"
  /\ UNCHANGED <<ssl, slots, cur, block, chunks, st, kernel, n, memory, stream>>

-----------------------------------------------------------------------------
(* The peer, and the kernel with it                                         *)

\* The peer acknowledges bytes.  With room again the kernel may wake the process
\* it refused bytes to, and does so when the buffer is empty.
peer_reads ==
  /\ unread > 0
  /\ unread' \in 0..(unread - 1)
  /\ \/ nospace' = FALSE /\ ready' = (ready \/ nospace)
     \/ unread' > 0 /\ UNCHANGED <<nospace, ready>>
  /\ UNCHANGED <<ssl, jobs, st, broken, n, memory, stream>>

\* Data from the peer is an edge too; it tells of the room there is.
peer_sends ==
  /\ st = "online"
  /\ ~ready
  /\ ready' = TRUE
  /\ UNCHANGED <<ssl, jobs, st, unread, nospace, broken, n, memory, stream>>

\* The peer's last message of the handshake arrives.
handshake_done ==
  /\ st = "online"
  /\ tls = "shaking"
  /\ ~broken /\ ~closed
  /\ tls' = "up"
  /\ ready' = TRUE
  /\ UNCHANGED <<jobs, record, st, unread, nospace, broken, n, memory, stream>>

peer_resets ==
  /\ ~broken
  /\ broken' = TRUE
  /\ ready' = TRUE
  /\ UNCHANGED <<ssl, jobs, st, unread, nospace, n, memory, stream>>

-----------------------------------------------------------------------------
Program ==
  \/ \E kind \in Kinds :
       \/ write_refused(kind)
       \/ write_fails(kind)
       \/ \E len \in Lens : 
            write_queued(len, kind) \/ write_now(len, kind) \/ ssl_write_now(len, kind)
  \/ \E len \in Lens : sendfile_queued(len) \/ sendfile_now(len)
  \/ write_crashes
  \/ shutdown_queued
  \/ shutdown_now

Loop ==
  \/ poll
  \/ handler_done
  \/ writev_packet
  \/ writev_blocks
  \/ writev_cut
  \/ writev_done
  \/ ssl_packet
  \/ ssl_blocks
  \/ ssl_fails
  \/ sendfile_job
  \/ shutdown_job
  \/ mixed_job
  \/ jobs_done

Next == Program \/ Loop \/ peer_reads \/ peer_sends \/ handshake_done \/ peer_resets

Spec == Init /\ [][Next]_vars

\* The loop goes on, and the peer acknowledges what it is sent; nothing is
\* assumed of what it sends.
FairSpec == Spec /\ WF_vars(Loop) /\ WF_vars(peer_reads)

-----------------------------------------------------------------------------
(* Properties                                                               *)

Queued(id) == \E p \in DOMAIN slots : \E k \in DOMAIN slots[p].packets :
                slots[p].packets[k].id = id

\* Data handed over to the socket, or copied by it, is freed once, when its last
\* byte is written or it is refused, and never while a job still points to it.
ReleasedOnce ==
  \A id \in Id : freed[id] = IF mem[id] = "socket" /\ ~Queued(id) THEN 1 ELSE 0

\* What is left of it when jobs are mixed up: nothing is freed twice or early.
NotFreedEarly ==
  \A id \in Id : freed[id] <= IF Queued(id) THEN 0 ELSE 1

\* Behind jobs.current the list is free: a new job never takes the place of one
\* that waits.
NextIsFree == \A p \in DOMAIN slots : p > cur => ~slots[p].on

\* A socket that waits for room is woken: the kernel owes it an edge or has one
\* to report, unless the last writev was cut at IOV_MAX packets, or the peer has
\* to go on with the handshake.
WillWake ==
  st = "online" /\ block /\ ~broken /\ ~closed =>
    nospace \/ ready \/ chunks = MaxChunks \/ tls = "shaking"

\* SSL_write is called again with the packet it could not finish, at its full
\* length, before it is called with any other.
RetriesSame ==
  st = "online" /\ record # NoRecord =>
    /\ First.on /\ First.types = {"writev"} /\ First.packets # <<>>
    /\ Front.id = record.id /\ Front.off = 0

\* Bytes leave in the order in which they were accepted.
InOrder == \A k \in DOMAIN wire : k \in DOMAIN sent /\ wire[k] = sent[k]

\* The socket implements the stream its users rely on.
Stream == INSTANCE OutStream WITH Open <- None
ImplementsStream == Stream!Spec

Over == st # "online" \/ broken \/ closed

\* The queue was cut at IOV_MAX packets while the kernel had room, and waits for
\* an edge nobody owes it.
Stalled == block /\ chunks = MaxChunks /\ ~nospace /\ ~ready

\* What was accepted before a shutdown leaves in the end, and a shutdown that was
\* asked for is carried out, if the peer completes the handshake.
EverythingLeaves ==
  /\ \A k \in 1..(MaxOps * Cap) :
       Len(sent) >= k /\ (limit = None \/ k <= limit)
         ~> Len(wire) >= k \/ Over \/ Stalled \/ tls = "shaking"
  /\ limit # None ~> Over \/ Stalled \/ tls = "shaking"
=============================================================================
