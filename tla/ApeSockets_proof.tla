-------------------------- MODULE ApeSockets_proof --------------------------
(***************************************************************************)
(* Proofs about ApeSockets, for any number of sockets, descriptors, nested  *)
(* callbacks and waiting connections.  What is assumed is stated in each    *)
(* theorem: HandlersLetGo says that a disconnect handler does not shut down *)
(* or write to the socket it is told about.                                 *)
(***************************************************************************)
EXTENDS ApeSockets, SequenceTheorems, TLAPS

HandlersLetGo == ~ReentrantClose

Live == {"pending", "progress", "online"}
Gone == {"offline", "freed"}

-----------------------------------------------------------------------------
(* The callback stack.                                                      *)

\* What a return does to a stack.
LEMMA PopShape ==
  ASSUME NEW S, NEW stk \in Seq(S), stk # <<>>
  PROVE  /\ Len(stk) \in Nat \ {0}
         /\ stk[Len(stk)] \in S
         /\ SubSeq(stk, 1, Len(stk) - 1) \in Seq(S)
         /\ Len(SubSeq(stk, 1, Len(stk) - 1)) = Len(stk) - 1
         /\ \A k \in 1..(Len(stk) - 1) :
              SubSeq(stk, 1, Len(stk) - 1)[k] = stk[k]
<1>1. Len(stk) \in Nat \ {0}
  BY EmptySeq
<1>2. stk[Len(stk)] \in S
  BY <1>1
<1>3. PICK n \in Nat : n = Len(stk) - 1
  BY <1>1
<1>4. \A i \in 1..n : stk[i] \in S
  BY <1>1, <1>3
<1>5. /\ SubSeq(stk, 1, n) \in Seq(S)
      /\ Len(SubSeq(stk, 1, n)) = n
      /\ \A k \in 1..n : SubSeq(stk, 1, n)[k] = stk[k]
  BY <1>1, <1>3, <1>4, SubSeqProperties
<1> QED BY <1>1, <1>2, <1>3, <1>5

\* What a call does to a stack.
LEMMA PushShape ==
  ASSUME NEW stk \in Seq(Frames), NEW fr \in Frames
  PROVE  /\ Append(stk, fr) \in Seq(Frames)
         /\ Len(Append(stk, fr)) = Len(stk) + 1
         /\ \A k \in 1..Len(stk) : Append(stk, fr)[k] = stk[k]
         /\ Append(stk, fr)[Len(stk) + 1] = fr
  BY AppendProperties

\* A stack of one frame.
LEMMA OneShape ==
  ASSUME NEW fr \in Frames
  PROVE  /\ <<fr>> \in Seq(Frames)
         /\ Len(<<fr>>) = 1
         /\ <<fr>>[1] = fr
         /\ Append(<<>>, fr) = <<fr>>
  OBVIOUS

\* The frames the actions push are frames.
LEMMA FrameShape ==
  ASSUME NEW a \in {"read", "write", "connected", "accept", "disconnect"},
         NEW s \in Socks, NEW t \in {"destroy", "write", "end"}
  PROVE  /\ Frame(a, s, t) \in Frames
         /\ Frame(a, s, t).at = a
         /\ Frame(a, s, t).s = s
         /\ Frame(a, s, t).then = t
  BY DEF Frame, Frames


-----------------------------------------------------------------------------
(* Type correctness.                                                        *)

\* Destroying a socket keeps the stack a stack and the count a count.
LEMMA DestroyType ==
  ASSUME NEW s \in Socks, NEW rest \in Seq(Frames),
         told \in [Socks -> Nat], Destroy(s, rest)
  PROVE  stack' \in Seq(Frames) /\ told' \in [Socks -> Nat]
<1>1. Frame("disconnect", s, "end") \in Frames
  BY FrameShape
<1>2. Append(rest, Frame("disconnect", s, "end")) \in Seq(Frames)
  BY <1>1, PushShape
<1> QED BY <1>2, SMTT(30) DEF Destroy

\* The same for shutting one down.
LEMMA ShutdownType ==
  ASSUME NEW s \in Socks, NEW rest \in Seq(Frames),
         told \in [Socks -> Nat], eof \subseteq Socks,
         edge \in [Socks -> SUBSET Bits], Shutdown(s, rest)
  PROVE  /\ stack' \in Seq(Frames) /\ told' \in [Socks -> Nat]
         /\ eof' \subseteq Socks /\ edge' \in [Socks -> SUBSET Bits]
<1>1. CASE Destroy(s, rest) /\ UNCHANGED <<eof, edge>>
  BY <1>1, DestroyType
<1>2. CASE /\ eof' = eof \cup {s}
           /\ edge' = [edge EXCEPT ![s] = IF s \in reg THEN @ \cup {"in"} ELSE @]
           /\ stack' = rest
           /\ UNCHANGED told
  BY <1>2 DEF Bits
<1> QED BY <1>1, <1>2 DEF Shutdown

\* What is left to do when a read event returns.
LEMMA AfterType ==
  ASSUME NEW s \in Socks
  PROVE  After(s) \in Seq(Frames)
<1>1. Frame("write", s, "end") \in Frames
  BY FrameShape
<1>2. <<Frame("write", s, "end")>> \in Seq(Frames) /\ <<>> \in Seq(Frames)
  BY <1>1, OneShape
<1> QED BY <1>2 DEF After

\* The frame that is running, and what is below it.
LEMMA TopShape ==
  ASSUME stack \in Seq(Frames), stack # <<>>
  PROVE  Top \in Frames /\ Pop \in Seq(Frames)
  BY PopShape DEF Top, Pop

\* Every variable keeps its type from step to step.
LEMMA TypeStep == TypeOK /\ [Next]_vars => TypeOK'
<1> SUFFICES ASSUME TypeOK, [Next]_vars PROVE TypeOK'
  OBVIOUS
<1>0. CASE UNCHANGED vars
  BY <1>0 DEF vars, kernel, TypeOK
<1>1. CASE Boot
  <2>1. CASE start
    BY <2>1 DEF start, kernel, TypeOK
  <2>2. ASSUME NEW s \in Socks, NEW f \in Fds, server_init(s, f) PROVE TypeOK'
    BY <2>2 DEF server_init, New, Register, kernel, TypeOK, Bits
  <2>3. ASSUME NEW s \in Socks, NEW f \in Fds, server_init_fails(s, f) PROVE TypeOK'
    BY <2>3 DEF server_init_fails, FreeLater, kernel, TypeOK
  <2> QED BY <1>1, <2>1, <2>2, <2>3 DEF Boot
<1>2. CASE Loop
  <2>1. CASE poll
    BY <2>1 DEF poll, TypeOK, Bits
  <2>2. ASSUME NEW s \in Socks, dispatch_server(s) PROVE TypeOK'
    <3>1. Frame("accept", s, "end") \in Frames
      BY FrameShape
    <3>2. stack' \in Seq(Frames)
      BY <2>2, <3>1, OneShape DEF dispatch_server
    <3> QED BY <2>2, <3>2 DEF dispatch_server, Dispatching, TypeOK, Bits
  <2>3. ASSUME NEW s \in Socks, dispatch_write(s) PROVE TypeOK'
    <3>1. stack' \in Seq(Frames)
      BY <2>3, AfterType DEF dispatch_write
    <3> QED BY <2>3, <3>1 DEF dispatch_write, Dispatching, TypeOK, Bits
  <2>4. ASSUME NEW s \in Socks, dispatch_read(s) PROVE TypeOK'
    <3>1. Frame("read", s, IF s \in eof THEN "destroy"
                           ELSE IF "out" \in batch[s] THEN "write"
                           ELSE "end") \in Frames
      BY FrameShape
    <3>2. stack' \in Seq(Frames)
      BY <2>4, <3>1, OneShape DEF dispatch_read
    <3> QED BY <2>4, <3>2 DEF dispatch_read, Dispatching, TypeOK, Bits
  <2>5. ASSUME NEW s \in Socks, dispatch_read_nothing(s) PROVE TypeOK'
    <3>1. <<>> \in Seq(Frames)
      OBVIOUS
    <3>2. stack' \in Seq(Frames) /\ told' \in [Socks -> Nat]
      BY <2>5, <3>1, AfterType, DestroyType DEF dispatch_read_nothing, TypeOK
    <3> QED BY <2>5, <3>2 DEF dispatch_read_nothing, Dispatching, TypeOK, Bits
  <2>6. ASSUME NEW s \in Socks, dispatch_ssl_error(s) PROVE TypeOK'
    <3>1. /\ stack' \in Seq(Frames) /\ told' \in [Socks -> Nat]
          /\ eof' \subseteq Socks /\ edge' \in [Socks -> SUBSET Bits]
      BY <2>6, AfterType, ShutdownType DEF dispatch_ssl_error, TypeOK
    <3> QED BY <2>6, <3>1 DEF dispatch_ssl_error, Dispatching, TypeOK, Bits
  <2>7. ASSUME NEW s \in Socks, NEW f \in Fds, accept_one(s, f) PROVE TypeOK'
    <3>1. Top.s \in Socks
      BY <2>7, TopShape DEF accept_one, Running, Frames, TypeOK
    <3> QED BY <2>7, <3>1, BoundsAreNats, SMTT(30) DEF accept_one, New, Register, TypeOK, Bits
  <2>8. CASE read_returns
    <3>1. Top \in Frames /\ Pop \in Seq(Frames) /\ Top.s \in Socks
      BY <2>8, TopShape DEF read_returns, Running, Frames, TypeOK
    <3>2. CASE Top.then = "destroy"
      <4>1. Destroy(Top.s, Pop)
        BY <2>8, <3>2 DEF read_returns
      <4>2. stack' \in Seq(Frames) /\ told' \in [Socks -> Nat]
        BY <3>1, <4>1, DestroyType DEF TypeOK
      <4> QED BY <2>8, <4>2 DEF read_returns, kernel, TypeOK
    <3>3. CASE Top.then # "destroy"
      <4>1. Frame("write", Top.s, "end") \in Frames
        BY <3>1, FrameShape
      <4>2. Append(Pop, Frame("write", Top.s, "end")) \in Seq(Frames)
        BY <3>1, <4>1, PushShape
      <4>3. stack' \in Seq(Frames) /\ told' = told
        BY <2>8, <3>1, <3>3, <4>2 DEF read_returns
      <4> QED BY <2>8, <4>3 DEF read_returns, kernel, TypeOK
    <3> QED BY <3>2, <3>3
  <2>9. CASE write_online
    <3>1. Pop \in Seq(Frames) /\ Top.s \in Socks
      BY <2>9, TopShape DEF write_online, Running, Frames, TypeOK
    <3>2. /\ stack' \in Seq(Frames) /\ told' \in [Socks -> Nat]
          /\ eof' \subseteq Socks /\ edge' \in [Socks -> SUBSET Bits]
      <4>1. CASE Shutdown(Top.s, Pop)
        BY <3>1, <4>1, ShutdownType DEF TypeOK
      <4>2. CASE stack' = Pop /\ UNCHANGED <<eof, edge, told>>
        BY <3>1, <4>2 DEF TypeOK
      <4> QED BY <2>9, <4>1, <4>2 DEF write_online
    <3> QED BY <2>9, <3>2 DEF write_online, TypeOK
  <2>10. CASE write_progress
    <3>1. Pop \in Seq(Frames) /\ Top.s \in Socks
      BY <2>10, TopShape DEF write_progress, Running, Frames, TypeOK
    <3>2. Frame("connected", Top.s, "end") \in Frames
      BY <3>1, FrameShape
    <3>3. Append(Pop, Frame("connected", Top.s, "end")) \in Seq(Frames)
      BY <3>1, <3>2, PushShape
    <3>4. stack' \in Seq(Frames)
      BY <2>10, <3>1, <3>3 DEF write_progress
    <3> QED BY <2>10, <3>1, <3>4 DEF write_progress, kernel, TypeOK
  <2>11. CASE write_offline \/ accept_done \/ connected_returns \/ timer_returns
    <3>1. Pop \in Seq(Frames)
      BY <2>11, TopShape DEF write_offline, accept_done, connected_returns,
                             timer_returns, Running, TypeOK
    <3> QED BY <2>11, <3>1 DEF write_offline, accept_done, connected_returns,
                               timer_returns, kernel, TypeOK
  <2>12. CASE disconnect_returns
    <3>1. Pop \in Seq(Frames) /\ Top.s \in Socks
      BY <2>12, TopShape DEF disconnect_returns, Running, Frames, TypeOK
    <3>2. owner' \in [Fds -> Socks \cup {None}] /\ reg' \subseteq Socks
      BY <2>12 DEF disconnect_returns, FreeLater, TypeOK
    <3>3. edge' \in [Socks -> SUBSET Bits]
      BY <2>12 DEF disconnect_returns, FreeLater, TypeOK
    <3>4. state' \in [Socks -> {"none", "pending", "progress", "online", "offline",
                               "freed"}]
      BY <2>12, <3>1 DEF disconnect_returns, FreeLater, TypeOK
    <3>5. tofree' \in [Socks -> Nat]
      BY <2>12, <3>1 DEF disconnect_returns, FreeLater, TypeOK
    <3> QED BY <2>12, <3>1, <3>2, <3>3, <3>4, <3>5 DEF disconnect_returns, FreeLater, TypeOK
  <2>13. CASE batch_done \/ ticks_done
    BY <2>13 DEF batch_done, ticks_done, kernel, TypeOK
  <2> QED BY <1>2, <2>1, <2>2, <2>3, <2>4, <2>5, <2>6, <2>7, <2>8, <2>9, <2>10,
             <2>11, <2>12, <2>13 DEF Loop
<1>3. CASE Handlers
  <2>1. CASE timer_callback
    <3>1. Frame("timer", None, "end") \in Frames
      BY DEF Frame, Frames
    <3>2. stack' \in Seq(Frames)
      BY <2>1, <3>1, OneShape DEF timer_callback
    <3> QED BY <2>1, <3>2 DEF timer_callback, kernel, TypeOK
  <2>2. ASSUME NEW s \in Socks, close_socket(s) PROVE TypeOK'
    <3>1. /\ stack' \in Seq(Frames) /\ told' \in [Socks -> Nat]
          /\ eof' \subseteq Socks /\ edge' \in [Socks -> SUBSET Bits]
      BY <2>2, ShutdownType DEF close_socket, TypeOK
    <3> QED BY <2>2, <3>1 DEF close_socket, TypeOK
  <2>3. ASSUME NEW s \in Socks, NEW f \in Fds, connect_host(s, f) PROVE TypeOK'
    BY <2>3 DEF connect_host, New, TypeOK
  <2>4. ASSUME NEW s \in Socks, NEW f \in Fds, connect_address(s, f) PROVE TypeOK'
    BY <2>4 DEF connect_address, New, Register, TypeOK, Bits
  <2>5. ASSUME NEW s \in Socks, NEW f \in Fds, connect_fails(s, f) PROVE TypeOK'
    <3>1. stack' \in Seq(Frames) /\ told' \in [Socks -> Nat]
      BY <2>5, DestroyType DEF connect_fails, TypeOK
    <3> QED BY <2>5, <3>1 DEF connect_fails, New, TypeOK
  <2> QED BY <1>3, <2>1, <2>2, <2>3, <2>4, <2>5 DEF Handlers
<1>4. CASE Lookups
  <2>1. ASSUME NEW s \in Socks, lookup_succeeds(s) PROVE TypeOK'
    BY <2>1 DEF lookup_succeeds, Answered, Register, TypeOK, Bits
  <2>2. ASSUME NEW s \in Socks, lookup_fails(s) PROVE TypeOK'
    <3>1. stack' \in Seq(Frames) /\ told' \in [Socks -> Nat]
      BY <2>2, DestroyType DEF lookup_fails, TypeOK
    <3> QED BY <2>2, <3>1 DEF lookup_fails, Answered, kernel, TypeOK
  <2> QED BY <1>4, <2>1, <2>2 DEF Lookups
<1>5. CASE Peers
  <2>1. ASSUME NEW s \in Socks, peer_connects(s) PROVE TypeOK'
    BY <2>1, BoundsAreNats DEF peer_connects, Raise, TypeOK, Bits
  <2>2. ASSUME NEW s \in Socks, peer_acts(s) PROVE TypeOK'
    BY <2>2 DEF peer_acts, Raise, TypeOK, Bits
  <2>3. ASSUME NEW s \in Socks, peer_closes(s) PROVE TypeOK'
    BY <2>3 DEF peer_closes, Raise, TypeOK, Bits
  <2> QED BY <1>5, <2>1, <2>2, <2>3 DEF Peers
<1>6. ASSUME NEW s \in Socks, ape_socket_free(s) PROVE TypeOK'
  BY <1>6 DEF ape_socket_free, kernel, TypeOK
<1> QED BY <1>0, <1>1, <1>2, <1>3, <1>4, <1>5, <1>6 DEF Next

\* The variables of ApeSockets keep their types, for any number of sockets.
THEOREM SocketsTypeCorrect == Spec => []TypeOK
<1>1. Init => TypeOK
  BY BoundsAreNats DEF Init, TypeOK, Bits
<1> QED BY <1>1, TypeStep, PTL DEF Spec

-----------------------------------------------------------------------------
(* The inductive invariant: what the callback stack says of the sockets, and *)
(* what each socket's state says of the kernel, the loop and the lookups.    *)

\* A disconnect handler is running for s.
Telling(stk, s) == \E k \in 1..Len(stk) : stk[k].at = "disconnect" /\ stk[k].s = s

\* Only the outermost frame is the loop's own; above it handlers have nested
\* calls of APE_socket_destroy, each for another live socket.
Nesting(stk, st, lk) ==
  /\ \A k \in 1..Len(stk) :
       /\ stk[k].at # "disconnect" => k = 1
       /\ stk[k].s \in Socks =>
            st[stk[k].s] \notin {"none", "freed"} /\ stk[k].s \notin lk
       /\ stk[k].at = "disconnect" => stk[k].then = "end" /\ st[stk[k].s] \in Live
  /\ \A j, k \in 1..Len(stk) :
       stk[j].at = "disconnect" /\ stk[k].at = "disconnect" /\ stk[j].s = stk[k].s
         => j = k

\* on_disconnect has been called for a socket exactly if the handler runs or
\* the socket is gone.
Telltale(stk, st, tl) ==
  \A s \in Socks :
    /\ tl[s] \in {0, 1}
    /\ Telling(stk, s) => tl[s] = 1
    /\ tl[s] = 1 => Telling(stk, s) \/ st[s] \in Gone

Calls(stk, st, lk, tl) == Nesting(stk, st, lk) /\ Telltale(stk, st, tl)

\* What the state of a socket says of the rest.
Consistent(s) ==
  /\ state[s] = "none" => type[s] = "unknown"
  /\ batch[s] # {} => phase = "batch" /\ state[s] \notin {"none", "pending", "freed"}
  /\ edge[s] # {} => s \in reg
  /\ s \in reg => state[s] \in {"progress", "online"}
  /\ s \in lookups => state[s] = "pending"
  /\ state[s] \in Live => fd[s] \in Fds /\ owner[fd[s]] = s
  /\ tofree[s] = IF state[s] = "offline" THEN 1 ELSE 0
  /\ type[s] = "client" /\ state[s] \in Gone => told[s] = 1

SocketInv ==
  /\ TypeOK
  /\ Calls(stack, state, lookups, told)
  /\ \A s \in Socks : Consistent(s)

-----------------------------------------------------------------------------
(* What calls, returns and changes of state do to Calls.                     *)

States == {"none", "pending", "progress", "online", "offline", "freed"}

\* APE_socket_destroy calls on_disconnect for a live socket it is not already
\* being called for.
LEMMA DisconnectCalled ==
  ASSUME NEW stk \in Seq(Frames), NEW st \in [Socks -> States], NEW lk,
         NEW tl \in [Socks -> Nat], NEW s \in Socks,
         Calls(stk, st, lk, tl), st[s] \in Live, s \notin lk, ~Telling(stk, s)
  PROVE  Calls(Append(stk, Frame("disconnect", s, "end")), st, lk,
               [tl EXCEPT ![s] = @ + 1])
<1> DEFINE fr == Frame("disconnect", s, "end")
           new == Append(stk, fr)
           tl2 == [tl EXCEPT ![s] = @ + 1]
<1>1. fr \in Frames /\ fr.at = "disconnect" /\ fr.s = s /\ fr.then = "end"
  BY FrameShape
<1>2. /\ new \in Seq(Frames) /\ Len(new) = Len(stk) + 1
      /\ \A k \in 1..Len(stk) : new[k] = stk[k]
      /\ new[Len(stk) + 1] = fr
  BY <1>1, PushShape
<1>3. Len(stk) \in Nat
  OBVIOUS
<1> HIDE DEF fr, new
<1>4. \A k \in 1..Len(new) : k \in 1..Len(stk) \/ k = Len(stk) + 1
  BY <1>2, <1>3
<1>a. /\ \A k \in 1..Len(stk) : new[k] = stk[k] /\ k \in 1..Len(new)
      /\ new[Len(stk) + 1].at = "disconnect"
      /\ new[Len(stk) + 1].s = s
      /\ new[Len(stk) + 1].then = "end"
  BY <1>1, <1>2, <1>3
<1>b. \A k \in 1..Len(stk) : stk[k].at = "disconnect" => stk[k].s # s
  BY DEF Telling
<1>5. Nesting(new, st, lk)
  <2>1. ASSUME NEW k \in 1..Len(new)
        PROVE  /\ new[k].at # "disconnect" => k = 1
               /\ new[k].s \in Socks =>
                    st[new[k].s] \notin {"none", "freed"} /\ new[k].s \notin lk
               /\ new[k].at = "disconnect" => new[k].then = "end" /\ st[new[k].s] \in Live
    <3>1. CASE k \in 1..Len(stk)
      BY <1>a, <3>1 DEF Calls, Nesting
    <3>2. CASE k = Len(stk) + 1
      BY <1>a, <3>2 DEF Live
    <3> QED BY <1>4, <3>1, <3>2
  <2>2. ASSUME NEW j \in 1..Len(new), NEW k \in 1..Len(new),
               new[j].at = "disconnect", new[k].at = "disconnect",
               new[j].s = new[k].s
        PROVE  j = k
    <3>1. CASE j \in 1..Len(stk) /\ k \in 1..Len(stk)
      BY <1>a, <2>2, <3>1 DEF Calls, Nesting
    <3>2. CASE ~(j \in 1..Len(stk) /\ k \in 1..Len(stk))
      BY <1>4, <1>a, <1>b, <2>2, <3>2
    <3> QED BY <3>1, <3>2
  <2> QED BY <2>1, <2>2 DEF Nesting
<1>6. \A r \in Socks : Telling(new, r) <=> Telling(stk, r) \/ r = s
  BY <1>1, <1>2, <1>3, <1>4 DEF Telling
<1>7. tl[s] = 0
  BY DEF Calls, Telltale, Gone, Live
<1>8. \A r \in Socks : tl2[r] = IF r = s THEN 1 ELSE tl[r]
  BY <1>7
<1>9. Telltale(new, st, tl2)
  <2> HIDE DEF tl2
  <2> QED BY <1>6, <1>8 DEF Calls, Telltale
<1> QED BY <1>5, <1>9 DEF Calls, new, fr

\* A frame that is not a disconnect handler returns.
LEMMA FrameReturned ==
  ASSUME NEW stk \in Seq(Frames), stk # <<>>, NEW st, NEW lk, NEW tl,
         Calls(stk, st, lk, tl), stk[Len(stk)].at # "disconnect"
  PROVE  Calls(SubSeq(stk, 1, Len(stk) - 1), st, lk, tl)
<1> DEFINE new == SubSeq(stk, 1, Len(stk) - 1)
<1>1. /\ Len(stk) \in Nat \ {0} /\ Len(new) = Len(stk) - 1
      /\ \A k \in 1..(Len(stk) - 1) : new[k] = stk[k]
  BY PopShape
<1> HIDE DEF new
<1>2. \A k \in 1..Len(new) : k \in 1..Len(stk) /\ new[k] = stk[k]
  BY <1>1
<1>3. Nesting(new, st, lk)
  BY <1>2 DEF Calls, Nesting
<1>4. \A k \in 1..Len(stk) : stk[k].at = "disconnect" => k \in 1..Len(new)
  BY <1>1
<1>5. \A s \in Socks : Telling(new, s) <=> Telling(stk, s)
  BY <1>2, <1>4 DEF Telling
<1>6. Telltale(new, st, tl)
  BY <1>5 DEF Calls, Telltale
<1> QED BY <1>3, <1>6 DEF Calls, new

\* A disconnect handler returns, and its socket is offline.
LEMMA DisconnectReturned ==
  ASSUME NEW stk \in Seq(Frames), stk # <<>>, NEW st \in [Socks -> States],
         NEW lk, NEW tl, Calls(stk, st, lk, tl),
         NEW s \in Socks, stk[Len(stk)].at = "disconnect", stk[Len(stk)].s = s
  PROVE  Calls(SubSeq(stk, 1, Len(stk) - 1), [st EXCEPT ![s] = "offline"], lk, tl)
<1> DEFINE new == SubSeq(stk, 1, Len(stk) - 1)
           st2 == [st EXCEPT ![s] = "offline"]
<1>1. /\ Len(stk) \in Nat \ {0} /\ Len(new) = Len(stk) - 1
      /\ \A k \in 1..(Len(stk) - 1) : new[k] = stk[k]
  BY PopShape
<1>a. \A r \in Socks : st2[r] = IF r = s THEN "offline" ELSE st[r]
  OBVIOUS
<1> HIDE DEF new, st2
<1>2. \A k \in 1..Len(new) : k \in 1..Len(stk) /\ k # Len(stk) /\ new[k] = stk[k]
  BY <1>1
<1>3. Len(stk) \in 1..Len(stk)
  BY <1>1
<1>4. \A k \in 1..Len(new) : new[k].at = "disconnect" => new[k].s # s
  BY <1>2, <1>3 DEF Calls, Nesting
<1>b. \A k \in 1..Len(new) : new[k].at # "timer" => new[k].s \in Socks
  <2>1. \A k \in 1..Len(stk) : stk[k] \in Frames
    OBVIOUS
  <2> QED BY <1>2, <2>1 DEF Frames
<1>5. Nesting(new, st2, lk)
  BY <1>2, <1>4, <1>a, <1>b DEF Calls, Nesting, Live
<1>6. \A r \in Socks : r # s => (Telling(new, r) <=> Telling(stk, r))
  <2>1. \A k \in 1..Len(stk) : k \in 1..Len(new) \/ k = Len(stk)
    BY <1>1
  <2> QED BY <1>2, <2>1 DEF Telling
<1>7. Telling(stk, s) /\ ~Telling(new, s)
  BY <1>3, <1>4 DEF Telling
<1>8. Telltale(new, st2, tl)
  BY <1>6, <1>7, <1>a DEF Calls, Telltale, Gone
<1> QED BY <1>5, <1>8 DEF Calls, new, st2

\* The loop calls a handler, or starts to look at an event.
LEMMA HandlerCalled ==
  ASSUME NEW st, NEW lk, NEW tl, Calls(<<>>, st, lk, tl), NEW fr \in Frames,
         fr.at # "disconnect", fr.s \in Socks => st[fr.s] \notin {"none", "freed"} /\ fr.s \notin lk
  PROVE  Calls(<<fr>>, st, lk, tl)
<1>1. Len(<<fr>>) = 1 /\ <<fr>>[1] = fr /\ Len(<<>>) = 0
  BY OneShape
<1>2. \A k \in 1..Len(<<fr>>) : k = 1 /\ <<fr>>[k] = fr
  BY <1>1
<1>3. Nesting(<<fr>>, st, lk)
  BY <1>2 DEF Nesting
<1>4. \A s \in Socks : ~Telling(<<fr>>, s) /\ ~Telling(<<>>, s)
  BY <1>1, <1>2 DEF Telling
<1>5. Telltale(<<fr>>, st, tl)
  BY <1>4 DEF Calls, Telltale
<1> QED BY <1>3, <1>5 DEF Calls

\* Sockets are made or stay live, and no lookup is started for an old one.
Moves(st, lk, st2, lk2) ==
  /\ \A s \in Socks :
       \/ st2[s] = st[s]
       \/ st[s] = "none"
       \/ (st[s] \in Live /\ st2[s] \in Live)
  /\ \A s \in lk2 : s \in lk \/ (s \in Socks /\ st[s] = "none")

\* Sockets move without a call or a return.
LEMMA SocketsMove ==
  ASSUME NEW stk \in Seq(Frames), NEW st, NEW lk, NEW tl, Calls(stk, st, lk, tl),
         NEW st2, NEW lk2, Moves(st, lk, st2, lk2)
  PROVE  Calls(stk, st2, lk2, tl)
<1> USE DEF Moves
<1>1. \A k \in 1..Len(stk) : stk[k].at = "disconnect" => stk[k].s \in Socks
  <2>1. \A k \in 1..Len(stk) : stk[k] \in Frames
    OBVIOUS
  <2> QED BY <2>1 DEF Frames
<1>2. \A s \in Socks : st[s] \notin {"none", "freed"} => st2[s] \notin {"none", "freed"}
  BY DEF Live
<1>3. \A s \in Socks : st[s] \in Live => st2[s] \in Live /\ st[s] # "none"
  BY DEF Live
<1>4. \A s \in Socks : st[s] \in Gone => st2[s] = st[s]
  BY DEF Live, Gone
<1>5. Nesting(stk, st2, lk2)
  BY <1>1, <1>2, <1>3 DEF Calls, Nesting
<1>6. Telltale(stk, st2, tl)
  BY <1>4 DEF Calls, Telltale
<1> QED BY <1>5, <1>6 DEF Calls

-----------------------------------------------------------------------------
(* The same for the operators and the frames of ApeSockets.                  *)

\* APE_socket_destroy of a socket that is live or already offline.
LEMMA DestroyCalls ==
  ASSUME TypeOK, NEW s \in Socks, NEW rest \in Seq(Frames),
         NEW st \in [Socks -> States], NEW lk, Calls(rest, st, lk, told),
         Destroy(s, rest),
         state[s] # "offline" => st[s] \in Live /\ s \notin lk /\ ~Telling(rest, s)
  PROVE  /\ Calls(stack', st, lk, told')
         /\ \A r \in Socks : r # s \/ state[s] = "offline" => told'[r] = told[r]
<1>1. CASE state[s] = "offline"
  BY <1>1 DEF Destroy
<1>2. CASE state[s] # "offline"
  <2>1. Calls(Append(rest, Frame("disconnect", s, "end")), st, lk,
              [told EXCEPT ![s] = @ + 1])
    BY <1>2, DisconnectCalled DEF TypeOK
  <2> QED BY <1>2, <2>1 DEF Destroy, TypeOK
<1> QED BY <1>1, <1>2

\* A frame other than a disconnect handler is alone on the stack.
LEMMA LoopFrame ==
  ASSUME TypeOK, Calls(stack, state, lookups, told), stack # <<>>,
         Top.at # "disconnect"
  PROVE  /\ Top \in Frames /\ Pop = <<>> /\ Pop \in Seq(Frames)
         /\ Calls(Pop, state, lookups, told)
         /\ \A s \in Socks : ~Telling(Pop, s) /\ ~Telling(stack, s)
         /\ Top.s \in Socks => state[Top.s] \notin {"none", "freed"} /\ Top.s \notin lookups
<1>1. /\ stack \in Seq(Frames) /\ Len(stack) \in Nat \ {0}
      /\ Top \in Frames /\ Pop \in Seq(Frames) /\ Len(Pop) = Len(stack) - 1
  BY PopShape DEF TypeOK, Top, Pop
<1>2. Len(stack) = 1
  BY <1>1 DEF Calls, Nesting, Top
<1>3. Pop = <<>>
  BY <1>1, <1>2, EmptySeq
<1>4. Calls(Pop, state, lookups, told)
  BY <1>1, FrameReturned DEF Top, Pop
<1>5. \A s \in Socks : ~Telling(Pop, s)
  BY <1>1, <1>2 DEF Telling
<1>6. \A s \in Socks : ~Telling(stack, s)
  BY <1>2 DEF Telling, Top
<1>7. Top.s \in Socks => state[Top.s] \notin {"none", "freed"} /\ Top.s \notin lookups
  BY <1>2 DEF Calls, Nesting, Top
<1> QED BY <1>1, <1>3, <1>4, <1>5, <1>6, <1>7

\* The innermost frame is a disconnect handler.
LEMMA DisconnectFrame ==
  ASSUME TypeOK, Calls(stack, state, lookups, told), stack # <<>>,
         Top.at = "disconnect"
  PROVE  /\ Top \in Frames /\ Top.s \in Socks
         /\ state[Top.s] \in Live /\ told[Top.s] = 1 /\ Top.s \notin lookups
         /\ Calls(Pop, [state EXCEPT ![Top.s] = "offline"], lookups, told)
<1>1. stack \in Seq(Frames) /\ Len(stack) \in Nat \ {0} /\ Top \in Frames
  BY PopShape DEF TypeOK, Top
<1>2. Top.s \in Socks
  BY <1>1 DEF Frames
<1>3. Len(stack) \in 1..Len(stack)
  BY <1>1
<1>4. state[Top.s] \in Live /\ Top.s \notin lookups
  BY <1>2, <1>3 DEF Calls, Nesting, Top
<1>5. told[Top.s] = 1
  <2>1. Telling(stack, Top.s)
    BY <1>3 DEF Telling, Top
  <2> QED BY <1>2, <2>1 DEF Calls, Telltale
<1>6. Calls(Pop, [state EXCEPT ![Top.s] = "offline"], lookups, told)
  <2>1. state \in [Socks -> States]
    BY DEF TypeOK, States
  <2>2. ASSUME NEW s, s = Top.s
        PROVE  Calls(Pop, [state EXCEPT ![s] = "offline"], lookups, told)
    <3>1. s \in Socks /\ stack[Len(stack)].at = "disconnect" /\ stack[Len(stack)].s = s
      BY <1>2, <2>2 DEF Top
    <3> QED BY <1>1, <2>1, <3>1, DisconnectReturned DEF Pop
  <2> QED BY <2>2
<1> QED BY <1>1, <1>2, <1>4, <1>5, <1>6

\* With an empty stack no disconnect handler is running.
LEMMA NobodyTold ==
  ASSUME stack = <<>>
  PROVE  \A s \in Socks : ~Telling(stack, s)
  BY DEF Telling

\* A new socket is on no stack and in no list.
LEMMA NewIsUnknown ==
  ASSUME SocketInv, NEW s \in Socks, state[s] = "none"
  PROVE  /\ ~Telling(stack, s) /\ s \notin lookups /\ told[s] = 0
         /\ s \notin reg /\ batch[s] = {} /\ edge[s] = {} /\ tofree[s] = 0
         /\ type[s] = "unknown"
<1>1. ~Telling(stack, s)
  BY DEF SocketInv, Calls, Nesting, Telling
<1>2. told[s] = 0
  BY <1>1 DEF SocketInv, Calls, Telltale, Gone
<1>3. Consistent(s)
  BY DEF SocketInv
<1> QED BY <1>1, <1>2, <1>3 DEF Consistent

\* The frames of disconnect handlers are the ones Disconnecting looks for.
LEMMA TellingIsDisconnecting ==
  ASSUME TypeOK, Calls(stack, state, lookups, told), NEW s \in Socks
  PROVE  Telling(stack, s) <=> Disconnecting(s)
<1>1. \A k \in 1..Len(stack) : stack[k] \in Frames
  BY DEF TypeOK
<1>2. DOMAIN stack = 1..Len(stack)
  BY DEF TypeOK
<1>3. \A k \in 1..Len(stack) :
        stack[k].at = "disconnect" => stack[k] = Frame("disconnect", stack[k].s, "end")
  <2> TAKE k \in 1..Len(stack)
  <2> HAVE stack[k].at = "disconnect"
  <2>1. stack[k].then = "end"
    BY DEF Calls, Nesting
  <2>2. stack[k] = [at |-> stack[k].at, s |-> stack[k].s, then |-> stack[k].then]
    BY <1>1 DEF Frames
  <2> QED BY <2>1, <2>2 DEF Frame
<1>4. ASSUME Disconnecting(s) PROVE Telling(stack, s)
  <2>1. PICK k \in 1..Len(stack) : stack[k] = Frame("disconnect", s, "end")
    BY <1>2, <1>4 DEF Disconnecting
  <2>2. stack[k].at = "disconnect" /\ stack[k].s = s
    BY <2>1 DEF Frame
  <2> QED BY <2>2 DEF Telling
<1>5. ASSUME Telling(stack, s) PROVE Disconnecting(s)
  BY <1>2, <1>3, <1>5 DEF Telling, Disconnecting
<1> QED BY <1>4, <1>5

-----------------------------------------------------------------------------
(* The steps of the inductive invariant: the calls.                          *)

\* Every step keeps the order of the nested calls: who is being dispatched, disconnected or timed.
LEMMA CallsStep ==
  ASSUME HandlersLetGo, SocketInv, [Next]_vars
  PROVE  Calls(stack', state', lookups', told')
<1> USE DEF SocketInv
<1>s. state \in [Socks -> States] /\ stack \in Seq(Frames)
  BY DEF TypeOK, States
<1>n. ASSUME NEW s \in Socks, NEW st, state' = [state EXCEPT ![s] = st],
             state[s] = "none", stack' = stack, told' = told,
             lookups' = lookups \/ lookups' = lookups \cup {s}
      PROVE  Calls(stack', state', lookups', told')
  <2>1. Moves(state, lookups, state', lookups')
    BY <1>n DEF TypeOK, Moves
  <2>2. Calls(stack, state', lookups', told)
    BY <1>s, <2>1, SocketsMove
  <2> QED BY <1>n, <2>2
<1>k. ASSUME UNCHANGED <<stack, state, lookups, told>>
      PROVE  Calls(stack', state', lookups', told')
  BY <1>k
<1>0. CASE UNCHANGED vars
  BY <1>0, <1>k DEF vars
<1>1. CASE Boot
  <2>1. CASE start
    BY <2>1, <1>k DEF start
  <2>2. ASSUME NEW s \in Socks, NEW f \in Fds, server_init(s, f)
        PROVE  Calls(stack', state', lookups', told')
    BY <2>2, <1>n DEF server_init, New, NewSock
  <2>3. ASSUME NEW s \in Socks, NEW f \in Fds, server_init_fails(s, f)
        PROVE  Calls(stack', state', lookups', told')
    BY <2>3, <1>n DEF server_init_fails, NewSock
  <2> QED BY <1>1, <2>1, <2>2, <2>3 DEF Boot
<1>p. ASSUME stack # <<>>, Top.at # "disconnect", stack' = Pop,
             UNCHANGED <<state, lookups, told>>
      PROVE  Calls(stack', state', lookups', told')
  BY <1>p, LoopFrame
<1>c. ASSUME stack = <<>>, UNCHANGED <<state, lookups, told>>, NEW fr \in Frames,
             fr.at # "disconnect",
             fr.s \in Socks => state[fr.s] \notin {"none", "freed"} /\ fr.s \notin lookups,
             stack' = <<fr>>
      PROVE  Calls(stack', state', lookups', told')
  BY <1>c, HandlerCalled
<1>a. ASSUME NEW s \in Socks, Dispatching(s)
      PROVE  /\ stack = <<>> /\ UNCHANGED <<state, lookups>>
             /\ state[s] \notin {"none", "freed"} /\ s \notin lookups
             /\ Calls(After(s), state, lookups, told)
             /\ After(s) \in Seq(Frames)
             /\ ~Telling(After(s), s)
  <2>1. /\ stack = <<>> /\ UNCHANGED <<state, lookups>>
        /\ state[s] \notin {"none", "freed"} /\ s \notin lookups
    BY <1>a DEF Dispatching, Consistent
  <2>2. Frame("write", s, "end") \in Frames /\ Frame("write", s, "end").at = "write"
        /\ Frame("write", s, "end").s = s
    BY FrameShape
  <2>3. Calls(<<Frame("write", s, "end")>>, state, lookups, told)
    BY <2>1, <2>2, HandlerCalled
  <2>4. Calls(After(s), state, lookups, told)
    BY <2>1, <2>3 DEF After
  <2>5. ~Telling(<<Frame("write", s, "end")>>, s) /\ ~Telling(<<>>, s)
    BY <2>2, OneShape DEF Telling
  <2> QED BY <2>1, <2>4, <2>5, AfterType DEF After
<1>d. ASSUME NEW s \in Socks, NEW rest \in Seq(Frames), Shutdown(s, rest),
             Calls(rest, state, lookups, told), state[s] = "online",
             ~Telling(rest, s), UNCHANGED <<state, lookups>>
      PROVE  Calls(stack', state', lookups', told')
  <2>1. s \notin lookups
    BY <1>d DEF Consistent
  <2>2. CASE Destroy(s, rest)
    BY <1>d, <1>s, <2>1, <2>2, DestroyCalls DEF Live
  <2>3. CASE stack' = rest /\ UNCHANGED told
    BY <1>d, <2>3
  <2> QED BY <1>d, <2>2, <2>3 DEF Shutdown
<1>f. ASSUME stack # <<>>, Top.at # "disconnect", NEW a \in {"write", "connected"},
             stack' = Append(Pop, Frame(a, Top.s, "end")), Top.s \in Socks,
             UNCHANGED <<state, lookups, told>>
      PROVE  Calls(stack', state', lookups', told')
  <2> DEFINE fr == Frame(a, Top.s, "end")
  <2>1. fr \in Frames /\ fr.at = a /\ fr.s = Top.s
    BY <1>f, FrameShape
  <2>2. /\ Calls(<<>>, state, lookups, told) /\ Pop = <<>>
        /\ state[Top.s] \notin {"none", "freed"} /\ Top.s \notin lookups
    BY <1>f, LoopFrame
  <2> HIDE DEF fr
  <2>3. Calls(<<fr>>, state, lookups, told)
    BY <1>f, <2>1, <2>2, HandlerCalled
  <2>4. stack' = <<fr>>
    BY <1>f, <2>1, <2>2, OneShape DEF fr
  <2> QED BY <1>f, <2>3, <2>4
<1>2. CASE Loop
  <2>1. CASE poll
    BY <2>1, <1>k DEF poll
  <2>2. ASSUME NEW s \in Socks, dispatch_server(s)
        PROVE  Calls(stack', state', lookups', told')
    <3>1. Frame("accept", s, "end") \in Frames /\ Frame("accept", s, "end").at = "accept"
          /\ Frame("accept", s, "end").s = s
      BY FrameShape
    <3>2. Dispatching(s)
      BY <2>2 DEF dispatch_server
    <3>3. CASE "in" \in batch[s]
      BY <2>2, <3>1, <3>2, <3>3, <1>a, <1>c DEF dispatch_server
    <3>4. CASE "in" \notin batch[s]
      BY <2>2, <3>2, <3>4, <1>a, <1>k DEF dispatch_server
    <3> QED BY <3>3, <3>4
  <2>3. ASSUME NEW s \in Socks, dispatch_write(s)
        PROVE  Calls(stack', state', lookups', told')
    BY <2>3, <1>a DEF dispatch_write
  <2>4. ASSUME NEW s \in Socks, dispatch_read(s)
        PROVE  Calls(stack', state', lookups', told')
    <3> DEFINE then == IF s \in eof THEN "destroy"
                       ELSE IF "out" \in batch[s] THEN "write" ELSE "end"
               fr == Frame("read", s, then)
    <3>1. fr \in Frames /\ fr.at = "read" /\ fr.s = s
      BY FrameShape
    <3>2. stack' = <<fr>> /\ Dispatching(s) /\ told' = told
      BY <2>4 DEF dispatch_read
    <3> HIDE DEF fr
    <3> QED BY <3>1, <3>2, <1>a, <1>c
  <2>5. ASSUME NEW s \in Socks, dispatch_read_nothing(s)
        PROVE  Calls(stack', state', lookups', told')
    <3>1. Dispatching(s) /\ state[s] = "online"
      BY <2>5 DEF dispatch_read_nothing, Readable
    <3>2. CASE stack' = After(s) /\ UNCHANGED told
      BY <3>1, <3>2, <1>a
    <3>3. CASE Destroy(s, <<>>)
      <4>1. Calls(<<>>, state, lookups, told) /\ <<>> \in Seq(Frames)
        BY <3>1, <1>a, <1>s
      <4>2. ~Telling(<<>>, s) /\ s \notin lookups
        BY <3>1 DEF Telling, Consistent
      <4> QED BY <3>1, <3>3, <4>1, <4>2, <1>a, <1>s, DestroyCalls DEF Live
    <3> QED BY <2>5, <3>2, <3>3 DEF dispatch_read_nothing
  <2>6. ASSUME NEW s \in Socks, dispatch_ssl_error(s)
        PROVE  Calls(stack', state', lookups', told')
    <3>1. Dispatching(s) /\ state[s] = "online" /\ Shutdown(s, After(s))
      BY <2>6 DEF dispatch_ssl_error, Readable
    <3> QED BY <3>1, <1>a, <1>d
  <2>7. ASSUME NEW s \in Socks, NEW f \in Fds, accept_one(s, f)
        PROVE  Calls(stack', state', lookups', told')
    BY <2>7, <1>n DEF accept_one, New, NewSock
  <2>8. CASE read_returns
    <3>1. /\ stack # <<>> /\ Top.at = "read" /\ Top.at # "disconnect"
          /\ UNCHANGED <<state, lookups>>
      BY <2>8 DEF read_returns, Running
    <3>2. Top \in Frames /\ Pop = <<>> /\ Top.s \in Socks
      BY <3>1, LoopFrame DEF Frames
    <3>3. CASE Destroy(Top.s, Pop)
      <4>1. /\ Calls(Pop, state, lookups, told) /\ Pop \in Seq(Frames)
            /\ ~Telling(Pop, Top.s) /\ state[Top.s] \notin {"none", "freed"}
            /\ Top.s \notin lookups
        BY <3>1, <3>2, LoopFrame
      <4>2. state[Top.s] # "offline" => state[Top.s] \in Live
        BY <3>2, <4>1 DEF Live, TypeOK
      <4> QED BY <3>1, <3>2, <3>3, <4>1, <4>2, <1>s, DestroyCalls
    <3>4. CASE stack' = Pop /\ UNCHANGED told
      BY <3>1, <3>4, <1>p
    <3>5. CASE stack' = Append(Pop, Frame("write", Top.s, "end")) /\ UNCHANGED told
      BY <3>1, <3>2, <3>5, <1>f
    <3> QED BY <2>8, <3>3, <3>4, <3>5 DEF read_returns
  <2>9. CASE write_online
    <3>1. /\ stack # <<>> /\ Top.at = "write" /\ Top.at # "disconnect"
          /\ UNCHANGED <<state, lookups>> /\ state[Top.s] = "online"
      BY <2>9 DEF write_online, Running
    <3>2. /\ Top.s \in Socks /\ Calls(Pop, state, lookups, told)
          /\ Pop \in Seq(Frames) /\ ~Telling(Pop, Top.s)
      BY <3>1, LoopFrame DEF Frames
    <3>3. CASE Shutdown(Top.s, Pop)
      BY <3>1, <3>2, <3>3, <1>d
    <3>4. CASE stack' = Pop /\ UNCHANGED told
      BY <3>1, <3>4, <1>p
    <3> QED BY <2>9, <3>3, <3>4 DEF write_online
  <2>10. CASE write_progress
    <3>1. /\ stack # <<>> /\ Top.at = "write" /\ Top.at # "disconnect"
          /\ UNCHANGED <<lookups, told>> /\ state[Top.s] = "progress"
      BY <2>10 DEF write_progress, Running
    <3>2. Top.s \in Socks
      BY <3>1, LoopFrame DEF Frames
    <3>3. CASE stack' = Pop /\ UNCHANGED state
      BY <3>1, <3>3, <1>p
    <3>4. CASE /\ state' = [state EXCEPT ![Top.s] = "online"]
               /\ stack' = Append(Pop, Frame("connected", Top.s, "end"))
      <4> DEFINE fr == Frame("connected", Top.s, "end")
      <4>1. fr \in Frames /\ fr.at = "connected" /\ fr.s = Top.s
        BY <3>2, FrameShape
      <4>2. /\ Calls(<<>>, state, lookups, told) /\ Pop = <<>>
            /\ state[Top.s] \notin {"none", "freed"} /\ Top.s \notin lookups
        BY <3>1, <3>2, LoopFrame
      <4>3. stack' = <<fr>>
        BY <3>4, <4>1, <4>2, OneShape
      <4> HIDE DEF fr
      <4>4. Calls(<<fr>>, state, lookups, told) /\ <<fr>> \in Seq(Frames)
        BY <4>1, <4>2, HandlerCalled, OneShape
      <4>5. Moves(state, lookups, state', lookups')
        BY <3>1, <3>2, <3>4, <1>s DEF Moves, Live
      <4>6. Calls(<<fr>>, state', lookups', told)
        BY <4>4, <4>5, SocketsMove
      <4> QED BY <3>1, <4>3, <4>6
    <3> QED BY <2>10, <3>3, <3>4 DEF write_progress
  <2>11. CASE write_offline
    BY <2>11, <1>p DEF write_offline, Running
  <2>12. CASE accept_done \/ connected_returns \/ timer_returns
    BY <2>12, <1>p DEF accept_done, connected_returns, timer_returns, Running
  <2>13. CASE disconnect_returns
    <3>1. /\ stack # <<>> /\ Top.at = "disconnect" /\ stack' = Pop
          /\ state' = [state EXCEPT ![Top.s] = "offline"]
          /\ UNCHANGED <<lookups, told>>
      BY <2>13 DEF disconnect_returns, Running
    <3> QED BY <3>1, DisconnectFrame
  <2>14. CASE batch_done \/ ticks_done
    BY <2>14, <1>k DEF batch_done, ticks_done
  <2> QED BY <1>2, <2>1, <2>2, <2>3, <2>4, <2>5, <2>6, <2>7, <2>8, <2>9, <2>10,
             <2>11, <2>12, <2>13, <2>14 DEF Loop
<1>3. CASE Handlers
  <2>1. CASE timer_callback
    <3>1. Frame("timer", None, "end") \in Frames /\ Frame("timer", None, "end").at = "timer"
          /\ Frame("timer", None, "end").s \notin Socks
      BY NoneIsNone DEF Frame, Frames
    <3> QED BY <2>1, <3>1, <1>c DEF timer_callback
  <2>2. ASSUME NEW s \in Socks, close_socket(s)
        PROVE  Calls(stack', state', lookups', told')
    <3>1. ~Telling(stack, s)
      BY <2>2, TellingIsDisconnecting DEF close_socket, HandlersLetGo
    <3> QED BY <2>2, <3>1, <1>d, <1>s DEF close_socket
  <2>3. ASSUME NEW s \in Socks, NEW f \in Fds, connect_host(s, f)
        PROVE  Calls(stack', state', lookups', told')
    BY <2>3, <1>n DEF connect_host, New, NewSock
  <2>4. ASSUME NEW s \in Socks, NEW f \in Fds, connect_address(s, f)
        PROVE  Calls(stack', state', lookups', told')
    BY <2>4, <1>n DEF connect_address, New, NewSock
  <2>5. ASSUME NEW s \in Socks, NEW f \in Fds, connect_fails(s, f)
        PROVE  Calls(stack', state', lookups', told')
    <3>1. /\ state[s] = "none" /\ state' = [state EXCEPT ![s] = "pending"]
          /\ Destroy(s, stack) /\ lookups' = lookups
      BY <2>5 DEF connect_fails, New, NewSock
    <3>2. ~Telling(stack, s) /\ s \notin lookups
      BY <3>1, NewIsUnknown
    <3>3. Moves(state, lookups, state', lookups)
      BY <3>1, <1>s DEF Moves
    <3>4. Calls(stack, state', lookups, told) /\ state' \in [Socks -> States]
          /\ state'[s] = "pending"
      BY <3>1, <3>3, <1>s, SocketsMove DEF States
    <3> QED BY <3>1, <3>2, <3>4, <1>s, DestroyCalls DEF Live
  <2> QED BY <1>3, <2>1, <2>2, <2>3, <2>4, <2>5 DEF Handlers
<1>4. CASE Lookups
  <2>1. ASSUME NEW s \in Socks, lookup_succeeds(s)
        PROVE  Calls(stack', state', lookups', told')
    <3>1. /\ state[s] = "pending" /\ state' = [state EXCEPT ![s] = "progress"]
          /\ lookups' = lookups \ {s} /\ stack' = stack /\ told' = told
      BY <2>1 DEF lookup_succeeds, Answered, Consistent
    <3>2. Moves(state, lookups, state', lookups')
      BY <3>1, <1>s DEF Moves, Live
    <3>3. Calls(stack, state', lookups', told)
      BY <3>2, <1>s, SocketsMove
    <3> QED BY <3>1, <3>3
  <2>2. ASSUME NEW s \in Socks, lookup_fails(s)
        PROVE  Calls(stack', state', lookups', told')
    <3>1. /\ state[s] = "pending" /\ state' = state /\ stack = <<>>
          /\ lookups' = lookups \ {s} /\ Destroy(s, stack)
      BY <2>2 DEF lookup_fails, Answered, Consistent
    <3>2. Moves(state, lookups, state, lookups')
      BY <3>1 DEF Moves
    <3>3. Calls(stack, state, lookups', told)
      BY <3>2, <1>s, SocketsMove
    <3>4. ~Telling(stack, s) /\ s \notin lookups'
      BY <3>1, NobodyTold
    <3> QED BY <3>1, <3>3, <3>4, <1>s, DestroyCalls DEF Live
  <2> QED BY <1>4, <2>1, <2>2 DEF Lookups
<1>5. CASE Peers
  BY <1>5, <1>k DEF Peers, peer_connects, peer_acts, peer_closes, Raise
<1>6. ASSUME NEW s \in Socks, ape_socket_free(s)
      PROVE  Calls(stack', state', lookups', told')
  <2>1. /\ state[s] = "offline" /\ stack = <<>>
        /\ state' = [state EXCEPT ![s] = "freed"]
        /\ UNCHANGED <<stack, lookups, told>>
    BY <1>6 DEF ape_socket_free, Consistent
  <2>2. Nesting(<<>>, state', lookups)
    BY DEF Nesting
  <2>3. Telltale(<<>>, state', told)
    BY <2>1, <1>s DEF Calls, Telltale, Gone
  <2> QED BY <2>1, <2>2, <2>3 DEF Calls
<1> QED BY <1>0, <1>1, <1>2, <1>3, <1>4, <1>5, <1>6 DEF Next

-----------------------------------------------------------------------------
(* The steps of the inductive invariant: the sockets.                        *)

\* Destroying a socket in use tells of no other socket, and not of a gone one.
LEMMA DestroyTold ==
  ASSUME told \in [Socks -> Nat], NEW s \in Socks, NEW rest, Destroy(s, rest),
         state[s] # "freed", NEW r \in Socks, state[r] \in Gone
  PROVE  told'[r] = told[r]
  BY DEF Destroy, Gone

\* The same for a socket that is shut down; its edge is raised if it has one.
LEMMA ShutdownTold ==
  ASSUME told \in [Socks -> Nat], edge \in [Socks -> SUBSET Bits],
         NEW s \in Socks, NEW rest, Shutdown(s, rest), state[s] # "freed",
         NEW r \in Socks
  PROVE  /\ state[r] \in Gone => told'[r] = told[r]
         /\ edge'[r] = edge[r] \/ r \in reg
<1>1. CASE Destroy(s, rest) /\ UNCHANGED <<eof, edge>>
  BY <1>1, DestroyTold
<1>2. CASE /\ eof' = eof \cup {s}
           /\ edge' = [edge EXCEPT ![s] = IF s \in reg THEN @ \cup {"in"} ELSE @]
           /\ stack' = rest
           /\ UNCHANGED told
  BY <1>2
<1> QED BY <1>1, <1>2 DEF Shutdown

\* Every step keeps each socket consistent with the kernel, the batch and the dispatched frees.
LEMMA ConsistentStep ==
  ASSUME SocketInv, [Next]_vars, NEW r \in Socks
  PROVE  Consistent(r)'
<1> USE DEF SocketInv
<1>r. Consistent(r)
  OBVIOUS
<1>k. ASSUME UNCHANGED <<phase, state, type, fd, owner, reg, edge, batch, lookups,
                         tofree, told>>
      PROVE  Consistent(r)'
  BY <1>k, <1>r DEF Consistent
<1>0. CASE UNCHANGED vars
  BY <1>0, <1>k DEF vars
<1>n. ASSUME NEW s \in Socks, NEW f \in Fds, NEW st \in Live, NEW ty, New(s, f, st, ty),
             UNCHANGED <<phase, batch, tofree>>,
             \/ reg' = reg /\ edge' = edge
             \/ st # "pending" /\ \E b : Register(s, b),
             lookups' = lookups \/ (lookups' = lookups \cup {s} /\ st = "pending"),
             state[r] \in Gone => told'[r] = told[r]
      PROVE  Consistent(r)'
  <2>1. /\ state[s] = "none" /\ owner[f] = None
        /\ \A q \in Socks : state'[q] = IF q = s THEN st ELSE state[q]
        /\ \A q \in Socks : type'[q] = IF q = s THEN ty ELSE type[q]
        /\ \A q \in Socks : fd'[q] = IF q = s THEN f ELSE fd[q]
        /\ \A g \in Fds : owner'[g] = IF g = f THEN s ELSE owner[g]
    BY <1>n DEF New, NewSock, NewFd, TypeOK
  <2>2. CASE r = s
    <3>1. Consistent(s) /\ tofree[s] = 0
      BY <2>1 DEF Consistent
    <3>2. /\ edge'[s] # {} => s \in reg'
          /\ s \in reg' => st \in {"progress", "online"}
      BY <1>n, <2>1, <3>1 DEF Register, Live, Consistent, TypeOK
    <3>3. s \in lookups' => st = "pending"
      BY <1>n, <2>1, <3>1 DEF Consistent
    <3> QED BY <1>n, <2>1, <2>2, <3>1, <3>2, <3>3 DEF Consistent, Live, Gone
  <2>3. CASE r # s
    <3>1. /\ r \in reg' <=> r \in reg
          /\ edge'[r] = edge[r]
          /\ r \in lookups' <=> r \in lookups
      BY <1>n, <2>3 DEF Register, TypeOK
    <3>2. state[r] \in Live => fd[r] # f
      BY <1>r, <2>1, NoneIsNone DEF Consistent
    <3> QED BY <1>n, <1>r, <2>1, <2>3, <3>1, <3>2 DEF Consistent
  <2> QED BY <2>2, <2>3
<1>1. CASE Boot
  <2>1. CASE start
    BY <2>1, <1>r DEF start, kernel, Consistent
  <2>2. ASSUME NEW s \in Socks, NEW f \in Fds, server_init(s, f) PROVE Consistent(r)'
    BY <2>2, <1>n DEF server_init, Live
  <2>3. ASSUME NEW s \in Socks, NEW f \in Fds, server_init_fails(s, f)
        PROVE  Consistent(r)'
    <3>1. /\ Consistent(s) /\ state[s] = "none"
          /\ \A q \in Socks : state'[q] = IF q = s THEN "offline" ELSE state[q]
          /\ \A q \in Socks : fd'[q] = IF q = s THEN f ELSE fd[q]
          /\ \A q \in Socks : tofree'[q] = IF q = s THEN tofree[q] + 1 ELSE tofree[q]
          /\ UNCHANGED <<phase, type, owner, reg, edge, batch, lookups, told>>
      BY <2>3 DEF server_init_fails, FreeLater, NewSock, TypeOK, kernel
    <3> QED BY <3>1, <1>r DEF Consistent, Live, Gone
  <2> QED BY <1>1, <2>1, <2>2, <2>3 DEF Boot
<1>d. ASSUME NEW s \in Socks, Dispatching(s),
             state[r] \in Gone => told'[r] = told[r],
             edge'[r] = edge[r] \/ r \in reg
      PROVE  Consistent(r)'
  <2>1. /\ UNCHANGED <<phase, state, type, fd, owner, reg, lookups, tofree>>
        /\ batch'[r] = {} \/ batch'[r] = batch[r]
    BY <1>d DEF Dispatching, TypeOK
  <2> QED BY <1>d, <1>r, <2>1 DEF Consistent
<1>t. ASSUME UNCHANGED <<phase, state, type, fd, owner, reg, batch, lookups, tofree>>,
             state[r] \in Gone => told'[r] = told[r],
             edge'[r] = edge[r] \/ r \in reg
      PROVE  Consistent(r)'
  BY <1>t, <1>r DEF Consistent
<1>2. CASE Loop
  <2>1. CASE poll
    <3>1. /\ phase' = "batch" /\ batch' = edge /\ edge'[r] = {}
          /\ UNCHANGED <<state, type, fd, owner, reg, lookups, tofree, told>>
      BY <2>1 DEF poll
    <3> QED BY <3>1, <1>r DEF Consistent
  <2>2. ASSUME NEW s \in Socks, dispatch_server(s) PROVE Consistent(r)'
    BY <2>2, <1>d DEF dispatch_server
  <2>3. ASSUME NEW s \in Socks, dispatch_write(s) PROVE Consistent(r)'
    BY <2>3, <1>d DEF dispatch_write
  <2>4. ASSUME NEW s \in Socks, dispatch_read(s) PROVE Consistent(r)'
    BY <2>4, <1>d DEF dispatch_read
  <2>5. ASSUME NEW s \in Socks, dispatch_read_nothing(s) PROVE Consistent(r)'
    <3>1. Dispatching(s) /\ state[s] = "online" /\ edge' = edge
      BY <2>5 DEF dispatch_read_nothing, Readable
    <3>2. state[r] \in Gone => told'[r] = told[r]
      BY <2>5, <3>1, DestroyTold DEF dispatch_read_nothing, TypeOK
    <3> QED BY <3>1, <3>2, <1>d
  <2>6. ASSUME NEW s \in Socks, dispatch_ssl_error(s) PROVE Consistent(r)'
    <3>1. Dispatching(s) /\ state[s] = "online" /\ Shutdown(s, After(s))
      BY <2>6 DEF dispatch_ssl_error, Readable
    <3>2. /\ state[r] \in Gone => told'[r] = told[r]
          /\ edge'[r] = edge[r] \/ r \in reg
      BY <3>1, ShutdownTold DEF TypeOK
    <3> QED BY <3>1, <3>2, <1>d
  <2>7. ASSUME NEW s \in Socks, NEW f \in Fds, accept_one(s, f) PROVE Consistent(r)'
    BY <2>7, <1>n DEF accept_one, Live
  <2>8. CASE read_returns
    <3>1. /\ stack # <<>> /\ Top.at = "read" /\ Top.at # "disconnect"
          /\ UNCHANGED <<phase, state, type, fd, owner, reg, edge, batch, lookups, tofree>>
      BY <2>8 DEF read_returns, Running, kernel
    <3>2. Top.s \in Socks /\ state[Top.s] # "freed"
      BY <3>1, LoopFrame DEF Frames
    <3>3. state[r] \in Gone => told'[r] = told[r]
      BY <2>8, <3>2, DestroyTold DEF read_returns, TypeOK
    <3> QED BY <3>1, <3>3, <1>t
  <2>9. CASE write_online
    <3>1. /\ stack # <<>> /\ Top.at = "write" /\ Top.at # "disconnect"
          /\ UNCHANGED <<phase, state, type, fd, owner, reg, batch, lookups, tofree>>
          /\ state[Top.s] = "online"
      BY <2>9 DEF write_online, Running
    <3>2. Top.s \in Socks
      BY <3>1, LoopFrame DEF Frames
    <3>3. CASE Shutdown(Top.s, Pop)
      BY <3>1, <3>2, <3>3, <1>t, ShutdownTold DEF TypeOK
    <3>4. CASE UNCHANGED <<edge, told>>
      BY <3>1, <3>4, <1>t
    <3> QED BY <2>9, <3>3, <3>4 DEF write_online
  <2>10. CASE write_progress
    <3>1. /\ stack # <<>> /\ Top.at = "write" /\ Top.at # "disconnect"
          /\ UNCHANGED <<phase, type, fd, owner, reg, edge, batch, lookups, tofree, told>>
          /\ state[Top.s] = "progress"
      BY <2>10 DEF write_progress, Running, kernel
    <3>2. Top.s \in Socks
      BY <3>1, LoopFrame DEF Frames
    <3>3. CASE UNCHANGED state
      BY <3>1, <3>3, <1>k
    <3>4. CASE state' = [state EXCEPT ![Top.s] = "online"]
      <4>1. state'[r] = IF r = Top.s THEN "online" ELSE state[r]
        BY <3>2, <3>4 DEF TypeOK
      <4>2. r = Top.s => r \notin lookups
        BY <3>1, <3>2 DEF Consistent
      <4> QED BY <3>1, <4>1, <4>2, <1>r DEF Consistent, Live, Gone
    <3> QED BY <2>10, <3>3, <3>4 DEF write_progress
  <2>11. CASE write_offline \/ accept_done \/ connected_returns \/ timer_returns
    BY <2>11, <1>k DEF write_offline, accept_done, connected_returns, timer_returns, kernel
  <2>12. CASE disconnect_returns
    <3>1. PICK t \in Socks : t = Top.s
      BY <2>12, DisconnectFrame DEF disconnect_returns, Running
    <3>2. state[t] \in Live /\ told[t] = 1 /\ t \notin lookups
      BY <2>12, <3>1, DisconnectFrame DEF disconnect_returns, Running
    <3>3. fd[t] \in Fds /\ owner[fd[t]] = t /\ tofree[t] = 0
      BY <3>2 DEF Consistent, Live
    <3>4. /\ \A g \in Fds : owner'[g] = IF g = fd[t] THEN None ELSE owner[g]
          /\ reg' = reg \ {t}
          /\ \A q \in Socks : edge'[q] = IF q = t THEN {} ELSE edge[q]
          /\ \A q \in Socks : state'[q] = IF q = t THEN "offline" ELSE state[q]
          /\ \A q \in Socks : tofree'[q] = IF q = t THEN tofree[q] + 1 ELSE tofree[q]
          /\ UNCHANGED <<phase, type, fd, batch, lookups, told>>
      BY <2>12, <3>1, <3>3 DEF disconnect_returns, FreeLater, TypeOK
    <3>5. CASE r = t
      BY <1>r, <3>2, <3>3, <3>4, <3>5 DEF Consistent, Live, Gone
    <3>6. CASE r # t
      <4>1. state[r] \in Live => fd[r] # fd[t]
        BY <1>r, <3>3, <3>6 DEF Consistent
      <4> QED BY <1>r, <3>4, <3>6, <4>1 DEF Consistent
    <3> QED BY <3>5, <3>6
  <2>13. CASE batch_done
    BY <2>13, <1>r DEF batch_done, kernel, Consistent
  <2>14. CASE ticks_done
    BY <2>14, <1>r DEF ticks_done, kernel, Consistent
  <2> QED BY <1>2, <2>1, <2>2, <2>3, <2>4, <2>5, <2>6, <2>7, <2>8, <2>9, <2>10,
             <2>11, <2>12, <2>13, <2>14 DEF Loop
<1>3. CASE Handlers
  <2>1. CASE timer_callback
    BY <2>1, <1>k DEF timer_callback, kernel
  <2>2. ASSUME NEW s \in Socks, close_socket(s) PROVE Consistent(r)'
    <3>1. /\ state[s] = "online" /\ Shutdown(s, stack)
          /\ UNCHANGED <<phase, state, type, fd, owner, reg, batch, lookups, tofree>>
      BY <2>2 DEF close_socket
    <3> QED BY <3>1, <1>t, ShutdownTold DEF TypeOK
  <2>3. ASSUME NEW s \in Socks, NEW f \in Fds, connect_host(s, f) PROVE Consistent(r)'
    BY <2>3, <1>n DEF connect_host, Live
  <2>4. ASSUME NEW s \in Socks, NEW f \in Fds, connect_address(s, f) PROVE Consistent(r)'
    BY <2>4, <1>n DEF connect_address, Live
  <2>5. ASSUME NEW s \in Socks, NEW f \in Fds, connect_fails(s, f) PROVE Consistent(r)'
    <3>1. state[s] = "none" /\ Destroy(s, stack) /\ told \in [Socks -> Nat]
      BY <2>5 DEF connect_fails, New, NewSock, TypeOK
    <3>2. state[r] \in Gone => told'[r] = told[r]
      BY <3>1, DestroyTold
    <3> QED BY <2>5, <3>2, <1>n DEF connect_fails, Live
  <2> QED BY <1>3, <2>1, <2>2, <2>3, <2>4, <2>5 DEF Handlers
<1>4. CASE Lookups
  <2>1. ASSUME NEW s \in Socks, lookup_succeeds(s) PROVE Consistent(r)'
    <3>1. /\ state[s] = "pending"
          /\ \A q \in Socks : state'[q] = IF q = s THEN "progress" ELSE state[q]
          /\ \A q \in Socks : type'[q] = IF q = s THEN "client" ELSE type[q]
          /\ lookups' = lookups \ {s} /\ reg' = reg \cup {s}
          /\ \A q \in Socks : edge'[q] = IF q = s THEN {} ELSE edge[q]
          /\ UNCHANGED <<phase, fd, owner, batch, tofree, told>>
      BY <2>1 DEF lookup_succeeds, Answered, Register, Consistent, TypeOK
    <3> QED BY <3>1, <1>r DEF Consistent, Live, Gone
  <2>2. ASSUME NEW s \in Socks, lookup_fails(s) PROVE Consistent(r)'
    <3>1. /\ state[s] = "pending" /\ Destroy(s, stack) /\ lookups' = lookups \ {s}
          /\ UNCHANGED <<phase, state, type, fd, owner, reg, edge, batch, tofree>>
      BY <2>2 DEF lookup_fails, Answered, Consistent, kernel
    <3>2. state[r] \in Gone => told'[r] = told[r]
      BY <3>1, DestroyTold DEF TypeOK
    <3> QED BY <3>1, <3>2, <1>r DEF Consistent
  <2> QED BY <1>4, <2>1, <2>2 DEF Lookups
<1>5. CASE Peers
  <2>1. ASSUME NEW s \in Socks, NEW bits, Raise(s, bits) PROVE Consistent(r)'
    <3>1. edge'[r] = edge[r] \/ r \in reg
      BY <2>1 DEF Raise, TypeOK
    <3> QED BY <2>1, <3>1, <1>t DEF Raise
  <2> QED BY <1>5, <2>1 DEF Peers, peer_connects, peer_acts, peer_closes
<1>6. ASSUME NEW s \in Socks, ape_socket_free(s) PROVE Consistent(r)'
  <2>1. /\ state[s] = "offline" /\ tofree[s] = 1 /\ phase = "ticks"
        /\ \A q \in Socks : state'[q] = IF q = s THEN "freed" ELSE state[q]
        /\ \A q \in Socks : tofree'[q] = IF q = s THEN tofree[q] - 1 ELSE tofree[q]
        /\ UNCHANGED <<phase, type, fd, owner, reg, edge, batch, lookups, told>>
    BY <1>6 DEF ape_socket_free, Consistent, TypeOK, kernel
  <2> QED BY <2>1, <1>r DEF Consistent, Live, Gone
<1> QED BY <1>0, <1>1, <1>2, <1>3, <1>4, <1>5, <1>6 DEF Next

-----------------------------------------------------------------------------
(* The theorems.                                                             *)

\* The inductive invariant holds at first.
LEMMA SocketInvInit == Init => SocketInv
<1> SUFFICES ASSUME Init PROVE SocketInv
  OBVIOUS
<1>1. TypeOK
  BY BoundsAreNats DEF Init, TypeOK, Bits
<1>2. Nesting(stack, state, lookups)
  BY DEF Init, Nesting
<1>3. Telltale(stack, state, told)
  BY DEF Init, Telltale, Telling
<1>4. \A s \in Socks : Consistent(s)
  BY DEF Init, Consistent, Live, Gone
<1> QED BY <1>1, <1>2, <1>3, <1>4 DEF SocketInv, Calls

\* The inductive invariant is one, as long as disconnect handlers let their
\* sockets go.
LEMMA SocketInvariant == ASSUME HandlersLetGo PROVE Spec => []SocketInv
<1>1. SocketInv /\ [Next]_vars => SocketInv'
  <2> SUFFICES ASSUME SocketInv, [Next]_vars PROVE SocketInv'
    OBVIOUS
  <2>1. TypeOK'
    BY TypeStep DEF SocketInv
  <2>2. Calls(stack, state, lookups, told)'
    BY CallsStep DEF HandlersLetGo
  <2>3. \A s \in Socks : Consistent(s)'
    BY ConsistentStep
  <2> QED BY <2>1, <2>2, <2>3 DEF SocketInv
<1> QED BY <1>1, SocketInvInit, PTL DEF Spec

\* No callback, event, epoll registration or host lookup leads to a freed
\* socket: ape_socket_free runs in process_tick, after the batch.
THEOREM NoUseAfterFreeHolds == ASSUME HandlersLetGo PROVE Spec => []NoUseAfterFree
<1>1. SocketInv => NoUseAfterFree
  <2> SUFFICES ASSUME SocketInv, NEW s \in Socks, state[s] \in {"none", "freed"}
               PROVE  /\ \A k \in DOMAIN stack : stack[k].s # s
                      /\ batch[s] = {} /\ s \notin reg /\ s \notin lookups
    BY DEF NoUseAfterFree
  <2>1. DOMAIN stack = 1..Len(stack)
    BY DEF SocketInv, TypeOK
  <2>2. \A k \in DOMAIN stack : stack[k].s # s
    BY <2>1 DEF SocketInv, Calls, Nesting
  <2>3. Consistent(s)
    BY DEF SocketInv
  <2> QED BY <2>2, <2>3 DEF Consistent
<1> QED BY <1>1, SocketInvariant, PTL

\* APE_socket_destroy dispatches ape_socket_free once for each socket.
THEOREM FreedOnceHolds == ASSUME HandlersLetGo PROVE Spec => []FreedOnce
<1>1. SocketInv => FreedOnce
  BY DEF SocketInv, Consistent, FreedOnce
<1> QED BY <1>1, SocketInvariant, PTL

\* APE_socket_destroy never closes the descriptor of another socket.
THEOREM OwnDescriptorHolds == ASSUME HandlersLetGo PROVE Spec => []OwnDescriptor
<1>1. SocketInv => OwnDescriptor
  BY DEF SocketInv, Consistent, OwnDescriptor, Live
<1> QED BY <1>1, SocketInvariant, PTL

\* on_disconnect is called once for each socket that is destroyed.
THEOREM ToldOnceHolds == ASSUME HandlersLetGo PROVE Spec => []ToldOnce
<1>1. SocketInv => ToldOnce
  <2> SUFFICES ASSUME SocketInv, NEW s \in Socks
               PROVE  /\ told[s] <= 1
                      /\ told[s] = 1 => Disconnecting(s) \/ state[s] \in Gone
                      /\ type[s] = "client" /\ state[s] \in Gone => told[s] = 1
    BY DEF ToldOnce, Gone
  <2>1. /\ told[s] \in {0, 1}
        /\ told[s] = 1 => Telling(stack, s) \/ state[s] \in Gone
    BY DEF SocketInv, Calls, Telltale
  <2>2. Telling(stack, s) => Disconnecting(s)
    BY TellingIsDisconnecting DEF SocketInv
  <2>3. Consistent(s)
    BY DEF SocketInv
  <2> QED BY <2>1, <2>2, <2>3 DEF Consistent
<1> QED BY <1>1, SocketInvariant, PTL

=============================================================================
