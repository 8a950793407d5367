-------------------------- MODULE Connection_proof --------------------------
(***************************************************************************)
(* Proofs about Connection, for any requests, frames and texts and however  *)
(* they are cut into reads.  The first part is about the memory a           *)
(* connection works on, and what an upgrade and a lost socket put an end    *)
(* to; nothing in it depends on what a byte says, so that the bytes and the *)
(* texts made of them are left untyped.  The second says which bytes stand  *)
(* for a request, and what each of them does to the parser and to what is   *)
(* kept of the request.                                                     *)
(***************************************************************************)
EXTENDS Connection, ApeArray_proof

\* A body is waited for only while some of it is to come, so that the length
\* never goes below 0.
ParserOK(p) ==
  /\ p \in HttpParser
  /\ p.state = "BT" => p.body
  /\ p.body /\ ~p.ready => p.cl # 0

\* client->http, whatever its buffers hold.
HttpLike(h) ==
  /\ h \in [p : HttpParser, method : Methods, transport : Transports,
            path : Memory({h.path.text}), list : Memory({h.list.text}),
            line : Memory({h.line.text})]
  /\ ParserOK(h.p)

\* While a request is read the buffers are there; the path is never dangling.
BuffersOK(h) ==
  /\ h.p.state # "GO" /\ ~h.p.ready =>
       h.path.at = "live" /\ h.list.at = "live" /\ h.line.at = "live"
  /\ h.path.at # "freed"

\* The part of TypeOK that does not depend on bytes.
StateOK ==
  /\ i \in Nat
  /\ pc \in {"idle", "http", "ws", "closed", "crashed"}
  /\ link \in {"up", "eof", "shut", "broken", "gone"}
  /\ HttpLike(http)
  /\ session \in {0, 1}

\* What on_disconnect leaves is not looked at again.
MemoryInv == (pc # "closed" => BuffersOK(http)) /\ http.path.at # "freed"

\* After an upgrade the parser of requests stays where it is.
UpgradeInv ==
  /\ ws # <<>> => http.p.ready
  /\ pc = "ws" => ws # <<>>

\* No request is read or waited for on a socket that was destroyed.
OnlineInv == pc \in {"idle", "http"} => link # "gone"

ConnectionInv == StateOK /\ MemoryInv /\ UpgradeInv /\ OnlineInv

-----------------------------------------------------------------------------
(* The parser of requests. *)

\* What a result of the parser says of the byte: the parser stays well formed
\* and never goes back to its beginning by itself; a byte that is taken at the
\* beginning is a method.
ByteOK(p, r) ==
  /\ ParserOK(r.p)
  /\ r.p.state = "GO" => p.state = "GO"
  /\ r.ok => (r.p.ready <=> r.ready)

\* An accepted byte leads to q, ready or not.
LEMMA AcceptsFacts ==
  ASSUME NEW q, NEW calls
  PROVE  /\ Accepts(q, calls).p = q /\ Accepts(q, calls).calls = calls
         /\ Accepts(q, calls).ok /\ ~Accepts(q, calls).ready
         /\ Refuses(q).p = q /\ Refuses(q).calls = <<>>
         /\ ~Refuses(q).ok /\ ~Refuses(q).ready
BY DEF Accepts, Refuses

\* Moves changes the state only.
LEMMA MovesOK ==
  ASSUME NEW p, ParserOK(p), ~p.ready, NEW state \in HttpStates \ {"GO"}, NEW calls,
         state = "BT" => p.body
  PROVE  /\ ByteOK(p, Moves(p, state, calls))
         /\ Moves(p, state, calls).ok /\ Moves(p, state, calls).calls = calls
         /\ ~Moves(p, state, calls).ready
<1> DEFINE q == [p EXCEPT !.state = state]
<1>1. /\ q \in HttpParser /\ q.state = state /\ q.cl = p.cl
      /\ q.body <=> p.body
      /\ q.ready <=> p.ready
  BY DEF ParserOK, HttpParser
<1>2. Moves(p, state, calls) = Accepts(q, calls)
  BY DEF Moves
<1> HIDE DEF q
<1>3. ParserOK(q)
  BY <1>1 DEF ParserOK
<1> QED
  BY <1>1, <1>2, <1>3, AcceptsFacts DEF ByteOK, HttpStates

\* A byte is refused without effect.
LEMMA RefusesOK ==
  ASSUME NEW p, ParserOK(p)
  PROVE  ByteOK(p, Refuses(p)) /\ ~Refuses(p).ok
BY AcceptsFacts DEF ByteOK

\* A character of the body, of which something was to come.
LEMMA ConsumedOK ==
  ASSUME NEW p, ParserOK(p), ~p.ready, p.body, NEW calls
  PROVE  ByteOK(p, Consumed(p, calls)) /\ Consumed(p, calls).calls = calls
<1>1. p.cl \in Nat /\ p.cl # 0
  BY DEF ParserOK, HttpParser
<1> DEFINE q(last) == [p EXCEPT !.state = "BT", !.cl = @ - 1, !.ready = last]
           r(last) == [Accepts(q(last), calls) EXCEPT !.ready = last]
<1>2. ASSUME NEW last \in BOOLEAN, last <=> p.cl = 1
      PROVE  ByteOK(p, r(last)) /\ r(last).calls = calls
  <2>1. /\ q(last) \in HttpParser /\ q(last).state = "BT" /\ q(last).cl = p.cl - 1
        /\ q(last).body
    <3>1. p.cl - 1 \in Nat /\ "BT" \in HttpStates
      BY <1>1 DEF HttpStates
    <3> QED BY <3>1, <1>2 DEF ParserOK, HttpParser
  <2>2. q(last).ready = last
    BY DEF ParserOK, HttpParser
  <2>3. r(last).p = q(last) /\ r(last).ready = last /\ r(last).ok /\ r(last).calls = calls
    <3> HIDE DEF q
    <3> QED BY DEF Accepts
  <2> HIDE DEF q, r
  <2>4. ParserOK(q(last))
    BY <1>1, <1>2, <2>1, <2>2 DEF ParserOK
  <2> QED
    BY <2>1, <2>2, <2>3, <2>4 DEF ByteOK
<1>3. Consumed(p, calls) = r(p.cl = 1)
  BY DEF Consumed
<1> HIDE DEF r
<1>4. CASE p.cl = 1
  BY <1>2, <1>3, <1>4, (p.cl = 1) = TRUE
<1>5. CASE p.cl # 1
  BY <1>2, <1>3, <1>5, (p.cl = 1) = FALSE
<1> QED
  BY <1>4, <1>5

\* A character of an escape.
LEMMA InEscapeOK ==
  ASSUME NEW p, ParserOK(p), ~p.ready, NEW state \in {"E1", "E2"}
  PROVE  ByteOK(p, InEscape(p, state)) /\ InEscape(p, state).calls = <<>>
<1> state \in HttpStates \ {"GO"} /\ state # "BT"
  BY DEF HttpStates
<1>1. CASE ~p.body
  <2>1. InEscape(p, state) = Moves(p, state, <<>>)
    BY <1>1 DEF InEscape
  <2> QED BY <2>1, MovesOK
<1>2. CASE p.body /\ p.cl = 1
  <2> DEFINE q == [p EXCEPT !.cl = 0, !.ready = TRUE]
  <2>1. q \in HttpParser /\ q.state = p.state /\ q.body = p.body /\ q.ready
    BY DEF ParserOK, HttpParser
  <2>2. InEscape(p, state) = Refuses(q)
    BY <1>2 DEF InEscape
  <2> HIDE DEF q
  <2>3. ParserOK(q)
    BY <2>1 DEF ParserOK
  <2> QED BY <2>1, <2>2, <2>3, AcceptsFacts DEF ByteOK
<1>3. CASE p.body /\ p.cl # 1
  <2> DEFINE q == [p EXCEPT !.cl = @ - 1]
  <2>1. p.cl \in Nat /\ p.cl # 0
    BY <1>3 DEF ParserOK, HttpParser
  <2>2. /\ q \in HttpParser /\ q.state = p.state /\ q.body /\ ~q.ready
        /\ q.cl # 0
    BY <2>1, <1>3 DEF ParserOK, HttpParser
  <2>3. InEscape(p, state) = Moves(q, state, <<>>)
    BY <1>3 DEF InEscape
  <2> HIDE DEF q
  <2>4. ParserOK(q)
    BY <2>2 DEF ParserOK
  <2> QED BY <2>2, <2>3, <2>4, MovesOK DEF ByteOK
<1> QED
  BY <1>1, <1>2, <1>3


\* A callback "method" is given one.
CallsOK(calls) ==
  calls # <<>> /\ calls[1].what = "method" => calls[1].value \in Methods

LEMMA CallFacts ==
  ASSUME NEW what, NEW value
  PROVE  /\ Call(what, value) # <<>>
         /\ Call(what, value)[1].what = what /\ Call(what, value)[1].value = value
BY DEF Call

\* Callbacks of other kinds.
LEMMA OtherCalls ==
  /\ CallsOK(<<>>)
  /\ \A what, value : what # "method" => CallsOK(Call(what, value))
BY CallFacts DEF CallsOK

\* What a state does with a byte keeps the parser well formed.
StepOK(p, r) == ByteOK(p, r) /\ CallsOK(r.calls)

LEMMA Moving ==
  ASSUME NEW p, ParserOK(p), ~p.ready, NEW state \in HttpStates \ {"GO", "BT"},
         NEW what, what # "method", NEW value
  PROVE  StepOK(p, Moves(p, state, Call(what, value)))
BY MovesOK, OtherCalls DEF StepOK

LEMMA MovingOnly ==
  ASSUME NEW p, ParserOK(p), ~p.ready, NEW state \in HttpStates \ {"GO", "BT"}
  PROVE  StepOK(p, Moves(p, state, <<>>))
BY MovesOK, OtherCalls DEF StepOK

LEMMA Refusing ==
  ASSUME NEW p, ParserOK(p)
  PROVE  StepOK(p, Refuses(p)) /\ ~Refuses(p).ok
BY RefusesOK, OtherCalls, AcceptsFacts DEF StepOK

LEMMA StatesOf ==
  {"PT", "H1", "EL", "C1", "HH", "HI", "CV", "E1", "E2"} \subseteq HttpStates \ {"GO", "BT"}
BY DEF HttpStates

\* The first byte of a request is its method.
LEMMA StartOK ==
  ASSUME NEW p, ParserOK(p), ~p.ready, NEW t
  PROVE  /\ StepOK(p, Start(p, t))
         /\ Start(p, t).ok => /\ Start(p, t).calls # <<>>
                              /\ Start(p, t).calls[1].what = "method"
         /\ ~Start(p, t).ok => Start(p, t).p = p
<1>1. CASE t \notin Methods
  BY <1>1, Refusing, AcceptsFacts DEF Start
<1>2. CASE t \in Methods
  <2> DEFINE q(post) == [p EXCEPT !.post = post]
  <2>1. ASSUME NEW post \in BOOLEAN
        PROVE  /\ q(post) \in HttpParser /\ q(post).state = p.state
               /\ q(post).body <=> p.body
               /\ q(post).ready <=> p.ready
               /\ q(post).cl = p.cl
    BY DEF ParserOK, HttpParser
  <2>2. Start(p, t) = Moves(q(t = "POST"), "PT", Call("method", t))
    BY <1>2 DEF Start
  <2> HIDE DEF q
  <2>3. ASSUME NEW post \in BOOLEAN
        PROVE  /\ ParserOK(q(post)) /\ ~q(post).ready
               /\ ByteOK(q(post), Moves(q(post), "PT", Call("method", t)))
               /\ Moves(q(post), "PT", Call("method", t)).calls = Call("method", t)
               /\ Moves(q(post), "PT", Call("method", t)).ok
    <3>1. ParserOK(q(post)) /\ ~q(post).ready
      BY <2>1 DEF ParserOK
    <3> QED BY <3>1, MovesOK, StatesOf
  <2>4. (t = "POST") \in BOOLEAN
    OBVIOUS
  <2>5. /\ ByteOK(q(t = "POST"), Start(p, t)) /\ q(t = "POST").state = p.state
        /\ Start(p, t).calls = Call("method", t) /\ Start(p, t).ok
    <3>1. CASE t = "POST"
      BY <3>1, <2>1, <2>2, <2>3, (t = "POST") = TRUE
    <3>2. CASE t # "POST"
      BY <3>2, <2>1, <2>2, <2>3, (t = "POST") = FALSE
    <3> QED BY <3>1, <3>2
  <2> QED BY <2>5, <1>2, CallFacts DEF StepOK, ByteOK, CallsOK
<1> QED BY <1>1, <1>2

\* The path, the query and their escapes.
LEMMA PathOrQsOK ==
  ASSUME NEW p, ParserOK(p), ~p.ready, NEW t
  PROVE  StepOK(p, PathOrQs(p, t))
BY Moving, StatesOf DEF PathOrQs

LEMMA PathEndOK ==
  ASSUME NEW p, ParserOK(p), ~p.ready, NEW state \in HttpStates \ {"GO", "BT"}, NEW q
  PROVE  StepOK(p, Moves(p, state, PathEnd(q)))
BY Moving, MovingOnly DEF PathEnd

LEMMA PathOK ==
  ASSUME NEW p, ParserOK(p), ~p.ready, NEW t
  PROVE  StepOK(p, Path(p, t))
<1> DEFINE q == [p EXCEPT !.qs = TRUE]
<1>1. /\ q \in HttpParser /\ q.state = p.state /\ q.cl = p.cl
      /\ q.body <=> p.body
      /\ q.ready <=> p.ready
  BY DEF ParserOK, HttpParser
<1> HIDE DEF q
<1>2. ParserOK(q) /\ ~q.ready
  BY <1>1 DEF ParserOK
<1>3. StepOK(q, Moves(q, "PT", PathEnd(p)))
  BY <1>2, PathEndOK, StatesOf
<1>4. StepOK(p, Moves(q, "PT", PathEnd(p)))
  BY <1>1, <1>3 DEF StepOK, ByteOK
<1>5. StepOK(p, Moves(p, "H1", PathEnd(p)))
  BY PathEndOK, StatesOf
<1>6. StepOK(p, Moves(p, "E1", <<>>)) /\ StepOK(p, Refuses(p)) /\ StepOK(p, PathOrQs(p, t))
  BY MovingOnly, Refusing, PathOrQsOK, StatesOf
<1> QED
  BY <1>4, <1>5, <1>6 DEF Path, q


\* The headers end: a body is waited for if its length is not 0.
LEMMA HeadersEndOK ==
  ASSUME NEW p, ParserOK(p), ~p.ready, p.state # "GO"
  PROVE  StepOK(p, HeadersEnd(p))
<1> DEFINE q == IF p.post
                THEN [p EXCEPT !.state = "BT", !.qs = TRUE, !.body = TRUE] ELSE p
           r(now) == [Accepts([q EXCEPT !.ready = now], <<>>) EXCEPT !.ready = now]
<1>1. q \in HttpParser /\ q.state # "GO" /\ (q.state = "BT" => q.body) /\ q.cl = p.cl
  BY DEF ParserOK, HttpParser, HttpStates
<1>2. p.post \/ (q.body <=> p.body)
  OBVIOUS
<1>3. ASSUME NEW now \in BOOLEAN, now <=> ~p.post \/ p.cl = 0
      PROVE  StepOK(p, r(now))
  <2> DEFINE s == [q EXCEPT !.ready = now]
  <2> HIDE DEF q
  <2>1. s \in HttpParser /\ s.state = q.state /\ s.cl = q.cl /\ (s.body <=> q.body)
    BY <1>1 DEF HttpParser
  <2>2. s.ready <=> now
    BY <1>1 DEF HttpParser
  <2>3. r(now).p = s /\ r(now).ready = now /\ r(now).ok /\ r(now).calls = <<>>
    <3> HIDE DEF s
    <3>1. r(now) = [Accepts(s, <<>>) EXCEPT !.ready = now]
      BY DEF s
    <3> HIDE DEF r
    <3> QED BY <3>1 DEF Accepts
  <2> HIDE DEF s, r
  <2>4. ParserOK(s)
    BY <1>1, <1>3, <2>1, <2>2 DEF ParserOK
  <2> QED
    BY <1>1, <2>1, <2>2, <2>3, <2>4, OtherCalls DEF StepOK, ByteOK
<1>4. HeadersEnd(p) = r(~p.post \/ p.cl = 0)
  BY DEF HeadersEnd
<1> HIDE DEF r
<1>5. CASE ~p.post \/ p.cl = 0
  BY <1>3, <1>4, <1>5, (~p.post \/ p.cl = 0) = TRUE
<1>6. CASE ~(~p.post \/ p.cl = 0)
  BY <1>3, <1>4, <1>6, (~p.post \/ p.cl = 0) = FALSE
<1> QED BY <1>5, <1>6

\* A header line, its key and its value.
LEMMA HeaderLineOK ==
  ASSUME NEW p, ParserOK(p), ~p.ready, p.state # "GO", NEW t
  PROVE  StepOK(p, HeaderLine(p, t))
BY HeadersEndOK, Moving, Refusing, StatesOf DEF HeaderLine

LEMMA HeaderKeyOK ==
  ASSUME NEW p, ParserOK(p), ~p.ready, NEW t
  PROVE  StepOK(p, HeaderKey(p, t))
BY Moving, Refusing, StatesOf DEF HeaderKey

LEMMA HeaderValueOK ==
  ASSUME NEW p, ParserOK(p), ~p.ready, NEW t
  PROVE  StepOK(p, HeaderValue(p, t))
BY Moving, StatesOf DEF HeaderValue

\* The length of the body grows digit by digit, and is kept even if it is
\* refused.
LEMMA ContentLengthOK ==
  ASSUME NEW p, ParserOK(p), ~p.ready, p.state # "GO", NEW t
  PROVE  StepOK(p, ContentLength(p, t))
<1>1. CASE t = "nl"
  BY <1>1, Moving, StatesOf DEF ContentLength
<1>2. CASE t # "nl" /\ t \notin DOMAIN Digit
  BY <1>2, Refusing DEF ContentLength
<1>3. CASE t # "nl" /\ t \in DOMAIN Digit
  <2> DEFINE cl == p.cl * 10 + Digit[t]
             q == [p EXCEPT !.cl = cl]
  <2>1. Digit[t] \in Nat
    BY <1>3 DEF Digit
  <2>2. p.cl \in Nat
    BY DEF ParserOK, HttpParser
  <2>3. cl \in Nat /\ (p.cl # 0 => cl # 0)
    BY <2>1, <2>2
  <2>4. ContentLength(p, t) = IF cl > MaxCl THEN Refuses(q) ELSE Accepts(q, <<>>)
    BY <1>3 DEF ContentLength
  <2> HIDE DEF cl
  <2>5. /\ q \in HttpParser /\ q.state = p.state /\ q.cl = cl
        /\ q.body <=> p.body
        /\ q.ready <=> p.ready
    BY <2>3 DEF ParserOK, HttpParser
  <2> HIDE DEF q
  <2>6. ParserOK(q)
    BY <2>3, <2>5 DEF ParserOK
  <2>7. StepOK(p, Accepts(q, <<>>)) /\ StepOK(p, Refuses(q))
    BY <2>5, <2>6, AcceptsFacts, OtherCalls DEF StepOK, ByteOK
  <2> QED BY <2>4, <2>7
<1> QED BY <1>1, <1>2, <1>3

\* The body, and the end of an escape in it or in the path.
LEMMA EscapeEndsOK ==
  ASSUME NEW p, ParserOK(p), ~p.ready
  PROVE  StepOK(p, EscapeEnds(p))
BY ConsumedOK, PathOrQsOK, OtherCalls DEF EscapeEnds, StepOK

LEMMA BodyOK ==
  ASSUME NEW p, ParserOK(p), ~p.ready, p.state = "BT", NEW t
  PROVE  StepOK(p, Body(p, t))
<1>1. p.body
  BY DEF ParserOK
<1>2. StepOK(p, InEscape(p, "E1")) /\ StepOK(p, Refuses(p))
  BY InEscapeOK, Refusing, OtherCalls DEF StepOK
<1>3. StepOK(p, Consumed(p, Call("body_char", t)))
  BY <1>1, ConsumedOK, OtherCalls DEF StepOK
<1> QED BY <1>2, <1>3 DEF Body

LEMMA TransitionOK ==
  ASSUME NEW p, ParserOK(p), ~p.ready, NEW t
  PROVE  /\ StepOK(p, Transition(p, t))
         /\ p.state = "GO" /\ Transition(p, t).ok =>
              /\ Transition(p, t).calls # <<>>
              /\ Transition(p, t).calls[1].what = "method"
         /\ p.state = "GO" /\ ~Transition(p, t).ok => Transition(p, t).p = p
<1>1. CASE p.state = "GO"
  BY <1>1, StartOK DEF Transition
<1>2. CASE p.state = "PT"
  BY <1>2, PathOK DEF Transition
<1>3. CASE p.state = "H1"
  BY <1>3, MovingOnly, Refusing, StatesOf DEF Transition
<1>4. CASE p.state = "EL"
  BY <1>4, MovingOnly, Refusing, StatesOf DEF Transition
<1>5. CASE p.state = "C1"
  BY <1>5, HeaderLineOK DEF Transition
<1>6. CASE p.state = "HH"
  BY <1>6, HeaderKeyOK DEF Transition
<1>7. CASE p.state = "HI"
  BY <1>7, HeaderValueOK DEF Transition
<1>8. CASE p.state = "CV"
  BY <1>8, ContentLengthOK DEF Transition
<1>9. CASE p.state = "E1"
  <2>1. StepOK(p, InEscape(p, "E2")) /\ StepOK(p, Refuses(p))
    BY InEscapeOK, Refusing, OtherCalls DEF StepOK
  <2> QED BY <1>9, <2>1 DEF Transition
<1>10. CASE p.state = "E2"
  BY <1>10, EscapeEndsOK, Refusing DEF Transition
<1>11. CASE p.state = "BT"
  BY <1>11, BodyOK DEF Transition
<1> QED
  BY <1>1, <1>2, <1>3, <1>4, <1>5, <1>6, <1>7, <1>8, <1>9, <1>10, <1>11
     DEF ParserOK, HttpParser, HttpStates

\* Every byte keeps the parser well formed: it never reads a body of which
\* nothing is to come; a complete request takes no more of them.
LEMMA ParserKept ==
  ASSUME NEW p, ParserOK(p), NEW t
  PROVE  /\ StepOK(p, parse_http_char(p, t))
         /\ p.ready => parse_http_char(p, t) = Refuses(p)
         /\ p.state = "GO" /\ parse_http_char(p, t).ok =>
              /\ parse_http_char(p, t).calls # <<>>
              /\ parse_http_char(p, t).calls[1].what = "method"
         /\ p.state = "GO" /\ ~parse_http_char(p, t).ok => parse_http_char(p, t).p = p
<1>1. CASE p.ready \/ t = "nul"
  <2>1. parse_http_char(p, t) = Refuses(p)
    BY <1>1 DEF parse_http_char
  <2> QED BY <2>1, Refusing, AcceptsFacts
<1>2. CASE ~p.ready /\ t # "nul"
  <2>1. parse_http_char(p, t) = Transition(p, t)
    BY <1>2 DEF parse_http_char
  <2> QED BY <1>2, <2>1, TransitionOK
<1> QED BY <1>1, <1>2


-----------------------------------------------------------------------------
(* The buffers of a request. *)

\* The same buffer with something else in it, and client->http with a field set.
WithText(m, text) == [m EXCEPT !.text = text]
WithParser(h, p) == [h EXCEPT !.p = p]
WithMethod(h, method) == [h EXCEPT !.method = method]
WithTransport(h, t) == [h EXCEPT !.transport = t]
WithPath(h, m) == [h EXCEPT !.path = m]
WithList(h, m) == [h EXCEPT !.list = m]
WithLine(h, m) == [h EXCEPT !.line = m]

\* A buffer, whatever it holds.
IsMemory(m) == m \in Memory({m.text})

\* A buffer that holds something else is still where it was.
LEMMA MemoryFacts ==
  /\ \A m, text : IsMemory(m) => IsMemory(WithText(m, text)) /\ WithText(m, text).at = m.at
  /\ \A text : IsMemory(Live(text)) /\ Live(text).at = "live"
  /\ IsMemory(Null) /\ Null.at = "null"
  /\ IsMemory(Freed) /\ Freed.at = "freed"
BY DEF IsMemory, WithText, Memory, Live, Null, Freed

\* h and g differ in what is not a buffer.
SameBuffers(h, g) == g.path = h.path /\ g.list = h.list /\ g.line = h.line

\* The fields of client->http.
LEMMA HttpFacts ==
  ASSUME NEW h, HttpLike(h)
  PROVE  /\ \A p : ParserOK(p) =>
              /\ HttpLike(WithParser(h, p)) /\ WithParser(h, p).p = p
              /\ SameBuffers(h, WithParser(h, p))
         /\ \A method \in Methods :
              /\ HttpLike(WithMethod(h, method)) /\ WithMethod(h, method).p = h.p
              /\ SameBuffers(h, WithMethod(h, method))
         /\ \A t \in Transports :
              /\ HttpLike(WithTransport(h, t)) /\ WithTransport(h, t).p = h.p
              /\ SameBuffers(h, WithTransport(h, t))
<1>1. HttpLike(h)
  OBVIOUS
<1>2. ASSUME NEW p, ParserOK(p)
      PROVE  /\ HttpLike(WithParser(h, p)) /\ WithParser(h, p).p = p
             /\ SameBuffers(h, WithParser(h, p))
  BY <1>1, <1>2 DEF HttpLike, ParserOK, WithParser, SameBuffers
<1>3. ASSUME NEW method \in Methods
      PROVE  /\ HttpLike(WithMethod(h, method)) /\ WithMethod(h, method).p = h.p
             /\ SameBuffers(h, WithMethod(h, method))
  BY <1>1 DEF HttpLike, WithMethod, SameBuffers
<1>4. ASSUME NEW t \in Transports
      PROVE  /\ HttpLike(WithTransport(h, t)) /\ WithTransport(h, t).p = h.p
             /\ SameBuffers(h, WithTransport(h, t))
  BY <1>1 DEF HttpLike, WithTransport, SameBuffers
<1> QED BY <1>2, <1>3, <1>4

LEMMA PathFacts ==
  ASSUME NEW h, HttpLike(h), NEW m, IsMemory(m)
  PROVE  /\ HttpLike(WithPath(h, m)) /\ WithPath(h, m).p = h.p /\ WithPath(h, m).path = m
         /\ WithPath(h, m).list = h.list /\ WithPath(h, m).line = h.line
BY DEF HttpLike, IsMemory, WithPath

LEMMA ListFacts ==
  ASSUME NEW h, HttpLike(h), NEW m, IsMemory(m)
  PROVE  /\ HttpLike(WithList(h, m)) /\ WithList(h, m).p = h.p /\ WithList(h, m).list = m
         /\ WithList(h, m).path = h.path /\ WithList(h, m).line = h.line
BY DEF HttpLike, IsMemory, WithList

LEMMA LineFacts ==
  ASSUME NEW h, HttpLike(h), NEW m, IsMemory(m)
  PROVE  /\ HttpLike(WithLine(h, m)) /\ WithLine(h, m).p = h.p /\ WithLine(h, m).line = m
         /\ WithLine(h, m).path = h.path /\ WithLine(h, m).list = h.list
BY DEF HttpLike, IsMemory, WithLine

LEMMA BuffersAre ==
  ASSUME NEW h, HttpLike(h)
  PROVE  ParserOK(h.p) /\ IsMemory(h.path) /\ IsMemory(h.list) /\ IsMemory(h.line)
BY DEF HttpLike, IsMemory

\* A callback leaves each buffer where it was, or allocates it.
LeftOrAllocated(h, g) ==
  /\ HttpLike(g) /\ g.p = h.p
  /\ g.path.at \in {h.path.at, "live"}
  /\ g.list.at \in {h.list.at, "live"}
  /\ g.line.at \in {h.line.at, "live"}

AllLive(h) == h.path.at = "live" /\ h.list.at = "live" /\ h.line.at = "live"

LEMMA LeftAlone == ASSUME NEW h, HttpLike(h) PROVE LeftOrAllocated(h, h)
BY DEF LeftOrAllocated

LEMMA TransportKnown == \A path : ape_get_transport(path) \in Transports
BY DEF ape_get_transport, Transports

\* A request begins: everything it is kept in is allocated.
LEMMA BeginningAllocates ==
  ASSUME NEW h, HttpLike(h), NEW method \in Methods, NEW list, NEW line, NEW r,
         r = WithLine(WithList(WithPath(WithMethod(h, method), Live(<<>>)), Live(list)),
                      Live(line))
  PROVE  LeftOrAllocated(h, r) /\ AllLive(r)
<1> DEFINE h1 == WithMethod(h, method)
           h2 == WithPath(h1, Live(<<>>))
           h3 == WithList(h2, Live(list))
           h4 == WithLine(h3, Live(line))
<1>1. IsMemory(Live(<<>>)) /\ IsMemory(Live(list)) /\ IsMemory(Live(line))
  BY MemoryFacts
<1>2. HttpLike(h1) /\ h1.p = h.p
  BY HttpFacts
<1>3. HttpLike(h2) /\ h2.p = h.p /\ h2.path = Live(<<>>)
  BY <1>1, <1>2, PathFacts
<1>4. HttpLike(h3) /\ h3.p = h.p /\ h3.path = Live(<<>>) /\ h3.list = Live(list)
  BY <1>1, <1>3, ListFacts
<1>5. /\ HttpLike(h4) /\ h4.p = h.p /\ h4.path = Live(<<>>) /\ h4.list = Live(list)
      /\ h4.line = Live(line)
  BY <1>1, <1>4, LineFacts
<1>6. r = h4
  OBVIOUS
<1> HIDE DEF h4
<1> QED BY <1>5, <1>6, MemoryFacts DEF LeftOrAllocated, AllLive

\* Something is appended to the path, or to the line of a header.
LEMMA AppendingKeeps ==
  ASSUME NEW h, HttpLike(h), NEW text
  PROVE  /\ LeftOrAllocated(h, WithPath(h, WithText(h.path, text)))
         /\ LeftOrAllocated(h, WithLine(h, WithText(h.line, text)))
<1>1. IsMemory(h.path) /\ IsMemory(h.line)
  BY BuffersAre
<1>2. /\ IsMemory(WithText(h.path, text)) /\ WithText(h.path, text).at = h.path.at
      /\ IsMemory(WithText(h.line, text)) /\ WithText(h.line, text).at = h.line.at
  BY <1>1, MemoryFacts
<1>3. LeftOrAllocated(h, WithPath(h, WithText(h.path, text)))
  BY <1>2, PathFacts DEF LeftOrAllocated
<1>4. LeftOrAllocated(h, WithLine(h, WithText(h.line, text)))
  BY <1>2, LineFacts DEF LeftOrAllocated
<1> QED BY <1>3, <1>4

\* A header is added to the list, and the next line begins.
LEMMA HeaderKeeps ==
  ASSUME NEW h, HttpLike(h), NEW text, NEW line
  PROVE  LeftOrAllocated(h, WithLine(WithList(h, WithText(h.list, text)), Live(line)))
<1> DEFINE m == WithText(h.list, text)
           g == WithList(h, m)
<1>1. IsMemory(m) /\ m.at = h.list.at
  BY MemoryFacts, BuffersAre
<1>2. HttpLike(g) /\ g.p = h.p /\ g.path = h.path /\ g.list = m /\ g.line = h.line
  BY <1>1, ListFacts
<1>3. IsMemory(Live(line)) /\ Live(line).at = "live"
  BY MemoryFacts
<1> HIDE DEF g
<1>4. LeftOrAllocated(h, WithLine(g, Live(line)))
  BY <1>1, <1>2, <1>3, LineFacts DEF LeftOrAllocated
<1> QED BY <1>4 DEF g

\* ape_http_callback.
LEMMA CallbackKeeps ==
  ASSUME NEW h, HttpLike(h), NEW j, NEW e, e.what = "method" => e.value \in Methods
  PROVE  /\ LeftOrAllocated(h, ape_http_callback([h |-> h, j |-> j], e).h)
         /\ e.what = "method" => AllLive(ape_http_callback([h |-> h, j |-> j], e).h)
<1> DEFINE c == [h |-> h, j |-> j]
           r == ape_http_callback(c, e)
<1> c.h = h /\ c.j = j
  OBVIOUS
<1>1. CASE e.what = "method"
  <2>1. r = [c EXCEPT !.h.method = e.value, !.h.path = Live(<<>>),
                      !.h.list = Live(ape_array_new), !.h.line = Live(NewLine)]
    BY <1>1 DEF ape_http_callback
  <2>2. r.h = WithLine(WithList(WithPath(WithMethod(h, e.value), Live(<<>>)),
                                Live(ape_array_new)), Live(NewLine))
    BY <2>1 DEF WithLine, WithList, WithPath, WithMethod
  <2> QED BY <1>1, <2>2, BeginningAllocates
<1>2. CASE e.what = "path_char"
  <2>1. r = [c EXCEPT !.h.path.text = Append(@, e.value)]
    BY <1>2 DEF ape_http_callback
  <2>2. r.h = WithPath(h, WithText(h.path, Append(h.path.text, e.value)))
    BY <2>1 DEF WithPath, WithText
  <2> QED BY <1>2, <2>2, AppendingKeeps
<1>3. CASE e.what = "path_end"
  <2> DEFINE t == ape_get_transport(h.path.text)
  <2>1. r.h = WithTransport(h, t)
    BY <1>3 DEF ape_http_callback, WithTransport
  <2>2. t \in Transports
    BY TransportKnown
  <2> HIDE DEF t
  <2> QED BY <1>3, <2>1, <2>2, HttpFacts DEF LeftOrAllocated, SameBuffers
<1>4. CASE e.what \in {"qs_char", "body_char"}
  <2>1. r.h = h
    BY <1>4 DEF ape_http_callback
  <2> QED BY <1>4, <2>1, LeftAlone
<1>5. CASE e.what \in {"header_keyc", "header_valc"}
  <2> DEFINE key == [h.line.text EXCEPT !.key = Append(@, e.value)]
             value == [h.line.text EXCEPT !.value = Append(@, e.value)]
  <2>1. r.h = WithLine(h, WithText(h.line, key)) \/ r.h = WithLine(h, WithText(h.line, value))
    BY <1>5 DEF ape_http_callback, WithLine, WithText
  <2> HIDE DEF key, value, r
  <2> QED BY <1>5, <2>1, AppendingKeeps DEF r
<1>6. CASE e.what = "header_val"
  <2> DEFINE text == ape_array_add(h.list.text, h.line.text.key, h.line.text.value)
  <2>1. r.h = WithLine(WithList(h, WithText(h.list, text)), Live(NewLine))
    BY <1>6 DEF ape_http_callback, WithLine, WithList, WithText
  <2> HIDE DEF text
  <2> QED BY <1>6, <2>1, HeaderKeeps
<1>7. CASE e.what \notin {"method", "path_char", "path_end", "qs_char", "body_char",
                          "header_keyc", "header_valc", "header_val"}
  <2>1. r.h = h
    BY <1>7 DEF ape_http_callback
  <2> QED BY <1>7, <2>1, LeftAlone
<1> QED
  BY <1>1, <1>2, <1>3, <1>4, <1>5, <1>6, <1>7


\* The callbacks find what they write to, and the next byte's will.
LEMMA AfterByteOK ==
  ASSUME HttpLike(http), BuffersOK(http), Byte.ok
  PROVE  /\ HttpLike(AfterByte.h) /\ BuffersOK(AfterByte.h)
         /\ AfterByte.h.p = Byte.p
         /\ ~http.p.ready /\ (AfterByte.h.p.ready <=> Byte.ready)
<1> DEFINE h == WithParser(http, Byte.p)
           c == [h |-> h, j |-> parser]
           e == Byte.calls[1]
           after == IF Byte.calls = <<>> THEN c ELSE ape_http_callback(c, e)
           g == after.h
<1>1. ParserOK(http.p)
  BY BuffersAre
<1>2. /\ StepOK(http.p, Byte) /\ ~http.p.ready
      /\ http.p.state = "GO" => Byte.calls # <<>> /\ e.what = "method"
  BY <1>1, ParserKept, Refusing DEF Byte
<1>3. /\ ParserOK(Byte.p) /\ (Byte.p.ready <=> Byte.ready)
      /\ Byte.calls # <<>> /\ e.what = "method" => e.value \in Methods
  BY <1>2 DEF StepOK, ByteOK, CallsOK
<1>4. HttpLike(h) /\ h.p = Byte.p /\ SameBuffers(http, h)
  BY <1>3, HttpFacts
<1>5. AfterByte = IF Byte.ready THEN [after EXCEPT !.h.line = Freed] ELSE after
  BY DEF AfterByte, WithParser
<1> HIDE DEF h
<1>6. /\ LeftOrAllocated(h, g)
      /\ http.p.state = "GO" => AllLive(g)
  <2>1. CASE Byte.calls = <<>>
    <3>1. g = h
      BY <2>1
    <3> HIDE DEF g
    <3> QED BY <2>1, <3>1, <1>2, <1>4, LeftAlone
  <2>2. CASE Byte.calls # <<>>
    <3>1. g = ape_http_callback(c, e).h
      BY <2>2
    <3> HIDE DEF g, e
    <3> QED BY <2>2, <3>1, <1>2, <1>3, <1>4, CallbackKeeps
  <2> QED BY <2>1, <2>2
<1>7. AfterByte.h = IF Byte.ready THEN WithLine(g, Freed) ELSE g
  <2>1. CASE Byte.calls = <<>>
    BY <2>1, <1>5 DEF WithLine
  <2>2. CASE Byte.calls # <<>>
    <3> \E a : a = ape_http_callback(c, e)
      OBVIOUS
    <3> QED BY <2>2, <1>5 DEF WithLine
  <2> QED BY <2>1, <2>2
<1> HIDE DEF g
<1>8. CASE Byte.ready
  <2>1. IsMemory(Freed)
    BY MemoryFacts
  <2>2. /\ HttpLike(AfterByte.h) /\ AfterByte.h.p = g.p /\ AfterByte.h.path = g.path
    BY <1>6, <1>7, <1>8, <2>1, LineFacts DEF LeftOrAllocated
  <2> QED BY <1>2, <1>3, <1>4, <1>6, <1>8, <2>2 DEF LeftOrAllocated, BuffersOK, SameBuffers
<1>9. CASE ~Byte.ready
  <2>1. AfterByte.h = g
    BY <1>7, <1>9
  <2>2. HttpLike(g) /\ g.p = Byte.p /\ g.path.at # "freed"
    BY <1>4, <1>6 DEF LeftOrAllocated, BuffersOK, SameBuffers
  <2>3. AllLive(g)
    BY <1>2, <1>4, <1>6 DEF LeftOrAllocated, BuffersOK, SameBuffers, AllLive
  <2> QED BY <1>2, <1>3, <1>9, <2>1, <2>2, <2>3 DEF BuffersOK, AllLive
<1> QED BY <1>8, <1>9

\* on_disconnect frees the path, and the end of a request all of it.
LEMMA DestroyedOK ==
  ASSUME NEW h, HttpLike(h)
  PROVE  /\ HttpLike(Destroyed(h)) /\ Destroyed(h).p = h.p
         /\ Destroyed(h).path.at = "null"
<1>1. Destroyed(h) = WithPath(h, Null)
  BY DEF Destroyed, WithPath
<1> QED BY <1>1, PathFacts, MemoryFacts

LEMMA NewParserOK ==
  ParserOK(NewHttpParser) /\ NewHttpParser.state = "GO" /\ ~NewHttpParser.ready
BY DEF ParserOK, NewHttpParser, HttpParser, HttpStates

LEMMA ResetOK ==
  ASSUME NEW h, HttpLike(h)
  PROVE  HttpLike(Reset(h)) /\ BuffersOK(Reset(h)) /\ ~Reset(h).p.ready
<1> DEFINE h1 == WithParser(h, NewHttpParser)
           h2 == WithMethod(h1, "GET")
           h3 == WithTransport(h2, "NU")
           h4 == WithList(h3, Freed)
           h5 == WithPath(h4, Null)
<1>1. HttpLike(h1) /\ h1.p = NewHttpParser
  BY NewParserOK, HttpFacts
<1>2. HttpLike(h2) /\ h2.p = NewHttpParser
  BY <1>1, HttpFacts, "GET" \in Methods DEF Methods
<1>3. HttpLike(h3) /\ h3.p = NewHttpParser
  BY <1>2, HttpFacts, "NU" \in Transports DEF Transports
<1>4. HttpLike(h4) /\ h4.p = NewHttpParser
  BY <1>3, ListFacts, MemoryFacts
<1>5. HttpLike(h5) /\ h5.p = NewHttpParser /\ h5.path = Null
  BY <1>4, PathFacts, MemoryFacts
<1>6. Reset(h) = h5
  BY DEF Reset, WithParser, WithMethod, WithTransport, WithList, WithPath
<1> HIDE DEF h5
<1> QED BY <1>5, <1>6, NewParserOK, MemoryFacts DEF BuffersOK

LEMMA NewHttpOK ==
  HttpLike(NewHttp) /\ BuffersOK(NewHttp)
<1>1. HttpLike(NewHttp)
  BY NewParserOK DEF HttpLike, NewHttp, ParserOK, Methods, Transports, Memory, Null
<1> QED BY <1>1, NewParserOK DEF BuffersOK, NewHttp, Null


-----------------------------------------------------------------------------
(* The commands of a frame. *)

\* A text opens the session of the connection, or leaves it as it is.
LEMMA CommandsKeepSession ==
  ASSUME NEW items, NEW head, NEW s \in {0, 1}
  PROVE  ape_cmd_process_multi(items, head, s) \in {s, 1}
BY DEF ape_cmd_process_multi, ape_cmd__connect

LEMMA FrameKeepsSession ==
  ASSUME NEW j, NEW s \in {0, 1}, NEW text
  PROVE  ape_server_on_ws_frame(j, s, text).session \in {s, 1}
<1> DEFINE Runs(was, done) == was.ok /\ done.ok /\ ~was.cx.crashed
           Then(was, done) ==
             IF Runs(was, done) THEN ape_cmd_process_multi(was.cx.items, was.cx.head, s)
             ELSE s
           Answer(was, done) ==
             [parser |-> <<IF was.ok THEN done.p ELSE was.p>>,
              session |-> Then(was, done),
              answer |-> IF was.cx.crashed THEN "crashed"
                         ELSE IF Runs(was, done) THEN "run" ELSE "bad_json"]
<1>1. \E u : ape_server_on_ws_frame(j, s, text) =
             CHOOSE a \in {Answer(was, JSON_parser_done(was.p)) : was \in {u}} : TRUE
  BY Zenon DEF ape_server_on_ws_frame
<1>2. PICK u : ape_server_on_ws_frame(j, s, text) =
               CHOOSE a \in {Answer(was, JSON_parser_done(was.p)) : was \in {u}} : TRUE
  BY <1>1
<1>3. ape_server_on_ws_frame(j, s, text) = Answer(u, JSON_parser_done(u.p))
  <2> HIDE DEF Answer
  <2> QED BY <1>2
<1>4. Then(u, JSON_parser_done(u.p)) \in {s, 1}
  BY CommandsKeepSession
<1> HIDE DEF Then
<1> QED BY <1>3, <1>4

-----------------------------------------------------------------------------
(* What the steps have in common. *)

Links == {"up", "eof", "shut", "broken", "gone"}

\* A write may find that the peer has gone, and lose the socket.
LEMMA WriteOK ==
  ASSUME NEW bytes, NEW h, HttpLike(h), BuffersOK(h), h.p.ready, link \in Links,
         Write(bytes, h)
  PROVE  HttpLike(http') /\ BuffersOK(http') /\ http'.p = h.p /\ link' \in Links
<1>1. http' = h \/ http' = Destroyed(h)
  BY DEF Write
<1>2. link' \in Links
  BY DEF Write, Links
<1> QED BY <1>1, <1>2, DestroyedOK DEF BuffersOK

\* The loops go on, return, or end with the socket.
LEMMA ReturnsOK ==
  ASSUME Returns
  PROVE  i' \in Nat /\ pc' \in {"idle", "closed"} /\ (pc' = "idle" => link' # "gone")
BY DEF Returns

LEMMA NextByteOK ==
  ASSUME i \in Nat, pc = "http", NextByte
  PROVE  /\ i' \in Nat /\ pc' \in {"idle", "http", "closed"}
         /\ pc' \in {"idle", "http"} => link' # "gone"
BY ReturnsOK DEF NextByte

LEMMA AfterFrameOK ==
  ASSUME i \in Nat, pc = "ws", AfterFrame
  PROVE  /\ i' \in Nat /\ pc' \in {"idle", "ws", "closed"}
         /\ pc' = "idle" => link' # "gone"
         /\ ws' # <<>>
<1>1. \A w : <<w>> # <<>>
  OBVIOUS
<1> QED BY <1>1, ReturnsOK DEF AfterFrame

\* What handlers of the scripts do to the link.
LEMMA HandlerDoesOK ==
  ASSUME NEW does \in {"keeps", "closes", "loses"}, link \in Links, HandlerDoes(does)
  PROVE  link' \in Links
BY DEF HandlerDoes, Shut, Links

\* After an upgrade no request is read or handed to the scripts.
UpgradeIsFinal == ws # <<>> => ws' # <<>> /\ served' = served /\ http'.p = http.p

\* A session that is open stays open, and no second one is opened.
SessionStays == session' \in {session, 1}

Kept == ConnectionInv' /\ UpgradeIsFinal /\ SessionStays


-----------------------------------------------------------------------------
(* The steps. *)

\* Steps that leave the client alone.
LEMMA PeerKeeps ==
  ASSUME ConnectionInv, i' = i, pc' = pc, client' = client, served' = served,
         link' \in Links, link' = "gone" => link = "gone"
  PROVE  Kept
BY DEF ConnectionInv, StateOK, MemoryInv, UpgradeInv, OnlineInv, Kept, UpgradeIsFinal,
       SessionStays, client, Links, HttpLike, BuffersOK

LEMMA SendRequestKeeps ==
  ASSUME ConnectionInv, NEW r \in Requests, send_request(r)
  PROVE  Kept
BY PeerKeeps DEF send_request, history, ConnectionInv, StateOK, Links

LEMMA SendFrameKeeps ==
  ASSUME ConnectionInv, NEW f \in Frames, send_frame(f)
  PROVE  Kept
BY PeerKeeps DEF send_frame, history, ConnectionInv, StateOK, Links

LEMMA PeerClosesKeeps ==
  ASSUME ConnectionInv, peer_closes \/ peer_resets
  PROVE  Kept
BY PeerKeeps DEF peer_closes, peer_resets, reading, history, Links

\* What was read goes to the parser, or after an upgrade to the frames.
LEMMA ReadKeeps ==
  ASSUME ConnectionInv, read
  PROVE  Kept
<1>1. /\ pc = "idle" /\ i' = 1 /\ pc' \in {"http", "ws"}
      /\ pc' = "ws" => ws # <<>>
      /\ link' = link /\ http' = http /\ ws' = ws /\ session' = session /\ served' = served
  BY DEF read, HasArrived, client, history
<1> QED
  BY <1>1 DEF ConnectionInv, StateOK, MemoryInv, UpgradeInv, OnlineInv, Kept, UpgradeIsFinal,
              SessionStays, HttpLike, BuffersOK

LEMMA DisconnectKeeps ==
  ASSUME ConnectionInv, disconnect
  PROVE  Kept
<1>1. /\ i' = i /\ pc' = "closed" /\ link' = "gone" /\ http' = Destroyed(http)
      /\ ws' = ws /\ session' = session /\ served' = served
  BY DEF disconnect, reading, history
<1>2. HttpLike(http)
  BY DEF ConnectionInv, StateOK
<1>3. HttpLike(http') /\ http'.p = http.p /\ http'.path.at = "null"
  BY <1>1, <1>2, DestroyedOK
<1> QED
  BY <1>1, <1>3 DEF ConnectionInv, StateOK, MemoryInv, UpgradeInv, OnlineInv, Kept,
                    UpgradeIsFinal, SessionStays

\* What the loop over a request finds.
LEMMA InRequest ==
  ASSUME ConnectionInv, pc = "http"
  PROVE  /\ HttpLike(http) /\ BuffersOK(http) /\ i \in Nat /\ link \in Links
         /\ session \in {0, 1}
         /\ ws # <<>> => http.p.ready
BY DEF ConnectionInv, StateOK, MemoryInv, UpgradeInv, Links

\* What it needs for the next byte.
LEMMA RequestKeeps ==
  ASSUME i' \in Nat, pc' \in {"idle", "http", "closed"},
         pc' \in {"idle", "http"} => link' # "gone",
         link' \in Links, HttpLike(http'), BuffersOK(http'), session \in {0, 1},
         session' = session, ws' # <<>> => http'.p.ready, UpgradeIsFinal
  PROVE  Kept
BY DEF ConnectionInv, StateOK, MemoryInv, UpgradeInv, OnlineInv, Kept, SessionStays, Links,
       BuffersOK

LEMMA HttpCharKeeps ==
  ASSUME ConnectionInv, http_char
  PROVE  Kept
<1>1. /\ pc = "http" /\ Byte.ok /\ http' = AfterByte.h /\ link' = link /\ ws' = ws
      /\ session' = session /\ served' = served /\ NextByte
  BY DEF http_char, history
<1>2. /\ HttpLike(http) /\ BuffersOK(http) /\ i \in Nat /\ link \in Links
      /\ session \in {0, 1} /\ (ws # <<>> => http.p.ready)
  BY <1>1, InRequest
<1>3. HttpLike(http') /\ BuffersOK(http') /\ ~http.p.ready
  BY <1>1, <1>2, AfterByteOK
<1>4. /\ i' \in Nat /\ pc' \in {"idle", "http", "closed"}
      /\ pc' \in {"idle", "http"} => link' # "gone"
  BY <1>1, <1>2, NextByteOK
<1>5. ws = <<>> /\ UpgradeIsFinal
  BY <1>2, <1>3 DEF UpgradeIsFinal
<1> QED BY <1>1, <1>2, <1>3, <1>4, <1>5, RequestKeeps

\* A byte that is refused may have counted.
LEMMA HttpRefusedKeeps ==
  ASSUME ConnectionInv, http_refused
  PROVE  Kept
<1>1. /\ pc = "http" /\ ~Byte.ok /\ http' = WithParser(http, Byte.p) /\ link' = Shut(link)
      /\ ws' = ws /\ session' = session /\ served' = served /\ Returns
  BY DEF http_refused, WithParser, history
<1>2. /\ HttpLike(http) /\ BuffersOK(http) /\ i \in Nat /\ link \in Links
      /\ session \in {0, 1} /\ (ws # <<>> => http.p.ready)
  BY <1>1, InRequest
<1>3. /\ ParserOK(Byte.p)
      /\ http.p.state = "GO" \/ http.p.ready => Byte.p = http.p
  <2>1. ParserOK(http.p)
    BY <1>2, BuffersAre
  <2>2. /\ StepOK(http.p, Byte)
        /\ http.p.ready => Byte = Refuses(http.p)
        /\ http.p.state = "GO" /\ ~Byte.ok => Byte.p = http.p
    BY <2>1, ParserKept DEF Byte
  <2> QED BY <1>1, <2>2, AcceptsFacts DEF StepOK, ByteOK
<1>4. HttpLike(http') /\ http'.p = Byte.p /\ SameBuffers(http, http')
  BY <1>1, <1>2, <1>3, HttpFacts
<1>5. BuffersOK(http')
  BY <1>2, <1>3, <1>4 DEF BuffersOK, SameBuffers
<1>6. link' \in Links
  BY <1>1, <1>2 DEF Shut, Links
<1>7. /\ i' \in Nat /\ pc' \in {"idle", "http", "closed"}
      /\ pc' \in {"idle", "http"} => link' # "gone"
  BY <1>1, ReturnsOK
<1>8. UpgradeIsFinal /\ (ws' # <<>> => http'.p.ready)
  BY <1>1, <1>2, <1>3, <1>4 DEF UpgradeIsFinal
<1> QED BY <1>1, <1>2, <1>4, <1>5, <1>6, <1>7, <1>8, RequestKeeps

LEMMA HttpUpgradeKeeps ==
  ASSUME ConnectionInv, http_ready_upgrade
  PROVE  Kept
<1> DEFINE h == WithTransport(AfterByte.h, "WS")
<1>1. /\ pc = "http" /\ Byte.ok /\ Byte.ready /\ Write(<<"101">>, h)
      /\ session' = session /\ NextByte
  BY DEF http_ready_upgrade, Ready, WithTransport
<1>2. /\ HttpLike(http) /\ BuffersOK(http) /\ i \in Nat /\ link \in Links
      /\ session \in {0, 1} /\ (ws # <<>> => http.p.ready)
  BY <1>1, InRequest
<1>3. /\ HttpLike(AfterByte.h) /\ BuffersOK(AfterByte.h) /\ AfterByte.h.p.ready
      /\ ~http.p.ready
  BY <1>1, <1>2, AfterByteOK
<1>4. HttpLike(h) /\ h.p = AfterByte.h.p /\ SameBuffers(AfterByte.h, h)
  BY <1>3, HttpFacts, "WS" \in Transports DEF Transports
<1> HIDE DEF h
<1>5. BuffersOK(h) /\ h.p.ready
  BY <1>3, <1>4 DEF BuffersOK, SameBuffers
<1>6. HttpLike(http') /\ BuffersOK(http') /\ http'.p = h.p /\ link' \in Links
  BY <1>1, <1>2, <1>4, <1>5, WriteOK
<1>7. /\ i' \in Nat /\ pc' \in {"idle", "http", "closed"}
      /\ pc' \in {"idle", "http"} => link' # "gone"
  BY <1>1, <1>2, NextByteOK
<1>8. UpgradeIsFinal
  BY <1>2, <1>3 DEF UpgradeIsFinal
<1> QED BY <1>1, <1>2, <1>5, <1>6, <1>7, <1>8, RequestKeeps

LEMMA HttpRequestKeeps ==
  ASSUME ConnectionInv, NEW does \in {"keeps", "closes", "loses"}, http_ready_request(does)
  PROVE  Kept
<1>1. /\ pc = "http" /\ Byte.ok /\ http' = Reset(AfterByte.h) /\ HandlerDoes(does)
      /\ ws' = ws /\ session' = session /\ NextByte
  BY DEF http_ready_request, Ready
<1>2. /\ HttpLike(http) /\ BuffersOK(http) /\ i \in Nat /\ link \in Links
      /\ session \in {0, 1} /\ (ws # <<>> => http.p.ready)
  BY <1>1, InRequest
<1>3. HttpLike(AfterByte.h) /\ ~http.p.ready
  BY <1>1, <1>2, AfterByteOK
<1>4. HttpLike(http') /\ BuffersOK(http')
  BY <1>1, <1>3, ResetOK
<1>5. link' \in Links
  BY <1>1, <1>2, HandlerDoesOK
<1>6. /\ i' \in Nat /\ pc' \in {"idle", "http", "closed"}
      /\ pc' \in {"idle", "http"} => link' # "gone"
  BY <1>1, <1>2, NextByteOK
<1>7. ws' = <<>> /\ UpgradeIsFinal
  BY <1>1, <1>2, <1>3 DEF UpgradeIsFinal
<1> QED BY <1>1, <1>2, <1>4, <1>5, <1>6, <1>7, RequestKeeps

LEMMA HttpIgnoredKeeps ==
  ASSUME ConnectionInv, http_ready_ignored
  PROVE  Kept
<1> DEFINE h == WithTransport(AfterByte.h, "WS")
<1>1. /\ pc = "http" /\ Byte.ok /\ link' = link /\ ws' = ws
      /\ session' = session /\ NextByte
  BY DEF http_ready_ignored, Ready
<1>2. /\ HttpLike(http) /\ BuffersOK(http) /\ i \in Nat /\ link \in Links
      /\ session \in {0, 1} /\ (ws # <<>> => http.p.ready)
  BY <1>1, InRequest
<1>3. HttpLike(AfterByte.h) /\ BuffersOK(AfterByte.h) /\ ~http.p.ready
  BY <1>1, <1>2, AfterByteOK
<1>4. HttpLike(h) /\ h.p = AfterByte.h.p /\ SameBuffers(AfterByte.h, h)
  BY <1>3, HttpFacts, "WS" \in Transports DEF Transports
<1>5. http' = h \/ http' = AfterByte.h
  <2>1. [AfterByte.h EXCEPT !.transport = AfterByte.h.transport] = AfterByte.h
    BY <1>3 DEF HttpLike
  <2> QED BY <2>1 DEF http_ready_ignored, WithTransport
<1> HIDE DEF h
<1>6. HttpLike(http') /\ BuffersOK(http')
  BY <1>3, <1>4, <1>5 DEF BuffersOK, SameBuffers
<1>7. /\ i' \in Nat /\ pc' \in {"idle", "http", "closed"}
      /\ pc' \in {"idle", "http"} => link' # "gone"
  BY <1>1, <1>2, NextByteOK
<1>8. ws' = <<>> /\ UpgradeIsFinal
  BY <1>1, <1>2, <1>3 DEF UpgradeIsFinal
<1> QED BY <1>1, <1>2, <1>6, <1>7, <1>8, RequestKeeps


\* A byte of a frame that does not end it.
LEMMA InFrameKeeps ==
  ASSUME ConnectionInv, pc = "ws", InFrame, ws' # <<>>
  PROVE  Kept
<1>1. /\ i' = i /\ pc' = pc /\ link' = link /\ http' = http /\ session' = session
      /\ served' = served
  BY DEF InFrame, reading, history
<1> QED
  BY <1>1 DEF ConnectionInv, StateOK, MemoryInv, UpgradeInv, OnlineInv, Kept, UpgradeIsFinal,
              SessionStays, HttpLike, BuffersOK

LEMMA FrameByteKeeps ==
  ASSUME ConnectionInv,
         \/ ws_start \/ ws_length \/ ws_short_length \/ ws_extended_length
         \/ ws_key \/ ws_data
  PROVE  Kept
<1>1. ASSUME NEW w, Goes(w) PROVE ws' # <<>>
  <2>1. \A v : <<v>> # <<>>
    OBVIOUS
  <2> QED BY <1>1, <2>1 DEF Goes
<1>2. pc = "ws" /\ InFrame /\ ws' # <<>>
  <2>1. CASE ws_start
    BY <2>1, <1>1 DEF ws_start, On
  <2>2. CASE ws_length
    BY <2>2, <1>1 DEF ws_length, On
  <2>3. CASE ws_short_length
    BY <2>3, <1>1 DEF ws_short_length, On
  <2>4. CASE ws_extended_length
    BY <2>4, <1>1 DEF ws_extended_length, On
  <2>5. CASE ws_key
    BY <2>5, <1>1 DEF ws_key, On
  <2>6. CASE ws_data
    BY <2>6, <1>1 DEF ws_data, On
  <2> QED BY <2>1, <2>2, <2>3, <2>4, <2>5, <2>6
<1> QED BY <1>2, InFrameKeeps

\* What the loop over frames finds.
LEMMA InFrames ==
  ASSUME ConnectionInv, pc = "ws"
  PROVE  /\ HttpLike(http) /\ BuffersOK(http) /\ i \in Nat /\ link \in Links
         /\ session \in {0, 1}
         /\ ws # <<>> /\ http.p.ready
BY DEF ConnectionInv, StateOK, MemoryInv, UpgradeInv, Links

\* What it needs after the end of one.
LEMMA FrameKeeps ==
  ASSUME i' \in Nat, pc' \in {"idle", "ws", "closed", "crashed"}, pc' = "idle" => link' # "gone",
         link' \in Links, HttpLike(http'), BuffersOK(http'), http.p.ready, http'.p = http.p,
         session \in {0, 1}, session' \in {session, 1}, ws' # <<>>, served' = served
  PROVE  Kept
BY DEF ConnectionInv, StateOK, MemoryInv, UpgradeInv, OnlineInv, Kept, SessionStays, Links,
       BuffersOK, UpgradeIsFinal

LEMMA CloseKeeps ==
  ASSUME ConnectionInv, ws_close
  PROVE  Kept
<1>1. /\ pc = "ws" /\ session' = session /\ served' = served /\ Returns
      /\ \/ link' = "shut" /\ http' = http
         \/ Write(<<"close">>, http)
  BY DEF ws_close, LastByte, On
<1>2. ws' # <<>>
  <2>1. \A v : <<v>> # <<>>
    OBVIOUS
  <2> QED BY <2>1 DEF ws_close
<1>3. /\ HttpLike(http) /\ BuffersOK(http) /\ i \in Nat /\ link \in Links
      /\ session \in {0, 1} /\ ws # <<>> /\ http.p.ready
  BY <1>1, InFrames
<1>4. HttpLike(http') /\ BuffersOK(http') /\ http'.p = http.p /\ link' \in Links
  <2>1. CASE link' = "shut" /\ http' = http
    BY <2>1, <1>3 DEF HttpLike, BuffersOK, Links
  <2>2. CASE Write(<<"close">>, http)
    BY <2>2, <1>3, WriteOK
  <2> QED BY <1>1, <2>1, <2>2
<1>5. i' \in Nat /\ pc' \in {"idle", "closed"} /\ (pc' = "idle" => link' # "gone")
  BY <1>1, ReturnsOK
<1> QED BY <1>1, <1>2, <1>3, <1>4, <1>5, FrameKeeps

LEMMA PingKeeps ==
  ASSUME ConnectionInv, ws_ping
  PROVE  Kept
<1>1. /\ pc = "ws" /\ session' = session /\ served' = served /\ AfterFrame
      /\ link' = link /\ http' = http
  BY DEF ws_ping, LastByte, On, history
<1>2. /\ HttpLike(http) /\ BuffersOK(http) /\ i \in Nat /\ link \in Links
      /\ session \in {0, 1} /\ ws # <<>> /\ http.p.ready
  BY <1>1, InFrames
<1>3. HttpLike(http') /\ BuffersOK(http')
  BY <1>1, <1>2 DEF HttpLike, BuffersOK
<1>4. /\ i' \in Nat /\ pc' \in {"idle", "ws", "closed"}
      /\ pc' = "idle" => link' # "gone"
      /\ ws' # <<>>
  BY <1>1, <1>2, AfterFrameOK
<1> QED BY <1>1, <1>2, <1>3, <1>4, FrameKeeps

LEMMA TextKeeps ==
  ASSUME ConnectionInv, NEW does \in {"keeps", "closes", "loses"}, ws_frame(does)
  PROVE  Kept
<1> DEFINE result == ape_server_on_ws_frame(parser, session, Text)
<1>1. pc = "ws" /\ served' = served /\ session' = result.session
  BY DEF ws_frame, LastByte, On
<1>2. /\ HttpLike(http) /\ BuffersOK(http) /\ i \in Nat /\ link \in Links
      /\ session \in {0, 1} /\ ws # <<>> /\ http.p.ready
  BY <1>1, InFrames
<1>3. session' \in {session, 1}
  BY <1>1, <1>2, FrameKeepsSession
<1>4. \/ Write(BadJson, http)
      \/ /\ HandlerDoes(does)
         /\ http' = http \/ http' = Destroyed(http)
  <2> HIDE DEF result
  <2> QED BY DEF ws_frame, result
<1>5. HttpLike(http') /\ BuffersOK(http') /\ http'.p = http.p /\ link' \in Links
  <2>1. CASE Write(BadJson, http)
    BY <2>1, <1>2, WriteOK
  <2>2. CASE HandlerDoes(does) /\ http' = http
    BY <2>2, <1>2, HandlerDoesOK DEF HttpLike, BuffersOK
  <2>3. CASE HandlerDoes(does) /\ http' = Destroyed(http)
    BY <2>3, <1>2, HandlerDoesOK, DestroyedOK DEF BuffersOK
  <2> QED BY <1>4, <2>1, <2>2, <2>3
<1>6. \/ pc' = "crashed" /\ i' = i /\ ws' = ws
      \/ AfterFrame
  BY DEF ws_frame
<1>7. /\ i' \in Nat /\ pc' \in {"idle", "ws", "closed", "crashed"}
      /\ pc' = "idle" => link' # "gone"
      /\ ws' # <<>>
  BY <1>1, <1>2, <1>6, AfterFrameOK
<1> HIDE DEF result
<1> QED BY <1>1, <1>2, <1>3, <1>5, <1>7, FrameKeeps

LEMMA StutterKeeps ==
  ASSUME ConnectionInv, UNCHANGED vars
  PROVE  Kept
BY PeerKeeps DEF vars, reading, history, ConnectionInv, StateOK, Links

-----------------------------------------------------------------------------
LEMMA InitOK == Init => ConnectionInv
BY NewHttpOK DEF Init, ConnectionInv, StateOK, MemoryInv, UpgradeInv, OnlineInv, BuffersOK

\* Every step keeps the invariant, an upgrade and a session.
LEMMA NextKeeps ==
  ASSUME ConnectionInv, [Next]_vars
  PROVE  Kept
<1>1. ASSUME NEW r \in Requests, send_request(r) PROVE Kept
  BY <1>1, SendRequestKeeps
<1>2. ASSUME NEW f \in Frames, send_frame(f) PROVE Kept
  BY <1>2, SendFrameKeeps
<1>3. CASE peer_closes \/ peer_resets
  BY <1>3, PeerClosesKeeps
<1>4. CASE read
  BY <1>4, ReadKeeps
<1>5. CASE disconnect
  BY <1>5, DisconnectKeeps
<1>6. CASE http_char
  BY <1>6, HttpCharKeeps
<1>7. CASE http_refused
  BY <1>7, HttpRefusedKeeps
<1>8. CASE http_ready_upgrade
  BY <1>8, HttpUpgradeKeeps
<1>9. CASE http_ready_ignored
  BY <1>9, HttpIgnoredKeeps
<1>10. ASSUME NEW does \in {"keeps", "closes", "loses"}, http_ready_request(does)
       PROVE  Kept
  BY <1>10, HttpRequestKeeps
<1>11. CASE \/ ws_start \/ ws_length \/ ws_short_length \/ ws_extended_length
            \/ ws_key \/ ws_data
  BY <1>11, FrameByteKeeps
<1>12. CASE ws_close
  BY <1>12, CloseKeeps
<1>13. CASE ws_ping
  BY <1>13, PingKeeps
<1>14. ASSUME NEW does \in {"keeps", "closes", "loses"}, ws_frame(does)
       PROVE  Kept
  BY <1>14, TextKeeps
<1>15. CASE UNCHANGED vars
  BY <1>15, StutterKeeps
<1> QED
  BY <1>1, <1>2, <1>3, <1>4, <1>5, <1>6, <1>7, <1>8, <1>9, <1>10, <1>11, <1>12, <1>13,
     <1>14, <1>15 DEF Next, Step

LEMMA Invariance == Spec => []ConnectionInv
<1>1. ConnectionInv /\ [Next]_vars => ConnectionInv'
  BY NextKeeps DEF Kept
<1> QED BY InitOK, <1>1, PTL DEF Spec

\* What does not depend on bytes is well typed (ape_server.c, ape_http_parser.c,
\* ape_websocket.c); in particular the length of a body never goes below 0,
\* however the bytes that are escaped count (ape_http_parser.c:174-181).
THEOREM TypeCorrect == Spec => []StateOK
<1>1. ConnectionInv => StateOK
  BY DEF ConnectionInv
<1> QED BY <1>1, Invariance, PTL

\* The parser's callbacks find the buffers they write to, and no path is left
\* that on_disconnect would free again (ape_server.c:83-87, 151-155, 341-344,
\* 434-436).
THEOREM BuffersLiveHolds == Spec => []BuffersLive
<1>1. ConnectionInv => BuffersLive
  BY DEF ConnectionInv, MemoryInv, BuffersOK, BuffersLive
<1> QED BY <1>1, Invariance, PTL

\* ape_server_on_read looks at no further byte once the socket has been
\* destroyed under it, by a handler or by a write (ape_server.c:378-400).
THEOREM StopsWhenDestroyed == Spec => []OnlineInv
<1>1. ConnectionInv => OnlineInv
  BY DEF ConnectionInv
<1> QED BY <1>1, Invariance, PTL

\* After an upgrade no byte is parsed as part of a request and no request is
\* served, although the parser was never told of it and the buffer may hold
\* more (ape_server.c:307-324, 378-396).
THEOREM UpgradeIsFinalHolds == Spec => [][UpgradeIsFinal]_vars
<1>1. ConnectionInv /\ [Next]_vars => UpgradeIsFinal
  BY NextKeeps DEF Kept
<1> QED BY <1>1, Invariance, PTL DEF Spec

\* A connection has one session at most, for good (ape_cmd.c, ape_user.c).
THEOREM SessionStaysHolds == Spec => [][SessionStays]_vars
<1>1. ConnectionInv /\ [Next]_vars => SessionStays
  BY NextKeeps DEF Kept
<1> QED BY <1>1, Invariance, PTL DEF Spec

-----------------------------------------------------------------------------
(* Numbers and recursive functions.                                         *)

\* A set of numbers that holds 0 and with each number the next.
LEMMA SetInduction ==
  ASSUME NEW S, 0 \in S, \A n \in Nat : n \in S => n + 1 \in S
  PROVE  Nat \subseteq S
<1> DEFINE Out == Nat \ S
<1>1. SUFFICES ASSUME Out # {} PROVE FALSE
  OBVIOUS
<1>2. PICK m \in Out : \A n \in Out : m <= n
  <2> DEFINE R == OpToRel(<, Nat)
  <2>1. \E m \in Out : \A n \in Out : ~ (<<n, m>> \in R)
    <3>1. Out \subseteq Nat
      OBVIOUS
    <3> HIDE DEF Out, R
    <3> QED BY <1>1, <3>1, NatLessThanWellFounded, WFMin DEF R
  <2>2. \A m, n \in Out : ~ (<<n, m>> \in R) => m <= n
    BY DEF OpToRel
  <2> QED BY <2>1, <2>2
<1>3. m \in Nat /\ m # 0 /\ m - 1 \in Nat
  BY <1>2
<1>4. m - 1 \in S
  BY <1>2, <1>3
<1> QED BY <1>2, <1>3, <1>4

\* NumberUpTo says what it looks like: digit by digit.
LEMMA NumberEquation ==
  ASSUME NEW d \in Seq(DOMAIN Digit)
  PROVE  /\ NumberUpTo(d)[0] = 0
         /\ \A k \in 1..Len(d) : NumberUpTo(d)[k] = 10 * NumberUpTo(d)[k - 1] + Digit[d[k]]
<1> DEFINE Here(g, k) == IF k = 0 THEN 0 ELSE 10 * g[k - 1] + Digit[d[k]]
           S == {n \in Nat : \E g : g = [k \in 0..n |-> Here(g, k)]}
<1>1. 0 \in S
  <2>1. [k \in 0..0 |-> 0] = [k \in 0..0 |-> Here([m \in 0..0 |-> 0], k)]
    OBVIOUS
  <2> QED BY <2>1
<1>2. ASSUME NEW n \in Nat, n \in S PROVE n + 1 \in S
  <2>1. PICK g : g = [k \in 0..n |-> Here(g, k)]
    BY <1>2
  <2> DEFINE h == [k \in 0..n + 1 |-> IF k = n + 1 THEN 10 * g[n] + Digit[d[n + 1]] ELSE g[k]]
  <2>2. ASSUME NEW k \in 0..n + 1 PROVE h[k] = Here(h, k)
    <3>1. CASE k = n + 1
      BY <3>1
    <3>2. CASE k # n + 1
      <4>1. k \in 0..n /\ h[k] = g[k] /\ (k # 0 => k - 1 \in 0..n /\ h[k - 1] = g[k - 1])
        BY <3>2
      <4>2. g[k] = Here(g, k)
        BY <2>1, <4>1
      <4> QED BY <4>1, <4>2
    <3> QED BY <3>1, <3>2
  <2>3. h = [k \in 0..n + 1 |-> Here(h, k)]
    <3>1. h = [k \in 0..n + 1 |-> h[k]]
      OBVIOUS
    <3> HIDE DEF h, Here
    <3> QED BY <2>2, <3>1
  <2> HIDE DEF h, Here
  <2>4. \E f : f = [k \in 0..n + 1 |-> Here(f, k)]
    BY <2>3
  <2> QED BY <2>4
<1>3. Len(d) \in S
  <2>1. Len(d) \in Nat
    BY LenProperties
  <2> HIDE DEF S
  <2> QED BY <1>1, <1>2, <2>1, SetInduction
<1>4. PICK g : g = [k \in 0..Len(d) |-> Here(g, k)]
  BY <1>3
<1>5. NumberUpTo(d) = [k \in 0..Len(d) |-> Here(NumberUpTo(d), k)]
  BY <1>4, Zenon DEF NumberUpTo
<1>6. Len(d) \in Nat
  BY LenProperties
<1> QED BY <1>5, <1>6

\* PathFrom reads an escape as one byte.
LEMMA PathEquation ==
  ASSUME NEW p \in Seq(Bytes)
  PROVE  \A k \in 1..Len(p) + 3 :
           PathFrom(p)[k] = IF k > Len(p) THEN <<>>
                            ELSE IF p[k] = "%" THEN <<Decoded>> \o PathFrom(p)[k + 3]
                            ELSE <<p[k]>> \o PathFrom(p)[k + 1]
<1> DEFINE N == Len(p)
           Here(g, k) == IF k > Len(p) THEN <<>>
                         ELSE IF p[k] = "%" THEN <<Decoded>> \o g[k + 3]
                         ELSE <<p[k]>> \o g[k + 1]
           S == {n \in Nat : n <= N => \E g : g = [k \in N - n + 1..N + 3 |-> Here(g, k)]}
<1>n. N \in Nat
  BY LenProperties
<1>1. 0 \in S
  <2> DEFINE g == [k \in N + 1..N + 3 |-> <<>>]
  <2>1. g = [k \in N + 1..N + 3 |-> Here(g, k)]
    BY <1>n
  <2>2. N - 0 + 1 = N + 1
    BY <1>n
  <2> HIDE DEF g, Here
  <2> QED BY <2>1, <2>2
<1>2. ASSUME NEW n \in Nat, n \in S PROVE n + 1 \in S
  <2>0. SUFFICES ASSUME n + 1 <= N
                 PROVE  \E g : g = [k \in N - (n + 1) + 1..N + 3 |-> Here(g, k)]
    <3> HIDE DEF Here, N
    <3> QED OBVIOUS
  <2>1. PICK g : g = [k \in N - n + 1..N + 3 |-> Here(g, k)]
    <3> HIDE DEF Here, N
    <3>1. n <= N
      BY <2>0, <1>n
    <3>2. n <= N => \E g : g = [k \in N - n + 1..N + 3 |-> Here(g, k)]
      BY <1>2
    <3> QED BY <3>1, <3>2
  <2> DEFINE m == N - n
             h == [k \in m..N + 3 |-> IF k = m THEN Here(g, k) ELSE g[k]]
  <2>m. m \in Nat /\ m >= 1 /\ m <= N /\ N - (n + 1) + 1 = m
    BY <2>0, <1>n
  <2>2. ASSUME NEW k \in m..N + 3 PROVE h[k] = Here(h, k)
    <3>1. k <= N => /\ h[k + 3] = g[k + 3] /\ h[k + 1] = g[k + 1]
      <4>1. k <= N => /\ k + 3 \in m..N + 3 /\ k + 3 # m
                      /\ k + 1 \in m..N + 3 /\ k + 1 # m
        <5> HIDE DEF N, m
        <5> QED BY <2>m, <1>n
      <4> HIDE DEF Here, m, N
      <4> QED BY <4>1
    <3>2. h[k] = Here(g, k)
      <4>1. CASE k = m
        BY <4>1
      <4>2. CASE k # m
        <5>1. k \in N - n + 1..N + 3 /\ h[k] = g[k]
          BY <4>2, <2>m, <1>n
        <5> HIDE DEF h, Here
        <5> QED BY <5>1, <2>1
      <4> QED BY <4>1, <4>2
    <3> HIDE DEF h
    <3> QED BY <3>1, <3>2, <2>m, <1>n
  <2>3. h = [k \in m..N + 3 |-> Here(h, k)]
    <3>1. h = [k \in m..N + 3 |-> h[k]]
      OBVIOUS
    <3> HIDE DEF h, Here, m
    <3> QED BY <2>2, <3>1
  <2> HIDE DEF h, Here
  <2>4. \E f : f = [k \in m..N + 3 |-> Here(f, k)]
    BY <2>3
  <2> QED BY <2>4, <2>m
<1>3. PICK g : g = [k \in 1..Len(p) + 3 |-> Here(g, k)]
  <2>1. N \in S
    <3> HIDE DEF S, N
    <3> QED BY <1>1, <1>2, <1>n, SetInduction
  <2>2. N - N + 1 = 1
    BY <1>n
  <2> HIDE DEF Here
  <2> QED BY <2>1, <2>2, <1>n
<1>4. PathFrom(p) = [k \in 1..Len(p) + 3 |-> Here(PathFrom(p), k)]
  BY <1>3, Zenon DEF PathFrom
<1> QED
  BY <1>4

\* What a decoded path is made of.
LEMMA PathTyped ==
  ASSUME NEW p \in Seq(Bytes)
  PROVE  \A k \in 1..Len(p) + 3 : PathFrom(p)[k] \in Seq(Bytes)
<1> DEFINE N == Len(p)
           S == {n \in Nat : \A k \in 1..N + 3 : k >= N + 3 - n => PathFrom(p)[k] \in Seq(Bytes)}
<1>n. N \in Nat
  BY LenProperties
<1>e. \A k \in 1..N + 3 :
           PathFrom(p)[k] = IF k > N THEN <<>>
                            ELSE IF p[k] = "%" THEN <<Decoded>> \o PathFrom(p)[k + 3]
                            ELSE <<p[k]>> \o PathFrom(p)[k + 1]
  BY PathEquation
<1>0. <<>> \in Seq(Bytes) /\ <<Decoded>> \in Seq(Bytes) /\ \A t \in Bytes : <<t>> \in Seq(Bytes)
  <2>1. Decoded \in Bytes
    BY PlainWordsArePlain DEF Bytes
  <2>2. \A t \in Bytes : <<t>> \in Seq(Bytes)
    OBVIOUS
  <2> QED BY <2>1, <2>2
<1>1. 0 \in S
  <2>1. PathFrom(p)[N + 3] = <<>>
    <3>1. N + 3 \in 1..N + 3 /\ N + 3 > N
      <4> HIDE DEF N
      <4> QED BY <1>n
    <3> HIDE DEF N
    <3> QED BY <1>e, <3>1
  <2>2. \A k \in 1..N + 3 : k >= N + 3 - 0 => k = N + 3
    BY <1>n
  <2> QED BY <2>1, <2>2, <1>0
<1>2. ASSUME NEW n \in Nat, n \in S PROVE n + 1 \in S
  <2>1. ASSUME NEW k \in 1..N + 3, k >= N + 3 - (n + 1) PROVE PathFrom(p)[k] \in Seq(Bytes)
    <3>1. CASE k > N
      BY <3>1, <1>e, <1>0
    <3>2. CASE k <= N
      <4>1. PathFrom(p)[k + 3] \in Seq(Bytes) /\ PathFrom(p)[k + 1] \in Seq(Bytes)
        <5> HIDE DEF N
        <5>1. \A q \in 1..N + 3 : q >= N + 3 - n => PathFrom(p)[q] \in Seq(Bytes)
          BY <1>2
        <5>2. /\ k + 3 \in 1..N + 3 /\ k + 3 >= N + 3 - n
              /\ k + 1 \in 1..N + 3 /\ k + 1 >= N + 3 - n
          BY <2>1, <3>2, <1>n
        <5> QED BY <5>1, <5>2
      <4>2. p[k] \in Bytes
        BY <3>2, <1>n, ElementOfSeq
      <4>3. /\ <<Decoded>> \o PathFrom(p)[k + 3] \in Seq(Bytes)
            /\ <<p[k]>> \o PathFrom(p)[k + 1] \in Seq(Bytes)
        BY <4>1, <4>2, <1>0, ConcatProperties
      <4>4. ~(k > N)
        BY <3>2, <1>n
      <4>5. PathFrom(p)[k] = IF p[k] = "%" THEN <<Decoded>> \o PathFrom(p)[k + 3]
                             ELSE <<p[k]>> \o PathFrom(p)[k + 1]
        BY <1>e, <4>4
      <4> QED BY <4>3, <4>5
    <3> QED BY <3>1, <3>2, <1>n
  <2> QED BY <2>1
<1>3. N + 3 \in S
  <2> HIDE DEF S, N
  <2> QED BY <1>1, <1>2, <1>n, SetInduction
<1> QED BY <1>3, <1>n

-----------------------------------------------------------------------------
(* Sequences put together: FlattenSeq, from the front and from the back.    *)

\* f is what FlattenSeq computes, for each beginning of s.
Joins(f, s, N) == f = [k \in 1..N |-> IF k = 1 THEN s[k] ELSE f[k - 1] \o s[k]]

LEMMA JoinsExists ==
  ASSUME NEW s, NEW N \in Nat
  PROVE  \E f : Joins(f, s, N)
<1> DEFINE Here(f, k) == IF k = 1 THEN s[k] ELSE f[k - 1] \o s[k]
           S == {n \in Nat : \E f : f = [k \in 1..n |-> Here(f, k)]}
<1>1. 0 \in S
  <2>1. \A f : [k \in 1..0 |-> Here(f, k)] = [k \in 1..0 |-> 0]
    OBVIOUS
  <2> QED BY <2>1
<1>2. ASSUME NEW n \in Nat, n \in S PROVE n + 1 \in S
  <2>1. PICK g : g = [k \in 1..n |-> Here(g, k)]
    BY <1>2
  <2> DEFINE h == [k \in 1..n + 1 |-> IF k = n + 1 THEN Here(g, k) ELSE g[k]]
  <2>2. ASSUME NEW k \in 1..n + 1 PROVE h[k] = Here(h, k)
    <3>1. k # 1 => h[k - 1] = g[k - 1]
      <4>1. k # 1 => k - 1 \in 1..n + 1 /\ k - 1 # n + 1
        OBVIOUS
      <4> HIDE DEF Here
      <4> QED BY <4>1
    <3>2. h[k] = Here(g, k)
      <4>1. CASE k = n + 1
        BY <4>1
      <4>2. CASE k # n + 1
        <5>1. k \in 1..n /\ h[k] = g[k]
          BY <4>2
        <5> HIDE DEF h, Here
        <5> QED BY <5>1, <2>1
      <4> QED BY <4>1, <4>2
    <3> HIDE DEF h
    <3> QED BY <3>1, <3>2
  <2>3. h = [k \in 1..n + 1 |-> Here(h, k)]
    <3>1. h = [k \in 1..n + 1 |-> h[k]]
      OBVIOUS
    <3> HIDE DEF h, Here
    <3> QED BY <2>2, <3>1
  <2> HIDE DEF h, Here
  <2>4. \E f : f = [k \in 1..n + 1 |-> Here(f, k)]
    BY <2>3
  <2> QED BY <2>4
<1>3. N \in S
  <2> HIDE DEF S
  <2> QED BY <1>1, <1>2, SetInduction
<1>4. \E f : f = [k \in 1..N |-> Here(f, k)]
  BY <1>3
<1> QED BY <1>4 DEF Joins

LEMMA JoinsNext ==
  ASSUME NEW f, NEW s, NEW N \in Nat, Joins(f, s, N)
  PROVE  /\ N # 0 => f[1] = s[1]
         /\ \A k \in Nat \ {0} : k + 1 <= N => f[k + 1] = f[k] \o s[k + 1]
<1>1. \A k \in 1..N : f[k] = IF k = 1 THEN s[k] ELSE f[k - 1] \o s[k]
  BY DEF Joins
<1>2. ASSUME NEW k \in Nat \ {0}, k + 1 <= N PROVE f[k + 1] = f[k] \o s[k + 1]
  <2> DEFINE q == k + 1
  <2>1. q \in 1..N /\ q # 1 /\ q - 1 = k
    BY <1>2
  <2> HIDE DEF q
  <2>2. f[q] = f[k] \o s[q]
    BY <1>1, <2>1
  <2> QED BY <2>2 DEF q
<1>3. N # 0 => f[1] = s[1]
  BY <1>1
<1> QED BY <1>2, <1>3

\* What is joined of a beginning depends on nothing after it.
LEMMA JoinsAgree ==
  ASSUME NEW s, NEW t, NEW M \in Nat, NEW N \in Nat, M <= N, \A k \in 1..M : t[k] = s[k],
         NEW f, Joins(f, s, M), NEW g, Joins(g, t, N)
  PROVE  \A k \in 1..M : g[k] = f[k]
<1> DEFINE S == {m \in Nat : m \in 1..M => f[m] = g[m]}
<1>a. /\ M # 0 => f[1] = s[1]
      /\ \A k \in Nat \ {0} : k + 1 <= M => f[k + 1] = f[k] \o s[k + 1]
  BY Zenon, JoinsNext
<1>b. /\ N # 0 => g[1] = t[1]
      /\ \A k \in Nat \ {0} : k + 1 <= N => g[k + 1] = g[k] \o t[k + 1]
  BY Zenon, JoinsNext
<1>1. 0 \in S
  OBVIOUS
<1>2. ASSUME NEW m \in Nat, m \in S PROVE m + 1 \in S
  <2>1. ASSUME m + 1 \in 1..M PROVE f[m + 1] = g[m + 1]
    <3>1. m + 1 \in 1..M /\ m + 1 \in 1..N /\ s[m + 1] = t[m + 1]
      BY <2>1
    <3>2. CASE m = 0
      BY <1>a, <1>b, <3>1, <3>2
    <3>3. CASE m # 0
      <4>1. f[m] = g[m]
        BY <1>2, <2>1, <3>3
      <4>2. m \in Nat \ {0} /\ m + 1 <= M /\ m + 1 <= N
        BY <3>1, <3>3
      <4>3. /\ f[m + 1] = f[m] \o s[m + 1]
            /\ g[m + 1] = g[m] \o t[m + 1]
        BY <1>a, <1>b, <4>2
      <4> QED BY <4>1, <4>3, <3>1
    <3> QED BY <3>2, <3>3
  <2> QED BY <2>1
<1>3. Nat \subseteq S
  <2> HIDE DEF S
  <2> QED BY <1>1, <1>2, SetInduction
<1> QED BY <1>3

LEMMA FlattenIsJoined ==
  ASSUME NEW S, NEW s \in Seq(S), s # <<>>
  PROVE  \E f : Joins(f, s, Len(s)) /\ FlattenSeq(s) = f[Len(s)]
<1>1. Len(s) \in Nat /\ Len(s) # 0
  BY EmptySeq
<1>2. PICK g : g = [k \in 1..Len(s) |-> IF k = 1 THEN s[k] ELSE g[k - 1] \o s[k]]
  BY <1>1, JoinsExists DEF Joins
<1>3. \E f : /\ f = [k \in 1..Len(s) |-> IF k = 1 THEN s[k] ELSE f[k - 1] \o s[k]]
             /\ FlattenSeq(s) = f[Len(s)]
  BY <1>1, <1>2, Zenon DEF FlattenSeq
<1> QED BY <1>3 DEF Joins

LEMMA FlattenEmpty == FlattenSeq(<<>>) = <<>>
BY DEF FlattenSeq

LEMMA FlattenOne == ASSUME NEW x PROVE FlattenSeq(<<x>>) = x
<1>1. <<x>> \in Seq({x}) /\ <<x>> # <<>> /\ Len(<<x>>) = 1 /\ <<x>>[1] = x
  OBVIOUS
<1>2. PICK f : Joins(f, <<x>>, 1) /\ FlattenSeq(<<x>>) = f[1]
  BY <1>1, FlattenIsJoined
<1> QED BY <1>1, <1>2 DEF Joins

\* Three sequences may be joined from either end.
Associative(s, t, u) == (s \o t) \o u = s \o (t \o u)

LEMMA Associates ==
  ASSUME NEW S, NEW s \in Seq(S), NEW t \in Seq(S), NEW u \in Seq(S)
  PROVE  Associative(s, t, u)
BY SMT, ConcatAssociative DEF Associative

\* Of two sequences or more the last is joined last.
LEMMA FlattenAppendNonEmpty ==
  ASSUME NEW S, NEW s \in Seq(S), s # <<>>, NEW x \in S
  PROVE  FlattenSeq(Append(s, x)) = FlattenSeq(s) \o x
<1>1. PICK n \in Nat \ {0}, m \in Nat : Len(s) = n /\ m = n + 1
  BY EmptySeq
<1>2. PICK t : t = Append(s, x)
  OBVIOUS
<1>3. /\ t \in Seq(S) /\ t # <<>> /\ Len(t) = m
      /\ \A k \in 1..n : t[k] = s[k]
      /\ t[m] = x
  BY <1>1, <1>2, AppendProperties
<1>4. PICK f : Joins(f, s, n) /\ FlattenSeq(s) = f[n]
  BY <1>1, FlattenIsJoined
<1>5. PICK g : Joins(g, t, m) /\ FlattenSeq(t) = g[m]
  BY <1>3, FlattenIsJoined
<1>6. g[n] = f[n]
  <2>1. n <= m /\ n \in Nat
    BY <1>1
  <2>2. \A k \in 1..n : t[k] = s[k]
    BY <1>3
  <2>3. \A k \in 1..n : g[k] = f[k]
    <3>1. Joins(f, s, n) /\ Joins(g, t, m)
      BY <1>4, <1>5
    <3> QED BY <1>1, <2>1, <2>2, <3>1, JoinsAgree
  <2> QED BY <2>3
<1>7. g[m] = g[n] \o t[m]
  <2>1. n + 1 <= m
    BY <1>1
  <2>2. g[n + 1] = g[n] \o t[n + 1]
    BY <1>5, <2>1, JoinsNext
  <2> QED BY <1>1, <2>2
<1> QED BY <1>2, <1>3, <1>4, <1>5, <1>6, <1>7

LEMMA FlattenAppend ==
  ASSUME NEW S, NEW s \in Seq(Seq(S)), NEW x \in Seq(S)
  PROVE  FlattenSeq(Append(s, x)) = FlattenSeq(s) \o x
<1>1. CASE s = <<>>
  <2>1. Append(s, x) = <<x>>
    BY <1>1
  <2> QED BY <1>1, <2>1, FlattenOne, FlattenEmpty, ConcatEmptySeq
<1>2. CASE s # <<>>
  BY <1>2, FlattenAppendNonEmpty
<1> QED BY <1>1, <1>2

\* What is joined is a sequence.
LEMMA FlattenTyped ==
  ASSUME NEW S, NEW s \in Seq(Seq(S))
  PROVE  FlattenSeq(s) \in Seq(S)
<1> DEFINE G == {n \in Nat : \A t \in Seq(Seq(S)) : Len(t) = n => FlattenSeq(t) \in Seq(S)}
<1>1. 0 \in G
  <2>1. ASSUME NEW t \in Seq(Seq(S)), Len(t) = 0 PROVE FlattenSeq(t) \in Seq(S)
    <3>1. t = <<>>
      BY <2>1, EmptySeq
    <3>2. <<>> \in Seq(S)
      OBVIOUS
    <3> QED BY <3>1, <3>2, FlattenEmpty
  <2> QED BY <2>1
<1>2. ASSUME NEW n \in Nat, n \in G PROVE n + 1 \in G
  <2>1. ASSUME NEW t \in Seq(Seq(S)), Len(t) = n + 1 PROVE FlattenSeq(t) \in Seq(S)
    <3>1. t # <<>>
      BY <2>1, EmptySeq
    <3>2. PICK u \in Seq(Seq(S)), x \in Seq(S) : t = Append(u, x)
      BY <3>1, SequenceEmptyOrAppend
    <3>3. Len(u) = n
      BY <3>2, <2>1, AppendProperties, LenProperties
    <3>4. FlattenSeq(u) \in Seq(S)
      BY <1>2, <3>3
    <3> QED BY <3>2, <3>4, FlattenAppend, ConcatProperties
  <2> QED BY <2>1
<1>3. Len(s) \in G
  <2>1. Len(s) \in Nat
    BY LenProperties
  <2> HIDE DEF G
  <2> QED BY <1>1, <1>2, <2>1, SetInduction
<1> QED BY <1>3

LEMMA FlattenConcat ==
  ASSUME NEW S, NEW s \in Seq(Seq(S)), NEW t \in Seq(Seq(S))
  PROVE  FlattenSeq(s \o t) = FlattenSeq(s) \o FlattenSeq(t)
<1> DEFINE G == {n \in Nat : \A u \in Seq(Seq(S)) :
                   Len(u) = n => FlattenSeq(s \o u) = FlattenSeq(s) \o FlattenSeq(u)}
<1>0. FlattenSeq(s) \in Seq(S)
  BY FlattenTyped
<1>1. 0 \in G
  <2>1. ASSUME NEW u \in Seq(Seq(S)), Len(u) = 0
        PROVE  FlattenSeq(s \o u) = FlattenSeq(s) \o FlattenSeq(u)
    <3>1. u = <<>>
      BY <2>1, EmptySeq
    <3>2. s \o u = s
      BY <3>1, ConcatEmptySeq
    <3>3. FlattenSeq(s) \o FlattenSeq(u) = FlattenSeq(s)
      BY <3>1, <1>0, FlattenEmpty, ConcatEmptySeq
    <3> QED BY <3>2, <3>3
  <2> QED BY <2>1
<1>2. ASSUME NEW n \in Nat, n \in G PROVE n + 1 \in G
  <2>1. ASSUME NEW u \in Seq(Seq(S)), Len(u) = n + 1
        PROVE  FlattenSeq(s \o u) = FlattenSeq(s) \o FlattenSeq(u)
    <3>1. u # <<>>
      BY <2>1, EmptySeq
    <3>2. PICK v \in Seq(Seq(S)), x \in Seq(S) : u = Append(v, x)
      BY <3>1, SequenceEmptyOrAppend
    <3>3. Len(v) = n
      BY <3>2, <2>1, AppendProperties, LenProperties
    <3>4. FlattenSeq(s \o v) = FlattenSeq(s) \o FlattenSeq(v)
      BY <1>2, <3>3
    <3>5. s \o u = Append(s \o v, x) /\ s \o v \in Seq(Seq(S))
      <4>1. <<x>> \in Seq(Seq(S))
        OBVIOUS
      <4>2. u = v \o <<x>> /\ s \o v \in Seq(Seq(S))
        BY <3>2, AppendIsConcat, ConcatProperties
      <4>3. s \o (v \o <<x>>) = (s \o v) \o <<x>>
        <5>1. Associative(s, v, <<x>>)
          BY <4>1, Associates
        <5> QED BY <5>1 DEF Associative
      <4> QED BY <4>2, <4>3, AppendIsConcat
    <3>6. FlattenSeq(s \o u) = FlattenSeq(s \o v) \o x
      BY <3>5, FlattenAppend
    <3>7. FlattenSeq(u) = FlattenSeq(v) \o x /\ FlattenSeq(v) \in Seq(S)
      BY <3>2, FlattenAppend, FlattenTyped
    <3>8. (FlattenSeq(s) \o FlattenSeq(v)) \o x = FlattenSeq(s) \o (FlattenSeq(v) \o x)
      <4>1. Associative(FlattenSeq(s), FlattenSeq(v), x)
        BY <1>0, <3>7, Associates
      <4> QED BY <4>1 DEF Associative
    <3> QED BY <3>4, <3>6, <3>7, <3>8
  <2> QED BY <2>1
<1>3. Len(t) \in G
  <2>1. Len(t) \in Nat
    BY LenProperties
  <2> HIDE DEF G
  <2> QED BY <1>1, <1>2, <2>1, SetInduction
<1> QED BY <1>3

LEMMA OneIsSeq ==
  ASSUME NEW S, NEW x \in S
  PROVE  <<x>> \in Seq(S) /\ Len(<<x>>) = 1 /\ <<x>>[1] = x /\ <<x>> # <<>>
OBVIOUS

\* An element before the others.
Before(x, s) == <<x>> \o s

\* What is left of a sequence from position n on.
From(s, n) == SubSeq(s, n, Len(s))

LEMMA FromTyped ==
  ASSUME NEW S, NEW s \in Seq(S), NEW n \in Nat \ {0}
  PROVE  From(s, n) \in Seq(S) /\ From(s, n + 1) \in Seq(S)
<1>1. ASSUME NEW m \in Nat \ {0} PROVE From(s, m) \in Seq(S)
  <2>1. Len(s) \in Nat
    BY LenProperties
  <2>2. \A k \in m..Len(s) : s[k] \in S
    BY ElementOfSeq, <2>1
  <2> QED BY <2>1, <2>2, SubSeqProperties DEF From
<1>2. n + 1 \in Nat \ {0}
  OBVIOUS
<1> QED BY <1>1, <1>2

LEMMA FromStep ==
  ASSUME NEW S, NEW s \in Seq(S), NEW n \in Nat \ {0}
  PROVE  /\ From(s, n) \in Seq(S)
         /\ n <= Len(s) => From(s, n) = <<s[n]>> \o From(s, n + 1) /\ s[n] \in S
         /\ n > Len(s) => From(s, n) = <<>>
<1>1. Len(s) \in Nat
  BY LenProperties
<1>2. \A k \in n..Len(s) : s[k] \in S
  BY ElementOfSeq, <1>1
<1>3. From(s, n) \in Seq(S)
  BY FromTyped
<1>4. ASSUME n <= Len(s) PROVE From(s, n) = <<s[n]>> \o From(s, n + 1)
  <2>1. n \in 1..Len(s) /\ Len(s) \in n..Len(s)
    BY <1>1, <1>4
  <2> QED BY <2>1, SubSeqRecursiveFirst DEF From
<1>5. ASSUME n > Len(s) PROVE From(s, n) = <<>>
  BY <1>1, <1>5, SubSeqEmpty DEF From
<1> QED BY <1>1, <1>2, <1>3, <1>4, <1>5

LEMMA FromFirst ==
  ASSUME NEW S, NEW s \in Seq(S)
  PROVE  From(s, 1) = s
BY SubSeqFull DEF From

LEMMA FromEmpty ==
  ASSUME NEW S, NEW s \in Seq(S), NEW n \in Nat \ {0}
  PROVE  From(s, n) = <<>> <=> n > Len(s)
<1>0. Len(s) \in Nat
  BY LenProperties
<1>1. ASSUME n <= Len(s) PROVE From(s, n) # <<>>
  <2>1. From(s, n) = <<s[n]>> \o From(s, n + 1) /\ s[n] \in S
    BY <1>1, FromStep
  <2>2. PICK x \in S, t \in Seq(S) : x = s[n] /\ t = From(s, n + 1)
    BY <2>1, FromTyped
  <2>3. <<x>> \in Seq(S) /\ <<x>> # <<>>
    BY OneIsSeq
  <2>4. <<x>> \o t # <<>>
    BY <2>3, ConcatEqualIffEmpty
  <2> QED BY <2>1, <2>2, <2>4
<1>2. ASSUME n > Len(s) PROVE From(s, n) = <<>>
  BY <1>2, FromStep
<1> QED BY <1>0, <1>1, <1>2

LEMMA BeforeProperties ==
  ASSUME NEW S, NEW x \in S, NEW s \in Seq(S)
  PROVE  /\ Before(x, s) \in Seq(S) /\ Before(x, s) # <<>>
         /\ Len(Before(x, s)) = Len(s) + 1 /\ Before(x, s)[1] = x
<1>1. <<x>> \in Seq(S) /\ Len(<<x>>) = 1 /\ <<x>>[1] = x /\ <<x>> # <<>>
  BY OneIsSeq
<1>2. PICK n \in Nat : Len(s) = n
  BY LenProperties
<1>3. PICK u : u = <<x>>
  OBVIOUS
<1>4. u \in Seq(S) /\ Len(u) = 1 /\ u[1] = x /\ u # <<>>
  BY <1>1, <1>3
<1>5. /\ u \o s \in Seq(S) /\ Len(u \o s) = 1 + n /\ (u \o s)[1] = u[1]
      /\ u \o s # <<>>
  BY <1>2, <1>4, ConcatProperties, ConcatEqualIffEmpty
<1>6. Before(x, s) = u \o s
  BY <1>3 DEF Before
<1> QED BY <1>2, <1>3, <1>4, <1>5, <1>6

LEMMA BeforeTyped ==
  ASSUME NEW S, NEW x \in S, NEW s \in Seq(S)
  PROVE  Before(x, s) \in Seq(S)
BY BeforeProperties

LEMMA BeforeFirst ==
  ASSUME NEW S, NEW x \in S, NEW s \in Seq(S)
  PROVE  Before(x, s)[1] = x
BY BeforeProperties

LEMMA BeforeSome ==
  ASSUME NEW S, NEW x \in S, NEW s \in Seq(S)
  PROVE  Before(x, s) # <<>>
BY BeforeProperties

LEMMA BeforeEqual ==
  ASSUME NEW S, NEW x \in S, NEW s \in Seq(S), NEW y \in S, NEW t \in Seq(S),
         Before(x, s) = Before(y, t)
  PROVE  x = y /\ s = t
<1>1. x = y
  BY BeforeFirst
<1>2. PICK u \in Seq(S) : u = <<x>>
  BY OneIsSeq
<1>3. u \o s = u \o t
  BY <1>1, <1>2 DEF Before
<1>4. s = t
  BY <1>3, ConcatSimplifications
<1> QED BY <1>1, <1>4

\* Of what comes after an element nothing is changed by joining something to it.
LEMMA BeforeJoins ==
  ASSUME NEW S, NEW x \in S, NEW s \in Seq(S), NEW t \in Seq(S)
  PROVE  Before(x, s) \o t = Before(x, s \o t)
<1>1. PICK u \in Seq(S) : u = <<x>>
  BY OneIsSeq
<1>2. (u \o s) \o t = u \o (s \o t)
  <2>1. Associative(u, s, t)
    BY Associates
  <2> QED BY <2>1 DEF Associative
<1> QED BY <1>1, <1>2 DEF Before

\* A first part that is done with, and one of which something is left.
LEMMA RestStep ==
  ASSUME NEW S, NEW s \in Seq(S), NEW t \in Seq(S), NEW n \in Nat \ {0}
  PROVE  /\ From(s, n) \o t \in Seq(S)
         /\ n <= Len(s) => /\ From(s, n) \o t = Before(s[n], From(s, n + 1) \o t)
                           /\ s[n] \in S
         /\ n > Len(s) => From(s, n) \o t = t
<1>1. From(s, n) \in Seq(S) /\ From(s, n + 1) \in Seq(S)
  BY FromTyped
<1>2. ASSUME n <= Len(s)
      PROVE  From(s, n) \o t = Before(s[n], From(s, n + 1) \o t) /\ s[n] \in S
  <2>1. From(s, n) = <<s[n]>> \o From(s, n + 1) /\ s[n] \in S
    BY <1>2, FromStep
  <2>2. PICK u \in Seq(S) : u = From(s, n + 1)
    BY <1>1
  <2>3. PICK x \in S : x = s[n]
    BY <2>1
  <2>4. From(s, n) = Before(x, u)
    BY <2>1, <2>2, <2>3 DEF Before
  <2>5. Before(x, u) \o t = Before(x, u \o t)
    BY BeforeJoins
  <2> QED BY <2>2, <2>3, <2>4, <2>5
<1>3. ASSUME n > Len(s) PROVE From(s, n) \o t = t
  <2>1. From(s, n) = <<>>
    BY <1>3, FromStep
  <2>2. <<>> \o t = t
    BY ConcatEmptySeq
  <2> QED BY <2>1, <2>2
<1> QED BY <1>1, <1>2, <1>3, ConcatProperties

\* FlattenSeq from the front.
LEMMA FlattenFrom ==
  ASSUME NEW S, NEW s \in Seq(Seq(S)), NEW n \in Nat \ {0}
  PROVE  /\ FlattenSeq(From(s, n)) \in Seq(S)
         /\ n <= Len(s) => /\ FlattenSeq(From(s, n)) = s[n] \o FlattenSeq(From(s, n + 1))
                           /\ s[n] \in Seq(S)
         /\ n > Len(s) => FlattenSeq(From(s, n)) = <<>>
<1>1. From(s, n) \in Seq(Seq(S)) /\ From(s, n + 1) \in Seq(Seq(S))
  BY FromTyped
<1>2. ASSUME n <= Len(s)
      PROVE  FlattenSeq(From(s, n)) = s[n] \o FlattenSeq(From(s, n + 1)) /\ s[n] \in Seq(S)
  <2>1. From(s, n) = <<s[n]>> \o From(s, n + 1) /\ s[n] \in Seq(S)
    BY <1>2, FromStep
  <2>2. <<s[n]>> \in Seq(Seq(S))
    BY <2>1
  <2>3. FlattenSeq(From(s, n)) = FlattenSeq(<<s[n]>>) \o FlattenSeq(From(s, n + 1))
    BY <1>1, <2>1, <2>2, FlattenConcat
  <2> QED BY <2>1, <2>3, FlattenOne
<1>3. ASSUME n > Len(s) PROVE FlattenSeq(From(s, n)) = <<>>
  BY <1>3, FromStep, FlattenEmpty
<1> QED BY <1>1, <1>2, <1>3, FlattenTyped


-----------------------------------------------------------------------------
(* What is still to be read of a request.                                   *)

\* From its length, its headers, its version and its query on.
Ending(r) == Before("nl", r.body)
LengthOn(r) == LengthLine(r) \o Ending(r)
LinesOn(r, n) == FlattenSeq(From(Lines(r.headers), n)) \o LengthOn(r)
VersionOn(r) == <<" ", "version", "nl">> \o LinesOn(r, 1)
QueryOn(r) == QueryPart(r) \o VersionOn(r)

\* Two and three bytes, one after the other.
LEMMA TwoAre ==
  ASSUME NEW S, NEW x \in S, NEW y \in S
  PROVE  Append(<<x>>, y) = <<x, y>> /\ <<x, y>> \in Seq(S)
<1>1. <<x, y>> \in Seq(S) /\ Len(<<x, y>>) = 2 /\ <<x, y>>[1] = x /\ <<x, y>>[2] = y
  OBVIOUS
<1>2. <<x>> \in Seq(S) /\ Len(<<x>>) = 1 /\ <<x>>[1] = x
  OBVIOUS
<1>3. PICK u, v, w : u = <<x, y>> /\ w = <<x>> /\ v = Append(w, y)
  OBVIOUS
<1>4. v \in Seq(S) /\ Len(v) = 2 /\ v[1] = x /\ v[2] = y
  BY <1>2, <1>3, AppendProperties
<1>5. u = v
  BY <1>1, <1>3, <1>4, SeqEqual
<1> QED BY <1>1, <1>3, <1>5

LEMMA ThreeAre ==
  ASSUME NEW S, NEW x \in S, NEW y \in S, NEW z \in S
  PROVE  Append(<<x, y>>, z) = <<x, y, z>> /\ <<x, y, z>> \in Seq(S)
<1>1. /\ <<x, y, z>> \in Seq(S) /\ Len(<<x, y, z>>) = 3
      /\ <<x, y, z>>[1] = x /\ <<x, y, z>>[2] = y /\ <<x, y, z>>[3] = z
  OBVIOUS
<1>2. <<x, y>> \in Seq(S) /\ Len(<<x, y>>) = 2 /\ <<x, y>>[1] = x /\ <<x, y>>[2] = y
  OBVIOUS
<1>3. PICK u, v, w : u = <<x, y, z>> /\ w = <<x, y>> /\ v = Append(w, z)
  OBVIOUS
<1>4. v \in Seq(S) /\ Len(v) = 3 /\ v[1] = x /\ v[2] = y /\ v[3] = z
  BY <1>2, <1>3, AppendProperties
<1>5. u = v
  BY <1>1, <1>3, <1>4, SeqEqual
<1> QED BY <1>1, <1>3, <1>5

LEMMA FourAre ==
  ASSUME NEW S, NEW x \in S, NEW y \in S, NEW z \in S, NEW t \in S
  PROVE  Append(<<x, y, z>>, t) = <<x, y, z, t>> /\ <<x, y, z, t>> \in Seq(S)
<1>1. /\ <<x, y, z, t>> \in Seq(S) /\ Len(<<x, y, z, t>>) = 4
      /\ <<x, y, z, t>>[1] = x /\ <<x, y, z, t>>[2] = y /\ <<x, y, z, t>>[3] = z
      /\ <<x, y, z, t>>[4] = t
  OBVIOUS
<1>2. /\ <<x, y, z>> \in Seq(S) /\ Len(<<x, y, z>>) = 3
      /\ <<x, y, z>>[1] = x /\ <<x, y, z>>[2] = y /\ <<x, y, z>>[3] = z
  OBVIOUS
<1>3. PICK u, v, w : u = <<x, y, z, t>> /\ w = <<x, y, z>> /\ v = Append(w, t)
  OBVIOUS
<1>4. v \in Seq(S) /\ Len(v) = 4 /\ v[1] = x /\ v[2] = y /\ v[3] = z /\ v[4] = t
  BY <1>2, <1>3, AppendProperties
<1>5. u = v
  BY <1>1, <1>3, <1>4, SeqEqual
<1> QED BY <1>1, <1>3, <1>5

\* An element added to the first of two sequences comes before the second.
AppendsBefore(s, x, t) == Append(s, x) \o t = s \o Before(x, t)

LEMMA AppendBefore ==
  ASSUME NEW S, NEW s \in Seq(S), NEW x \in S, NEW t \in Seq(S)
  PROVE  AppendsBefore(s, x, t)
<1>1. PICK u \in Seq(S) : u = <<x>>
  BY OneIsSeq
<1>2. Append(s, x) = s \o u
  BY <1>1, AppendIsConcat
<1>3. Before(x, t) = u \o t
  BY <1>1 DEF Before
<1>4. (s \o u) \o t = s \o (u \o t)
  <2>1. Associative(s, u, t)
    BY Associates
  <2> QED BY <2>1 DEF Associative
<1> QED BY <1>2, <1>3, <1>4 DEF AppendsBefore

LEMMA TwoBefore ==
  ASSUME NEW S, NEW x \in S, NEW y \in S, NEW t \in Seq(S)
  PROVE  <<x, y>> \o t = Before(x, Before(y, t))
<1>1. PICK s \in Seq(S) : s = <<x>>
  BY OneIsSeq
<1>2. <<x, y>> = Append(s, y)
  BY <1>1, TwoAre
<1>3. Append(s, y) \o t = s \o Before(y, t)
  <2>1. AppendsBefore(s, y, t)
    BY AppendBefore
  <2> QED BY <2>1 DEF AppendsBefore
<1>4. s \o Before(y, t) = Before(x, Before(y, t))
  BY <1>1 DEF Before
<1> QED BY <1>2, <1>3, <1>4

LEMMA ThreeBefore ==
  ASSUME NEW S, NEW x \in S, NEW y \in S, NEW z \in S, NEW t \in Seq(S)
  PROVE  <<x, y, z>> \o t = Before(x, Before(y, Before(z, t)))
<1>1. PICK s \in Seq(S) : s = <<x, y>>
  BY TwoAre
<1>2. <<x, y, z>> = Append(s, z)
  BY <1>1, ThreeAre
<1>3. PICK u \in Seq(S) : u = Before(z, t)
  BY BeforeTyped
<1>4. Append(s, z) \o t = s \o Before(z, t)
  <2>1. AppendsBefore(s, z, t)
    BY AppendBefore
  <2> QED BY <2>1 DEF AppendsBefore
<1>5. <<x, y>> \o u = Before(x, Before(y, u))
  BY TwoBefore
<1> QED BY <1>1, <1>2, <1>3, <1>4, <1>5

LEMMA FourBefore ==
  ASSUME NEW S, NEW x \in S, NEW y \in S, NEW z \in S, NEW w \in S, NEW t \in Seq(S)
  PROVE  <<x, y, z, w>> \o t = Before(x, Before(y, Before(z, Before(w, t))))
<1>1. PICK s \in Seq(S) : s = <<x, y, z>>
  BY ThreeAre
<1>2. <<x, y, z, w>> = Append(s, w)
  BY <1>1, FourAre
<1>3. PICK u \in Seq(S) : u = Before(w, t)
  BY BeforeTyped
<1>4. Append(s, w) \o t = s \o Before(w, t)
  <2>1. AppendsBefore(s, w, t)
    BY AppendBefore
  <2> QED BY <2>1 DEF AppendsBefore
<1>5. <<x, y, z>> \o u = Before(x, Before(y, Before(z, u)))
  BY ThreeBefore
<1> QED BY <1>1, <1>2, <1>3, <1>4, <1>5

LEMMA BytesAre ==
  /\ Methods \subseteq Bytes /\ PathBytes \subseteq Bytes /\ DOMAIN Digit \subseteq Bytes
  /\ PlainWords \subseteq Bytes /\ Signs \subseteq Bytes /\ Decoded \in Bytes
BY PlainWordsArePlain DEF Bytes, PathBytes

\* A request is bytes, but its headers.
LEMMA RequestBytes ==
  ASSUME NEW r \in Request
  PROVE  /\ r.method \in Bytes /\ r.path \in Seq(Bytes) /\ r.query \in Seq(Bytes)
         /\ r.length \in Seq(Bytes) /\ r.body \in Seq(Bytes)
         /\ Len(r.headers) \in Nat /\ DOMAIN r.headers = 1..Len(r.headers)
         /\ \A n \in 1..Len(r.headers) : /\ r.headers[n][1] \in PlainWords
                                         /\ r.headers[n][2] \in Bytes \ {"nl", "nul"}
<1>1. /\ r.method \in Methods /\ r.path \in Seq(PathBytes)
      /\ r.query \in Seq(PathBytes \cup {"?"})
      /\ r.headers \in Seq(PlainWords \X (Bytes \ {"nl", "nul"}))
      /\ r.length \in Seq(DOMAIN Digit) /\ r.body \in Seq(Bytes \ {":", "?", "nul"})
  BY DEF Request
<1>2. PathBytes \cup {"?"} \subseteq Bytes /\ Bytes \ {":", "?", "nul"} \subseteq Bytes
  BY BytesAre DEF Signs
<1>3. /\ r.method \in Bytes /\ r.path \in Seq(Bytes) /\ r.query \in Seq(Bytes)
      /\ r.length \in Seq(Bytes) /\ r.body \in Seq(Bytes)
  BY <1>1, <1>2, BytesAre, SeqMonotonic
<1>4. Len(r.headers) \in Nat /\ DOMAIN r.headers = 1..Len(r.headers)
  BY <1>1, LenProperties
<1>5. \A n \in 1..Len(r.headers) : r.headers[n] \in PlainWords \X (Bytes \ {"nl", "nul"})
  BY <1>1, ElementOfSeq
<1> QED BY <1>3, <1>4, <1>5

LEMMA LinesAre ==
  ASSUME NEW r \in Request
  PROVE  /\ Lines(r.headers) \in Seq(Seq(Bytes)) /\ Len(Lines(r.headers)) = Len(r.headers)
         /\ \A n \in 1..Len(r.headers) :
              Lines(r.headers)[n] = <<r.headers[n][1], ":", r.headers[n][2], "nl">>
<1>1. PICK N \in Nat : Len(r.headers) = N /\ DOMAIN r.headers = 1..N
  BY RequestBytes
<1>2. ASSUME NEW n \in 1..N
      PROVE  <<r.headers[n][1], ":", r.headers[n][2], "nl">> \in Seq(Bytes)
  <2>1. r.headers[n][1] \in Bytes /\ r.headers[n][2] \in Bytes /\ ":" \in Bytes /\ "nl" \in Bytes
    BY <1>1, RequestBytes, BytesAre DEF Signs
  <2>2. ASSUME NEW x \in Bytes, NEW y \in Bytes, NEW z \in Bytes, NEW w \in Bytes
        PROVE  <<x, y, z, w>> \in Seq(Bytes)
    OBVIOUS
  <2> QED BY <2>1, <2>2
<1>3. Lines(r.headers) = [n \in 1..N |-> <<r.headers[n][1], ":", r.headers[n][2], "nl">>]
  BY <1>1 DEF Lines
<1>4. Lines(r.headers) \in Seq(Seq(Bytes)) /\ Len(Lines(r.headers)) = N
  BY <1>2, <1>3, SeqDef
<1> QED BY <1>1, <1>3, <1>4


LEMMA EndingIs ==
  ASSUME NEW r \in Request
  PROVE  /\ Ending(r) \in Seq(Bytes) /\ LengthLine(r) \in Seq(Bytes)
         /\ LengthOn(r) \in Seq(Bytes)
         /\ r.length = <<>> => LengthOn(r) = Ending(r)
         /\ r.length # <<>> =>
              LengthOn(r) = Before("Content-length", r.length \o Before("nl", Ending(r)))
<1>1. r.body \in Seq(Bytes) /\ r.length \in Seq(Bytes)
  BY RequestBytes
<1>2. "nl" \in Bytes /\ "Content-length" \in Bytes
  BY BytesAre DEF Signs
<1>3. Ending(r) \in Seq(Bytes)
  BY <1>1, <1>2, BeforeTyped DEF Ending
<1>4. PICK e \in Seq(Bytes), l \in Seq(Bytes) : e = Ending(r) /\ l = r.length
  BY <1>1, <1>3
<1>5. CASE r.length = <<>>
  <2>1. LengthLine(r) = <<>> /\ <<>> \in Seq(Bytes) /\ <<>> \o e = e
    BY <1>5, ConcatEmptySeq DEF LengthLine
  <2>2. LengthOn(r) = e
    BY <1>4, <2>1 DEF LengthOn
  <2> QED BY <1>4, <1>5, <2>1, <2>2
<1>6. CASE r.length # <<>>
  <2>1. PICK c \in Seq(Bytes), x \in Seq(Bytes) : c = <<"Content-length">> /\ x = <<"nl">>
    BY <1>2, OneIsSeq
  <2>2. LengthLine(r) = (c \o l) \o x
    BY <1>4, <1>6, <2>1 DEF LengthLine
  <2>3. /\ c \o l \in Seq(Bytes) /\ (c \o l) \o x \in Seq(Bytes)
        /\ ((c \o l) \o x) \o e \in Seq(Bytes) /\ x \o e \in Seq(Bytes)
    <3>1. c \o l \in Seq(Bytes) /\ x \o e \in Seq(Bytes)
      BY ConcatProperties
    <3>2. (c \o l) \o x \in Seq(Bytes)
      BY <3>1, ConcatProperties
    <3> QED BY <3>1, <3>2, ConcatProperties
  <2>4. ((c \o l) \o x) \o e = c \o (l \o (x \o e))
    <3>1. ((c \o l) \o x) \o e = (c \o l) \o (x \o e)
      <4>1. Associative(c \o l, x, e)
        BY <2>3, Associates
      <4> QED BY <4>1 DEF Associative
    <3>2. (c \o l) \o (x \o e) = c \o (l \o (x \o e))
      <4>1. PICK y \in Seq(Bytes) : y = x \o e
        BY <2>3
      <4>2. (c \o l) \o y = c \o (l \o y)
        <5>1. Associative(c, l, y)
          BY Associates
        <5> QED BY <5>1 DEF Associative
      <4> QED BY <4>1, <4>2
    <3> QED BY <3>1, <3>2
  <2>5. LengthOn(r) = ((c \o l) \o x) \o e
    BY <1>4, <2>2 DEF LengthOn
  <2>6. x \o e = Before("nl", e) /\ c \o (l \o (x \o e)) = Before("Content-length", l \o (x \o e))
    BY <2>1 DEF Before
  <2> QED BY <1>4, <1>6, <2>1, <2>2, <2>3, <2>4, <2>5, <2>6
<1> QED BY <1>5, <1>6

LEMMA LinesFrom ==
  ASSUME NEW r \in Request, NEW n \in Nat \ {0}
  PROVE  /\ LinesOn(r, n) \in Seq(Bytes)
         /\ n > Len(r.headers) => LinesOn(r, n) = LengthOn(r)
         /\ n <= Len(r.headers) =>
              LinesOn(r, n) = Before(r.headers[n][1], Before(":", Before(r.headers[n][2],
                                Before("nl", LinesOn(r, n + 1)))))
<1>1. PICK s \in Seq(Seq(Bytes)), N \in Nat, e \in Seq(Bytes) :
        s = Lines(r.headers) /\ N = Len(s) /\ N = Len(r.headers) /\ e = LengthOn(r)
  BY LinesAre, EndingIs, LenProperties
<1>2. FlattenSeq(From(s, n)) \in Seq(Bytes) /\ LinesOn(r, n) = FlattenSeq(From(s, n)) \o e
  BY <1>1, FlattenFrom DEF LinesOn
<1>3. LinesOn(r, n) \in Seq(Bytes)
  BY <1>2, ConcatProperties
<1>4. ASSUME n > N PROVE LinesOn(r, n) = e
  <2>1. FlattenSeq(From(s, n)) = <<>>
    BY <1>1, <1>4, FlattenFrom
  <2>2. <<>> \o e = e
    BY ConcatEmptySeq
  <2> QED BY <1>2, <2>1, <2>2
<1>5. ASSUME n <= N
      PROVE  LinesOn(r, n) = Before(r.headers[n][1], Before(":", Before(r.headers[n][2],
                               Before("nl", LinesOn(r, n + 1)))))
  <2>1. PICK m \in Nat \ {0} : m = n + 1
    OBVIOUS
  <2>2. n \in 1..N
    BY <1>5
  <2>3. /\ FlattenSeq(From(s, n)) = s[n] \o FlattenSeq(From(s, m)) /\ s[n] \in Seq(Bytes)
        /\ FlattenSeq(From(s, m)) \in Seq(Bytes)
    BY <1>1, <1>5, <2>1, FlattenFrom
  <2>4. LinesOn(r, m) = FlattenSeq(From(s, m)) \o e /\ LinesOn(r, m) \in Seq(Bytes)
    BY <1>1, <2>3, ConcatProperties DEF LinesOn
  <2>5. LinesOn(r, n) = s[n] \o LinesOn(r, m)
    <3>1. PICK a \in Seq(Bytes), b \in Seq(Bytes) : a = s[n] /\ b = FlattenSeq(From(s, m))
      BY <2>3
    <3>2. (a \o b) \o e = a \o (b \o e)
      <4>1. Associative(a, b, e)
        BY Associates
      <4> QED BY <4>1 DEF Associative
    <3> QED BY <1>2, <2>3, <2>4, <3>1, <3>2
  <2>6. PICK key \in Bytes, value \in Bytes : key = r.headers[n][1] /\ value = r.headers[n][2]
    BY <1>1, <2>2, RequestBytes, BytesAre
  <2>7. s[n] = <<key, ":", value, "nl">>
    BY <1>1, <2>2, <2>6, LinesAre
  <2>8. ":" \in Bytes /\ "nl" \in Bytes
    BY BytesAre DEF Signs
  <2>9. <<key, ":", value, "nl">> \o LinesOn(r, m) =
          Before(key, Before(":", Before(value, Before("nl", LinesOn(r, m)))))
    <3>1. PICK t \in Seq(Bytes), c \in Bytes, d \in Bytes :
            t = LinesOn(r, m) /\ c = ":" /\ d = "nl"
      BY <2>4, <2>8
    <3>2. <<key, c, value, d>> \o t = Before(key, Before(c, Before(value, Before(d, t))))
      BY FourBefore
    <3> QED BY <3>1, <3>2
  <2> QED BY <2>1, <2>5, <2>6, <2>7, <2>9
<1> QED BY <1>1, <1>3, <1>4, <1>5

LEMMA VersionIs ==
  ASSUME NEW r \in Request
  PROVE  /\ VersionOn(r) \in Seq(Bytes)
         /\ VersionOn(r) = Before(" ", Before("version", Before("nl", LinesOn(r, 1))))
<1>1. LinesOn(r, 1) \in Seq(Bytes)
  <2>1. 1 \in Nat \ {0}
    OBVIOUS
  <2> QED BY <2>1, LinesFrom
<1>2. " " \in Bytes /\ "version" \in Bytes /\ "nl" \in Bytes
  BY BytesAre DEF Signs
<1>3. PICK t \in Seq(Bytes), x \in Bytes, y \in Bytes, z \in Bytes :
        t = LinesOn(r, 1) /\ x = " " /\ y = "version" /\ z = "nl"
  BY <1>1, <1>2
<1>4. <<x, y, z>> \o t = Before(x, Before(y, Before(z, t)))
  BY ThreeBefore
<1>5. <<x, y, z>> \in Seq(Bytes)
  BY ThreeAre
<1>6. <<x, y, z>> \o t \in Seq(Bytes)
  BY <1>5, ConcatProperties
<1> QED BY <1>3, <1>4, <1>6 DEF VersionOn

LEMMA QueryIs ==
  ASSUME NEW r \in Request
  PROVE  /\ QueryOn(r) \in Seq(Bytes) /\ QueryPart(r) \in Seq(Bytes)
         /\ r.query = <<>> => QueryOn(r) = VersionOn(r)
         /\ r.query # <<>> => QueryOn(r) = Before("?", r.query \o VersionOn(r))
<1>1. PICK t \in Seq(Bytes), q \in Seq(Bytes) : t = VersionOn(r) /\ q = r.query
  BY VersionIs, RequestBytes
<1>2. "?" \in Bytes
  BY BytesAre DEF Signs
<1>3. CASE r.query = <<>>
  <2>1. QueryPart(r) = <<>> /\ <<>> \in Seq(Bytes) /\ <<>> \o t = t
    BY <1>3, ConcatEmptySeq DEF QueryPart
  <2> QED BY <1>1, <1>3, <2>1 DEF QueryOn
<1>4. CASE r.query # <<>>
  <2>1. QueryPart(r) = Before("?", q)
    BY <1>1, <1>4 DEF QueryPart, Before
  <2>2. Before("?", q) \o t = Before("?", q \o t) /\ Before("?", q) \in Seq(Bytes)
    <3>1. PICK x \in Bytes : x = "?"
      BY <1>2
    <3>2. Before(x, q) \in Seq(Bytes)
      BY BeforeTyped
    <3>3. Before(x, q) \o t = Before(x, q \o t)
      BY BeforeJoins
    <3> QED BY <3>1, <3>2, <3>3
  <2>3. Before("?", q) \o t \in Seq(Bytes)
    BY <2>2, ConcatProperties
  <2> QED BY <1>1, <1>4, <2>1, <2>2, <2>3 DEF QueryOn
<1> QED BY <1>3, <1>4

\* Three sequences joined from the left, and from the right.
Joined(S, a, b, c) == a \in Seq(S) /\ b \in Seq(S) /\ c \in Seq(S)
Cat(a, b) == a \o b

LEMMA CatTyped ==
  ASSUME NEW S, NEW a \in Seq(S), NEW b \in Seq(S)
  PROVE  Cat(a, b) \in Seq(S)
BY ConcatProperties DEF Cat

LEMMA CatAssociative ==
  ASSUME NEW S, NEW a \in Seq(S), NEW b \in Seq(S), NEW c \in Seq(S)
  PROVE  Cat(Cat(a, b), c) = Cat(a, Cat(b, c))
<1>1. (a \o b) \o c = a \o (b \o c)
  <2>1. Associative(a, b, c)
    BY Associates
  <2> QED BY <2>1 DEF Associative
<1> QED BY <1>1 DEF Cat

\* Five sequences.
LEMMA FiveJoined ==
  ASSUME NEW S, NEW a \in Seq(S), NEW b \in Seq(S), NEW c \in Seq(S),
         NEW x \in Seq(S), NEW y \in Seq(S)
  PROVE  Cat(Cat(Cat(Cat(a, b), c), x), y) = Cat(a, Cat(b, Cat(c, Cat(x, y))))
<1>1. Cat(a, b) \in Seq(S) /\ Cat(x, y) \in Seq(S) /\ Cat(c, Cat(x, y)) \in Seq(S)
      /\ Cat(Cat(a, b), c) \in Seq(S)
  BY CatTyped
<1>2. Cat(Cat(Cat(Cat(a, b), c), x), y) = Cat(Cat(Cat(a, b), c), Cat(x, y))
  BY <1>1, CatAssociative
<1>3. Cat(Cat(Cat(a, b), c), Cat(x, y)) = Cat(Cat(a, b), Cat(c, Cat(x, y)))
  BY <1>1, CatAssociative
<1>4. Cat(Cat(a, b), Cat(c, Cat(x, y))) = Cat(a, Cat(b, Cat(c, Cat(x, y))))
  BY <1>1, CatAssociative
<1> QED BY <1>2, <1>3, <1>4

\* Eight of them.
Eight(S, m, p, q, v, f, l, n, b) ==
  /\ m \in Seq(S) /\ p \in Seq(S) /\ q \in Seq(S) /\ v \in Seq(S)
  /\ f \in Seq(S) /\ l \in Seq(S) /\ n \in Seq(S) /\ b \in Seq(S)

LEMMA EightJoined ==
  ASSUME NEW S, NEW m, NEW p, NEW q, NEW v, NEW f, NEW l, NEW n, NEW b,
         Eight(S, m, p, q, v, f, l, n, b)
  PROVE  Cat(Cat(Cat(Cat(Cat(Cat(Cat(m, p), q), v), f), l), n), b) =
           Cat(m, Cat(p, Cat(q, Cat(v, Cat(f, Cat(l, Cat(n, b)))))))
<1>0. /\ m \in Seq(S) /\ p \in Seq(S) /\ q \in Seq(S) /\ v \in Seq(S)
      /\ f \in Seq(S) /\ l \in Seq(S) /\ n \in Seq(S) /\ b \in Seq(S)
  BY DEF Eight
<1>1. PICK u \in Seq(S) : u = Cat(Cat(Cat(m, p), q), v)
  BY <1>0, CatTyped
<1>2. Cat(Cat(Cat(Cat(u, f), l), n), b) = Cat(u, Cat(f, Cat(l, Cat(n, b))))
  BY <1>0, FiveJoined
<1>3. PICK w \in Seq(S) : w = Cat(f, Cat(l, Cat(n, b)))
  BY <1>0, CatTyped
<1>4. Cat(Cat(Cat(Cat(m, p), q), v), w) = Cat(m, Cat(p, Cat(q, Cat(v, w))))
  BY <1>0, FiveJoined
<1> QED BY <1>1, <1>2, <1>3, <1>4

\* A request, from its beginning.
LEMMA EncodedIs ==
  ASSUME NEW r \in Request
  PROVE  /\ Encoded(r) = Before(r.method, r.path \o QueryOn(r))
         /\ r.path \o QueryOn(r) \in Seq(Bytes) /\ Encoded(r) \in Seq(Bytes)
<1>1. PICK m \in Seq(Bytes), v \in Seq(Bytes), n \in Seq(Bytes) :
        m = <<r.method>> /\ v = <<" ", "version", "nl">> /\ n = <<"nl">>
  <2>1. r.method \in Bytes /\ " " \in Bytes /\ "version" \in Bytes /\ "nl" \in Bytes
    BY RequestBytes, BytesAre DEF Signs
  <2>2. <<r.method>> \in Seq(Bytes) /\ <<"nl">> \in Seq(Bytes)
    BY <2>1, OneIsSeq
  <2>3. <<" ", "version", "nl">> \in Seq(Bytes)
    BY <2>1, ThreeAre
  <2> QED BY <2>2, <2>3
<1>2. PICK p \in Seq(Bytes), q \in Seq(Bytes), l \in Seq(Bytes), b \in Seq(Bytes) :
        p = r.path /\ q = QueryPart(r) /\ l = LengthLine(r) /\ b = r.body
  BY RequestBytes, QueryIs, EndingIs
<1>3. PICK f \in Seq(Bytes) : f = FlattenSeq(Lines(r.headers))
  BY LinesAre, FlattenTyped
<1>4. Encoded(r) = ((((((m \o p) \o q) \o v) \o f) \o l) \o n) \o b
  BY <1>1, <1>2, <1>3 DEF Encoded
<1>5. Encoded(r) = m \o (p \o (q \o (v \o (f \o (l \o (n \o b))))))
  <2>0. Eight(Bytes, m, p, q, v, f, l, n, b)
    BY DEF Eight
  <2>1. Cat(Cat(Cat(Cat(Cat(Cat(Cat(m, p), q), v), f), l), n), b) =
          Cat(m, Cat(p, Cat(q, Cat(v, Cat(f, Cat(l, Cat(n, b)))))))
    BY <2>0, EightJoined
  <2>2. ((((((m \o p) \o q) \o v) \o f) \o l) \o n) \o b =
          m \o (p \o (q \o (v \o (f \o (l \o (n \o b))))))
    BY <2>1 DEF Cat
  <2> QED BY <1>4, <2>2
<1>6. n \o b = Ending(r)
  BY <1>1, <1>2 DEF Ending, Before
<1>7. l \o Ending(r) = LengthOn(r)
  BY <1>2 DEF LengthOn
<1>8. f \o LengthOn(r) = LinesOn(r, 1)
  <2>1. From(Lines(r.headers), 1) = Lines(r.headers)
    BY LinesAre, FromFirst
  <2> QED BY <1>3, <2>1 DEF LinesOn
<1>9. v \o LinesOn(r, 1) = VersionOn(r)
  BY <1>1 DEF VersionOn
<1>10. q \o VersionOn(r) = QueryOn(r)
  BY <1>2 DEF QueryOn
<1>11. Encoded(r) = m \o (p \o QueryOn(r))
  BY <1>5, <1>6, <1>7, <1>8, <1>9, <1>10
<1>12. PICK u \in Seq(Bytes) : u = p \o QueryOn(r)
  BY QueryIs, ConcatProperties
<1>13. m \o u \in Seq(Bytes)
  BY ConcatProperties
<1> QED BY <1>1, <1>2, <1>11, <1>12, <1>13 DEF Before

LEMMA EncodedSome ==
  ASSUME NEW r \in Request
  PROVE  Encoded(r) # <<>>
<1>1. r.method \in Bytes
  BY RequestBytes
<1> QED BY <1>1, EncodedIs, BeforeSome

-----------------------------------------------------------------------------
(* What a byte does to the parser, and to what is kept of the request.      *)

\* The parser waits for a byte of the path, of the query, of the lines after
\* them, or of the body.
InPath(p, state) ==
  p \in HttpParser /\ p.state = state /\ ~p.ready /\ ~p.qs /\ ~p.body /\ p.cl = 0
InQuery(p, state) ==
  p \in HttpParser /\ p.state = state /\ ~p.ready /\ p.qs /\ ~p.body /\ p.cl = 0
InHead(p, state, cl) ==
  p \in HttpParser /\ p.state = state /\ ~p.ready /\ ~p.body /\ p.cl = cl
InBody(p, state, cl) ==
  p \in HttpParser /\ p.state = state /\ ~p.ready /\ p.body /\ p.cl = cl

\* A byte is taken, with these callbacks; the method stays what it was.
Advances(p, res, calls) ==
  res.ok /\ ~res.ready /\ res.calls = calls /\ (res.p.post <=> p.post)

\* Another state, and nothing else.
To(p, state) == [p EXCEPT !.state = state]

LEMMA ToIs ==
  ASSUME NEW p \in HttpParser, NEW state \in HttpStates, NEW q, q = To(p, state)
  PROVE  /\ q \in HttpParser /\ q.state = state /\ q.cl = p.cl
         /\ (q.ready <=> p.ready) /\ (q.qs <=> p.qs) /\ (q.body <=> p.body)
         /\ (q.post <=> p.post)
BY DEF To, HttpParser

LEMMA MovesIs ==
  ASSUME NEW p, NEW state, NEW calls, NEW res, res = Moves(p, state, calls)
  PROVE  res.ok /\ ~res.ready /\ res.calls = calls /\ res.p = To(p, state)
BY AcceptsFacts DEF Moves, To

LEMMA Moved ==
  ASSUME NEW p \in HttpParser, NEW state \in HttpStates, NEW calls, NEW res,
         res = Moves(p, state, calls), NEW from
  PROVE  /\ Advances(p, res, calls)
         /\ InPath(p, from) => InPath(res.p, state)
         /\ InQuery(p, from) => InQuery(res.p, state)
         /\ \A cl : InHead(p, from, cl) => InHead(res.p, state, cl)
         /\ \A cl : InBody(p, from, cl) => InBody(res.p, state, cl)
<1>1. /\ res.ok /\ ~res.ready /\ res.calls = calls /\ res.p = To(p, state)
  BY MovesIs
<1>2. PICK q : q = res.p
  OBVIOUS
<1>3. /\ q \in HttpParser /\ q.state = state /\ q.cl = p.cl
      /\ (q.ready <=> p.ready) /\ (q.qs <=> p.qs) /\ (q.body <=> p.body)
      /\ (q.post <=> p.post)
  BY <1>1, <1>2, ToIs
<1> QED BY <1>1, <1>2, <1>3 DEF Advances, InPath, InQuery, InHead, InBody

LEMMA StateNames ==
  {"GO", "PT", "H1", "EL", "C1", "HH", "HI", "CV", "E1", "E2", "BT"} = HttpStates
BY DEF HttpStates


\* The first byte.
LEMMA FirstByte ==
  ASSUME NEW t \in Methods, NEW res, res = parse_http_char(NewHttpParser, t)
  PROVE  /\ res.ok /\ ~res.ready /\ res.calls = Call("method", t)
         /\ InPath(res.p, "PT") /\ (res.p.post <=> t = "POST")
<1> DEFINE p == NewHttpParser
           q == [p EXCEPT !.post = (t = "POST")]
<1>1. /\ q \in HttpParser /\ ~q.qs /\ ~q.body /\ ~q.ready /\ q.cl = 0 /\ q.state = "GO"
      /\ (q.post <=> t = "POST")
  BY DEF NewHttpParser, HttpParser, HttpStates
<1>3. p.state = "GO" /\ ~p.ready /\ t # "nul"
  BY DEF NewHttpParser, Methods
<1> HIDE DEF p
<1>4. parse_http_char(p, t) = Transition(p, t)
  BY <1>3 DEF parse_http_char
<1>5. Transition(p, t) = Start(p, t)
  BY <1>3 DEF Transition
<1>6. Start(p, t) = Moves(q, "PT", Call("method", t))
  BY DEF Start
<1> HIDE DEF q
<1>7. InPath(q, "GO")
  BY <1>1 DEF InPath
<1>8. res = Moves(q, "PT", Call("method", t))
  BY <1>4, <1>5, <1>6 DEF p
<1>9. Advances(q, res, Call("method", t)) /\ InPath(res.p, "PT")
  BY <1>1, <1>7, <1>8, Moved, StateNames
<1> QED BY <1>1, <1>9 DEF Advances

LEMMA ByState ==
  ASSUME NEW p, NEW t, ~p.ready, t # "nul"
  PROVE  parse_http_char(p, t) = Transition(p, t)
BY DEF parse_http_char

\* A byte of the path.
LEMMA PathByte ==
  ASSUME NEW p, InPath(p, "PT"), NEW t, t \notin {"nl", "nul"}, NEW res,
         res = parse_http_char(p, t)
  PROVE  /\ t = " " => Advances(p, res, Call("path_end", "")) /\ InHead(res.p, "H1", 0)
         /\ t = "?" => Advances(p, res, Call("path_end", "")) /\ InQuery(res.p, "PT")
         /\ t = "%" => Advances(p, res, <<>>) /\ InPath(res.p, "E1")
         /\ t \notin {" ", "?", "%"} => Advances(p, res, Call("path_char", t)) /\ InPath(res.p, "PT")
<1>1. p \in HttpParser /\ ~p.qs /\ p.state = "PT" /\ ~p.ready /\ InHead(p, "PT", 0)
  BY DEF InPath, InHead
<1>2. res = Path(p, t)
  BY <1>1, ByState DEF Transition
<1>4. PathEnd(p) = Call("path_end", "") /\ PathOrQs(p, t) = Moves(p, "PT", Call("path_char", t))
  BY <1>1 DEF PathEnd, PathOrQs
<1>5. CASE t = " "
  <2>1. res = Moves(p, "H1", Call("path_end", ""))
    BY <1>2, <1>4, <1>5 DEF Path
  <2>2. Advances(p, res, Call("path_end", "")) /\ InHead(res.p, "H1", 0)
    BY <1>1, <2>1, Moved, StateNames
  <2> QED BY <1>5, <2>2
<1>6. CASE t = "?"
  <2> DEFINE q == [p EXCEPT !.qs = TRUE]
  <2>1. /\ q \in HttpParser /\ q.qs /\ (q.body <=> p.body) /\ ~q.ready /\ q.cl = p.cl
        /\ q.state = p.state /\ (q.post <=> p.post)
    BY <1>1 DEF HttpParser
  <2>2. res = Moves(q, "PT", Call("path_end", ""))
    BY <1>1, <1>2, <1>4, <1>6 DEF Path
  <2> HIDE DEF q
  <2>3. InQuery(q, "PT")
    BY <2>1 DEF InPath, InQuery
  <2>4. Advances(q, res, Call("path_end", "")) /\ InQuery(res.p, "PT")
    BY <2>1, <2>2, <2>3, Moved, StateNames
  <2> QED BY <1>6, <2>1, <2>4 DEF Advances
<1>7. CASE t = "%"
  <2>1. res = Moves(p, "E1", <<>>)
    BY <1>2, <1>7 DEF Path
  <2>2. Advances(p, res, <<>>) /\ InPath(res.p, "E1")
    BY <1>1, <2>1, Moved, StateNames
  <2> QED BY <1>7, <2>2
<1>8. CASE t \notin {" ", "?", "%"}
  <2>1. res = Moves(p, "PT", Call("path_char", t))
    BY <1>2, <1>4, <1>8 DEF Path
  <2>2. Advances(p, res, Call("path_char", t)) /\ InPath(res.p, "PT")
    BY <1>1, <2>1, Moved, StateNames
  <2> QED BY <1>8, <2>2
<1> QED BY <1>5, <1>6, <1>7, <1>8

\* A byte of the query.
LEMMA QueryByte ==
  ASSUME NEW p, InQuery(p, "PT"), NEW t, t \notin {"nl", "nul"}, NEW res,
         res = parse_http_char(p, t)
  PROVE  /\ t = " " => Advances(p, res, <<>>) /\ InHead(res.p, "H1", 0)
         /\ t = "%" => Advances(p, res, <<>>) /\ InQuery(res.p, "E1")
         /\ t \notin {" ", "%"} => Advances(p, res, Call("qs_char", t)) /\ InQuery(res.p, "PT")
<1>1. p \in HttpParser /\ p.qs /\ p.state = "PT" /\ ~p.ready /\ InHead(p, "PT", 0)
  BY DEF InQuery, InHead
<1>2. res = Path(p, t)
  BY <1>1, ByState DEF Transition
<1>4. PathEnd(p) = <<>> /\ PathOrQs(p, t) = Moves(p, "PT", Call("qs_char", t))
  BY <1>1 DEF PathEnd, PathOrQs
<1>5. CASE t = " "
  <2>1. res = Moves(p, "H1", <<>>)
    BY <1>2, <1>4, <1>5 DEF Path
  <2>2. Advances(p, res, <<>>) /\ InHead(res.p, "H1", 0)
    BY <1>1, <2>1, Moved, StateNames
  <2> QED BY <1>5, <2>2
<1>7. CASE t = "%"
  <2>1. res = Moves(p, "E1", <<>>)
    BY <1>2, <1>7 DEF Path
  <2>2. Advances(p, res, <<>>) /\ InQuery(res.p, "E1")
    BY <1>1, <2>1, Moved, StateNames
  <2> QED BY <1>7, <2>2
<1>8. CASE t \notin {" ", "%"}
  <2>1. res = Moves(p, "PT", Call("qs_char", t))
    BY <1>1, <1>2, <1>4, <1>8 DEF Path
  <2>2. Advances(p, res, Call("qs_char", t)) /\ InQuery(res.p, "PT")
    BY <1>1, <2>1, Moved, StateNames
  <2> QED BY <1>8, <2>2
<1> QED BY <1>5, <1>7, <1>8


LEMMA HexIs == \A t : Hex(t) => t \notin {"%", "nul", "nl", " ", "?", ":"}
BY DEF Hex, Digit

\* An escape in the path, and in the query.
LEMMA PathEscape ==
  ASSUME NEW p, NEW t, Hex(t), NEW res, res = parse_http_char(p, t)
  PROVE  /\ InPath(p, "E1") => Advances(p, res, <<>>) /\ InPath(res.p, "E2")
         /\ InPath(p, "E2") => Advances(p, res, Call("path_char", Decoded)) /\ InPath(res.p, "PT")
<1>1. ASSUME InPath(p, "E1")
      PROVE  Advances(p, res, <<>>) /\ InPath(res.p, "E2")
  <2>1. p \in HttpParser /\ p.state = "E1" /\ ~p.ready /\ ~p.body
    BY <1>1 DEF InPath
  <2>2. res = InEscape(p, "E2")
    BY <2>1, HexIs, ByState DEF Transition
  <2>3. res = Moves(p, "E2", <<>>)
    BY <2>1, <2>2 DEF InEscape
  <2> QED BY <1>1, <2>1, <2>3, Moved, StateNames
<1>2. ASSUME InPath(p, "E2")
      PROVE  Advances(p, res, Call("path_char", Decoded)) /\ InPath(res.p, "PT")
  <2>1. p \in HttpParser /\ p.state = "E2" /\ ~p.ready /\ ~p.body /\ ~p.qs
    BY <1>2 DEF InPath
  <2>2. res = EscapeEnds(p)
    BY <2>1, HexIs, ByState DEF Transition
  <2>3. res = Moves(p, "PT", Call("path_char", Decoded))
    BY <2>1, <2>2 DEF EscapeEnds, PathOrQs
  <2> QED BY <1>2, <2>1, <2>3, Moved, StateNames
<1> QED BY <1>1, <1>2

LEMMA QueryEscape ==
  ASSUME NEW p, NEW t, Hex(t), NEW res, res = parse_http_char(p, t)
  PROVE  /\ InQuery(p, "E1") => Advances(p, res, <<>>) /\ InQuery(res.p, "E2")
         /\ InQuery(p, "E2") => Advances(p, res, Call("qs_char", Decoded)) /\ InQuery(res.p, "PT")
<1>1. ASSUME InQuery(p, "E1")
      PROVE  Advances(p, res, <<>>) /\ InQuery(res.p, "E2")
  <2>1. p \in HttpParser /\ p.state = "E1" /\ ~p.ready /\ ~p.body
    BY <1>1 DEF InQuery
  <2>2. res = InEscape(p, "E2")
    BY <2>1, HexIs, ByState DEF Transition
  <2>3. res = Moves(p, "E2", <<>>)
    BY <2>1, <2>2 DEF InEscape
  <2> QED BY <1>1, <2>1, <2>3, Moved, StateNames
<1>2. ASSUME InQuery(p, "E2")
      PROVE  Advances(p, res, Call("qs_char", Decoded)) /\ InQuery(res.p, "PT")
  <2>1. p \in HttpParser /\ p.state = "E2" /\ ~p.ready /\ ~p.body /\ p.qs
    BY <1>2 DEF InQuery
  <2>2. res = EscapeEnds(p)
    BY <2>1, HexIs, ByState DEF Transition
  <2>3. res = Moves(p, "PT", Call("qs_char", Decoded))
    BY <2>1, <2>2 DEF EscapeEnds, PathOrQs
  <2> QED BY <1>2, <2>1, <2>3, Moved, StateNames
<1> QED BY <1>1, <1>2

\* The version.
LEMMA VersionByte ==
  ASSUME NEW p, NEW res
  PROVE  /\ InHead(p, "H1", 0) /\ res = parse_http_char(p, "version") =>
              Advances(p, res, <<>>) /\ InHead(res.p, "EL", 0)
         /\ InHead(p, "EL", 0) /\ res = parse_http_char(p, "nl") =>
              Advances(p, res, <<>>) /\ InHead(res.p, "C1", 0)
<1>1. ASSUME InHead(p, "H1", 0), res = parse_http_char(p, "version")
      PROVE  Advances(p, res, <<>>) /\ InHead(res.p, "EL", 0)
  <2>1. p \in HttpParser /\ p.state = "H1" /\ ~p.ready
    BY <1>1 DEF InHead
  <2>2. res = Moves(p, "EL", <<>>)
    BY <1>1, <2>1, ByState DEF Transition
  <2> QED BY <1>1, <2>1, <2>2, Moved, StateNames
<1>2. ASSUME InHead(p, "EL", 0), res = parse_http_char(p, "nl")
      PROVE  Advances(p, res, <<>>) /\ InHead(res.p, "C1", 0)
  <2>1. p \in HttpParser /\ p.state = "EL" /\ ~p.ready
    BY <1>2 DEF InHead
  <2>2. res = Moves(p, "C1", <<>>)
    BY <1>2, <2>1, ByState DEF Transition
  <2> QED BY <1>2, <2>1, <2>2, Moved, StateNames
<1> QED BY <1>1, <1>2

\* The bytes of a header.
LEMMA KeyByte ==
  ASSUME NEW p, InHead(p, "C1", 0), NEW t \in PlainWords, NEW res, res = parse_http_char(p, t)
  PROVE  Advances(p, res, Call("header_keyc", t)) /\ InHead(res.p, "HH", 0)
<1>1. t \notin {"nl", "nul", "Content-length", ":"}
  BY PlainWordsArePlain DEF Signs
<1>2. p \in HttpParser /\ p.state = "C1" /\ ~p.ready
  BY DEF InHead
<1>3. res = HeaderLine(p, t)
  BY <1>1, <1>2, ByState DEF Transition
<1>4. res = Moves(p, "HH", Call("header_keyc", t))
  BY <1>1, <1>3 DEF HeaderLine
<1> QED BY <1>2, <1>4, Moved, StateNames

LEMMA ColonByte ==
  ASSUME NEW p, InHead(p, "HH", 0), NEW res, res = parse_http_char(p, ":")
  PROVE  Advances(p, res, Call("header_key", "")) /\ InHead(res.p, "HI", 0)
<1>2. p \in HttpParser /\ p.state = "HH" /\ ~p.ready
  BY DEF InHead
<1>3. res = HeaderKey(p, ":")
  BY <1>2, ByState DEF Transition
<1>4. res = Moves(p, "HI", Call("header_key", ""))
  <2>1. ":" \notin PlainWords
    BY PlainWordsArePlain DEF Signs
  <2> QED BY <1>3, <2>1 DEF HeaderKey
<1> QED BY <1>2, <1>4, Moved, StateNames

LEMMA ValueByte ==
  ASSUME NEW p, InHead(p, "HI", 0), NEW t, t # "nul", NEW res, res = parse_http_char(p, t)
  PROVE  /\ t # "nl" => Advances(p, res, Call("header_valc", t)) /\ InHead(res.p, "HI", 0)
         /\ t = "nl" => Advances(p, res, Call("header_val", "")) /\ InHead(res.p, "C1", 0)
<1>2. p \in HttpParser /\ p.state = "HI" /\ ~p.ready
  BY DEF InHead
<1>3. res = HeaderValue(p, t)
  BY <1>2, ByState DEF Transition
<1>4. CASE t = "nl"
  <2>1. res = Moves(p, "C1", Call("header_val", ""))
    BY <1>3, <1>4 DEF HeaderValue
  <2>2. Advances(p, res, Call("header_val", "")) /\ InHead(res.p, "C1", 0)
    <3>1. "C1" \in HttpStates
      BY StateNames
    <3> QED BY <1>2, <2>1, <3>1, Moved
  <2> QED BY <1>4, <2>2
<1>5. CASE t # "nl"
  <2>1. res = Moves(p, "HI", Call("header_valc", t))
    BY <1>3, <1>5 DEF HeaderValue
  <2>2. Advances(p, res, Call("header_valc", t)) /\ InHead(res.p, "HI", 0)
    BY <1>2, <2>1, Moved, StateNames
  <2> QED BY <1>5, <2>2
<1> QED BY <1>4, <1>5

\* Content-length: the word, a digit of it, its end.
LEMMA LengthWord ==
  ASSUME NEW p, InHead(p, "C1", 0), NEW res, res = parse_http_char(p, "Content-length")
  PROVE  Advances(p, res, Call("header_key", "")) /\ InHead(res.p, "CV", 0)
<1>2. p \in HttpParser /\ p.state = "C1" /\ ~p.ready
  BY DEF InHead
<1>3. res = HeaderLine(p, "Content-length")
  BY <1>2, ByState DEF Transition
<1>4. res = Moves(p, "CV", Call("header_key", ""))
  <2>1. "Content-length" \notin PlainWords
    BY PlainWordsArePlain DEF Signs
  <2> QED BY <1>3, <2>1 DEF HeaderLine
<1> QED BY <1>2, <1>4, Moved, StateNames

LEMMA LengthEnds ==
  ASSUME NEW cl, NEW p, InHead(p, "CV", cl), NEW res, res = parse_http_char(p, "nl")
  PROVE  Advances(p, res, Call("cl_val", "")) /\ InHead(res.p, "C1", cl)
<1>2. p \in HttpParser /\ p.state = "CV" /\ ~p.ready
  BY DEF InHead
<1>3. res = ContentLength(p, "nl")
  BY <1>2, ByState DEF Transition
<1>4. res = Moves(p, "C1", Call("cl_val", ""))
  BY <1>3 DEF ContentLength
<1> QED BY <1>2, <1>4, Moved, StateNames

LEMMA LengthDigit ==
  ASSUME NEW cl \in Nat, NEW p, InHead(p, "CV", cl), NEW t \in DOMAIN Digit, NEW res,
         res = parse_http_char(p, t), NEW n \in Nat, n = 10 * cl + Digit[t]
  PROVE  /\ n <= MaxCl => Advances(p, res, <<>>) /\ InHead(res.p, "CV", n)
         /\ n > MaxCl => ~res.ok
<1>1. t \notin {"nl", "nul"}
  BY DEF Digit
<1>2. p \in HttpParser /\ p.state = "CV" /\ ~p.ready /\ ~p.body /\ p.cl = cl
  BY DEF InHead
<1>3. res = ContentLength(p, t)
  BY <1>1, <1>2, ByState DEF Transition
<1> DEFINE q == [p EXCEPT !.cl = p.cl * 10 + Digit[t]]
<1>4. p.cl * 10 + Digit[t] = n
  BY <1>2
<1>5. /\ q \in HttpParser /\ q.state = "CV" /\ ~q.ready /\ ~q.body /\ q.cl = n
      /\ (q.post <=> p.post)
  BY <1>2, <1>4 DEF HttpParser
<1>6. res = IF n > MaxCl THEN Refuses(q) ELSE Accepts(q, <<>>)
  BY <1>1, <1>3, <1>4 DEF ContentLength
<1> HIDE DEF q
<1>7. CASE n <= MaxCl
  <2>1. ~(n > MaxCl)
    BY <1>7, MaxClIsNatural
  <2>2. res = Accepts(q, <<>>)
    BY <1>6, <2>1
  <2> QED BY <1>5, <2>1, <2>2, AcceptsFacts DEF Advances, InHead
<1>8. CASE n > MaxCl
  <2>1. ~(n <= MaxCl)
    BY <1>8, MaxClIsNatural
  <2>2. res = Refuses(q)
    BY <1>6, <1>8
  <2>3. ~res.ok
    BY <2>2, AcceptsFacts
  <2> QED BY <2>1, <2>3
<1> QED BY <1>7, <1>8, MaxClIsNatural


\* A byte that completes the request.
Completes(res, calls) == res.ok /\ res.ready /\ res.calls = calls /\ res.p.ready

\* The empty line.
LEMMA EmptyLine ==
  ASSUME NEW cl, NEW p, InHead(p, "C1", cl), NEW res, res = parse_http_char(p, "nl")
  PROVE  /\ ~p.post \/ cl = 0 => Completes(res, <<>>)
         /\ p.post /\ cl # 0 => Advances(p, res, <<>>) /\ InBody(res.p, "BT", cl)
<1>2. p \in HttpParser /\ p.state = "C1" /\ ~p.ready /\ p.cl = cl
  BY DEF InHead
<1>3. res = HeadersEnd(p)
  <2>1. parse_http_char(p, "nl") = HeaderLine(p, "nl")
    BY <1>2, ByState DEF Transition
  <2>2. "nl" \notin PlainWords
    BY PlainWordsArePlain DEF Signs
  <2> QED BY <2>1, <2>2 DEF HeaderLine
<1> DEFINE q == IF p.post
                THEN [p EXCEPT !.state = "BT", !.qs = TRUE, !.body = TRUE] ELSE p
           now == ~p.post \/ p.cl = 0
           s == [q EXCEPT !.ready = now]
           r == [Accepts(s, <<>>) EXCEPT !.ready = now]
<1>4. res = r
  BY <1>3 DEF HeadersEnd
<1>5. q \in HttpParser /\ (p.post => q.state = "BT" /\ q.body) /\ q.cl = cl /\ (q.post <=> p.post)
  BY <1>2 DEF HttpParser, HttpStates
<1>6. now \in BOOLEAN /\ (now <=> ~p.post \/ cl = 0)
  BY <1>2
<1> HIDE DEF q, now
<1>7. /\ s \in HttpParser /\ s.state = q.state /\ (s.body <=> q.body) /\ s.cl = q.cl
      /\ (s.post <=> q.post) /\ (s.ready <=> now)
  BY <1>5, <1>6 DEF HttpParser
<1> HIDE DEF s
<1>8. r.p = s /\ r.ok /\ r.calls = <<>> /\ (r.ready <=> now)
  BY <1>6 DEF Accepts
<1> HIDE DEF r
<1>9. CASE ~p.post \/ cl = 0
  BY <1>4, <1>6, <1>7, <1>8, <1>9 DEF Completes
<1>10. CASE p.post /\ cl # 0
  BY <1>4, <1>5, <1>6, <1>7, <1>8, <1>10 DEF Advances, InBody
<1> QED BY <1>9, <1>10

\* A character of the body has been read.
LEMMA OneConsumed ==
  ASSUME NEW cl \in Nat \ {0}, NEW state, NEW p, InBody(p, state, cl), NEW calls,
         NEW res, res = Consumed(p, calls)
  PROVE  /\ cl = 1 => Completes(res, calls)
         /\ cl # 1 => Advances(p, res, calls) /\ InBody(res.p, "BT", cl - 1)
<1>1. p \in HttpParser /\ ~p.ready /\ p.body /\ p.cl = cl
  BY DEF InBody
<1> DEFINE last == p.cl = 1
           s == [p EXCEPT !.state = "BT", !.cl = @ - 1, !.ready = last]
           r == [Accepts(s, calls) EXCEPT !.ready = last]
<1>2. res = r
  BY DEF Consumed
<1>3. last \in BOOLEAN /\ (last <=> cl = 1)
  BY <1>1
<1> HIDE DEF last
<1> DEFINE q == [p EXCEPT !.state = "BT"]
           u == [q EXCEPT !.cl = cl - 1]
<1>4. /\ q \in HttpParser /\ q.state = "BT" /\ q.cl = cl /\ (q.body <=> p.body)
      /\ (q.post <=> p.post)
  BY <1>1 DEF HttpParser, HttpStates
<1>6. s = [u EXCEPT !.ready = last]
  BY <1>1 DEF HttpParser
<1> HIDE DEF q
<1>5. /\ u \in HttpParser /\ u.state = "BT" /\ u.cl = cl - 1 /\ (u.body <=> p.body)
      /\ (u.post <=> p.post)
  <2>1. cl - 1 \in Nat
    OBVIOUS
  <2> QED BY <1>4, <2>1 DEF HttpParser
<1> HIDE DEF u
<1>7. /\ s \in HttpParser /\ s.state = "BT" /\ (s.body <=> p.body) /\ s.cl = cl - 1
      /\ (s.post <=> p.post) /\ (s.ready <=> last)
  <2> HIDE DEF s
  <2> QED BY <1>3, <1>5, <1>6 DEF HttpParser
<1> HIDE DEF s
<1>8. r.p = s /\ r.ok /\ r.calls = calls /\ (r.ready <=> last)
  BY <1>3 DEF Accepts
<1> HIDE DEF r
<1>9. CASE cl = 1
  BY <1>2, <1>3, <1>7, <1>8, <1>9 DEF Completes
<1>10. CASE cl # 1
  BY <1>1, <1>2, <1>3, <1>7, <1>8, <1>10 DEF Advances, InBody
<1> QED BY <1>9, <1>10

\* A byte of an escape in the body, but for the last.
LEMMA EscapeConsumed ==
  ASSUME NEW cl \in Nat \ {0}, NEW from, NEW p, InBody(p, from, cl),
         NEW state \in {"E1", "E2"}, NEW res, res = InEscape(p, state)
  PROVE  /\ cl = 1 => ~res.ok /\ res.p.ready
         /\ cl # 1 => Advances(p, res, <<>>) /\ InBody(res.p, state, cl - 1)
<1>1. p \in HttpParser /\ ~p.ready /\ p.body /\ p.cl = cl
  BY DEF InBody
<1>2. CASE cl = 1
  <2> DEFINE q == [p EXCEPT !.cl = 0, !.ready = TRUE]
  <2>1. q.ready
    BY <1>1 DEF HttpParser
  <2>2. res = Refuses(q)
    BY <1>1, <1>2 DEF InEscape
  <2> HIDE DEF q
  <2>3. ~res.ok /\ res.p = q
    BY <2>2, AcceptsFacts
  <2> QED BY <1>2, <2>1, <2>3
<1>3. CASE cl # 1
  <2> DEFINE q == [p EXCEPT !.cl = @ - 1]
  <2>0. cl - 1 \in Nat
    OBVIOUS
  <2>1. q \in HttpParser /\ ~q.ready /\ q.body /\ q.cl = cl - 1 /\ (q.post <=> p.post)
        /\ q.state = from
    BY <1>1, <2>0 DEF HttpParser, InBody
  <2>2. res = Moves(q, state, <<>>)
    BY <1>1, <1>3 DEF InEscape
  <2> HIDE DEF q
  <2>3. InBody(q, from, cl - 1)
    BY <2>1 DEF InBody
  <2>4. state \in HttpStates
    BY StateNames
  <2>5. Advances(q, res, <<>>) /\ InBody(res.p, state, cl - 1)
    BY <2>1, <2>2, <2>3, <2>4, Moved
  <2> QED BY <1>3, <2>1, <2>5 DEF Advances
<1> QED BY <1>2, <1>3

\* A byte of the body.
LEMMA BodyByte ==
  ASSUME NEW cl \in Nat \ {0}, NEW p, InBody(p, "BT", cl), NEW t, t \notin {":", "?", "nul"},
         NEW res, res = parse_http_char(p, t)
  PROVE  /\ t = "%" /\ cl = 1 => ~res.ok /\ res.p.ready
         /\ t = "%" /\ cl # 1 => Advances(p, res, <<>>) /\ InBody(res.p, "E1", cl - 1)
         /\ t # "%" /\ cl = 1 => Completes(res, Call("body_char", t))
         /\ t # "%" /\ cl # 1 => Advances(p, res, Call("body_char", t)) /\ InBody(res.p, "BT", cl - 1)
<1>1. p.state = "BT" /\ ~p.ready
  BY DEF InBody
<1>2. res = Body(p, t)
  BY <1>1, ByState DEF Transition
<1>3. CASE t = "%"
  <2>1. res = InEscape(p, "E1")
    BY <1>2, <1>3 DEF Body
  <2> QED BY <1>3, <2>1, EscapeConsumed
<1>4. CASE t # "%"
  <2>1. res = Consumed(p, Call("body_char", t))
    BY <1>2, <1>4 DEF Body
  <2> QED BY <1>4, <2>1, OneConsumed
<1> QED BY <1>3, <1>4

LEMMA BodyEscape ==
  ASSUME NEW cl \in Nat \ {0}, NEW p, NEW t, Hex(t), NEW res, res = parse_http_char(p, t)
  PROVE  /\ InBody(p, "E1", cl) /\ cl = 1 => ~res.ok /\ res.p.ready
         /\ InBody(p, "E1", cl) /\ cl # 1 => Advances(p, res, <<>>) /\ InBody(res.p, "E2", cl - 1)
         /\ InBody(p, "E2", cl) /\ cl = 1 => Completes(res, Call("body_char", Decoded))
         /\ InBody(p, "E2", cl) /\ cl # 1 =>
              Advances(p, res, Call("body_char", Decoded)) /\ InBody(res.p, "BT", cl - 1)
<1>1. ASSUME InBody(p, "E1", cl)
      PROVE  res = InEscape(p, "E2")
  <2>1. p.state = "E1" /\ ~p.ready
    BY <1>1 DEF InBody
  <2> QED BY <2>1, HexIs, ByState DEF Transition
<1>2. ASSUME InBody(p, "E2", cl)
      PROVE  res = Consumed(p, Call("body_char", Decoded))
  <2>1. p.state = "E2" /\ ~p.ready /\ p.body
    BY <1>2 DEF InBody
  <2>2. res = EscapeEnds(p)
    BY <2>1, HexIs, ByState DEF Transition
  <2> QED BY <2>1, <2>2 DEF EscapeEnds
<1>3. InBody(p, "E1", cl) => /\ cl = 1 => ~res.ok /\ res.p.ready
                             /\ cl # 1 => Advances(p, res, <<>>) /\ InBody(res.p, "E2", cl - 1)
  BY <1>1, EscapeConsumed
<1>4. InBody(p, "E2", cl) =>
        /\ cl = 1 => Completes(res, Call("body_char", Decoded))
        /\ cl # 1 => Advances(p, res, Call("body_char", Decoded)) /\ InBody(res.p, "BT", cl - 1)
  BY <1>2, OneConsumed
<1> QED BY <1>3, <1>4


\* What the callbacks have kept of a request.
Holds(h, path, transport, list, line) ==
  /\ h.path.text = path /\ h.transport = transport
  /\ h.list.text = list /\ h.line.text = line

\* One field of client->http at a time.
LEMMA FieldsAre ==
  ASSUME NEW h, HttpLike(h), NEW path, NEW transport, NEW list, NEW line,
         Holds(h, path, transport, list, line)
  PROVE  /\ \A m : Holds(WithPath(h, m), m.text, transport, list, line)
         /\ \A m : Holds(WithList(h, m), path, transport, m.text, line)
         /\ \A m : Holds(WithLine(h, m), path, transport, list, m.text)
         /\ \A t : Holds(WithTransport(h, t), path, t, list, line)
         /\ \A m : Holds(WithMethod(h, m), path, transport, list, line)
         /\ \A p : Holds(WithParser(h, p), path, transport, list, line)
<1>0. HttpLike(h) /\ Holds(h, path, transport, list, line)
  OBVIOUS
<1>1. \A m : Holds(WithPath(h, m), m.text, transport, list, line)
  BY <1>0 DEF HttpLike, Holds, WithPath
<1>2. \A m : Holds(WithList(h, m), path, transport, m.text, line)
  BY <1>0 DEF HttpLike, Holds, WithList
<1>3. \A m : Holds(WithLine(h, m), path, transport, list, m.text)
  BY <1>0 DEF HttpLike, Holds, WithLine
<1>4. \A t : Holds(WithTransport(h, t), path, t, list, line)
  BY <1>0 DEF HttpLike, Holds, WithTransport
<1>5. \A m : Holds(WithMethod(h, m), path, transport, list, line)
  BY <1>0 DEF HttpLike, Holds, WithMethod
<1>6. \A p : Holds(WithParser(h, p), path, transport, list, line)
  BY <1>0 DEF HttpLike, Holds, WithParser
<1> QED BY <1>1, <1>2, <1>3, <1>4, <1>5, <1>6

LEMMA TextsAre ==
  /\ \A m, text : IsMemory(m) => WithText(m, text).text = text
  /\ \A text : Live(text).text = text
BY DEF IsMemory, Memory, WithText, Live


\* What a callback makes of it.
Hears(e, path, transport, list, line, g) ==
  /\ e.what = "method" => Holds(g, <<>>, transport, ape_array_new, NewLine)
  /\ e.what = "path_char" => Holds(g, Append(path, e.value), transport, list, line)
  /\ e.what = "path_end" => Holds(g, path, ape_get_transport(path), list, line)
  /\ e.what \in {"qs_char", "body_char", "header_key", "cl_val"} =>
       Holds(g, path, transport, list, line)
  /\ e.what = "header_keyc" =>
       Holds(g, path, transport, list, [line EXCEPT !.key = Append(@, e.value)])
  /\ e.what = "header_valc" =>
       Holds(g, path, transport, list, [line EXCEPT !.value = Append(@, e.value)])
  /\ e.what = "header_val" =>
       Holds(g, path, transport, ape_array_add(list, line.key, line.value), NewLine)

LEMMA CallbackHears ==
  ASSUME NEW h, HttpLike(h), NEW path, NEW transport, NEW list, NEW line,
         Holds(h, path, transport, list, line), NEW j, NEW e,
         e.what = "method" => e.value \in Methods,
         NEW g, g = ape_http_callback([h |-> h, j |-> j], e).h
  PROVE  Hears(e, path, transport, list, line, g)
<1> DEFINE c == [h |-> h, j |-> j]
           r == ape_http_callback(c, e)
<1>0. c.h = h /\ c.j = j /\ g = r.h
  OBVIOUS
<1>b. h.path.text = path /\ h.list.text = list /\ h.line.text = line
      /\ IsMemory(h.path) /\ IsMemory(h.list) /\ IsMemory(h.line)
  BY BuffersAre DEF Holds
<1>1. CASE e.what = "method"
  <2> DEFINE h1 == WithMethod(h, e.value)
             h2 == WithPath(h1, Live(<<>>))
             h3 == WithList(h2, Live(ape_array_new))
             h4 == WithLine(h3, Live(NewLine))
  <2>1. r = [c EXCEPT !.h.method = e.value, !.h.path = Live(<<>>),
                      !.h.list = Live(ape_array_new), !.h.line = Live(NewLine)]
    BY <1>1 DEF ape_http_callback
  <2>2. g = h4
    BY <1>0, <2>1 DEF WithLine, WithList, WithPath, WithMethod
  <2>3. HttpLike(h1) /\ Holds(h1, path, transport, list, line)
    BY <1>1, HttpFacts, FieldsAre
  <2> HIDE DEF h1
  <2>4. HttpLike(h2) /\ Holds(h2, <<>>, transport, list, line)
    <3>1. PICK m : m = Live(<<>>) /\ IsMemory(m) /\ m.text = <<>>
      BY MemoryFacts, TextsAre
    <3> QED BY <2>3, <3>1, PathFacts, FieldsAre
  <2> HIDE DEF h2
  <2>5. HttpLike(h3) /\ Holds(h3, <<>>, transport, ape_array_new, line)
    <3>1. PICK m : m = Live(ape_array_new) /\ IsMemory(m) /\ m.text = ape_array_new
      BY MemoryFacts, TextsAre
    <3> QED BY <2>4, <3>1, ListFacts, FieldsAre
  <2> HIDE DEF h3
  <2>6. Holds(h4, <<>>, transport, ape_array_new, NewLine)
    <3>1. PICK m : m = Live(NewLine) /\ m.text = NewLine
      BY TextsAre
    <3> QED BY <2>5, <3>1, FieldsAre
  <2> QED BY <1>1, <2>2, <2>6 DEF Hears
<1>2. CASE e.what = "path_char"
  <2>1. r = [c EXCEPT !.h.path.text = Append(@, e.value)]
    BY <1>2 DEF ape_http_callback
  <2>2. g = WithPath(h, WithText(h.path, Append(path, e.value)))
    BY <1>0, <1>b, <2>1 DEF WithPath, WithText
  <2>3. PICK m : m = WithText(h.path, Append(path, e.value)) /\ m.text = Append(path, e.value)
    BY <1>b, TextsAre
  <2>4. Holds(g, Append(path, e.value), transport, list, line)
    BY <2>2, <2>3, FieldsAre
  <2> QED BY <1>2, <2>4 DEF Hears
<1>3. CASE e.what = "path_end"
  <2>1. g = WithTransport(h, ape_get_transport(path))
    BY <1>0, <1>b, <1>3 DEF ape_http_callback, WithTransport
  <2>2. Holds(g, path, ape_get_transport(path), list, line)
    BY <2>1, FieldsAre
  <2> QED BY <1>3, <2>2 DEF Hears
<1>4. CASE e.what \in {"qs_char", "body_char", "header_key", "cl_val"}
  <2>1. g = h
    BY <1>0, <1>4 DEF ape_http_callback
  <2> QED BY <1>4, <2>1 DEF Hears
<1>5. CASE e.what = "header_keyc"
  <2> DEFINE text == [line EXCEPT !.key = Append(@, e.value)]
  <2>1. g = WithLine(h, WithText(h.line, text))
    BY <1>0, <1>b, <1>5 DEF ape_http_callback, WithLine, WithText
  <2> HIDE DEF text
  <2>2. PICK m : m = WithText(h.line, text) /\ m.text = text
    BY <1>b, TextsAre
  <2>3. Holds(g, path, transport, list, text)
    BY <2>1, <2>2, FieldsAre
  <2> QED BY <1>5, <2>3 DEF Hears, text
<1>6. CASE e.what = "header_valc"
  <2> DEFINE text == [line EXCEPT !.value = Append(@, e.value)]
  <2>1. g = WithLine(h, WithText(h.line, text))
    BY <1>0, <1>b, <1>6 DEF ape_http_callback, WithLine, WithText
  <2> HIDE DEF text
  <2>2. PICK m : m = WithText(h.line, text) /\ m.text = text
    BY <1>b, TextsAre
  <2>3. Holds(g, path, transport, list, text)
    BY <2>1, <2>2, FieldsAre
  <2> QED BY <1>6, <2>3 DEF Hears, text
<1>7. CASE e.what = "header_val"
  <2> DEFINE text == ape_array_add(list, line.key, line.value)
             h1 == WithList(h, WithText(h.list, text))
  <2>1. g = WithLine(h1, Live(NewLine))
    BY <1>0, <1>b, <1>7 DEF ape_http_callback, WithLine, WithList, WithText
  <2> HIDE DEF text
  <2>2. PICK m : m = WithText(h.list, text) /\ m.text = text /\ IsMemory(m)
    BY <1>b, TextsAre, MemoryFacts
  <2>3. HttpLike(h1) /\ Holds(h1, path, transport, text, line)
    BY <2>2, ListFacts, FieldsAre
  <2> HIDE DEF h1
  <2>4. PICK new : new = Live(NewLine) /\ new.text = NewLine
    BY TextsAre
  <2>5. Holds(g, path, transport, text, NewLine)
    BY <2>1, <2>3, <2>4, FieldsAre
  <2> QED BY <1>7, <2>5 DEF Hears, text
<1>8. CASE e.what \notin {"method", "path_char", "path_end", "qs_char", "body_char", "header_key",
                          "cl_val", "header_keyc", "header_valc", "header_val"}
  BY <1>8 DEF Hears
<1> QED BY <1>1, <1>2, <1>3, <1>4, <1>5, <1>6, <1>7, <1>8

\* AfterByte, for any client and any byte.
After(h, j, res) ==
  LET c == [h |-> WithParser(h, res.p), j |-> j]
      after == IF res.calls = <<>> THEN c ELSE ape_http_callback(c, res.calls[1])
  IN  IF res.ready THEN [after EXCEPT !.h.line = Freed] ELSE after

LEMMA AfterIs == AfterByte = After(http, parser, Byte)
BY DEF AfterByte, After, WithParser

LEMMA AfterHears ==
  ASSUME NEW h, HttpLike(h), NEW path, NEW transport, NEW list, NEW line,
         Holds(h, path, transport, list, line), NEW j, NEW t,
         NEW res, res = parse_http_char(h.p, t), NEW g, g = After(h, j, res).h, ~res.ready
  PROVE  /\ res.calls = <<>> => Holds(g, path, transport, list, line)
         /\ res.calls # <<>> => Hears(res.calls[1], path, transport, list, line, g)
<1> DEFINE k == WithParser(h, res.p)
           c == [h |-> k, j |-> j]
<1>1. ParserOK(h.p)
  BY BuffersAre
<1>2. ParserOK(res.p) /\ CallsOK(res.calls)
  BY <1>1, ParserKept DEF StepOK, ByteOK
<1>3. HttpLike(k) /\ Holds(k, path, transport, list, line)
  BY <1>2, HttpFacts, FieldsAre
<1> HIDE DEF k
<1>4. CASE res.calls = <<>>
  <2>1. g = k
    BY <1>4 DEF After, k
  <2> QED BY <1>3, <1>4, <2>1
<1>5. CASE res.calls # <<>>
  <2> DEFINE e == res.calls[1]
  <2>1. g = ape_http_callback(c, e).h
    BY <1>5 DEF After, k
  <2>2. e.what = "method" => e.value \in Methods
    BY <1>2, <1>5 DEF CallsOK
  <2> HIDE DEF e
  <2>3. Hears(e, path, transport, list, line, g)
    BY <1>3, <2>1, <2>2, CallbackHears
  <2> QED BY <1>5, <2>3 DEF e
<1> QED BY <1>4, <1>5
=============================================================================
