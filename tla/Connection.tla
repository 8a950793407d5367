----------------------------- MODULE Connection -----------------------------
(***************************************************************************)
(* A client's connection, from ape_server_on_connect to                     *)
(* ape_server_on_disconnect: ape_server.c reads requests through the HTTP   *)
(* parser, hands them to the scripts, and after an upgrade reads frames     *)
(* (ape_websocket.c) whose texts ask for commands.  What a peer sends is    *)
(* cut into reads as the network pleases, but a frame comes whole, is       *)
(* masked, and is the last thing if it closes.                              *)
(***************************************************************************)
EXTENDS Commands, HttpParser, ApeArray, SequencesExt

CONSTANTS
  Requests,    \* requests a peer may send, see Encoded
  Frames,      \* frames it may send, see Frame
  Texts,       \* texts it may send in frames
  ValidTexts,  \* those of them that are JSON texts
  ConnectTexts,\* those of these that ask for a session
  MaxRequests, \* bounds on how many requests and frames it sends
  MaxFrames

VARIABLES
  net,     \* kernel: what was sent and not read, a sequence of packets of bytes
  data,    \* the contents of data_in
  i,       \* position of ape_server_on_read in data_in
  pc,      \* "idle", "http" (in ape_server_on_read), "ws" (in
           \* ape_ws_process_frame), "closed" or "crashed"
  link,    \* "up", "eof" (the peer has closed), "shut" (the server has shut it down),
           \* "broken" (the peer has reset it) or "gone" (destroyed)
  http,    \* client->http
  parser,  \* client->json.parser: <<>> is NULL
  ws,      \* client->ws_state: <<>> before the upgrade
  session, \* client->user_session
  out,     \* history: what was written to the socket
  sent,    \* history: the requests sent
  frames,  \* history: the frames sent
  served,  \* history: paths of the requests the scripts were given
  handled  \* history: the texts of the frames on_frame was given, with answers

reading == <<net, data, i>>
client == <<http, parser, ws, session>>
peer == <<sent, frames>>
history == <<out, served, handled>>
vars == <<reading, pc, link, client, peer, history>>

-----------------------------------------------------------------------------
\* What peers send.  A request is [method, path, query, headers, length, body],
\* its headers pairs <<key, value>>, length and body sequences of bytes.
QueryPart(r) == IF r.query = <<>> THEN <<>> ELSE <<"?">> \o r.query
Lines(headers) == [n \in DOMAIN headers |-> <<headers[n][1], ":", headers[n][2], "nl">>]
LengthLine(r) ==
  IF r.length = <<>> THEN <<>> ELSE <<"Content-length">> \o r.length \o <<"nl">>
Encoded(r) ==
  <<r.method>> \o r.path \o QueryPart(r) \o <<" ", "version", "nl">>
  \o FlattenSeq(Lines(r.headers)) \o LengthLine(r) \o <<"nl">> \o r.body

\* What its length says.
NumberUpTo(digits) ==
  LET n[k \in 0..Len(digits)] == IF k = 0 THEN 0 ELSE 10 * n[k - 1] + Digit[digits[k]]
  IN  n
NumberOf(digits) == NumberUpTo(digits)[Len(digits)]

\* The length cuts the body inside an escape.
CutsEscape(r) ==
  LET n == NumberOf(r.length)
  IN  n > 0 /\ (r.body[n] = "%" \/ (n > 1 /\ r.body[n - 1] = "%"))

\* Requests are well formed, but for a length that is too long or cuts an escape.
Escapes(s) ==
  \A n \in DOMAIN s : s[n] = "%" => n + 2 <= Len(s) /\ Hex(s[n + 1]) /\ Hex(s[n + 2])
PathBytes == Bytes \ {" ", "?", "nl", "nul"}
Request ==
  [method : Methods, path : Seq(PathBytes), query : Seq(PathBytes \cup {"?"}),
   headers : Seq(PlainWords \X (Bytes \ {"nl", "nul"})), length : Seq(DOMAIN Digit),
   body : Seq(Bytes \ {":", "?", "nul"})]
LengthOK(r) ==
  LET n == NumberOf(r.length)
  IN  IF r.method = "GET" THEN r.body = <<>>
      ELSE n > MaxCl \/ n = Len(r.body) \/ (n < Len(r.body) /\ CutsEscape(r))

ASSUME RequestsAreWellFormed ==
  \A r \in Requests :
    r \in Request /\ Escapes(r.path) /\ Escapes(r.query) /\ Escapes(r.body) /\ LengthOK(r)

\* A frame is [op, form, text]: form is the size in bits of its length, which
\* counts the bytes of the text; the nth frame has its own key.
Key(n) == [k \in 1..4 |-> 10 * n + k]
LengthBytes(f) ==
  CASE f.form = 7 -> <<<<"mask", Len(f.text)>>>>
    [] f.form = 16 -> <<<<"mask", 126>>, 0, Len(f.text)>>
    [] f.form = 64 -> <<<<"mask", 127>>, 0, 0, 0, 0, 0, 0, 0, Len(f.text)>>
Masked(text, key) == [k \in DOMAIN text |-> <<text[k], key[((k - 1) % 4) + 1]>>]
FrameBytes(f, n) ==
  <<f.op>> \o LengthBytes(f) \o Key(n) \o Masked(f.text, Key(n))

Frame == [op : {"text", "ping", "pong", "close"}, form : {7, 16, 64}, text : Texts]

\* Texts are not empty, and as long as their lengths can say.
Tokens == Strings \cup Scalars \cup Structure
ASSUME FramesAreWellFormed ==
  /\ Texts \subseteq Seq(Tokens) \ {<<>>}
  /\ \A f \in Frames : f \in Frame /\ Len(f.text) <= (IF f.form = 7 THEN 125 ELSE 255)

-----------------------------------------------------------------------------
\* Memory: a buffer or a list that is NULL, allocated or freed.
Null == [at |-> "null", text |-> <<>>]
Live(text) == [at |-> "live", text |-> text]
Freed == [at |-> "freed", text |-> <<>>]
Memory(Text) == [at : {"null", "live", "freed"}, text : Text]

Transports == {"LP", "WS", "FT", "NU"}

\* headers.tkey and tval: the header being read.
NewLine == [key |-> <<>>, value |-> <<>>]
Line(Text) == [key : Text, value : Text]

\* client->http: the parser, and what its callbacks keep of the request.
Http == [p : HttpParser, method : Methods, transport : Transports,
         path : Memory(Seq(Bytes)),
         list : Memory({<<>>} \cup ArrayOf(Seq(Bytes), Seq(Bytes))),
         line : Memory({<<>>} \cup Line(Seq(Bytes)))]

NewHttp == [p |-> NewHttpParser, method |-> "GET", transport |-> "NU",
            path |-> Null, list |-> Null, line |-> Null]

\* websocket_state; offset counts the bytes of data_in that are done with,
\* at those of the frame.
Steps == {"start", "length", "short_length", "extended_length", "key", "data"}
WsState == [step : Steps, op : {"none", "text", "ping", "pong", "close"}, len : Nat,
            key : Seq(Nat), text : Seq(Tokens \cup {"?"}),
            at : Nat, offset : Nat]

NewWsState == [step |-> "start", op |-> "none", len |-> 0, key |-> <<>>,
               text |-> <<>>, at |-> 0, offset |-> 0]

Up == link \in {"up", "eof"}

\* APE_socket_destroy up to the end of on_disconnect: the path is freed, the
\* client later.
Destroyed(h) == [h EXCEPT !.path = Null]

\* A write reaches the kernel, or fails, and the socket is shut down; if that
\* fails too it is destroyed.
Write(bytes, h) ==
  IF Up THEN link' = link /\ http' = h /\ out' = out \o bytes
  ELSE IF link = "gone" THEN link' = link /\ http' = h /\ out' = out
  ELSE /\ out' = out
       /\ \/ link' = "shut" /\ http' = h
          \/ link' = "gone" /\ http' = Destroyed(h)

\* Variant: PATTERN_ERR_BAD_JSON is sent for the character and for the end.
BadJsonTwice == <<"bad_json", "bad_json">>

\* PATTERN_ERR_BAD_JSON
BadJson == <<"bad_json">>

\* APE_socket_shutdown, unless the socket is offline.
Shut(l) == IF l \in {"up", "eof"} THEN "shut" ELSE l

\* A handler of the scripts keeps the connection or shuts it down; it loses it,
\* and the socket is destroyed, if the peer has gone.
MayDo(does) == does = "loses" => ~Up /\ link # "gone"
HandlerDoes(does) ==
  link' = CASE does = "keeps" -> link
            [] does = "closes" -> Shut(link)
            [] does = "loses" -> "gone"

-----------------------------------------------------------------------------
\* ape_get_transport
ape_get_transport(path) ==
  CASE path # <<>> /\ path[1] = "/1/" -> "LP"
    [] path # <<>> /\ path[1] = "/2/" -> "WS"
    [] path # <<>> /\ path[1] = "/static/" -> "FT"
    [] OTHER -> "NU"

\* APE_TRANSPORT_QS_ISJSON
IsJson(transport) == transport \notin {"FT", "NU"}

\* REQUEST_HEADER: headers are looked up without regard to case.
Spellings(key) == IF key = <<"upgrade">> THEN {key, <<"Upgrade">>} ELSE {key}
Lookup(list, key) ==
  LET p == ape_array_lookup(list, Spellings(key))
  IN  IF p = 0 THEN <<>> ELSE list.slots[p].value

Fed(j, t) == IF j = <<>> THEN j ELSE <<JSON_parser_char(j[1], t).p>>

\* ape_http_callback, but for HTTP_READY.
ape_http_callback(c, e) ==
  LET h == c.h
  IN  CASE e.what = "method" ->
             [c EXCEPT !.h.method = e.value, !.h.path = Live(<<>>),
                       !.h.list = Live(ape_array_new), !.h.line = Live(NewLine)]
        [] e.what = "path_char" -> [c EXCEPT !.h.path.text = Append(@, e.value)]
        [] e.what = "path_end" ->
             LET t == ape_get_transport(h.path.text)
             IN  [h |-> [h EXCEPT !.transport = t],
                  j |-> IF IsJson(t) THEN <<new_JSON_parser(FALSE)>> ELSE c.j]
        [] e.what = "qs_char" /\ h.method = "GET" /\ IsJson(h.transport) ->
             [c EXCEPT !.j = Fed(@, e.value)]
        [] e.what = "body_char" /\ IsJson(h.transport) ->
             [c EXCEPT !.j = Fed(@, e.value)]
        [] e.what = "header_keyc" -> [c EXCEPT !.h.line.text.key = Append(@, e.value)]
        [] e.what = "header_valc" -> [c EXCEPT !.h.line.text.value = Append(@, e.value)]
        [] e.what = "header_val" ->
             [c EXCEPT !.h.list.text =
                         ape_array_add(@, h.line.text.key, h.line.text.value),
                       !.h.line = Live(NewLine)]
        [] OTHER -> c

\* The byte at i, and the client after its callback.
Byte == parse_http_char(http.p, data[i])
AfterByte ==
  LET c == [h |-> [http EXCEPT !.p = Byte.p], j |-> parser]
      after == IF Byte.calls = <<>> THEN c ELSE ape_http_callback(c, Byte.calls[1])
  IN  IF Byte.ready THEN [after EXCEPT !.h.line = Freed] ELSE after

\* ape_server_http_ready upgrades if the headers ask for it.
Upgrades(list) ==
  Lookup(list, <<"upgrade">>) = <<"websocket">> /\ Lookup(list, <<"key">>) # <<>>

-----------------------------------------------------------------------------
\* ape_server_on_connect
Init ==
  /\ net = <<>> /\ data = <<>> /\ i = 1
  /\ pc = "idle"
  /\ link = "up"
  /\ http = NewHttp /\ parser = <<>> /\ ws = <<>> /\ session = 0
  /\ out = <<>> /\ served = <<>> /\ handled = <<>>
  /\ sent = <<>> /\ frames = <<>>

\* The peer.  It sends no request after one that asks for an upgrade, frames
\* once it has been told that it got it, and nothing after a close.
AsksUpgrade(r) == \E n \in DOMAIN r.headers : r.headers[n][2] = "websocket"

send_request(r) ==
  /\ link \in {"up", "shut"} /\ Len(sent) < MaxRequests
  /\ \A n \in DOMAIN sent : ~AsksUpgrade(sent[n])
  /\ sent' = Append(sent, r)
  /\ net' = net \o [n \in DOMAIN Encoded(r) |-> <<Encoded(r)[n]>>]
  /\ UNCHANGED <<data, i, pc, link, client, frames, history>>

send_frame(f) ==
  /\ link \in {"up", "shut"} /\ Len(frames) < MaxFrames
  /\ \E n \in DOMAIN out : out[n] = "101"
  /\ \A n \in DOMAIN frames : frames[n].op # "close"
  /\ frames' = Append(frames, f)
  /\ net' = Append(net, FrameBytes(f, Len(frames) + 1))
  /\ UNCHANGED <<data, i, pc, link, client, sent, history>>

peer_closes ==
  /\ link = "up" /\ link' = "eof"
  /\ UNCHANGED <<reading, pc, client, peer, history>>

peer_resets ==
  /\ link \in {"up", "eof", "shut"} /\ link' = "broken"
  /\ UNCHANGED <<reading, pc, client, peer, history>>

\* Variant: what came before the end of the stream is not read.
HasArrivedUp == pc = "idle" /\ link = "up"

HasArrived == pc = "idle"

\* ape_socket_read hands what has arrived to on_read: one packet or more.
read ==
  /\ HasArrived
  /\ net' \in {SubSeq(net, n + 1, Len(net)) : n \in DOMAIN net}
  /\ data' = FlattenSeq(SubSeq(net, 1, Len(net) - Len(net')))
  /\ i' = 1
  /\ pc' = IF ws = <<>> THEN "http" ELSE "ws"
  /\ UNCHANGED <<link, client, peer, history>>

\* It reads the end of the stream, and destroys the socket.
disconnect ==
  /\ pc = "idle"
  /\ \/ link = "eof" /\ net = <<>>
     \/ link \in {"shut", "broken"}
  /\ pc' = "closed"
  /\ link' = "gone"
  /\ http' = Destroyed(http)
  /\ UNCHANGED <<reading, parser, ws, session, peer, history>>

\* on_read returns.
Returns ==
  /\ data' = <<>> /\ i' = 1
  /\ pc' = IF link' = "gone" THEN "closed" ELSE "idle"

-----------------------------------------------------------------------------
\* ape_server_on_read goes to the next byte unless the socket is offline.
NextByte ==
  IF i = Len(data) \/ link' = "gone" THEN Returns
  ELSE i' = i + 1 /\ UNCHANGED <<data, pc>>

http_char ==
  /\ pc = "http" /\ Byte.ok /\ ~Byte.ready
  /\ http' = AfterByte.h /\ parser' = AfterByte.j
  /\ UNCHANGED <<net, link, ws, session, peer, history>>
  /\ NextByte

\* A byte is refused: the connection is shut down, the rest is not looked at.
http_refused ==
  /\ pc = "http" /\ ~Byte.ok
  /\ http' = [http EXCEPT !.p = Byte.p]
  /\ link' = Shut(link)
  /\ UNCHANGED <<net, parser, ws, session, peer, history>>
  /\ Returns

Ready == pc = "http" /\ Byte.ok /\ Byte.ready
Asked == Lookup(AfterByte.h.list.text, <<"upgrade">>) = <<"websocket">>

\* HTTP_READY: the handshake, and from now on frames.
http_ready_upgrade ==
  /\ Ready /\ Upgrades(AfterByte.h.list.text)
  /\ parser' = AfterByte.j
  /\ Write(<<"101">>, [AfterByte.h EXCEPT !.transport = "WS"])
  /\ ws' = <<NewWsState>>
  /\ UNCHANGED <<net, session, peer, served, handled>>
  /\ NextByte

\* Variant: the path is freed and not set to NULL.
ResetDangling(h) ==
  [h EXCEPT !.p = NewHttpParser, !.method = "GET", !.transport = "NU",
            !.list = Freed, !.path = Freed]

\* The parser begins again.
Reset(h) ==
  [h EXCEPT !.p = NewHttpParser, !.method = "GET", !.transport = "NU",
            !.list = Freed, !.path = Null]

\* HTTP_READY of a request for the scripts; then the parser begins again.
http_ready_request(does) ==
  /\ Ready /\ ~Asked /\ ~IsJson(AfterByte.h.transport)
  /\ MayDo(does) /\ HandlerDoes(does)
  /\ http' = Reset(AfterByte.h)
  /\ parser' = AfterByte.j
  /\ served' = Append(served, AfterByte.h.path.text)
  /\ UNCHANGED <<net, ws, session, peer, out, handled>>
  /\ NextByte

\* HTTP_READY of a request to a transport that is not there yet, or of an
\* upgrade without a key: nothing happens, and the parser stays ready.
http_ready_ignored ==
  /\ Ready /\ ~Upgrades(AfterByte.h.list.text)
  /\ Asked \/ IsJson(AfterByte.h.transport)
  /\ http' = [AfterByte.h EXCEPT !.transport = IF Asked THEN "WS" ELSE @]
  /\ parser' = AfterByte.j
  /\ UNCHANGED <<net, link, ws, session, peer, history>>
  /\ NextByte

-----------------------------------------------------------------------------
\* ape_ws_process_frame: the byte at offset, and the step it is for.
W == ws[1]
WsByte == data[W.offset + 1]
On(step) == pc = "ws" /\ W.step = step
Goes(w) == ws' = <<[w EXCEPT !.at = @ + 1, !.offset = @ + 1]>>
InFrame == UNCHANGED <<reading, pc, link, http, parser, session, peer, history>>

ws_start ==
  /\ On("start")
  /\ Goes([W EXCEPT !.op = WsByte, !.step = "length"])
  /\ InFrame

\* The length, if it is below 126, or the size of the length.
ws_length ==
  /\ On("length")
  /\ LET n == WsByte[2]
     IN  Goes(CASE n = 126 -> [W EXCEPT !.step = "short_length"]
                [] n = 127 -> [W EXCEPT !.step = "extended_length"]
                [] OTHER -> [W EXCEPT !.step = "key", !.len = n])
  /\ InFrame

\* The bytes of the length are those at 2 and 3 of the frame.
ws_short_length ==
  /\ On("short_length")
  /\ Goes([W EXCEPT !.len = @ * 256 + WsByte,
                    !.step = IF W.at = 3 THEN "key" ELSE @])
  /\ InFrame

\* Of a length of 8 bytes, at 2 to 9, only the lower half is used.
ws_extended_length ==
  /\ On("extended_length")
  /\ Goes([W EXCEPT !.len = IF W.at < 6 THEN @ ELSE @ * 256 + WsByte,
                    !.step = IF W.at = 9 THEN "key" ELSE @])
  /\ InFrame

ws_key ==
  /\ On("key")
  /\ LET key == Append(W.key, WsByte)
     IN  Goes([W EXCEPT !.key = key, !.text = <<>>,
                        !.step = IF Len(key) = 4 THEN "data" ELSE @])
  /\ InFrame

\* *pData ^ key: the byte that was masked, if the key's byte is the one it was
\* masked with.
Unmasked(b, key, n) == IF key[(n % 4) + 1] = b[2] THEN b[1] ELSE "?"
Text == Append(W.text, Unmasked(WsByte, W.key, Len(W.text)))

ws_data ==
  /\ On("data") /\ W.len # 1
  /\ Goes([W EXCEPT !.text = Text, !.len = @ - 1])
  /\ InFrame

LastByte == On("data") /\ W.len = 1
\* What the end of a frame sets; at counts from 0 again.
Fresh == [W EXCEPT !.text = Text, !.step = "start", !.len = 0, !.key = <<>>, !.at = 0]

\* Variant: the rest of the buffer is left.
AfterFrameReturns == ws' = <<[Fresh EXCEPT !.offset = 0]>> /\ Returns

\* After a frame: the next one in this buffer, or the end of it.
AfterFrame ==
  IF W.offset + 1 = Len(data)
  THEN ws' = <<[Fresh EXCEPT !.offset = 0]>> /\ Returns
  ELSE ws' = <<[Fresh EXCEPT !.offset = @ + 1]>> /\ UNCHANGED <<data, i, pc>>

ws_close ==
  /\ LastByte /\ W.op = "close"
  /\ IF Up THEN link' = "shut" /\ out' = Append(out, "close") /\ http' = http
     ELSE Write(<<"close">>, http)
  /\ ws' = <<Fresh>>
  /\ UNCHANGED <<net, parser, session, peer, served, handled>>
  /\ Returns

ws_ping ==
  /\ LastByte /\ W.op \in {"ping", "pong"}
  /\ UNCHANGED <<net, link, http, parser, session, peer, history>>
  /\ AfterFrame

\* ape_server_on_ws_frame; a text that is run is then given to the scripts.
ws_frame(does) ==
  /\ LastByte /\ W.op = "text"
  /\ \E result \in {ape_server_on_ws_frame(parser, session, Text)} :
         /\ parser' = result.parser /\ session' = result.session
         /\ handled' = Append(handled, <<Text, result.answer>>)
         /\ IF result.answer = "bad_json"
            THEN does = "keeps" /\ Write(BadJson, http)
            ELSE /\ MayDo(does) /\ HandlerDoes(does)
                 /\ http' = IF does = "loses" THEN Destroyed(http) ELSE http
                 /\ out' = out
         /\ IF result.answer = "crashed"
            THEN pc' = "crashed" /\ does = "keeps" /\ UNCHANGED <<data, i, ws>>
            ELSE AfterFrame
  /\ UNCHANGED <<net, peer, served>>

Step ==
  \/ read
  \/ disconnect
  \/ http_char \/ http_refused
  \/ http_ready_upgrade \/ http_ready_ignored
  \/ \E does \in {"keeps", "closes", "loses"} : http_ready_request(does)
  \/ ws_start \/ ws_length \/ ws_short_length \/ ws_extended_length
  \/ ws_key \/ ws_data \/ ws_close \/ ws_ping
  \/ \E does \in {"keeps", "closes", "loses"} : ws_frame(does)

Next ==
  \/ \E r \in Requests : send_request(r)
  \/ \E f \in Frames : send_frame(f)
  \/ peer_closes \/ peer_resets
  \/ Step

Spec == Init /\ [][Next]_vars

\* The server is a loop in one thread: it reads what has arrived.
FairSpec == Spec /\ WF_vars(Step)

-----------------------------------------------------------------------------
\* Once a length was refused nothing is written any more, but what had arrived
\* is still read, from there on, and may be anything: a request, an upgrade, frames.
Derailed == ~Up /\ \E n \in DOMAIN sent : NumberOf(sent[n].length) > MaxCl

TypeOK ==
  /\ i \in Nat
  /\ pc \in {"idle", "http", "ws", "closed", "crashed"}
  /\ link \in {"up", "eof", "shut", "broken", "gone"}
  /\ http \in Http
  /\ parser = <<>> \/ parser[1] \in Parser
  /\ Derailed \/ ws = <<>> \/ ws[1] \in WsState
  /\ session \in {0, 1}
  /\ sent \in Seq(Requests)
  /\ frames \in Seq(Frame)

\* Everything sent was read, and nothing has gone wrong with the connection.
Settled == pc = "idle" /\ net = <<>> /\ Up

\* What has happened is what was to happen, or will be if the connection lives.
AsExpected(happened, expected) ==
  IsPrefix(happened, expected) /\ (Settled => happened = expected)

\* What a request says, by the whole of it.  A header counts in the spelling
\* that comes first, and with the value that comes last.
HeaderOf(r, key) ==
  LET same == {n \in DOMAIN r.headers : <<r.headers[n][1]>> \in Spellings(<<key>>)}
      first == r.headers[CHOOSE n \in same : \A m \in same : n <= m]
      spelled == {n \in same : r.headers[n][1] = first[1]}
  IN  IF same = {} THEN "none"
      ELSE r.headers[CHOOSE n \in spelled : \A m \in spelled : m <= n][2]

\* The path with its escapes decoded, from each position on.
PathFrom(p) ==
  LET from[n \in 1..Len(p) + 3] ==
        IF n > Len(p) THEN <<>>
        ELSE IF p[n] = "%" THEN <<Decoded>> \o from[n + 3]
        ELSE <<p[n]>> \o from[n + 1]
  IN  from
PathOf(p) == PathFrom(p)[1]

IsComplete(r) ==
  NumberOf(r.length) <= MaxCl /\ (r.method = "POST" => ~CutsEscape(r))

\* The scripts are given complete requests, unless they ask for an upgrade or
\* for a transport that does not exist yet.
ForScripts(r) ==
  /\ IsComplete(r)
  /\ HeaderOf(r, "upgrade") # "websocket"
  /\ ~IsJson(ape_get_transport(PathOf(r.path)))

\* Requests reach the scripts in the order in which they were sent, each once
\* and with its own path, however they are cut into reads and however many
\* come in one; none after the first that is not for them, unless its length was
\* refused (ape_server.c:328-372, ape_http_parser.c:160-330).
ServedAsSent ==
  Derailed \/
  LET upto == {n \in 0..Len(sent) : \A m \in 1..n : ForScripts(sent[m])}
      last == CHOOSE n \in upto : \A m \in upto : m <= n
  IN  AsExpected(served, [n \in 1..last |-> PathOf(sent[n].path)])

\* The texts of the first n frames, and the answers to the first n texts.
TextsOf(fs) ==
  LET texts[n \in 0..Len(fs)] ==
        IF n = 0 THEN <<>>
        ELSE IF fs[n].op = "text" THEN Append(texts[n - 1], fs[n].text) ELSE texts[n - 1]
  IN  texts
AnswersTo(h) ==
  LET answers[n \in 0..Len(h)] ==
        IF n = 0 THEN <<>>
        ELSE IF h[n][2] = "bad_json" THEN Append(answers[n - 1], "bad_json")
        ELSE answers[n - 1]
  IN  answers

\* Frames are handled in the order in which they were sent, each once, its text
\* unmasked with its own key, whatever the size of its length and however many
\* frames come in one read (ape_websocket.c:78-226).
FramesAsSent ==
  Derailed \/
  AsExpected([n \in DOMAIN handled |-> handled[n][1]], TextsOf(frames)[Len(frames)])

\* The peer is told of the upgrade, of each text that was not accepted, and of
\* its close, in this order, and of nothing else (ape_server.c:222-239,
\* ape_websocket.c:163-175).
AnsweredInOrder ==
  LET closes == \E n \in DOMAIN frames : frames[n].op = "close"
      answers == (IF ws = <<>> THEN <<>> ELSE <<"101">>)
                 \o AnswersTo(handled)[Len(handled)]
                 \o (IF closes THEN <<"close">> ELSE <<>>)
  IN  /\ AsExpected(out, answers)
      /\ (\E n \in DOMAIN out : out[n] = "close") => out = answers

\* The first text of a connection is answered as it deserves, and it alone
\* decides on the session, if the connection was upgraded on a path that made
\* no parser before (ape_server.c:124-134, 204-241).
Plain == sent # <<>> /\ ~IsJson(ape_get_transport(sent[Len(sent)].path))
FirstTextDecides ==
  /\ Plain /\ handled # <<>> =>
       handled[1][2] = (IF handled[1][1] \in ValidTexts THEN "run" ELSE "bad_json")
  /\ Plain /\ handled # <<>> /\ handled[1][1] \in ConnectTexts => session = 1
  /\ session = 1 =>
       Plain /\ \E n \in DOMAIN handled : handled[n][1] \in ConnectTexts
                                          /\ handled[n][2] = "run"

\* The parser's callbacks find the buffers they write to: while a request is
\* being read its path, its headers and the current line are allocated, and
\* no path is left that on_disconnect would free again (ape_server.c:83-87,
\* 151-155, 341-344, 434-436).
BuffersLive ==
  /\ pc # "closed" /\ http.p.state # "GO" /\ ~http.p.ready =>
       http.path.at = "live" /\ http.list.at = "live" /\ http.line.at = "live"
  /\ http.path.at # "freed"

\* What arrives is read to its end: neither loop stops in the middle of a
\* buffer for good (ape_server.c:378-400, ape_websocket.c:87-223).
EverythingRead ==
  []<>((pc = "idle" /\ net = <<>>) \/ pc \in {"closed", "crashed"})
=============================================================================
