----------------------------- MODULE HttpParser -----------------------------
(***************************************************************************)
(* ape_http_parser.c: the state machine that reads requests byte by byte.   *)
(* Words whose bytes only lead from one state to the next are one token:    *)
(* a method with its space, the version, "Content-length: ", and every run  *)
(* of ordinary characters (PlainWords).  "h" is a hexadecimal digit of an   *)
(* escape, "nl" a line end.                                                 *)
(***************************************************************************)
EXTENDS Naturals, Sequences

CONSTANTS PlainWords, \* runs of ordinary characters
          MaxCl,      \* MAX_CL, the largest content length
          Decoded     \* what every escape stands for

Methods == {"GET", "POST"}

\* Digits of a content length.
Digit == [d \in {"0", "1", "2", "3", "4"} |->
            CASE d = "0" -> 0 [] d = "1" -> 1 [] d = "2" -> 2
              [] d = "3" -> 3 [] d = "4" -> 4]
Signs == {" ", "?", "%", ":", "h", "nl", "nul", "version", "Content-length"}
Bytes == Methods \cup DOMAIN Digit \cup Signs \cup PlainWords

ASSUME MaxClIsNatural == MaxCl \in Nat
ASSUME PlainWordsArePlain ==
  PlainWords \cap (Methods \cup DOMAIN Digit \cup Signs) = {} /\ Decoded \in PlainWords

HttpStates == {"GO", "PT", "H1", "EL", "C1", "HH", "HI", "CV", "E1", "E2", "BT"}

\* struct _http_parser, with the flags of rx.
HttpParser == [state : HttpStates, post : BOOLEAN, qs : BOOLEAN,
               body : BOOLEAN, ready : BOOLEAN, cl : Nat]

\* HTTP_PARSER_RESET
NewHttpParser == [state |-> "GO", post |-> FALSE, qs |-> FALSE, body |-> FALSE,
                  ready |-> FALSE, cl |-> 0]

\* What a byte does: it is accepted or not, the callbacks it makes, and
\* whether HTTP_READY comes after them.
Accepts(p, calls) == [ok |-> TRUE, p |-> p, calls |-> calls, ready |-> FALSE]
Moves(p, state, calls) == Accepts([p EXCEPT !.state = state], calls)
Refuses(p) == [Accepts(p, <<>>) EXCEPT !.ok = FALSE]
Call(what, value) == <<[what |-> what, value |-> value]>>

\* HTTP_CONSUME_BODY after the callback of a character of the body.
Consumed(p, calls) ==
  LET last == p.cl = 1
  IN  [Accepts([p EXCEPT !.state = "BT", !.cl = @ - 1, !.ready = last], calls)
         EXCEPT !.ready = last]

\* Variant: the length is not looked at.
InEscapeAnyway(p, state) ==
  Moves(IF p.body THEN [p EXCEPT !.cl = @ - 1] ELSE p, state, <<>>)

\* HTTP_BODY_AS_ENDED: the length ends inside an escape.
InEscape(p, state) ==
  IF ~p.body THEN Moves(p, state, <<>>)
  ELSE IF p.cl = 1 THEN Refuses([p EXCEPT !.cl = 0, !.ready = TRUE])
  ELSE Moves([p EXCEPT !.cl = @ - 1], state, <<>>)

\* A character of the path or, after the question mark, of the query.
PathOrQs(p, t) == Moves(p, "PT", Call(IF p.qs THEN "qs_char" ELSE "path_char", t))

\* The path ends at its space, or before at the first question mark.
PathEnd(p) == IF p.qs THEN <<>> ELSE Call("path_end", "")

\* Variant: the body is not waited for.
HeadersEndAtOnce(p) == [Accepts([p EXCEPT !.ready = TRUE], <<>>) EXCEPT !.ready = TRUE]

\* End of the headers: a POST waits for its body unless its length is 0.
HeadersEnd(p) ==
  LET q == IF p.post
           THEN [p EXCEPT !.state = "BT", !.qs = TRUE, !.body = TRUE] ELSE p
      now == ~p.post \/ p.cl = 0
  IN  [Accepts([q EXCEPT !.ready = now], <<>>) EXCEPT !.ready = now]

Start(p, t) ==
  IF t \in Methods
  THEN Moves([p EXCEPT !.post = (t = "POST")], "PT", Call("method", t))
  ELSE Refuses(p)

Path(p, t) ==
  CASE t = " " -> Moves(p, "H1", PathEnd(p))
    [] t = "?" /\ ~p.qs -> Moves([p EXCEPT !.qs = TRUE], "PT", PathEnd(p))
    [] t = "%" -> Moves(p, "E1", <<>>)
    [] t \in {"nl", "nul"} -> Refuses(p)
    [] OTHER -> PathOrQs(p, t)

\* The beginning of a header line, or the empty line.
HeaderLine(p, t) ==
  CASE t = "nl" -> HeadersEnd(p)
    [] t = "Content-length" -> Moves(p, "CV", Call("header_key", ""))
    [] t = ":" -> Moves(p, "HI", Call("header_key", ""))
    [] t \in PlainWords -> Moves(p, "HH", Call("header_keyc", t))
    [] OTHER -> Refuses(p)

HeaderKey(p, t) ==
  CASE t = ":" -> Moves(p, "HI", Call("header_key", ""))
    [] t \in PlainWords -> Moves(p, "HH", Call("header_keyc", t))
    [] OTHER -> Refuses(p)

HeaderValue(p, t) ==
  IF t = "nl" THEN Moves(p, "C1", Call("header_val", ""))
  ELSE Moves(p, "HI", Call("header_valc", t))

ContentLength(p, t) ==
  IF t = "nl" THEN Moves(p, "C1", Call("cl_val", ""))
  ELSE IF t \notin DOMAIN Digit THEN Refuses(p)
  ELSE LET cl == p.cl * 10 + Digit[t]
           q == [p EXCEPT !.cl = cl]
       IN  IF cl > MaxCl THEN Refuses(q) ELSE Accepts(q, <<>>)

Hex(t) == t = "h" \/ t \in DOMAIN Digit

\* The second digit of an escape gives the character.
EscapeEnds(p) ==
  IF p.body THEN Consumed(p, Call("body_char", Decoded)) ELSE PathOrQs(p, Decoded)

Body(p, t) ==
  CASE t = "%" -> InEscape(p, "E1")
    [] t \in {":", "?"} -> Refuses(p)
    [] OTHER -> Consumed(p, Call("body_char", t))

\* A byte by the state of the parser.
Transition(p, t) ==
  CASE p.state = "GO" -> Start(p, t)
    [] p.state = "PT" -> Path(p, t)
    [] p.state = "H1" -> IF t = "version" THEN Moves(p, "EL", <<>>) ELSE Refuses(p)
    [] p.state = "EL" -> IF t = "nl" THEN Moves(p, "C1", <<>>) ELSE Refuses(p)
    [] p.state = "C1" -> HeaderLine(p, t)
    [] p.state = "HH" -> HeaderKey(p, t)
    [] p.state = "HI" -> HeaderValue(p, t)
    [] p.state = "CV" -> ContentLength(p, t)
    [] p.state = "E1" -> IF Hex(t) THEN InEscape(p, "E2") ELSE Refuses(p)
    [] p.state = "E2" -> IF Hex(t) THEN EscapeEnds(p) ELSE Refuses(p)
    [] p.state = "BT" -> Body(p, t)

\* A complete request takes no more bytes until it is reset.
parse_http_char(p, t) ==
  IF p.ready \/ t = "nul" THEN Refuses(p) ELSE Transition(p, t)
=============================================================================
