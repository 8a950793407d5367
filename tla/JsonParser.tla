----------------------------- MODULE JsonParser -----------------------------
(***************************************************************************)
(* JSON_parser.c, as the server configures it (no comments, a limit on the  *)
(* nesting): the pushdown automaton behind JSON_parser_char and             *)
(* JSON_parser_done.  The automaton reads characters; here it reads tokens, *)
(* a token standing for its last character: what the characters inside a    *)
(* string, a number or a word do is left out, and so is white space.        *)
(***************************************************************************)
EXTENDS Naturals, Sequences

CONSTANTS Depth,   \* config.depth
          Strings  \* strings a text may hold

Words == {"true", "false", "null"}
Scalars == Words \cup {"integer"} \cup Strings
Structure == {"[", "]", "{", "}", ",", ":"}

ASSUME DepthIsPositive == Depth \in Nat \ {0}
ASSUME StringsAreStrings ==
  Strings \cap (Words \cup Structure \cup {"integer", "none"}) = {}

States == {"GO", "OK", "OB", "KE", "CO", "VA", "AR", "IT"}
Modes == {"done", "key", "object", "array"}

\* struct JSON_parser_struct.  type is the scalar whose callback is owed;
\* calls says whether there is a callback.
Parser == [state : States, stack : Seq(Modes),
           type : Words \cup {"integer", "none"}, calls : BOOLEAN]

new_JSON_parser(calls) ==
  [state |-> "GO", stack |-> <<"done">>, type |-> "none", calls |-> calls]

Top(p) == IF p.stack = <<>> THEN "nothing" ELSE p.stack[Len(p.stack)]
Popped(p) == SubSeq(p.stack, 1, Len(p.stack) - 1)
Pushed(p, mode) == Append(p.stack, mode)

\* What a character does: it is taken (ok) or rejected, and callbacks are
\* called either way.
Taken(p, events) ==
  [ok |-> TRUE, p |-> p, events |-> IF p.calls THEN events ELSE <<>>]
Rejected(p, events) == [Taken(p, events) EXCEPT !.ok = FALSE]

Event(what, value) == [what |-> what, value |-> value]

\* parse_parse_buffer: the callback of the scalar before a delimiter.
Flushed(p) == IF p.type = "none" THEN <<>> ELSE <<Event("scalar", p.type)>>

\* "{" pushes the mode of keys.
Mode(t) == IF t = "[" THEN "array" ELSE "key"

\* "[" and "{": the callback comes before push() checks the depth.
Open(p, t) ==
  LET mode == Mode(t)
      events == <<Event("begin", mode)>>
  IN  IF p.state \notin {"GO", "VA", "AR"} THEN Rejected(p, <<>>)
      ELSE IF Len(p.stack) > Depth THEN Rejected(p, events)
      ELSE Taken([p EXCEPT !.stack = Pushed(p, mode),
                           !.state = IF t = "[" THEN "AR" ELSE "OB"], events)

\* "]" and "}": the callbacks come before pop() compares the modes.
Close(p, t) ==
  LET empty == p.state = "OB"
      mode == IF t = "]" THEN "array" ELSE IF empty THEN "key" ELSE "object"
      legal == {"OK", "IT"} \cup (IF t = "]" THEN {"AR"} ELSE {"OB"})
      events == (IF empty THEN <<>> ELSE Flushed(p)) \o <<Event("end", mode)>>
  IN  IF p.state \notin legal THEN Rejected(p, <<>>)
      ELSE IF Top(p) # mode THEN Rejected(p, events)
      ELSE Taken([p EXCEPT !.stack = Popped(p), !.state = "OK",
                           !.type = IF empty THEN @ ELSE "none"], events)

\* "," ends a value.
Comma(p) ==
  IF p.state \notin {"OK", "IT"} THEN Rejected(p, <<>>)
  ELSE IF Top(p) = "object"
  THEN Taken([p EXCEPT !.stack = Append(Popped(p), "key"), !.state = "KE",
                       !.type = "none"], Flushed(p))
  ELSE IF Top(p) = "array"
  THEN Taken([p EXCEPT !.state = "VA", !.type = "none"], Flushed(p))
  ELSE Rejected(p, Flushed(p))

\* ":" flips from key mode to object mode.
Colon(p) ==
  IF p.state = "CO" /\ Top(p) = "key"
  THEN Taken([p EXCEPT !.stack = Append(Popped(p), "object"), !.state = "VA"],
             <<>>)
  ELSE Rejected(p, <<>>)

\* The closing quote of a string: its callback is called at once.
String(p, t) ==
  IF p.state \in {"OB", "KE"}
  THEN Taken([p EXCEPT !.state = "CO"], <<Event("key", t)>>)
  ELSE IF p.state \in {"VA", "AR"}
  THEN Taken([p EXCEPT !.state = "OK"], <<Event("scalar", t)>>)
  ELSE Rejected(p, <<>>)

\* Numbers and words: the callback waits for the delimiter.
Scalar(p, t) ==
  IF p.state \in {"VA", "AR"}
  THEN Taken([p EXCEPT !.state = IF t = "integer" THEN "IT" ELSE "OK",
                       !.type = t], <<>>)
  ELSE IF p.state = "IT" /\ t = "integer" THEN Taken(p, <<>>)
  ELSE Rejected(p, <<>>)

JSON_parser_char(p, t) ==
  CASE t \in {"[", "{"} -> Open(p, t)
    [] t \in {"]", "}"} -> Close(p, t)
    [] t = "," -> Comma(p)
    [] t = ":" -> Colon(p)
    [] t \in Strings -> String(p, t)
    [] t \in Words \cup {"integer"} -> Scalar(p, t)
    [] OTHER -> Rejected(p, <<>>)

\* Variant: open brackets are not looked for.
JSON_parser_done_open(p) ==
  IF p.state \in {"OK", "GO"} THEN Taken([p EXCEPT !.stack = Popped(p)], <<>>)
  ELSE Rejected(p, <<>>)

\* JSON_parser_done pops MODE_DONE: this parser takes no second text.
JSON_parser_done(p) ==
  IF p.state \in {"OK", "GO"} /\ Top(p) = "done"
  THEN Taken([p EXCEPT !.stack = Popped(p)], <<>>)
  ELSE Rejected(p, <<>>)
=============================================================================
