------------------------------ MODULE JsonText ------------------------------
(***************************************************************************)
(* How the server reads the text of a message (ape_server.c,                *)
(* ape_server_on_ws_frame): character by character through the connection's *)
(* parser, which is made for the first text and kept, into a tree that is   *)
(* new for each text, whose commands it runs at the end.                    *)
(***************************************************************************)
EXTENDS Commands

CONSTANTS Tokens,   \* what texts are made of
          MaxLen,   \* bound on the length of the first text
          MaxNext,  \* and of the later ones
          MaxTexts  \* bound on the number of texts

VARIABLES
  parser,   \* client->json.parser
  jcx,      \* the json_context of the text being read
  session,  \* client->user_session
  pc,       \* "reading", "answered" or "crashed"
  answer,   \* "none", "bad_json" or "run"
  text,     \* history: what has been read of this text
  texts     \* history: how many texts there were

vars == <<parser, jcx, session, pc, answer, text, texts>>

ASSUME BoundsArePositive == {MaxLen, MaxNext, MaxTexts} \subseteq Nat \ {0}

TypeOK ==
  /\ parser \in Parser
  /\ jcx \in Context
  /\ session \in {0, 1}
  /\ pc \in {"reading", "answered", "crashed"}
  /\ answer \in {"none", "bad_json", "run"}
  /\ text \in Seq(Tokens)
  /\ texts \in 1..MaxTexts

Init ==
  /\ parser = new_JSON_parser(TRUE)
  /\ jcx = NewContext
  /\ session = 0
  /\ pc = "reading"
  /\ answer = "none"
  /\ text = <<>>
  /\ texts = 1

\* A number is a single token.
MayFollow(t) == text # <<>> /\ text[Len(text)] = "integer" => t # "integer"

Longest == IF texts = 1 THEN MaxLen ELSE MaxNext

\* JSON_parser_char takes the character, or the peer is told BAD_JSON and the
\* rest of the text is not looked at.
char(t) ==
  LET result == JSON_parser_char(parser, t)
      cx == Called(jcx, result.events)
  IN  /\ pc = "reading" /\ Len(text) < Longest /\ MayFollow(t)
      /\ parser' = result.p
      /\ jcx' = cx
      /\ text' = Append(text, t)
      /\ pc' = IF cx.crashed THEN "crashed"
               ELSE IF result.ok THEN "reading" ELSE "answered"
      /\ answer' = IF cx.crashed \/ result.ok THEN answer ELSE "bad_json"
      /\ UNCHANGED <<session, texts>>

\* The text ends: JSON_parser_done, then the commands.
text_done ==
  LET result == JSON_parser_done(parser)
  IN  /\ pc = "reading" /\ text # <<>>
      /\ parser' = result.p
      /\ pc' = "answered"
      /\ answer' = IF result.ok THEN "run" ELSE "bad_json"
      /\ session' = IF result.ok
                    THEN ape_cmd_process_multi(jcx.items, jcx.head, session)
                    ELSE session
      /\ UNCHANGED <<jcx, text, texts>>

\* The next message: a new context, the same parser, whose callback_ctx is the
\* address of the first context; the new one lies at the same place of the stack.
next_text ==
  /\ pc = "answered" /\ texts < MaxTexts
  /\ jcx' = NewContext
  /\ pc' = "reading"
  /\ answer' = "none"
  /\ text' = <<>>
  /\ texts' = texts + 1
  /\ UNCHANGED <<parser, session>>

Next == (\E t \in Tokens : char(t)) \/ text_done \/ next_text

Spec == Init /\ [][Next]_vars

-----------------------------------------------------------------------------
\* The reference: each JSON text with the value it denotes and the text
\* json_to_string has to give back.  A value is <<"scalar", s>>,
\* <<"array", values>> or <<"object", members>>, a member <<key, value>>.
Entry(t, v, e) == [text |-> t, value |-> v, echo |-> e]

\* true comes back as 1, an empty container as 0.
EchoOf(s) == IF s = "true" THEN "integer" ELSE s

\* An entry between brackets.
Within(open, kind, close, e) ==
  Entry(<<open>> \o e.text \o <<close>>, <<kind, e.value>>,
        IF e.value = <<>> THEN <<"integer">> ELSE <<open>> \o e.echo \o <<close>>)

\* An entry for a list of one element, which may have a key.
Alone(e) == [e EXCEPT !.value = <<@>>]
Named(k, e) == Entry(<<k, ":">> \o e.text, <<k, e.value>>, <<k, ":">> \o e.echo)
\* A list of one element and a list.
Joined(e, l) == Entry(e.text \o <<",">> \o l.text, <<e.value>> \o l.value,
                      e.echo \o <<",">> \o l.echo)

\* The entries of a kind nested at most d deep with texts of n tokens.
Entries ==
  LET of[kind \in {"value", "member", "values", "members"},
         d \in 0..Depth, n \in 0..MaxLen] ==
        LET one == IF kind = "values" THEN "value" ELSE "member"
            inside(list) == IF d = 0 \/ n < 2 THEN {}
                            ELSE IF n = 2 THEN {Entry(<<>>, <<>>, <<>>)}
                            ELSE of[list, d - 1, n - 2]
        IN  IF kind = "value"
            THEN {Entry(<<s>>, <<"scalar", s>>, <<EchoOf(s)>>) :
                    s \in IF n = 1 THEN Tokens \cap Scalars ELSE {}} \cup
                 {Within("[", "array", "]", e) : e \in inside("values")} \cup
                 {Within("{", "object", "}", e) : e \in inside("members")}
            ELSE IF kind = "member"
            THEN IF n < 3 THEN {}
                 ELSE {Named(k, e) : k \in Tokens \cap Strings,
                                     e \in of["value", d, n - 2]}
            ELSE {Alone(e) : e \in of[one, d, n]} \cup
                 UNION {{Joined(e, l) : e \in of[one, d, k],
                                        l \in of[kind, d, n - k - 1]} :
                          k \in 1..(n - 2)}
  IN  UNION {of["value", Depth, n] : n \in 2..MaxLen}

Texts == {e.text : e \in Entries}
Beginnings ==
  {SubSeq(t, 1, IF k < Len(t) THEN k ELSE Len(t)) : t \in Texts, k \in 1..MaxLen}

\* The value an item of the tree holds, and those of its brothers.
ValuesFrom(items, head) ==
  LET values[i \in 0..Len(items)] ==
        IF i = 0 THEN <<>>
        ELSE LET item == items[i]
                 value == CASE item.holds = "array" -> <<"array", values[item.child]>>
                            [] item.holds = "key" -> <<"object", values[item.child]>>
                            [] OTHER -> <<"scalar", item.value>>
             IN  <<IF item.key = "none" THEN value ELSE <<item.key, value>>>>
                 \o values[item.next]
  IN  values[head]

\* What a value asks for: a command is an array that begins with a number; if
\* there are more than two items the third is a name.  The commands before the
\* first thing that is no command are carried out.
IsCommand(v) ==
  /\ v[1] = "array"
  /\ v[2] # <<>> => v[2][1] = <<"scalar", "integer">>
  /\ Len(v[2]) > 2 => v[2][3] \in {<<"scalar", c>> : c \in CommandNames}
CommandsOf(v) ==
  [i \in DOMAIN v[2] |-> IF v[1] = "object" THEN v[2][i][2] ELSE v[2][i]]
AsksForSession(v) ==
  LET c == CommandsOf(v)
  IN  \E i \in DOMAIN c : /\ \A j \in 1..i : IsCommand(c[j])
                          /\ Len(c[i][2]) > 2

\* What each text has to become, to print as, and to do to the session.
Meanings == {<<e.text, <<e.value>>>> : e \in Entries}
Echoes == {<<e.text, e.echo>> : e \in Entries}
Effects == {<<e.text, AsksForSession(e.value)>> : e \in Entries}

-----------------------------------------------------------------------------
First == texts = 1

\* BAD_JSON is said of the text read so far, or of how it begins.
RejectedRightly ==
  pc = "reading" /\ answer' = "bad_json" =>
    IF text' = text THEN text \notin Texts ELSE text' \notin Beginnings

\* A first text is answered as the grammar says: a character is rejected only
\* if no text goes on like this, the end is accepted exactly for a text, and no
\* callback follows a NULL item on the way (ape_server.c:217-239).
AnsweredByGrammar ==
  [][First => /\ RejectedRightly
              /\ answer' = "run" => text \in Texts
              /\ pc' # "crashed"]_vars

\* The tree of an accepted text is the value of the text: every item hangs
\* where its bracket, comma or key puts it (ape_json.c:715-833).
TreeIsValue ==
  First /\ answer = "run" =>
    <<text, ValuesFrom(jcx.items, jcx.head)>> \in Meanings

\* Printing the tree gives the text back, but for true and for empty
\* containers, which come back as numbers (ape_json.c:295-408).
PrintsBack ==
  First /\ answer = "run" =>
    <<text, json_to_string(jcx.items, jcx.head)>> \in Echoes

\* The connection gets its session exactly if a command that is reached asks
\* for one: nothing before it in the text is malformed (ape_cmd.c:90-110).
SessionAsAsked ==
  First /\ answer = "run" => <<text, session = 1>> \in Effects

\* "Call this method once after all input characters have been consumed"
\* (JSON_parser.h:151): JSON_parser_done ends a parser, so each text of a
\* connection needs one of its own.
EachTextIsRead == [][RejectedRightly]_vars
=============================================================================
