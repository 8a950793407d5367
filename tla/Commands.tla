------------------------------ MODULE Commands ------------------------------
(***************************************************************************)
(* What a text asks of the server: ape_cmd.c runs the commands in the tree, *)
(* ape_user.c and ape_pipe.c make the session that "connect" asks for, the  *)
(* only command there is.  A text is [chl, params, name] commands in an     *)
(* array.                                                                   *)
(***************************************************************************)
EXTENDS JsonTree

CONSTANT CommandNames  \* names that commands were registered under

ASSUME CommandsHaveNames == CommandNames \subseteq Strings

\* Variant: chl is not looked at.
ape_cmd_process_any(args) == Len(args) >= 3 => args[3].value \in CommandNames

\* ape_cmd_process: FALSE stops the text.
ape_cmd_process(args) ==
  /\ Len(args) >= 1 => args[1].value = "integer"
  /\ Len(args) >= 3 => args[3].value \in CommandNames

\* Variant: the test is the wrong way round.
ape_cmd__connect_again(session) == IF session # 0 THEN session + 1 ELSE session

\* ape_cmd__connect: a connection has one session, with one user.
ape_cmd__connect(session) == IF session = 0 THEN session + 1 ELSE session

\* ape_cmd_process_multi: the session afterwards.  A command that is no array,
\* or a bad one, stops the text.
ape_cmd_process_multi(items, head, session) ==
  LET commands == IF head = 0 THEN <<>> ELSE Brothers(items, items[head].child)
      args(i) == Brothers(items, commands[i].child)
      runs(i) == commands[i].holds = "array" /\ ape_cmd_process(args(i))
      connects(i) == Len(args(i)) >= 3 /\ \A j \in 1..i : runs(j)
  IN  IF \E i \in DOMAIN commands : connects(i) THEN ape_cmd__connect(session)
      ELSE session

\* What has become of a text so far, and after the next character: a character
\* that is rejected is the last one that is looked at.
BegunText(p) == [ok |-> TRUE, p |-> p, cx |-> NewContext]
Read(was, now) == [ok |-> now.ok, p |-> now.p, cx |-> Called(was.cx, now.events)]
ReadNext(was, t) ==
  IF ~was.ok \/ was.cx.crashed THEN was ELSE Read(was, JSON_parser_char(was.p, t))

\* ape_server_on_ws_frame: a text goes through the connection's parser (<<>>
\* is NULL), and its commands are carried out if JSON_parser_done agrees.
ape_server_on_ws_frame(parser, session, text) ==
  LET begun == BegunText(IF parser = <<>> THEN new_JSON_parser(TRUE) ELSE parser[1])
      upto[n \in 0..Len(text)] ==
        IF n = 0 THEN begun
        ELSE CHOOSE now \in {ReadNext(was, text[n]) : was \in {upto[n - 1]}} : TRUE
      Answer(read, done) ==
        LET runs == read.ok /\ done.ok /\ ~read.cx.crashed
        IN  [parser |-> <<IF read.ok THEN done.p ELSE read.p>>,
             session |-> IF runs THEN ape_cmd_process_multi(read.cx.items, read.cx.head,
                                                            session)
                         ELSE session,
             answer |-> IF read.cx.crashed THEN "crashed" ELSE IF runs THEN "run"
                        ELSE "bad_json"]
  IN  CHOOSE a \in {Answer(read, JSON_parser_done(read.p)) : read \in {upto[Len(text)]}} :
        TRUE
=============================================================================
