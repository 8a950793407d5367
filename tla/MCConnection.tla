---------------------------- MODULE MCConnection ----------------------------
(***************************************************************************)
(* What the peer of a small instance of Connection sends.                   *)
(***************************************************************************)
EXTENDS Connection

Plain_request ==
  [method |-> "GET", path |-> <<"/", "a">>, query |-> <<>>, headers |-> <<>>,
   length |-> <<>>, body |-> <<>>]

With_body == [Plain_request EXCEPT !.method = "POST", !.path = <<"/", "%", "h", "h">>,
                                   !.length = <<"3">>, !.body = <<"%", "h", "h">>]
Cut_body == [With_body EXCEPT !.length = <<"2">>, !.body = <<"a", "%", "h", "h">>]
Too_long == [With_body EXCEPT !.length = <<"4">>, !.body = <<"a", "a", "a", "a">>]
File == [Plain_request EXCEPT !.path = <<"/static/">>, !.query = <<"a", "?">>,
                              !.headers = <<<<"upgrade", "h2c">>, <<"Upgrade", "websocket">>>>]
Poll == [Plain_request EXCEPT !.path = <<"/1/">>]
Upgrade_request ==
  [Plain_request EXCEPT !.headers = <<<<"Upgrade", "h2c">>, <<"key", "k">>,
                                      <<"Upgrade", "websocket">>>>]
Json_upgrade == [Upgrade_request EXCEPT !.path = <<"/2/">>, !.query = <<"[">>]
Keyless == [Plain_request EXCEPT !.headers = <<<<"Upgrade", "websocket">>>>]

MCRequests == {With_body, Cut_body, Too_long, File, Poll,
               Upgrade_request, Json_upgrade, Keyless}

Connect == <<"[", "[", "integer", ",", "integer", ",", "connect", "]", "]">>
Nothing == <<"[", "]">>
Broken == <<"[", "]", "}">>
Stray == <<"]">>

MCTexts == {Connect, Nothing, Broken, Stray}
MCFrames ==
  {[op |-> "text", form |-> 7, text |-> t] : t \in MCTexts} \cup
  {[op |-> "text", form |-> 16, text |-> Connect],
   [op |-> "text", form |-> 64, text |-> Nothing],
   [op |-> "ping", form |-> 7, text |-> Nothing],
   [op |-> "pong", form |-> 16, text |-> Nothing],
   [op |-> "close", form |-> 7, text |-> Nothing]}

MCValidTexts == {Connect, Nothing}
MCConnectTexts == {Connect}
=============================================================================
