--------------------------- MODULE MCScriptObjects ---------------------------
(***************************************************************************)
(* The names that the scripts of a small instance of ScriptObjects use.     *)
(***************************************************************************)
EXTENDS ScriptObjects

MCKeys == {[event |-> "read", spelling |-> "lower"],
           [event |-> "read", spelling |-> "other"],
           [event |-> "disconnect", spelling |-> "lower"],
           [event |-> "request", spelling |-> "lower"]}
=============================================================================
