------------------------------ MODULE OutStream ------------------------------
(***************************************************************************)
(* What the output side of a socket promises to its users, whatever queues  *)
(* it needs: the bytes that were accepted leave in the order they were      *)
(* accepted, none twice and none left out, and the socket is shut down      *)
(* after the bytes that were accepted before the shutdown was asked for and *)
(* before any other.  The connection may break at any point.                *)
(***************************************************************************)
EXTENDS Integers, Sequences

CONSTANT Open     \* no shutdown was asked for

VARIABLES sent,   \* the bytes accepted so far
          wire,   \* the bytes handed to the kernel so far
          limit,  \* how many had been accepted when a shutdown was asked for
          closed  \* the socket has been shut down

vars == <<sent, wire, limit, closed>>

Init ==
  /\ sent = <<>>
  /\ wire = <<>>
  /\ limit = Open
  /\ closed = FALSE

Extends(new, old) == Len(new) >= Len(old) /\ SubSeq(new, 1, Len(old)) = old

\* Bytes are accepted, or leave, or both.
Send ==
  /\ Extends(sent', sent)
  /\ Extends(wire', wire)
  /\ Extends(sent', wire')
  /\ wire' # wire => ~closed /\ (limit # Open => Len(wire') <= limit)
  /\ UNCHANGED <<limit, closed>>

\* A shutdown is asked for; the first request counts.
Ask ==
  /\ limit = Open
  /\ limit' = Len(sent)
  /\ UNCHANGED <<sent, wire>>
  /\ closed' => Len(wire) = limit'

Close ==
  /\ limit # Open
  /\ Len(wire) = limit
  /\ closed' = TRUE
  /\ UNCHANGED <<sent, wire, limit>>

Next == Send \/ Ask \/ Close

Spec == Init /\ [][Next]_vars
=============================================================================
