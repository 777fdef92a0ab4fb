---------------------------- MODULE MCRequestPath ----------------------------
(* A request, its repetition, and another request with the same key.         *)
EXTENDS RequestPath

CONSTANTS first, again, other,    \* calls
          key, content, content2

MCAsked ==
  [c \in Calls |-> [key |-> key, content |-> IF c = other THEN content2 ELSE content]]
=============================================================================
