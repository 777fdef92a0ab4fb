---------------------------- MODULE MCJobEnqueue ----------------------------
(* Small instances of JobEnqueue: two types and two keys of which one pair  *)
(* spells the id of another.                                                *)
EXTENDS JobEnqueue

CONSTANTS a, b, c

MCTypes == {<<a>>, <<a, b>>}
MCKeys == {<<c>>, <<b, c>>}
=============================================================================
