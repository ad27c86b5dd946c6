-------------------------- MODULE MCServerLifecycle --------------------------
(* ServerLifecycle with a window, two images and process ids used again. *)
EXTENDS ServerLifecycle

CONSTANTS a, b, g1

MCImages == {a, b}
MCOwn == [g \in Guis |-> a]
=============================================================================
