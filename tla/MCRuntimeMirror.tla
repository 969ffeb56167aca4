-------------------------- MODULE MCRuntimeMirror --------------------------
(***************************************************************************)
(* RuntimeMirror for TLC.                                                  *)
(***************************************************************************)
EXTENDS RuntimeMirror, TLC

Symmetry == Permutations(Handlers) \cup Permutations(Clicks)

\* The properties of a worker whose threads write in turn need no further
\* states once something has come between them.
InTurn == ~crossed
=============================================================================
