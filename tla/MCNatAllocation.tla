--------------------------- MODULE MCNatAllocation ---------------------------
(***************************************************************************)
(* Small networks for NatAllocation.                                       *)
(***************************************************************************)
EXTENDS NatAllocation, TLC

\* A /29: five addresses to hand out.
OneSubnet == {[base |-> 8, size |-> 8]}

\* The subnet is widened by a restart, so that an old address lies ahead of
\* the next offset.
TwoSubnets == {[base |-> 12, size |-> 4], [base |-> 8, size |-> 8]}

Symmetry == Permutations(Threads) \cup Permutations(Endpoints)
=============================================================================
