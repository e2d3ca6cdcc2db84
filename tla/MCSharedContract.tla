-------------------------- MODULE MCSharedContract --------------------------
(***************************************************************************)
(* SharedContract for TLC: two trades of one contract, one of a size that  *)
(* its exit can buy back in three parts, the other of one contract.        *)
(***************************************************************************)
EXTENDS SharedContract, TLC

CONSTANTS Large, Small

Sizes == Large :> 3 @@ Small :> 1

\* The properties speak of records not written over before: little of what
\* follows is explored.  Of purchases by hand and reads gone wrong, two.
FewFaults == Cardinality(written) <= 1 /\ hand + bad + failed <= 2
=============================================================================
