---------------------------- MODULE MCStopWatch ----------------------------
(***************************************************************************)
(* StopWatch for TLC: A has a backstop and so a run; B, a level up, none.  *)
(***************************************************************************)
EXTENDS StopWatch

CONSTANTS A, B

MCStop == [t \in Trade |-> IF t = A THEN 1 ELSE 2]

MCRun == [t \in Trade |-> IF t = A THEN 2 ELSE 3]
=============================================================================
