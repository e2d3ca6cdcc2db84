--------------------------- MODULE MCSignalLanes ---------------------------
(***************************************************************************)
(* SignalLanes for TLC: two accounts; a 4h and a 5m signal that sell the   *)
(* two sides, taken by two strategies of the first account and one of the  *)
(* second, whose exchange may never answer.                                *)
(***************************************************************************)
EXTENDS SignalLanes

CONSTANTS s4h, s5m, x, y, z, a1, a2

MCTfSec == [s \in Signal |-> IF s = s4h THEN 2 ELSE 1]
MCSideOf == [s \in Signal |-> IF s = s4h THEN "CE" ELSE "PE"]
MCAccountOf == [st \in Strategy |-> IF st = z THEN a2 ELSE a1]
MCTakes == [st \in Strategy |-> IF st = x THEN Signal ELSE IF st = y THEN {s5m} ELSE {s4h}]
MCList == <<x, y, z>>
=============================================================================
