---------------------------- MODULE MCTradingDay ----------------------------
(***************************************************************************)
(* TradingDay for TLC: two days of three moments, an entry in the last of  *)
(* one that is closed in the second of the next, and a session in the last *)
(* moment of each, as an order may be on its way.                          *)
(***************************************************************************)
EXTENDS TradingDay

MCSessions == {[from |-> 2, to |-> 3]}
=============================================================================
