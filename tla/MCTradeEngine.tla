--------------------------- MODULE MCTradeEngine ---------------------------
(* TradeEngine with small values. *)
EXTENDS TradeEngine

=============================================================================
