---------------------------- MODULE MCBoardFeed ----------------------------
(***************************************************************************)
(* BoardFeed for TLC: one contract settles, one does not.                  *)
(***************************************************************************)
EXTENDS BoardFeed

CONSTANTS Old, New
=============================================================================
