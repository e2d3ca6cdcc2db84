----------------------------- MODULE MCDeskLock -----------------------------
(***************************************************************************)
(* DeskLock for TLC.  One unit of time is five seconds, so Heartbeat = 1,  *)
(* Fresh = 3, Stale = 6 and Keep = 5 are the code's own constants          *)
(* (desk-lock.ts:30-35, :81).  ReplyDelay and ThawInTakeover are the       *)
(* smallest environment in which SafeTiming holds and is not idle.         *)
(***************************************************************************)
EXTENDS DeskTerms

ASSUME TimingOfTheRun == SafeTiming
=============================================================================
