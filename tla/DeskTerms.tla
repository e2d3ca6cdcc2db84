----------------------------- MODULE DeskTerms -----------------------------
(***************************************************************************)
(* DeskLock with a memory of who has been able to write, added so that it  *)
(* can be shown to implement DeskSeat.  The two variables record the lock  *)
(* and never steer it.                                                     *)
(***************************************************************************)
EXTENDS DeskLock

VARIABLES
    had,    \* the runs that could write at some time
    last    \* the last of them

termVars == <<vars, had, last>>

\* The run whose writes pass the check now.
Writer == IF \E p \in Proc : Ok(p) THEN CHOOSE p \in Proc : Ok(p) ELSE NoProc

TermInit == Init /\ had = {} /\ last = NoProc

Remember ==
    /\ had' = IF Writer' = NoProc THEN had ELSE had \cup {Writer'}
    /\ last' = IF Writer' = NoProc THEN last ELSE Writer'

TermNext == Next /\ Remember

TermSpec == TermInit /\ [][TermNext]_termVars

FairTermSpec == TermSpec /\ Fairness

Seat == INSTANCE DeskSeat WITH desk <- Writer

\* desk-lock.ts:15-28: a run that lost its lock, or could no longer vouch for
\* it, writes again only while nobody has had the desk since.  The lock
\* implements the one seat of DeskSeat.
TermsInTurn == Seat!SeatSpec

=============================================================================
