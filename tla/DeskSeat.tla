------------------------------ MODULE DeskSeat ------------------------------
(***************************************************************************)
(* What the desk lock promises (db/desk-lock.ts:1-28), told without        *)
(* connections, heartbeats or time: a desk with one seat.  Runs of the     *)
(* server have the seat one after another.  The one that has it may stand  *)
(* aside for a while -- its heartbeat is late -- and sit down again, but   *)
(* only as long as nobody else has sat there: a run whose term is over     *)
(* never writes to Delta again.                                            *)
(***************************************************************************)
CONSTANTS Proc, NoProc

VARIABLES
    desk,   \* the run that may write now
    had,    \* the runs that have had the seat
    last    \* the last of them

seatVars == <<desk, had, last>>

SeatInit == desk = NoProc /\ had = {} /\ last = NoProc

\* A new term begins.
SitDown(p) ==
    /\ desk = NoProc /\ p \notin had
    /\ desk' = p
    /\ had' = had \cup {p}
    /\ last' = p

\* The run no longer trusts its lock, for now or for good.
StandAside ==
    /\ desk # NoProc
    /\ desk' = NoProc
    /\ UNCHANGED <<had, last>>

\* The same term goes on.
SitAgain ==
    /\ desk = NoProc /\ last # NoProc
    /\ desk' = last
    /\ UNCHANGED <<had, last>>

SeatNext == StandAside \/ SitAgain \/ \E p \in Proc : SitDown(p)

SeatSpec == SeatInit /\ [][SeatNext]_seatVars

=============================================================================
