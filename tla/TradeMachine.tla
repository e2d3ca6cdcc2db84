---------------------------- MODULE TradeMachine ----------------------------
(***************************************************************************)
(* The trade's lifecycle (trading/machine.ts): a record in the journal and *)
(* one operator per event, the record after it.                            *)
(*                                                                         *)
(* The trade sells one option to open, as every strategy of the desk but a *)
(* buy-side one does, so the position is negative while it is held.  An    *)
(* order is named by its client id, <<role, number>>: the number is what   *)
(* clientId() puts after the trade's own stem.  "exit_limit" is an exit    *)
(* sent as a limit (closeLimitFor), every other "exit" goes at the market. *)
(***************************************************************************)
EXTENDS Integers

CONSTANTS
    None,          \* null
    Requested,     \* contracts the plan asks for
    WantsStop,     \* plan.stopPrice is not null
    WantsTarget,   \* plan.takeProfitPrice is not null
    MaxMarks,      \* bound: protection_placed and protection_failed events
    MaxExits       \* bound: exit_submitted events

ASSUME PlanAssumption ==
    /\ Requested \in Nat \ {0}
    /\ WantsStop \in BOOLEAN /\ WantsTarget \in BOOLEAN
    /\ MaxMarks \in Nat /\ MaxExits \in Nat

Entry == <<"entry", 0>>
FallbackEntry == <<"entry", 2>>
Entries == {Entry, FallbackEntry}
Targets == {"take_profit"} \X (0 .. MaxMarks)
Stops == {"stop_loss"} \X (0 .. MaxMarks)
Closes == {"exit", "exit_limit"} \X (1 .. MaxExits)
Exits == Targets \cup Stops \cup Closes
Order == Entries \cup Exits

\* null names no order.
ASSUME NoneAssumption == None \notin Order

Phase == {"precheck", "entry_pending", "entry_unknown", "position_open",
          "unprotected", "protected", "exit_pending", "flat", "aborted"}

Closing == [order : Closes, size : 0 .. 2 * Requested,
            before : 0 .. 2 * Requested, all : BOOLEAN]

TradeRecord == [
    phase : Phase,
    position : -2 * Requested .. 2 * Requested,
    entrySize : 0 .. 2 * Requested,     \* of the fills in the record
    exitSize : 0 .. 2 * Requested,
    booked : [Order -> 0 .. 2 * Requested],   \* fills, summed by order
    takeProfit : Targets \cup Closes \cup {None},
    stopLoss : Stops \cup {None},
    cover : 0 .. 2 * Requested,         \* protection.size
    winner : {"take_profit", "stop_loss", "manual", None},
    closing : Closing \cup {None},
    alarm : BOOLEAN,
    marks : 0 .. MaxMarks,              \* protection events in the journal
    exits : 0 .. MaxExits]              \* exit_submitted events in it

InitialTrade == [
    phase |-> "precheck", position |-> 0, entrySize |-> 0, exitSize |-> 0,
    booked |-> [o \in Order |-> 0], takeProfit |-> None, stopLoss |-> None,
    cover |-> 0, winner |-> None, closing |-> None, alarm |-> FALSE,
    marks |-> 0, exits |-> 0]

Abs(n) == IF n < 0 THEN -n ELSE n

\* protectionSize: what a stop or a target must cover.  Never the request.
Held(s) == Abs(s.position)

IsDone(s) == s.phase \in {"flat", "aborted"}

-----------------------------------------------------------------------------
\* precheck_failed, entry_rejected, aborted
Aborted(s) == [s EXCEPT !.phase = "aborted"]

EntrySubmitted(s) == [s EXCEPT !.phase = "entry_pending"]

\* Mutant: no answer taken for a refusal.
EntrySubmitRefused(s) == Aborted(s)

EntrySubmitUnknown(s) == [s EXCEPT !.phase = "entry_unknown"]

\* An exit took the position to nothing: whoever it was, it won.
WonBy(s, role) ==
    [s EXCEPT !.closing = None,
              !.winner = IF @ # None THEN @ ELSE role,
              !.phase = "flat",
              !.alarm = FALSE]

\* The close has bought back the size it was sent for, and it was not all.
PartDone(s) ==
    s.closing # None /\ ~s.closing.all
    /\ s.closing.before - Held(s) >= s.closing.size

Opens(s, waiting) ==
    [s EXCEPT !.phase = IF @ \in waiting THEN "position_open" ELSE @]

ExitFill(s, role) ==
    CASE s.position = 0 -> WonBy(s, role)
      [] s.position # 0 /\ role # "manual" -> s
      [] s.position # 0 /\ role = "manual" /\ PartDone(s) ->
           [s EXCEPT !.closing = None, !.phase = "position_open"]
      [] OTHER ->
           [s EXCEPT !.winner = IF @ # None THEN @ ELSE "manual",
                     !.phase = "exit_pending"]

\* fill: the position is counted from the fills.
Fill(s, o, n) ==
    LET entry == s.entrySize + IF o \in Entries THEN n ELSE 0
        exit == s.exitSize + IF o \in Entries THEN 0 ELSE n
        t == [s EXCEPT !.booked[o] = @ + n, !.entrySize = entry,
                       !.exitSize = exit, !.position = exit - entry]
    IN IF o \in Entries THEN Opens(t, {"entry_pending", "entry_unknown", "precheck"})
       ELSE ExitFill(t, IF o \in Closes THEN "manual" ELSE o[1])

EntryCancelled(s) ==
    IF s.entrySize = 0 THEN Aborted(s)
    ELSE Opens(s, {"entry_pending", "entry_unknown"})

ProtectionPlaced(s, takeProfit, stopLoss, size) ==
    [s EXCEPT !.phase = IF s.position = 0 THEN "flat" ELSE "protected",
              !.takeProfit = takeProfit, !.stopLoss = stopLoss,
              !.cover = size, !.alarm = FALSE, !.marks = @ + 1]

\* targetOnly: the leg that failed is the target, and a stop is on.
ProtectionFailed(s, targetOnly) ==
    LET t == [s EXCEPT !.marks = @ + 1]
    IN CASE s.position = 0 -> [t EXCEPT !.phase = "flat", !.alarm = FALSE]
         [] s.position # 0 /\ (~WantsStop \/ (targetOnly /\ s.stopLoss # None)) -> t
         [] OTHER -> [t EXCEPT !.phase = "unprotected", !.alarm = TRUE]

ExitSubmitted(s, closing) ==
    [s EXCEPT !.closing = closing,
              !.phase = IF s.position = 0 THEN @ ELSE "exit_pending",
              !.exits = @ + 1]

SiblingCancelled(s, role) ==
    IF role = "take_profit" THEN [s EXCEPT !.takeProfit = None]
    ELSE [s EXCEPT !.stopLoss = None]

\* The exchange's number, not ours.
Reconciled(s, position) ==
    LET covered == s.takeProfit # None \/ s.stopLoss # None
        phase == CASE position = 0 /\ s.entrySize > 0 -> "flat"
                   [] position = 0 /\ s.entrySize = 0 -> "aborted"
                   [] position # 0 /\ (covered \/ ~WantsStop) -> "protected"
                   [] OTHER -> "unprotected"
    IN [s EXCEPT !.position = position, !.phase = phase, !.closing = None,
                 !.alarm = phase = "unprotected"]

\* Mutant: every reading of an order books all it filled.
AbsorbAgain(s, o, filled, rejected) ==
    LET t == IF filled > 0 THEN Fill(s, o, filled) ELSE s
    IN IF rejected THEN Aborted(t) ELSE t

\* absorb(): the fills of an order the record does not have yet.  A rejected
\* order of any role ends the trade (engine.ts, the last lines of absorb).
Absorb(s, o, filled, rejected) ==
    LET fresh == filled - s.booked[o]
        t == IF fresh > 0 THEN Fill(s, o, fresh) ELSE s
    IN IF rejected THEN Aborted(t) ELSE t

\* Mutant: only a position that was never covered lacks its protection.
NeverProtected(s) == s.phase = "position_open"

\* missingProtection: something the plan asked for is not on the book, or is
\* on it for another size than what is held.
MissingProtection(s) ==
    /\ s.position <= 0
    /\ \/ WantsStop /\ (s.stopLoss = None \/ s.cover # Held(s))
       \/ WantsTarget /\ (s.takeProfit = None \/ s.cover # Held(s))

=============================================================================
