------------------------------ MODULE Schedule ------------------------------
(***************************************************************************)
(* When a strategy runs (strategy/schedule.ts): pure arithmetic on moments. *)
(* A day has Day moments, a time of day is one of them; the code's are     *)
(* minutes of the IST day.  An entry time is a setting and can be edited,  *)
(* so every operator takes it.                                             *)
(***************************************************************************)
EXTENDS Integers

CONSTANTS
    Day,         \* moments in a day
    Exit,        \* exitTime
    Grace,       \* graceMin: how late an entry may be taken
    RunDays      \* the days it runs on (weekdays)

ASSUME ScheduleAssumption ==
    /\ Day \in Nat \ {0} /\ Exit \in 0 .. Day - 1
    /\ Grace \in Nat /\ RunDays \subseteq Nat

Time == 0 .. Day - 1

\* minutesForward(): from a time of day on to the next b.
Forward(a, b) == (b - a) % Day

TimeOf(m) == m % Day
DayOf(m) == m \div Day

Since(entry, m) == Forward(entry, TimeOf(m))

\* entrySlotAt() and entrySlotDate(): when the entry time last came round.
SlotAt(entry, m) == m - Since(entry, m)
SlotDay(entry, m) == DayOf(SlotAt(entry, m))

\* A whole day where the two times are one.
Ahead(a, b) == IF Forward(a, b) = 0 THEN Day ELSE Forward(a, b)

Hold(entry) == Ahead(entry, Exit)

\* last is the last day it ran, as the journal has it.
EntryDue(entry, m, last) ==
    /\ last # SlotDay(entry, m)
    /\ SlotDay(entry, m) \in RunDays
    /\ Since(entry, m) <= Grace
    /\ Since(entry, m) < Hold(entry)

\* exitMomentFor(): the first exit time after the position opened.
ExitMomentFor(opened) == opened + Ahead(TimeOf(opened), Exit)

\* exitMomentAt(): the exit of whatever the last entry slot opened.
ExitMomentAt(entry, m) == SlotAt(entry, m) + Hold(entry)

=============================================================================
