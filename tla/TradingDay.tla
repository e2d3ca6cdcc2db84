----------------------------- MODULE TradingDay -----------------------------
(***************************************************************************)
(* One account's day: a daily strategy the clock enters and exits          *)
(* (strategy/runner.ts), through open()'s gates (trading/engine.ts), and   *)
(* the session loss guard (trading/session-loss.ts) that squares the       *)
(* account off (closeAll, trading/service.ts) and stops it for the day.    *)
(*                                                                         *)
(* They share the trades and the clock and nothing orders them: the        *)
(* runner's pass, the guard's square-off and the loop interleave at every  *)
(* call.  A trade's orders and exits are TradeEngine's: here an entry      *)
(* rests, fills in part or whole and is read, and a close buys all of it   *)
(* back, or is refused, not answered, or part of it.                       *)
(***************************************************************************)
EXTENDS Schedule, FiniteSets

CONSTANTS
    Legs,        \* the contracts it sells each day
    Entry,       \* entryTime, until it is edited
    Start,       \* the first moment
    Sessions,    \* the day's sessions: [from |-> , to |-> ], the end not included
    Looks,       \* looks at a session's loss in HOLD_MS
    None,
    \* Bounds on the environment.
    MaxNow,      \* the last moment
    EditTimes,   \* the entry times it is edited to
    MaxUpsets    \* what upsets the day: an edit of the entry time, a crash, a
                 \* call that fails (a read, a cancel, a close, a write)

ASSUME DayAssumption ==
    /\ Entry \in Time /\ EditTimes \subseteq Time
    /\ MaxNow \in Nat /\ Start \in 0 .. MaxNow
    /\ Sessions \subseteq [from : Time, to : 0 .. Day]
    /\ Looks \in Nat \ {0}
    /\ MaxUpsets \in Nat

VARIABLES
    now,
    entry,       \* the strategy's entry time, as kept
    runs,        \* strategy_runs: the days claimed
    hits,        \* session_loss_hits: the days a hit is written down for
    rec,         \* the journal: each trade's phase; "closing" is exit_pending
    opened,      \* when each position opened
    resting, short,  \* the exchange: entries on the book, contracts sold
    life,        \* "starting" (recover), "up"
    job,         \* the runner's pass, at the call it awaits
    guard,       \* the session guard, in memory; "blind" is history: hits not read back
    square,      \* its square-off: [step, ...], None before any
    upsets

marketVars == <<resting, short>>
tradeVars == <<rec, opened, marketVars>>
vars == <<now, entry, runs, hits, tradeVars, life, job, guard, square, upsets>>

\* A trade is a leg of a day.
Trade == (0 .. DayOf(MaxNow)) \X Legs

Today == DayOf(now)
InPhase(p) == {t \in Trade : rec[t] = p}

\* On the record, a position is on (position # 0).
Held == InPhase("held") \cup InPhase("closing")

Upset == upsets < MaxUpsets /\ upsets' = upsets + 1

\* Start of the process: nothing in memory.  breach counts the looks on end that
\* saw the loss at its limit.
Fresh == [breach |-> 0, base |-> None, lock |-> None, blind |-> FALSE]

Init ==
    /\ now = Start /\ entry = Entry /\ runs = {} /\ hits = {}
    /\ rec = [t \in Trade |-> "none"]
    /\ opened = [t \in Trade |-> 0]
    /\ resting = {} /\ short = {}
    /\ life = "up" /\ job = None /\ guard = Fresh /\ square = None
    /\ upsets = 0

-----------------------------------------------------------------------------
(* The world *)

\* Between two moments there is time for every look of a hold, and for a pass
\* of the runner; a square-off may take longer.
Advance ==
    /\ job = None
    /\ now < MaxNow /\ now' = now + 1
    /\ guard' = [guard EXCEPT !.breach = IF @ = 0 THEN 0 ELSE Looks]
    /\ UNCHANGED <<entry, runs, hits, tradeVars, life, job, square, upsets>>

EditEntry ==
    /\ Upset
    /\ entry' \in EditTimes \ {entry}
    /\ UNCHANGED <<now, runs, hits, tradeVars, life, job, guard, square>>

\* In part, and the rest of it works on; or all of it.
EntryFills(t) ==
    /\ t \in resting
    /\ short' = short \cup {t}
    /\ resting' \in {resting, resting \ {t}}
    /\ UNCHANGED <<now, entry, runs, hits, rec, opened, life, job, guard, square, upsets>>

\* closeNow(): all that is held is bought back, or found gone.  It sizes by the
\* exchange, so it takes what a finished trade's entry has sold since, too; what
\* still rests of the entry it leaves there.
BuysBack(t) == rec' = [rec EXCEPT ![t] = "done"] /\ short' = short \ {t}

\* One that does not: closeNow() throws before its order is out, or the order is
\* refused and the exits put back; or it is not answered, or fills in part, and
\* the trade waits for it with the position on.
FailedClose(t) ==
    /\ Upset
    /\ \/ UNCHANGED <<rec, short>>
       \/ /\ t \in Held \cap short
          /\ rec' = [rec EXCEPT ![t] = "closing"]
          /\ short' \in {short, short \ {t}}

\* The loop, or recover() at start, finds the entry filled,
FindsFill(t) ==
    /\ rec[t] = "working" /\ t \in short
    /\ rec' = [rec EXCEPT ![t] = "held"]
    /\ opened' = [opened EXCEPT ![t] = now]
    /\ UNCHANGED marketVars

\* or the close.
FindsClosed(t) ==
    /\ rec[t] = "closing" /\ t \notin short
    /\ rec' = [rec EXCEPT ![t] = "done"]
    /\ UNCHANGED <<opened, marketVars>>

\* The entry's window is over: what rests of it comes off.
EntryEnds(t) ==
    /\ life = "up"
    /\ \/ /\ rec[t] = "working" /\ t \notin short
          /\ rec' = [rec EXCEPT ![t] = "done"]
       \/ t \in Held /\ UNCHANGED rec
    /\ resting' = resting \ {t}
    /\ UNCHANGED <<opened, short>>

\* followUpClose(): the rest of the close is sent again; a trade whose close is
\* refused has its exits back.
FollowUp(t) ==
    /\ life = "up" /\ rec[t] = "closing" /\ t \in short
    /\ \/ BuysBack(t)
       \/ rec' = [rec EXCEPT ![t] = "held"] /\ UNCHANGED short
    /\ UNCHANGED <<opened, resting>>

Poll(t) ==
    /\ FindsFill(t) \/ FindsClosed(t) \/ EntryEnds(t) \/ FollowUp(t)
    /\ UNCHANGED <<now, entry, runs, hits, life, job, guard, square, upsets>>

-----------------------------------------------------------------------------
(* The runner's pass: considerExit, then considerEntry *)

\* Mutant: measured from the entry time as it reads now.
DueByEntry == {t \in Held : now >= ExitMomentAt(entry, now)}

\* Mutant: due at its minute, or not at all.
DueAtMinute == {t \in Held : now = ExitMomentFor(opened[t])}

Due == {t \in Held : now >= ExitMomentFor(opened[t])}

\* The strategy as it reads now, the whole pass long; exits first.  "missed" is
\* history: the exits due that the pass did not make.  All of them, when the open
\* trades cannot be read: considerExit() is over, and the entry is considered.
PassBegins ==
    /\ job = None
    /\ \/ /\ job' = [step |-> "exit", entry |-> entry, due |-> Due, missed |-> {}]
          /\ UNCHANGED upsets
       \/ /\ Upset
          /\ job' = [step |-> "exit", entry |-> entry, due |-> {}, missed |-> Due]
    /\ UNCHANGED <<now, entry, runs, hits, tradeVars, life, guard, square>>

\* What came back is not looked at: a close that left the position on is followed
\* by the next one, and one that throws by none.
ExitDue(t) ==
    /\ job # None /\ job.step = "exit" /\ t \in job.due
    /\ \/ /\ BuysBack(t) /\ UNCHANGED upsets
          /\ job' = [job EXCEPT !.due = @ \ {t}]
       \/ /\ FailedClose(t)
          /\ job' = [job EXCEPT !.due = @ \ {t}, !.missed = @ \cup {t}]
       \/ /\ Upset /\ UNCHANGED <<rec, short>>
          /\ job' = [job EXCEPT !.due = {}, !.missed = @ \cup job.due]
    /\ UNCHANGED <<now, entry, runs, hits, opened, resting, life, guard, square>>

LastRun == IF runs = {} THEN None ELSE CHOOSE d \in runs : \A e \in runs : e <= d

\* entryDue, as the pass read the strategy; the board may not be live.
ConsiderEntry ==
    /\ job # None /\ job.step = "exit" /\ job.due = {}
    /\ \/ /\ EntryDue(job.entry, now, LastRun)
          /\ job' = [step |-> "claim", day |-> SlotDay(job.entry, now), missed |-> job.missed]
       \/ job' = None
    /\ UNCHANGED <<now, entry, runs, hits, tradeVars, life, guard, square, upsets>>

Selling(d, left, j) ==
    IF left = {} THEN None
    ELSE [step |-> "open", day |-> d, left |-> left, missed |-> j.missed]

\* Mutant: the last day it ran is the only day that has run.
ClaimUnchecked ==
    /\ job # None /\ job.step = "claim"
    /\ \/ job' = Selling(job.day, Legs, job)
       \/ job' = None
    /\ runs' = runs \cup {job.day}
    /\ UNCHANGED <<now, entry, hits, tradeVars, life, guard, square, upsets>>

\* The day is claimed before an order goes out, or with nothing to sell
\* (claimAndFinish); one claimed already is left.
Claim ==
    /\ job # None /\ job.step = "claim"
    /\ \/ job.day \notin runs /\ job' = Selling(job.day, Legs, job)
       \/ job' = None
    /\ runs' = runs \cup {job.day}
    /\ UNCHANGED <<now, entry, hits, tradeVars, life, guard, square, upsets>>

\* open(): the record is saved, then the gates, then the order.
Opens(l) ==
    /\ job # None /\ job.step = "open" /\ l \in job.left
    /\ rec' = [rec EXCEPT ![<<job.day, l>>] = "new"]
    /\ job' = [step |-> "gate", day |-> job.day, left |-> job.left \ {l}, leg |-> l,
               missed |-> job.missed]
    /\ UNCHANGED <<now, entry, runs, hits, opened, marketVars, life, guard, square, upsets>>

\* entryBlock(): until the end of the day the account was stopped on.
Blocked == guard.lock = Today

Selected == <<job.day, job.leg>>

\* One leg refused does not undo the other.
Gate ==
    /\ job # None /\ job.step = "gate"
    /\ IF Blocked
       THEN /\ rec' = [rec EXCEPT ![Selected] = "done"]
            /\ job' = Selling(job.day, job.left, job)
       ELSE job' = [job EXCEPT !.step = "send"] /\ UNCHANGED rec
    /\ UNCHANGED <<now, entry, runs, hits, opened, marketVars, life, guard, square, upsets>>

\* Whatever became of the record meanwhile: open() goes on with its own.
Send ==
    /\ job # None /\ job.step = "send"
    /\ \/ rec' = [rec EXCEPT ![Selected] = "working"] /\ resting' = resting \cup {Selected}
       \/ rec' = [rec EXCEPT ![Selected] = "done"] /\ UNCHANGED resting
    /\ job' = Selling(job.day, job.left, job)
    /\ UNCHANGED <<now, entry, runs, hits, opened, short, life, guard, square, upsets>>

-----------------------------------------------------------------------------
(* The session guard *)

InSession(s) == TimeOf(now) >= s.from /\ TimeOf(now) < s.to
Ticking == square # None /\ ~square.over

Look ==
    /\ life = "up" /\ ~Ticking
    /\ \/ /\ \A s \in Sessions : ~InSession(s)
          /\ guard' = [guard EXCEPT !.breach = 0]
          /\ UNCHANGED square
       \/ \E s \in Sessions :
            LET key == <<Today, s.from>>
                b == IF guard.base # key THEN 0 ELSE guard.breach
                g == [guard EXCEPT !.base = key]
            IN /\ InSession(s) /\ ~Blocked
               /\ \/ \* Under the limit.
                     guard' = [g EXCEPT !.breach = 0] /\ UNCHANGED square
                  \/ \* At it, not for long enough.
                     /\ b < Looks
                     /\ guard' = [g EXCEPT !.breach = b + 1]
                     /\ UNCHANGED square
                  \/ \* Hit: stopped first, then squared off.
                     /\ b >= Looks
                     /\ guard' = [g EXCEPT !.breach = 0, !.lock = Today]
                     /\ square' = [step |-> "list", day |-> Today, over |-> FALSE]
    /\ UNCHANGED <<now, entry, runs, hits, tradeVars, life, job, upsets>>

At(step) == square # None /\ square.step = step

\* An entry past its gates whose order is not out yet.
OnItsWay == IF job # None /\ job.step = "send" THEN {Selected} ELSE {}

\* closeAll(): the open trades are listed once; when they cannot be, nothing is
\* closed and '*' is named.  "loose" is history: what no close was asked for --
\* flat on the record, or over on it with something still at the exchange.
ListOpen ==
    /\ At("list")
    /\ LET flat == InPhase("new") \cup InPhase("working")
           past == InPhase("done") \cap (short \cup resting)
           listed(pull, close, failed, loose) ==
             [step |-> "pull", day |-> square.day, over |-> FALSE,
              pull |-> pull, close |-> close, failed |-> failed, loose |-> loose]
       IN \/ /\ square' = listed(flat, Held, {}, flat \cup OnItsWay \cup past)
             /\ UNCHANGED upsets
          \/ Upset /\ square' = listed({}, {}, Trade, {})
    /\ UNCHANGED <<now, entry, runs, hits, tradeVars, life, job, guard>>

\* cancelEntry(), the record flat: an entry on the book comes off, and what it
\* filled by then is read; one that filled whole is not read, and is over on the
\* record; so is one that is not read, or not taken off.
TakesOff(t) ==
    /\ \/ /\ t \in resting
          /\ resting' = resting \ {t} /\ short' \in {short, short \cup {t}}
          /\ rec' = [rec EXCEPT ![t] = IF t \in short' THEN "held" ELSE "done"]
          /\ UNCHANGED upsets
       \/ /\ t \notin resting
          /\ rec' = [rec EXCEPT ![t] = "done"]
          /\ UNCHANGED <<marketVars, upsets>>
       \/ /\ Upset
          /\ resting' \in {resting, resting \ {t}} /\ UNCHANGED short
          /\ \/ rec' = [rec EXCEPT ![t] = "done"]
             \/ t \in short /\ rec' = [rec EXCEPT ![t] = "held"]
    /\ opened' = [opened EXCEPT ![t] = IF rec'[t] = "held" THEN now ELSE @]

\* Of what was listed flat, one that holds by now is left as it is; one that
\* throws is named.
PullEntry(t) ==
    /\ At("pull") /\ t \in square.pull
    /\ \/ /\ IF t \in Held THEN UNCHANGED <<tradeVars, upsets>> ELSE TakesOff(t)
          /\ square' = [square EXCEPT !.pull = @ \ {t}]
       \/ /\ Upset /\ UNCHANGED tradeVars
          /\ square' = [square EXCEPT !.pull = @ \ {t}, !.failed = @ \cup {t}]
    /\ UNCHANGED <<now, entry, runs, hits, life, job, guard>>

\* Closed by now by somebody else, or the rest of its entry works on.
Loose(t) == IF rec[t] = "done" \/ t \in resting THEN {t} ELSE {}

\* Mutant: a failure ends the square-off.
CloseListedStops(t) ==
    /\ At("pull") /\ square.pull = {} /\ t \in square.close
    /\ \/ /\ BuysBack(t) /\ UNCHANGED upsets
          /\ square' = [square EXCEPT !.close = @ \ {t}, !.loose = @ \cup Loose(t)]
       \/ /\ FailedClose(t)
          /\ square' = [square EXCEPT !.close = {}, !.failed = @ \cup {t}]
    /\ UNCHANGED <<now, entry, runs, hits, opened, resting, life, job, guard>>

\* Then what was listed held, one at a time; one still on afterwards is named.
CloseListed(t) ==
    /\ At("pull") /\ square.pull = {} /\ t \in square.close
    /\ \/ /\ BuysBack(t) /\ UNCHANGED upsets
          /\ square' = [square EXCEPT !.close = @ \ {t}, !.loose = @ \cup Loose(t)]
       \/ /\ FailedClose(t)
          /\ square' = [square EXCEPT !.close = @ \ {t}, !.failed = @ \cup {t}]
    /\ UNCHANGED <<now, entry, runs, hits, opened, resting, life, job, guard>>

\* The hit is written down; a write that fails is swallowed.
WriteHit ==
    /\ At("pull") /\ square.pull = {} /\ square.close = {} /\ ~square.over
    /\ \/ hits' = hits \cup {square.day} /\ UNCHANGED upsets
       \/ Upset /\ UNCHANGED hits
    /\ square' = [square EXCEPT !.over = TRUE]
    /\ UNCHANGED <<now, entry, runs, tradeVars, life, job, guard>>

-----------------------------------------------------------------------------
(* A restart *)

Crash ==
    /\ Upset
    /\ life' = "starting"
    /\ job' = None /\ guard' = Fresh /\ square' = None
    /\ UNCHANGED <<now, entry, runs, hits, tradeVars>>

\* Mutant: stopped until the end of the session, nothing to read back.
RestoreNothing ==
    /\ life = "starting" /\ life' = "up"
    /\ UNCHANGED <<guard, upsets>>
    /\ UNCHANGED <<now, entry, runs, hits, tradeVars, job, square>>

\* start(): recover(), then the guard's restore(); the runner and the screen
\* do not wait for either.  Hits that cannot be read are none.
Restore ==
    /\ life = "starting" /\ life' = "up"
    /\ \/ /\ guard' = [guard EXCEPT !.lock = IF Today \in hits THEN Today ELSE None]
          /\ UNCHANGED upsets
       \/ Upset /\ Today \in hits /\ guard' = [guard EXCEPT !.blind = TRUE]
    /\ UNCHANGED <<now, entry, runs, hits, tradeVars, job, square>>

-----------------------------------------------------------------------------
Runner ==
    \/ PassBegins \/ ConsiderEntry \/ Claim \/ Gate \/ Send
    \/ \E t \in Trade : ExitDue(t)
    \/ \E l \in Legs : Opens(l)

Guard ==
    \/ Look \/ ListOpen \/ WriteHit
    \/ \E t \in Trade : PullEntry(t) \/ CloseListed(t)

Next ==
    \/ Advance \/ EditEntry \/ Crash \/ Restore
    \/ \E t \in Trade : EntryFills(t) \/ Poll(t)
    \/ Runner \/ Guard

Spec == Init /\ [][Next]_vars

\* Runner: an interval that is never cleared; a slow call holds the next pass
\* back, and every call is answered or times out.
FairSpec == Spec /\ WF_vars(Runner)

-----------------------------------------------------------------------------
(* Properties *)

TypeOK ==
    /\ now \in Nat /\ entry \in Time
    /\ runs \subseteq Nat /\ hits \subseteq Nat
    /\ \A t \in Trade :
         /\ rec[t] \in {"none", "new", "working", "held", "closing", "done"}
         /\ opened[t] \in 0 .. now
         /\ rec[t] = "held" => t \in short
    /\ resting \cup short \subseteq Trade
    /\ life \in {"starting", "up"}
    /\ job # None => /\ job.step \in {"exit", "claim", "open", "gate", "send"}
                    /\ job.missed \subseteq Trade
    /\ guard.breach \in 0 .. Looks
    /\ square # None => square.step \in {"list", "pull"} /\ square.day <= Today

Passes == job # None /\ job.step = "gate" /\ job' # None /\ job'.step = "send"

\* session-loss.ts:16-17: from the moment an account is squared off, and after a
\* restart that read its hit back, no entry passes its gates that day, the
\* square-off still under way or long over.
StopHolds ==
    [][Passes =>
         /\ square = None \/ square.day # Today
         /\ life = "starting" \/ guard.blind \/ Today \notin hits]_vars

\* service.ts:371: "a day already stopped stays stopped across a restart".
StaysStopped == [][Passes => Today \notin hits]_vars

\* service.ts:757, "What failed is named": when the square-off is over, whatever
\* the account still has at the exchange that day, a position or an entry on the
\* book, is named as failed -- all of it, when the list could not be read -- save
\* what no close was asked for: an entry still on its way, the rest of one that
\* filled in part, or a trade that was over on the record.
StopLeavesNothing ==
    square # None /\ square.over /\ square.day = Today =>
      short \cup resting \subseteq square.loose \cup square.failed

\* schedule.ts:9: "a strategy runs at most once per IST day": a leg of a day is
\* sold once, whatever crashes, and however the entry time moves over midnight
\* and back.
SentOnce ==
    [][\A t \in Trade :
         /\ job # None /\ job.step = "open"
         /\ job' # None /\ job'.step = "gate" /\ t = <<job'.day, job'.leg>>
         => rec[t] = "none"]_vars

\* runner.ts tick(): exits before entries.  No order goes out over a position
\* whose exit has come, unless that exit failed in this very pass: its close came
\* back with the position on, or the pass threw at it, before it, or at the list.
NewDayAfterOld ==
    [][resting' \subseteq resting
       \/ \A t \in Held : ExitMomentFor(opened[t]) > now \/ t \in job.missed]_vars

\* schedule.ts:176: "Late is fine; never is not."
LateNotNever ==
    \A t \in Trade :
      t \in Held /\ now >= ExitMomentFor(opened[t]) ~> t \notin Held

=============================================================================
