----------------------------- MODULE TradeEngine -----------------------------
(***************************************************************************)
(* One trade of the engine (trading/engine.ts): how it is opened, polled,  *)
(* protected, closed, cancelled, reconciled and picked up after a restart, *)
(* against a venue that fills, refuses and answers late while it works.    *)
(*                                                                         *)
(* withTrade() runs one job at a time for a trade; open() alone runs       *)
(* outside that queue.  A job is the sequence "todo" of what it still has  *)
(* to do; one step of it is one exchange call (or a commit, where a crash  *)
(* may come between) with the code up to the next, so that the venue,      *)
(* open() and a crash may come in between.  "rec" is the job's own copy of *)
(* the record, "trade" the one in the journal.                             *)
(***************************************************************************)
EXTENDS Venue, Sequences

CONSTANTS
    MarketEntry,     \* plan.entry.type is market
    Timeout,         \* plan.entry.timeoutMs > 0
    Fallback,        \* plan.entry.marketFallback
    Signal,          \* plan.underlying: the trade has levels on the perp
    PartialEntry,    \* the venue may fill an entry in pieces
    Overlap,         \* jobs of the trade run while open() is under way
    Asked,           \* what a person asks for: "close" "part" "cancel" "reconcile"
    FaultKinds,      \* what may go wrong
    MaxFaults,       \* bound: how often, in all
    MaxCloseTries    \* MAX_CLOSE_TRIES

AllFaults == {"read", "nowhere", "list", "reject", "empty", "timeout", "cancel",
              "edit", "drop", "hand", "crash"}

ASSUME EngineAssumption ==
    /\ {MarketEntry, Timeout, Fallback, Signal, PartialEntry, Overlap} \subseteq BOOLEAN
    /\ Asked \subseteq {"close", "part", "cancel", "reconcile"}
    /\ FaultKinds \subseteq AllFaults
    /\ MaxFaults \in Nat
    /\ MaxCloseTries \in 1 .. MaxExits

VARIABLES
    trade,      \* the record in the journal
    todo,       \* what the running job has still to do
    rec,        \* the running job's copy of the record
    look,       \* what it read and still has to use
    opening,    \* open(), its own copy of the record and the answer it got
    mem,        \* what the engine keeps in memory only
    venue,      \* the exchange
    faults      \* how many things have gone wrong

vars == <<trade, todo, rec, look, opening, mem, venue, faults>>

NoLook == [entryOpen |-> FALSE, fallback |-> FALSE, heard |-> TRUE,
           want |-> 0, all |-> FALSE, limit |-> FALSE, net |-> 0,
           book |-> <<>>, size |-> 0, takeProfit |-> None, stopLoss |-> None,
           failed |-> {}]

NoOpen == [at |-> "none", rec |-> None, filled |-> 0, rejected |-> FALSE]

\* entryDeadline, protectAfter, protectionOwed, leftovers, gaveUpClosing
NoMem == [deadline |-> "none", hold |-> FALSE, owed |-> FALSE,
          leftover |-> FALSE, gaveUp |-> FALSE]

Init ==
    /\ trade = None /\ todo = <<>> /\ rec = None /\ look = NoLook
    /\ opening = NoOpen /\ mem = NoMem /\ venue = EmptyVenue /\ faults = 0

-----------------------------------------------------------------------------
(* The running job *)

PollStages == <<"entry", "target", "stop", "overdue", "losers", "follow",
                "cover", "judge", "close_out">>
CloseStages == <<"sync", "take_off", "submit", "send">>
ReconcileStages == <<"look_again", "recover", "sync", "never_landed">>

Recorded(r, role) == IF role = "take_profit" THEN r.takeProfit ELSE r.stopLoss

Losers(r) == {role \in {"take_profit", "stop_loss"} :
                Recorded(r, role) # None /\ role # r.winner}

\* Mutant: exits are put on while the desk buys back.
UncoveredAtAll(r, m) == r.position < 0 /\ (MissingProtection(r) \/ m.owed)

\* What is held and not being bought back lacks something of its protection.
Uncovered(r, m) ==
    /\ r.position < 0 /\ r.phase # "exit_pending"
    /\ MissingProtection(r) \/ m.owed

\* Bound: protect() runs while the journal has room for what may follow it.
Room(r) == r.marks + MaxExits + 3 <= MaxMarks

\* Whether a stage has anything to do: the condition the code tests first.
Applies(stage, r, l, m) ==
    CASE stage = "entry" -> r.entrySize < Requested
      [] stage = "target" -> r.takeProfit # None
      [] stage = "stop" -> r.stopLoss # None
      [] stage = "overdue" -> l.entryOpen /\ (m.deadline = "due" \/ Signal)
      [] stage = "losers" -> r.winner # None
      [] stage = "follow" -> r.phase = "exit_pending" /\ r.position # 0
                             /\ r.closing # None
      [] stage = "cover" -> Uncovered(r, m) /\ Room(r)
      [] stage = "protect" -> r.position < 0 /\ Room(r)
      [] stage = "judge" -> /\ r.position < 0 /\ r.phase # "exit_pending"
                            /\ WantsStop \/ Signal
                            /\ r.exits < MaxExits
      [] stage = "close_out" -> /\ r.position = 0 /\ r.entrySize > 0
                                /\ r.phase # "flat"
      [] stage \in {"take_off", "submit", "send"} -> r.position < 0
      [] stage = "never_landed" -> ~l.heard /\ r.entrySize = 0
                                   /\ r.phase = "entry_unknown"
      [] OTHER -> TRUE

\* The job goes on with r, over the stages that have nothing to do; with none
\* left it ends.
Go(r, l, m, stages) ==
    LET ready == {i \in DOMAIN stages : Applies(stages[i], r, l, m)}
        rest == IF ready = {} THEN <<>>
                ELSE SubSeq(stages, Min(ready), Len(stages))
    IN /\ todo' = rest
       /\ rec' = IF rest = <<>> THEN None ELSE r
       /\ look' = IF rest = <<>> THEN NoLook ELSE l

On(r) == Go(r, look, mem, Tail(todo))
Do(r, stages) == Go(r, look, mem, stages \o Tail(todo))

At(stage) == todo # <<>> /\ Head(todo) = stage
Idle == todo = <<>>

\* commit(): the record is written whole, over whatever is there.
Save(r) == trade' = r
SaveIfChanged(r) == trade' = IF r = rec THEN trade ELSE r

NoFault == UNCHANGED faults
Fault(kind) == /\ kind \in FaultKinds /\ faults < MaxFaults
               /\ faults' = faults + 1
Costs(kind) == IF kind = "none" THEN NoFault ELSE Fault(kind)
CostsAll(kinds) ==
    /\ kinds \subseteq FaultKinds /\ faults + Cardinality(kinds) <= MaxFaults
    /\ faults' = faults + Cardinality(kinds)

AbsorbOf(v, r, o) == Absorb(r, o, v.order[o].filled, v.order[o].status = "rejected")

-----------------------------------------------------------------------------
(* open(): not in the trade's queue *)

OpenStart ==
    /\ opening.at = "none"
    /\ Save(InitialTrade)
    /\ opening' = [NoOpen EXCEPT !.at = "gates", !.rec = InitialTrade]
    /\ UNCHANGED <<todo, rec, look, mem, venue, faults>>

OpenEnds(r) == Save(r) /\ opening' = [NoOpen EXCEPT !.at = "done"]

\* The gates, or the leverage, say no.
OpenRefused ==
    /\ opening.at = "gates"
    /\ OpenEnds(Aborted(opening.rec))
    /\ UNCHANGED <<todo, rec, look, mem, venue, faults>>

EntryOutcomes ==
    IF MarketEntry THEN MarketOutcomes(venue, Entry, Requested)
    ELSE {v \in LimitOutcomes(venue, Entry, Requested) :
            PartialEntry \/ v.order[Entry].filled \in {0, Requested}}

OpenPlace ==
    /\ opening.at = "gates"
    /\ \/ /\ \/ NoFault /\ venue' \in EntryOutcomes
             \/ MarketEntry /\ Fault("empty") /\ venue' = Unfilled(venue, Entry, Requested)
          /\ opening' = [opening EXCEPT
                           !.at = "acked",
                           !.filled = venue'.order[Entry].filled,
                           !.rejected = venue'.order[Entry].status = "rejected"]
          /\ UNCHANGED trade
       \/ Fault("reject") /\ OpenEnds(Aborted(opening.rec)) /\ UNCHANGED venue
       \/ /\ Fault("timeout")
          /\ OpenEnds(EntrySubmitUnknown(opening.rec))
          /\ venue' \in EntryOutcomes \cup {venue}
    /\ UNCHANGED <<todo, rec, look, mem>>

\* Mutant: the entry's time limit is never armed.
OpenUntimed ==
    /\ opening.at = "acked"
    /\ LET r == EntrySubmitted(opening.rec)
       IN Save(r) /\ opening' = [opening EXCEPT !.at = "submitted", !.rec = r]
    /\ UNCHANGED <<todo, rec, look, mem, venue, faults>>

OpenSubmitted ==
    /\ opening.at = "acked"
    /\ LET r == EntrySubmitted(opening.rec)
       IN Save(r) /\ opening' = [opening EXCEPT !.at = "submitted", !.rec = r]
    /\ mem' = [mem EXCEPT !.deadline = IF Timeout THEN "armed" ELSE @]
    /\ UNCHANGED <<todo, rec, look, venue, faults>>

OpenAbsorb ==
    /\ opening.at = "submitted"
    /\ LET r == Absorb(opening.rec, Entry, opening.filled, opening.rejected)
       IN IF r = opening.rec
            THEN opening' = [NoOpen EXCEPT !.at = "done"] /\ UNCHANGED trade
            ELSE OpenEnds(r)
    /\ UNCHANGED <<todo, rec, look, mem, venue, faults>>

-----------------------------------------------------------------------------
(* poll(): the three orders looked up, then what each of them asks for *)

Working == trade # None /\ ~IsDone(trade)

\* The trade's queue is free for a job.
Free == Idle /\ trade # None /\ (Overlap \/ opening.at = "done")

Poll ==
    /\ Free /\ Working
    /\ Go(trade, NoLook, mem, IF trade.phase = "entry_unknown"
                                THEN ReconcileStages ELSE PollStages)
    /\ UNCHANGED <<trade, opening, mem, venue, faults>>

\* A read that fails, or is not answered in time, reads as no order.
LookEntry ==
    /\ At("entry")
    /\ \/ /\ NoFault
          /\ LET r == AbsorbOf(venue, rec, Entry)
             IN /\ SaveIfChanged(r)
                /\ Go(r, [look EXCEPT !.entryOpen = Resting(venue, Entry)],
                      mem, Tail(todo))
       \/ Fault("read") /\ On(rec) /\ UNCHANGED trade
    /\ UNCHANGED <<opening, mem, venue>>

\* Mutant: a leg that is gone stays on the record.
LegReadKept(r, role) == AbsorbOf(venue, r, Recorded(r, role))

\* Mutant: what a leg filled is not booked.
LegReadUnbooked(r, role) ==
    LET o == Recorded(r, role)
    IN IF ~Resting(venue, o) /\ venue.order[o].filled = 0
         THEN SiblingCancelled(r, role) ELSE r

\* A leg that rests no more and filled nothing goes off the record.
LegRead(r, role) ==
    LET o == Recorded(r, role)
        s == AbsorbOf(venue, r, o)
    IN IF ~Resting(venue, o) /\ venue.order[o].filled = 0
         THEN SiblingCancelled(s, role) ELSE s

LookLeg(role) ==
    /\ At(IF role = "take_profit" THEN "target" ELSE "stop")
    /\ \/ /\ NoFault
          /\ LET r == LegRead(rec, role) IN SaveIfChanged(r) /\ On(r)
       \/ Fault("read") /\ On(rec) /\ UNCHANGED trade
    /\ UNCHANGED <<opening, mem, venue>>

\* Mutant: the entry written off is left on the book.
OverdueLeftOn ==
    /\ At("overdue") /\ mem.deadline = "due"
    /\ Save(rec)
    /\ mem' = [mem EXCEPT !.deadline = "none"]
    /\ Go(rec, [look EXCEPT !.fallback = Fallback], mem,
          <<"entry_gone">> \o Tail(todo))
    /\ UNCHANGED <<opening, venue, faults>>

\* The entry's time is up, or the perp has passed a level before it filled:
\* what rests of it is cancelled; a cancel refused is only noted.
CancelOverdue ==
    /\ At("overdue")
    /\ \/ \E late \in {d \in BOOLEAN : d => mem.deadline = "due"} :
            /\ late \/ Signal
            /\ \/ NoFault /\ venue' = Cancel(venue, Entry)
               \/ Fault("cancel") /\ UNCHANGED venue
            /\ Save(rec)
            /\ mem' = [mem EXCEPT !.deadline = "none"]
            /\ Go(rec, [look EXCEPT !.fallback = late /\ Fallback], mem,
                  <<"entry_gone">> \o Tail(todo))
       \/ /\ mem.deadline # "due"      \* no level passed
          /\ On(rec) /\ NoFault /\ UNCHANGED <<trade, mem, venue>>
    /\ UNCHANGED opening

\* Mutant: the entry is not read back after its cancel.
EntryGoneUnread ==
    /\ At("entry_gone")
    /\ Save(EntryCancelled(rec))
    /\ Go(EntryCancelled(rec), look, mem,
          IF rec.position # 0 THEN Tail(todo)
          ELSE IF look.fallback THEN <<"fallback">> ELSE <<>>)
    /\ UNCHANGED <<opening, mem, venue, faults>>

\* The entry read back, and entry_cancelled whatever it says.
EntryGone ==
    /\ At("entry_gone")
    /\ \E r \in {rec, AbsorbOf(venue, rec, Entry)} :
         /\ IF r = AbsorbOf(venue, rec, Entry) THEN NoFault ELSE Fault("read")
         /\ Save(EntryCancelled(r))
         /\ Go(EntryCancelled(r), look, mem,
               IF r.position # 0 THEN Tail(todo)
               ELSE IF look.fallback THEN <<"fallback">> ELSE <<>>)
    /\ UNCHANGED <<opening, mem, venue>>

\* marketFallback(): the whole size again, at the market.
PlaceFallback ==
    /\ At("fallback")
    /\ \/ /\ \/ NoFault /\ venue' \in MarketOutcomes(venue, FallbackEntry, Requested)
             \/ Fault("empty") /\ venue' = Unfilled(venue, FallbackEntry, Requested)
          /\ Go(trade, NoLook, mem, <<"fallback_sent">>)
          /\ UNCHANGED trade
       \/ /\ NoFault \/ Fault("reject")      \* the gates refuse, or the venue
          /\ Save(Aborted(trade)) /\ Go(trade, NoLook, mem, <<>>)
          /\ UNCHANGED venue
       \/ /\ Fault("timeout")
          /\ venue' \in MarketOutcomes(venue, FallbackEntry, Requested) \cup {venue}
          /\ Save(EntrySubmitUnknown(trade)) /\ Go(trade, NoLook, mem, <<>>)
    /\ UNCHANGED <<opening, mem>>

FallbackSent ==
    /\ At("fallback_sent")
    /\ LET r == AbsorbOf(venue, rec, FallbackEntry)
       IN SaveIfChanged(r) /\ Do(r, <<"protect">>)
    /\ UNCHANGED <<opening, mem, venue, faults>>

-----------------------------------------------------------------------------
(* protect(): make the book match the plan *)

Size == Held(rec)

\* The position and the contract's book, read together.  What rests and is
\* reduce-only is the trade's own; the list may miss an order.
ReadBook ==
    /\ At("cover") \/ At("protect")
    /\ \/ /\ ~WantsStop /\ ~WantsTarget
          /\ Do(rec, <<"clear">>) /\ NoFault /\ UNCHANGED mem
       \/ /\ WantsStop \/ WantsTarget
          /\ mem.hold                                   \* protectAfter
          /\ On(rec) /\ NoFault /\ UNCHANGED mem
       \/ /\ WantsStop \/ WantsTarget
          /\ ~mem.hold /\ Fault("read")
          /\ On(rec) /\ UNCHANGED mem
       \/ /\ WantsStop \/ WantsTarget
          /\ ~mem.hold /\ venue.net = 0                 \* not registered yet
          /\ mem' = [mem EXCEPT !.hold = TRUE]
          /\ On(rec) /\ NoFault
       \/ /\ WantsStop \/ WantsTarget
          /\ ~mem.hold /\ venue.net # 0
          /\ \E missed \in {{}} \cup {{o} : o \in Exits} :
               LET own == {o \in Exits : Resting(venue, o)}
               IN /\ missed \subseteq own
                  /\ IF missed = {} THEN NoFault ELSE Fault("list")
                  /\ Go(rec,
                        [look EXCEPT !.book = [o \in own \ missed |-> venue.order[o]],
                                     !.size = Size, !.failed = {},
                                     !.takeProfit = None, !.stopLoss = None],
                        mem, <<"settle_target", "settle_stop", "record">> \o Tail(todo))
          /\ UNCHANGED mem
    /\ UNCHANGED <<trade, opening, venue>>

Wants(role) == IF role = "take_profit" THEN WantsTarget ELSE WantsStop

\* Of which shape an order of this leg is: a limit, or a stop.
Shape(role) ==
    IF role = "take_profit"
      THEN Targets \cup {o \in Closes : o[1] = "exit_limit"}
      ELSE Stops

\* What one leg of protect() may come to.  "wrong" is what went wrong on the
\* way, each kind counted once.
Leg(v, r, id, failed, wrong) ==
    [venue |-> v, rec |-> r, id |-> id, failed |-> failed, wrong |-> wrong,
     filled |-> FALSE]

Despite(kind, legs) == {[l EXCEPT !.wrong = @ \cup {kind}] : l \in legs}

Placing(v, role) ==
    LET cid == <<role, rec.marks>>
        placed == IF role = "take_profit" THEN LimitOutcomes(v, cid, look.size)
                  ELSE {Accept(v, cid, look.size)}
    IN IF Refuses(v, cid, look.size) THEN {Leg(v, rec, None, TRUE, {})}
       ELSE {Leg(w, rec, cid, FALSE, {}) : w \in placed}
            \cup {Leg(v, rec, None, TRUE, {"reject"})}
            \cup {Leg(w, rec, None, TRUE, {"timeout"}) : w \in placed \cup {v}}

CancelAll(v, orders) ==
    [v EXCEPT !.order = [o \in Order |->
        IF o \in orders /\ Resting(v, o) THEN [v.order[o] EXCEPT !.status = "over"]
        ELSE v.order[o]]]

\* Cancelled and read back one by one; only then is a new one put on.
Replacing(v, role, live, keep) ==
    LET away == live \ keep
        gone == CancelAll(v, away)
        kept == IF keep = {} THEN None ELSE CHOOSE o \in keep : TRUE
    IN {Leg(gone, rec, kept, TRUE, {"read"}) : o \in away}
       \cup {Leg(CancelAll(v, away \ {o}), rec, kept, TRUE, {"cancel"}) :
               o \in {p \in away : Resting(v, p)}}
       \cup IF keep # {} \/ ~Wants(role) THEN {Leg(gone, rec, kept, FALSE, {})}
            ELSE Placing(gone, role)

\* Mutant: an edit refused, or not answered, and a new one is put beside it.
EditingBeside(role, o) ==
    {Leg(Edit(venue, o, look.size), rec, o, FALSE, {})}
    \cup Despite("edit", Placing(venue, role))

\* One order of the leg, nothing of it filled: moved, not replaced.  It stays
\* where it is when the venue takes no change just now (VenueRestricted); an
\* edit refused otherwise, or not answered and perhaps taken, is done the long
\* way.  One that does not rest any more cannot be edited.
Editing(role, o) ==
    LET moved == Edit(venue, o, look.size)
        replaced(v) == Replacing(v, role, {o}, {})
    IN IF Resting(venue, o)
         THEN {Leg(moved, rec, o, FALSE, {}), Leg(venue, rec, o, TRUE, {"edit"})}
              \cup Despite("edit", replaced(venue) \cup replaced(moved))
         ELSE replaced(venue)

MakeRight(role, book) ==
    LET live == DOMAIN book
        keep == {o \in live : /\ Wants(role) /\ o \notin Closes
                              /\ book[o].size - book[o].filled = look.size}
        kept == IF keep = {} THEN {} ELSE {CHOOSE o \in keep : TRUE}
    IN IF keep = {} /\ Wants(role) /\ Cardinality(live) = 1
          /\ \A o \in live : book[o].filled = 0
         THEN Editing(role, CHOOSE o \in live : TRUE)
         ELSE Replacing(venue, role, live, kept)

\* settle(): the recorded order, when the list does not have it, is asked for
\* by its id first.  A target that could not be asked for, or was nowhere and
\* not for a minute yet, is not replaced; one that filled meanwhile is a fill,
\* and the rest waits for the next poll.
Settled(role) ==
    LET o == Recorded(rec, role)
        listed == [p \in DOMAIN look.book \cap Shape(role) |-> look.book[p]]
        unseen == o # None /\ o \notin DOMAIN listed
        fills == AbsorbOf(venue, rec, o)
        with == [p \in DOMAIN listed \cup {o} |->
                   IF p = o THEN venue.order[o] ELSE listed[p]]
        waits == IF role = "take_profit" THEN {Leg(venue, rec, o, TRUE, {})} ELSE {}
        goesOn == MakeRight(role, listed)
        lost == Despite("read", IF role = "take_profit" THEN waits ELSE goesOn)
                \cup Despite("nowhere", waits \cup goesOn)
        found == IF Resting(venue, o) THEN MakeRight(role, with)
                 ELSE IF fills # rec
                   THEN {[Leg(venue, fills, o, FALSE, {}) EXCEPT !.filled = TRUE]}
                   ELSE goesOn
    IN IF unseen THEN lost \cup found ELSE goesOn

SettleLeg(role) ==
    /\ At(IF role = "take_profit" THEN "settle_target" ELSE "settle_stop")
    /\ \E leg \in Settled(role) :
         /\ CostsAll(leg.wrong)
         /\ venue' = leg.venue
         /\ SaveIfChanged(leg.rec)
         /\ IF leg.filled
              THEN LET after == IF role = "take_profit" THEN 4 ELSE 3
                   IN Go(leg.rec, look, mem,      \* past "record"
                         <<"losers">> \o SubSeq(todo, after, Len(todo)))
              ELSE Go(rec,
                      [look EXCEPT ![IF role = "take_profit" THEN "takeProfit"
                                     ELSE "stopLoss"] = leg.id,
                                   !.failed = IF leg.failed THEN @ \cup {role} ELSE @],
                      mem, Tail(todo))
    /\ UNCHANGED <<opening, mem>>

\* What rests is written down, then what failed.
RecordProtection ==
    /\ At("record")
    /\ LET same == /\ look.takeProfit = rec.takeProfit
                   /\ look.stopLoss = rec.stopLoss /\ look.size = rec.cover
           r == IF same THEN rec
                ELSE ProtectionPlaced(rec, look.takeProfit, look.stopLoss, look.size)
           s == IF look.failed = {} THEN r
                ELSE ProtectionFailed(r, look.failed = {"take_profit"})
       IN /\ SaveIfChanged(s)
          /\ mem' = [mem EXCEPT !.hold = look.failed # {}, !.owed = look.failed # {}]
          /\ Go(s, look, mem', Tail(todo))
    /\ UNCHANGED <<opening, venue, faults>>

\* clearProtection(): every reduce-only order of the contract, best effort.
ClearProtection ==
    /\ At("clear")
    /\ LET own == {o \in Exits : Resting(venue, o)}
           r == IF rec.takeProfit = None /\ rec.stopLoss = None THEN rec
                ELSE ProtectionPlaced(rec, None, None, 0)
       IN /\ \/ NoFault /\ venue' = CancelAll(venue, own)
             \/ Fault("read") /\ UNCHANGED venue
             \/ Fault("cancel") /\ \E o \in own : venue' = CancelAll(venue, own \ {o})
          /\ SaveIfChanged(r) /\ On(r)
    /\ UNCHANGED <<opening, mem>>

-----------------------------------------------------------------------------
(* cancelSiblings(): the other exit comes off *)

\* One leg: looked up, cancelled if it rests, read back.  What it filled is
\* taken in while the trade still holds; it leaves the record once it is gone.
\* x.sure says whether every leg so far was confirmed.
TakeOffLeg(x, role, how) ==
    LET o == Recorded(x.rec, role)
        v == IF how \in {"taken", "unverified"} THEN Cancel(x.venue, o) ELSE x.venue
        seen == how \notin {"unread", "nowhere"}
        gone == how \in {"taken", "nowhere"}
        r == IF seen /\ x.venue.order[o].filled > 0 /\ x.rec.position # 0
               THEN AbsorbOf(v, x.rec, o) ELSE x.rec
    IN [venue |-> v, rec |-> IF gone THEN SiblingCancelled(r, role) ELSE r,
        sure |-> x.sure /\ gone]

\* How the lookup, the cancel and the reading back may go for a leg.
Hows(v, o) ==
    {<<"taken", "none">>, <<"unread", "read">>, <<"nowhere", "nowhere">>}
    \cup IF Resting(v, o) THEN {<<"unverified", "read">>, <<"refused", "cancel">>}
         ELSE {}

TakeOffs(r, legs) ==
    LET x0 == [venue |-> venue, rec |-> r, sure |-> TRUE]
        off(x, role, how) == IF role \in legs THEN TakeOffLeg(x, role, how) ELSE x
        hows(role) == IF role \in legs THEN Hows(venue, Recorded(r, role))
                      ELSE {<<"taken", "none">>}
    IN {[end |-> off(off(x0, "take_profit", h[1][1]), "stop_loss", h[2][1]),
         fault |-> IF h[1][2] = "none" THEN h[2][2] ELSE h[1][2]] :
          h \in {p \in hows("take_profit") \X hows("stop_loss") :
                   "none" \in {p[1][2], p[2][2]}}}

\* The size of a close is settled before the exits come off, on what is held.
CloseSize ==
    LET size == IF look.want = 0 \/ look.want > Size THEN Size ELSE look.want
    IN [look EXCEPT !.want = size, !.all = size >= Size]

\* Mutant: a close takes the target off and leaves the stop.
TargetOnly(r) == {role \in {"take_profit"} : Recorded(r, role) # None}

BothLegs(r) == {role \in {"take_profit", "stop_loss"} : Recorded(r, role) # None}

\* noteLeftover(): a trade whose exits are not all confirmed off is kept in mind.
NoteLeftover(sure) == [mem EXCEPT !.leftover = ~sure]

\* Mutant: the record cancelSiblings returns is dropped.
SiblingsDropped ==
    /\ \/ At("losers") \/ At("take_off") \/ At("close_out")
    /\ \E t \in TakeOffs(rec, IF At("losers") THEN Losers(rec) ELSE BothLegs(rec)) :
         /\ Costs(t.fault)
         /\ venue' = t.end.venue
         /\ mem' = NoteLeftover(t.end.sure)
         /\ SaveIfChanged(t.end.rec)
         /\ Go(rec, IF At("take_off") THEN CloseSize ELSE look, mem', Tail(todo))
    /\ UNCHANGED opening

\* cancelSiblings(rec, all), then go on.
CancelSiblings ==
    /\ \/ At("losers") \/ At("take_off") \/ At("close_out")
    /\ \E t \in TakeOffs(rec, IF At("losers") THEN Losers(rec) ELSE BothLegs(rec)) :
         /\ Costs(t.fault)
         /\ venue' = t.end.venue
         /\ mem' = NoteLeftover(t.end.sure)
         /\ LET r == IF At("close_out") THEN Reconciled(t.end.rec, 0) ELSE t.end.rec
            IN /\ SaveIfChanged(r)
               /\ Go(r, IF At("take_off") THEN CloseSize ELSE look,
                     mem', Tail(todo))
    /\ UNCHANGED opening

-----------------------------------------------------------------------------
(* closeNow(): out at the market, or a limit through the offer *)

SubmitClose ==
    /\ At("submit")
    /\ rec.exits < MaxExits
    /\ LET sending == IF look.want > Size THEN Size ELSE look.want
           cid == <<IF look.limit THEN "exit_limit" ELSE "exit", rec.exits + 1>>
           r == ExitSubmitted(rec, [order |-> cid, size |-> sending, before |-> Size,
                                    all |-> look.all \/ sending >= Size])
       IN Save(r) /\ On(r)
    /\ UNCHANGED <<opening, mem, venue, faults>>

\* A refusal puts the exits back at once; no answer is only written down.
SendClose ==
    /\ At("send")
    /\ LET c == rec.closing
           out == IF c.order[1] = "exit" THEN MarketOutcomes(venue, c.order, c.size)
                  ELSE LimitOutcomes(venue, c.order, c.size)
           failed == ProtectionFailed(rec, FALSE)
       IN \/ /\ ~Refuses(venue, c.order, c.size)
             /\ \/ NoFault /\ venue' \in out
                \/ /\ c.order[1] = "exit" /\ Fault("empty")
                   /\ venue' = Unfilled(venue, c.order, c.size)
             /\ LET r == AbsorbOf(venue', rec, c.order)
                IN SaveIfChanged(r) /\ On(r)
          \/ /\ IF Refuses(venue, c.order, c.size) THEN NoFault ELSE Fault("reject")
             /\ Save(failed) /\ Do(failed, <<"protect">>) /\ UNCHANGED venue
          \/ /\ Fault("timeout")
             /\ venue' \in IF Refuses(venue, c.order, c.size) THEN {venue}
                           ELSE out \cup {venue}
             /\ Save(failed) /\ On(failed)
    /\ UNCHANGED <<opening, mem>>

\* Judged at the stop, on the perp's levels or on a bar's close: closed, or not.
JudgeExits ==
    /\ At("judge")
    /\ \/ On(rec)
       \/ \E limit \in BOOLEAN :
            /\ limit => WantsStop
            /\ Go(trade, [NoLook EXCEPT !.limit = limit], mem,
                  CloseStages \o Tail(todo))
    /\ UNCHANGED <<trade, opening, mem, venue, faults>>

\* Mutant: after the last try nobody is told.
ResendQuietly(r, v) ==
    LET c == r.closing
        owed == IF c.all THEN 0 ELSE c.size - (c.before - Held(r))
    IN /\ venue' = v /\ SaveIfChanged(r) /\ UNCHANGED mem
       /\ IF r.exits >= MaxCloseTries \/ r.exits >= MaxExits \/ (~c.all /\ owed < 1)
            THEN On(r)
            ELSE Go(r, [NoLook EXCEPT !.want = owed], mem, CloseStages \o Tail(todo))

\* followUpClose(): what is left of a close is cancelled and sent again.
ResendClose(r, v) ==
    LET c == r.closing
        owed == IF c.all THEN 0 ELSE c.size - (c.before - Held(r))
    IN /\ venue' = v
       /\ SaveIfChanged(r)
       /\ IF r.exits >= MaxCloseTries \/ r.exits >= MaxExits
            THEN mem' = [mem EXCEPT !.gaveUp = TRUE] /\ On(r)
            ELSE /\ UNCHANGED mem
                 /\ IF ~c.all /\ owed < 1 THEN On(r)
                    ELSE Go(r, [NoLook EXCEPT !.want = owed], mem,
                            CloseStages \o Tail(todo))

FollowUpWaits ==
    /\ At("follow")
    /\ NoFault \/ Fault("read")
    /\ On(rec)
    /\ UNCHANGED <<trade, opening, mem, venue>>

FollowUp ==
    /\ At("follow")
    /\ LET x == rec.closing.order
           r == AbsorbOf(venue, rec, x)
       IN \/ /\ NoFault /\ (r.phase # "exit_pending" \/ r.position = 0)
             /\ SaveIfChanged(r) /\ On(r) /\ UNCHANGED <<mem, venue>>
          \/ /\ NoFault /\ r.phase = "exit_pending" /\ r.position # 0
             /\ ResendClose(r, Cancel(venue, x))
          \/ /\ Resting(venue, x) /\ r.phase = "exit_pending" /\ r.position # 0
             /\ \/ Fault("cancel") /\ UNCHANGED venue
                \/ Fault("read") /\ venue' = Cancel(venue, x)
             /\ SaveIfChanged(r) /\ On(r) /\ UNCHANGED mem
          \/ Fault("nowhere") /\ ResendClose(rec, venue)
    /\ UNCHANGED opening

-----------------------------------------------------------------------------
(* reconcile(): read the exchange and believe it *)

LookAgain ==
    /\ At("look_again")
    /\ \/ /\ NoFault /\ Known(venue, Entry)
          /\ LET r == AbsorbOf(venue, rec, Entry)
                 s == IF r.phase = "entry_unknown"
                        THEN AbsorbOf(venue, EntrySubmitted(r), Entry) ELSE r
             IN SaveIfChanged(s) /\ On(s)
       \/ /\ IF ~Known(venue, Entry) THEN NoFault
             ELSE Fault("read") \/ Fault("nowhere")
          /\ Go(rec, [look EXCEPT !.heard = FALSE], mem, Tail(todo))
          /\ UNCHANGED trade
    /\ UNCHANGED <<opening, mem, venue>>

\* Mutant: the fills found are booked whatever the record has.
RecoverTwice(r) ==
    LET take(orders, s) == FoldSet(LAMBDA o, t : Fill(t, o, venue.order[o].filled), s,
                                   {o \in orders : venue.order[o].filled > 0})
    IN take(Entries, take(Exits, r))

\* What an order has filled by now is taken in.
AbsorbNow(o, r) == AbsorbOf(venue, r, o)

\* recoverFills(): every fill of an order with the trade's stem, newest first.
RecoverFills(r) ==
    LET take(orders, s) ==
            FoldSet(AbsorbNow, s, {o \in orders : venue.order[o].filled > 0})
    IN take(Entries, take(Exits, r))

Recover ==
    /\ At("recover")
    /\ \E r \in {rec, RecoverFills(rec)} :
         /\ IF r = RecoverFills(rec) THEN NoFault ELSE Fault("read")
         /\ SaveIfChanged(r) /\ On(r)
    /\ UNCHANGED <<opening, mem, venue>>

\* syncPosition(): the position read...
Sync ==
    /\ At("sync")
    /\ \/ Fault("read") /\ On(rec)
       \/ /\ NoFault
          /\ IF venue.net = rec.position THEN On(rec)
             ELSE Go(rec, [look EXCEPT !.net = venue.net], mem,
                     <<"believe">> \o Tail(todo))
    /\ UNCHANGED <<trade, opening, mem, venue>>

\* ... the fills that may explain it, and what they do not explain believed:
\* nothing held only when a second read says so too.
Believe ==
    /\ At("believe")
    /\ \E r \in {rec, RecoverFills(rec)} :
         /\ IF r = RecoverFills(rec) THEN NoFault ELSE Fault("read")
         /\ IF r.position = look.net \/ (look.net = 0 /\ venue.net # 0)
              THEN SaveIfChanged(r) /\ On(r)
              ELSE LET s == Reconciled(r, look.net)
                   IN Save(s) /\ Do(s, IF look.net # 0 THEN <<"protect">>
                                       ELSE <<"clear">>)
    /\ UNCHANGED <<opening, mem, venue>>

NeverLanded ==
    /\ At("never_landed")
    /\ Save(Aborted(rec)) /\ On(Aborted(rec))
    /\ UNCHANGED <<opening, mem, venue, faults>>

-----------------------------------------------------------------------------
(* What a person asks for, and the sweeps of the loop *)

AskClose ==
    /\ Free /\ trade.position # 0 /\ trade.exits < MaxExits
    /\ \E want \in 0 .. 1 :
         /\ (IF want = 0 THEN "close" ELSE "part") \in Asked
         /\ Go(trade, [NoLook EXCEPT !.want = want], mem, CloseStages)
    /\ UNCHANGED <<trade, opening, mem, venue, faults>>

AskReconcile ==
    /\ "reconcile" \in Asked /\ Free
    /\ Go(trade, NoLook, mem, ReconcileStages)
    /\ UNCHANGED <<trade, opening, mem, venue, faults>>

\* cancelEntry(): an entry that rests is cancelled and read back; any other
\* answer, or none, and the entry is written off all the same.
AskCancel ==
    /\ "cancel" \in Asked /\ Free /\ trade.position = 0
    /\ mem' = [mem EXCEPT !.deadline = "none"]
    /\ \/ /\ Resting(venue, Entry)
          /\ \/ NoFault /\ venue' = Cancel(venue, Entry)
             \/ Fault("cancel") /\ UNCHANGED venue
          /\ Go(trade, NoLook, mem, <<"entry_gone">>)
          /\ UNCHANGED trade
       \/ /\ IF Resting(venue, Entry) THEN Fault("read") ELSE NoFault
          /\ Save(EntryCancelled(trade))
          /\ UNCHANGED <<todo, rec, look, venue>>
    /\ UNCHANGED opening

SweepLeftovers ==
    /\ Free /\ mem.leftover /\ IsDone(trade)
    /\ \E t \in TakeOffs(trade, BothLegs(trade)) :
         /\ Costs(t.fault)
         /\ venue' = t.end.venue
         /\ Save(t.end.rec)
         /\ mem' = NoteLeftover(t.end.sure)
    /\ UNCHANGED <<todo, rec, look, opening>>

\* Mutant: only what a trade has replaced is swept, not what it ended with.
SweepReplaced ==
    /\ Free
    /\ \E o \in Targets \cup Stops :
         /\ Resting(venue, o) /\ o \notin {trade.takeProfit, trade.stopLoss}
         /\ \/ NoFault /\ venue' = Cancel(venue, o)
            \/ Fault("cancel") /\ UNCHANGED venue
    /\ UNCHANGED <<trade, todo, rec, look, opening, mem>>

\* An exit that no open trade records: off.
SweepOrphans ==
    /\ Free
    /\ \E o \in Targets \cup Stops :
         /\ Resting(venue, o)
         /\ IsDone(trade) \/ o \notin {trade.takeProfit, trade.stopLoss}
         /\ \/ NoFault /\ venue' = Cancel(venue, o)
            \/ Fault("cancel") /\ UNCHANGED venue
    /\ UNCHANGED <<trade, todo, rec, look, opening, mem>>

-----------------------------------------------------------------------------
(* Time, the venue, and a restart *)

DeadlinePasses ==
    /\ mem.deadline = "armed"
    /\ mem' = [mem EXCEPT !.deadline = "due"]
    /\ UNCHANGED <<trade, todo, rec, look, opening, venue, faults>>

HoldEnds ==
    /\ mem.hold
    /\ mem' = [mem EXCEPT !.hold = FALSE]
    /\ UNCHANGED <<trade, todo, rec, look, opening, venue, faults>>

EntryFills ==
    /\ ~MarketEntry
    /\ \E n \in 1 .. Fillable(venue, Entry) :
         /\ PartialEntry \/ n = Requested
         /\ venue' = Fills(venue, Entry, n)
    /\ UNCHANGED <<trade, todo, rec, look, opening, mem, faults>>

ExitFills ==
    /\ \E o \in {p \in Exits : p[1] # "exit"} : \E n \in 1 .. Fillable(venue, o) :
         venue' = Fills(venue, o, n)
    /\ UNCHANGED <<trade, todo, rec, look, opening, mem, faults>>

\* The venue takes off exits that do not fit under the position, and a
\* reduce-only order that is reached with nothing left to reduce.
VenueTrims ==
    /\ \E o \in Excess(venue) \cup {p \in Exits : Resting(venue, p) /\ Short(venue) = 0} :
         venue' = Cancel(venue, o)
    /\ UNCHANGED <<trade, todo, rec, look, opening, mem, faults>>

\* It does not promise to keep one it considers over-committed either.
VenueDrops ==
    /\ Fault("drop")
    /\ \E o \in Targets \cup Stops : Resting(venue, o) /\ venue' = Cancel(venue, o)
    /\ UNCHANGED <<trade, todo, rec, look, opening, mem>>

\* A contract bought back in the exchange's own app.
ClosedByHand ==
    /\ Short(venue) > 0 /\ Fault("hand")
    /\ venue' = [venue EXCEPT !.net = @ + 1]
    /\ UNCHANGED <<trade, todo, rec, look, opening, mem>>

\* The process dies; recover() reconciles the trade if the journal has it open.
Restart ==
    /\ Fault("crash")
    /\ opening' = [NoOpen EXCEPT !.at = IF opening.at = "none" THEN "none" ELSE "done"]
    /\ mem' = NoMem
    /\ IF Working THEN Go(trade, NoLook, NoMem, ReconcileStages)
       ELSE todo' = <<>> /\ rec' = None /\ look' = NoLook
    /\ UNCHANGED <<trade, venue>>

Open == OpenStart \/ OpenRefused \/ OpenPlace \/ OpenSubmitted \/ OpenAbsorb

\* The steps of a job that runs.
Works ==
    \/ LookEntry \/ LookLeg("take_profit") \/ LookLeg("stop_loss")
    \/ CancelOverdue \/ EntryGone \/ PlaceFallback \/ FallbackSent
    \/ ReadBook \/ SettleLeg("take_profit") \/ SettleLeg("stop_loss")
    \/ RecordProtection \/ ClearProtection \/ CancelSiblings
    \/ SubmitClose \/ SendClose \/ JudgeExits \/ FollowUpWaits \/ FollowUp
    \/ LookAgain \/ Recover \/ Sync \/ Believe \/ NeverLanded

Asks == AskClose \/ AskReconcile \/ AskCancel

Sweeps == SweepLeftovers \/ SweepOrphans

Market == EntryFills \/ ExitFills \/ VenueTrims \/ VenueDrops \/ ClosedByHand

Next == Open \/ Poll \/ Works \/ Asks \/ Sweeps \/ DeadlinePasses \/ HoldEnds
        \/ Market \/ Restart

Spec == Init /\ [][Next]_vars

\* The loop polls every open trade and sweeps again and again, a job that runs
\* goes on, and time passes.  Nothing is asked of the market or of a person.
FairSpec ==
    /\ Spec
    /\ WF_vars(Open) /\ WF_vars(Works) /\ SF_vars(FollowUp)
    /\ SF_vars(Poll) /\ SF_vars(SweepLeftovers) /\ SF_vars(SweepOrphans)
    /\ WF_vars(DeadlinePasses) /\ WF_vars(HoldEnds)

-----------------------------------------------------------------------------
(* Properties *)

Stage == {"entry", "target", "stop", "overdue", "entry_gone", "fallback",
          "fallback_sent", "losers", "follow", "cover", "protect", "clear",
          "settle_target", "settle_stop", "record", "judge", "close_out", "sync",
          "believe", "take_off", "submit", "send", "look_again", "recover",
          "never_landed"}

TypeOK ==
    /\ todo \in Seq(Stage)
    /\ look.want \in 0 .. 2 * Requested /\ look.size \in 0 .. 2 * Requested
    /\ DOMAIN look.book \subseteq Exits
    /\ look.book \in [DOMAIN look.book -> OrderState]
    /\ trade \in TradeRecord \cup {None}
    /\ rec \in TradeRecord \cup {None}
    /\ opening.at \in {"none", "gates", "acked", "submitted", "done"}
    /\ opening.rec \in TradeRecord \cup {None}
    /\ opening.filled \in 0 .. Requested /\ opening.rejected \in BOOLEAN
    /\ mem.deadline \in {"none", "armed", "due"}
    /\ \A f \in {"hold", "owed", "leftover", "gaveUp"} : mem[f] \in BOOLEAN
    /\ venue \in VenueState
    /\ faults \in 0 .. MaxFaults

\* No job of the trade runs and open() is not under way.
AtRest == Idle /\ opening.at = "done"

Done == trade # None /\ IsDone(trade)

\* No fill is booked twice: of no order does the journal have more than the
\* venue filled, whoever looked it up, how often, and whatever went wrong.
BookedIsReal ==
    trade # None => \A o \in Order : trade.booked[o] <= venue.order[o].filled

\* No fill once booked is lost again: a job that saves its copy of the record
\* saves it with every fill the journal already has.
NeverForgets ==
    [][trade # None => \A o \in Order : trade'.booked[o] >= trade.booked[o]]_trade

\* One stop and one target of the trade rest at a time: protect() moves the
\* one there is, or takes it off first, and asks for the recorded one by its
\* id when the list of open orders does not have it.
OneOfEach ==
    \A kind \in {Targets, Stops} : \A o, p \in kind :
        Resting(venue, o) /\ Resting(venue, p) => o = p

\* The engine never polls a finished trade again, so nothing may be left of
\* one: no contract is held and its entry does not rest.
DoneIsDone ==
    AtRest /\ Done => venue.net = 0 /\ ~Resting(venue, Entry)

\* A close leaves no entry working: what it had not sold would be sold after
\* the trade is over, with nobody watching it (service.ts, closeAll).
SquaredOff ==
    AtRest /\ trade # None /\ trade.phase = "flat" => ~Resting(venue, Entry)

\* A close is sent with the exits off the book, so that the two never buy the
\* same contracts back.
SentAlone == At("send") => \A o \in Targets \cup Stops : ~Resting(venue, o)

\* While a close rests no exit rests beside it.
CloseRestsAlone ==
    trade # None /\ trade.closing # None /\ Resting(venue, trade.closing.order)
        => \A o \in Targets \cup Stops : ~Resting(venue, o)

\* A close whose answer was lost is read before anything is put on beside it
\* (engine.ts, closeNowInner's catch).
ReadFirst ==
    trade # None /\ trade.closing # None /\ Resting(venue, trade.closing.order)
        => trade.takeProfit = None /\ trade.stopLoss = None

\* What the plan asks for is sold once, whether the entry rests, is cancelled
\* at its deadline or is crossed at the market instead.
SoldOnce ==
    venue.order[Entry].filled + venue.order[FallbackEntry].filled <= Requested

\* "Never held a position" is what aborted means (types.ts, TradePhase).
AbortedHeldNothing ==
    AtRest /\ trade.phase = "aborted" => \A o \in Entries : venue.order[o].filled = 0

\* An entry that never landed leaves nothing at risk (engine.ts,
\* reconcileInner): neither held nor resting.
NothingAtRisk ==
    AtRest /\ trade.phase = "aborted" => venue.net = 0 /\ ~Resting(venue, Entry)

\* What is held is covered by a stop of at least its size...
Covered ==
    MapThenSumSet(LAMBDA o : Left(venue, o), {o \in Stops : Resting(venue, o)})
        >= Short(venue)

\* ... or comes to be, or the desk is told: a position is never quietly left
\* naked (engine.ts, protect).
NeverQuietlyNaked ==
    trade # None /\ WantsStop /\ ~Covered ~> Covered \/ trade.alarm \/ mem.gaveUp

\* The exits of a finished trade come off the book: they would buy back
\* another trade's contracts.
ExitsComeOff ==
    Done ~> ~Done \/ \A o \in Targets \cup Stops : ~Resting(venue, o)

BuyingBack == trade # None /\ trade.phase = "exit_pending"

\* A close comes to an end, or the desk gives up and says so.
CloseFinishes == BuyingBack ~> ~BuyingBack \/ mem.gaveUp

Behind == trade # None /\ trade.position # venue.net

\* The record comes to hold what the account holds.
CatchesUp == Behind ~> ~Behind

\* An entry with a time limit does not rest for ever once its order is known
\* to be out, across a restart too (trade.routes.ts, entryExpiresAt).
EntryRests == Timeout /\ trade # None /\ trade.phase = "entry_pending"
              /\ Resting(venue, Entry)

EntryGivesUp == EntryRests ~> ~EntryRests

=============================================================================
