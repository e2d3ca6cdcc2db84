--------------------------- MODULE SharedContract ---------------------------
(***************************************************************************)
(* Trades of one account on one contract (trading/engine.ts).  The orders  *)
(* and fills of each are its own, by its client ids; the position the      *)
(* exchange answers with is their sum.  What reads the exchange by symbol  *)
(* -- reconcile, protect, clearProtection -- works out its trade's share   *)
(* from the records of the others, and must leave their orders alone.      *)
(*                                                                         *)
(* Each trade sells its Lots and has one exit behind it (TradeEngine       *)
(* has both legs).  A trade's jobs queue, those of two trades interleave   *)
(* at every call to the exchange or the store.  Contracts are counted      *)
(* short: 2 is a position of -2.                                           *)
(***************************************************************************)
EXTENDS Integers, FiniteSets, Functions

CONSTANTS
    Trade,
    None,          \* no job under way
    Lots,          \* contracts each trade sells, a function
    Buttons,       \* trades reconciled from the screen while the loop runs
    \* Bounds on the environment.
    MaxHand,       \* contracts bought back by hand
    MaxBadReads,   \* reads of the positions answered without this contract
    MaxFailed,     \* reads that fail
    MaxCrash

ASSUME ContractAssumption ==
    /\ IsFiniteSet(Trade) /\ Lots \in [Trade -> Nat \ {0}] /\ Buttons \subseteq Trade
    /\ {MaxHand, MaxBadReads, MaxFailed, MaxCrash} \subseteq Nat

VARIABLES
    rec,      \* the journal: each trade's record
    job,      \* the job of each trade's queue, at the call it awaits
    start,    \* the trades recover() has still to go through, None when done
    sold,     \* the exchange: contracts each trade's entry sold
    bought,   \* and its exit bought back
    rest,     \* and what rests of its exit
    hand,     \* contracts bought back by hand
    bad, failed, crashes,
    written   \* history: trades whose record reconcile wrote over

venueVars == <<sold, bought, rest, hand>>
faultVars == <<bad, failed, crashes>>
vars == <<rec, job, start, venueVars, faultVars, written>>

Share == [t \in Trade |-> sold[t] - bought[t]]
Net == SumFunction(Share) - hand

\* store.open(): every trade that has begun and is not done.
Open == {t \in Trade : rec[t].phase \in {"sent", "held"}}
SiblingsOn(t) == Open \ {t}

At(t, step) == job[t] # None /\ job[t].step = step
Free(t) == job[t] = None

Become(t, j) == job' = [job EXCEPT ![t] = j]

\* Mutant: bought back to nothing and still held.
BookedHeld(t, b) ==
    [rec[t] EXCEPT !.sold = sold[t], !.bought = b,
                   !.pos = sold[t] - b,
                   !.phase = IF sold[t] = 0 THEN @ ELSE "held"]

\* absorb() of the orders that filled: the position is counted from the fills.
Booked(t, b) ==
    LET r == rec[t] IN
    IF r.sold = sold[t] /\ r.bought = b THEN r
    ELSE [r EXCEPT !.sold = sold[t], !.bought = b,
                   !.pos = sold[t] - b,
                   !.phase = IF sold[t] = b THEN "done" ELSE "held"]

\* recoverFills(): every fill of the trade, from the order history.
Absorbed(t) == [Booked(t, bought[t]) EXCEPT !.missed = 0]

\* By the ids on the record: not what an exit bought that was replaced before
\* that was read.
LookedUp(t) == Booked(t, bought[t] - rec[t].missed)

-----------------------------------------------------------------------------
Init ==
    /\ rec = [t \in Trade |->
                [phase |-> "none", pos |-> 0, cover |-> 0,
                 sold |-> 0, bought |-> 0, missed |-> 0]]
    /\ job = [t \in Trade |-> None]
    /\ start = None
    /\ sold = [t \in Trade |-> 0] /\ bought = [t \in Trade |-> 0]
    /\ rest = [t \in Trade |-> 0] /\ hand = 0
    /\ bad = 0 /\ failed = 0 /\ crashes = 0 /\ written = {}

\* open(): the record is saved, then the entry is sent.
Enter(t) ==
    /\ start = None /\ rec[t].phase = "none"
    /\ rec' = [rec EXCEPT ![t].phase = "sent"]
    /\ UNCHANGED <<job, start, venueVars, faultVars, written>>

-----------------------------------------------------------------------------
(* The exchange *)

\* The entry rests until it fills, whatever the record says.
EntryFills(t) ==
    /\ rec[t].phase # "none" /\ sold[t] = 0
    /\ sold' = [sold EXCEPT ![t] = Lots[t]]
    /\ UNCHANGED <<rec, job, start, bought, rest, hand, faultVars, written>>

ExitFills(t) ==
    /\ \E n \in 1 .. rest[t] :
         /\ n <= Net
         /\ bought' = [bought EXCEPT ![t] = @ + n]
         /\ rest' = [rest EXCEPT ![t] = @ - n]
    /\ UNCHANGED <<rec, job, start, sold, hand, faultVars, written>>

\* no_position_left_for_reduce_only
ExitDropped(t) ==
    /\ rest[t] > 0 /\ Net = 0
    /\ rest' = [rest EXCEPT ![t] = 0]
    /\ UNCHANGED <<rec, job, start, sold, bought, hand, faultVars, written>>

\* In Delta's own app: no order of the desk's.
HandBuys ==
    /\ hand < MaxHand /\ Net > 0
    /\ hand' = hand + 1
    /\ UNCHANGED <<rec, job, start, sold, bought, rest, faultVars, written>>

\* A read of the positions, as they are, or without this contract in them.
PositionRead(n) ==
    \/ n = Net /\ UNCHANGED faultVars
    \/ n = 0 /\ bad < MaxBadReads /\ bad' = bad + 1 /\ UNCHANGED <<failed, crashes>>

ReadFails ==
    failed < MaxFailed /\ failed' = failed + 1 /\ UNCHANGED <<bad, crashes>>

-----------------------------------------------------------------------------
(* The exits: protect() and clearProtection() *)

\* Mutant: an order that is not this trade's is nobody's.
NotOursEither(seen, t) == seen \ {t}

\* The exits off the book that are not this trade's own and that no open
\* sibling placed (ownedByAnother).
Leftovers(seen, t) == seen \ (SiblingsOn(t) \cup {t})

OnBook == {u \in Trade : rest[u] > 0}

\* protect(): the position and the book are read together.  Without a
\* position nothing reduce-only can be placed; it is tried again later.
ProtectReads(t) ==
    /\ At(t, "protect")
    /\ \/ \E n \in 0 .. Net :
            /\ PositionRead(n)
            /\ Become(t, IF n = 0 THEN None
                         ELSE [step |-> "settle", seen |-> OnBook, own |-> rest[t]])
       \/ ReadFails /\ Become(t, None)
    /\ UNCHANGED <<rec, start, venueVars, written>>

\* The exit of the record, not on the book that was read, bought meanwhile.
FilledMeanwhile(t) ==
    job[t].own = 0 /\ rec[t].cover > 0 /\ LookedUp(t).bought > rec[t].bought

\* The exit is for what the record held when the job began: one that was read
\* so is kept, any other is moved or replaced.
Kept(t) == job[t].own = rec[t].pos
Exit(t) ==
    IF Kept(t) THEN rest[t] ELSE IF Net = 0 THEN 0 ELSE rec[t].pos

\* Then the siblings; what is left over comes off.  What an exit bought that is
\* replaced, and was not on the record, the record misses.  An exit found
\* filled is booked, and nothing is placed.
ProtectSettles(t) ==
    /\ At(t, "settle")
    /\ IF FilledMeanwhile(t)
       THEN rec' = [rec EXCEPT ![t] = LookedUp(t)] /\ UNCHANGED rest
       ELSE /\ rest' = [u \in Trade |->
                 IF u = t THEN Exit(t)
                 ELSE IF u \in Leftovers(job[t].seen, t) THEN 0 ELSE rest[u]]
            /\ rec' = [rec EXCEPT
                 ![t].cover = IF Kept(t) THEN rec[t].pos ELSE Exit(t),
                 ![t].missed = IF job[t].own = 0 \/ Kept(t) THEN @
                               ELSE bought[t] - rec[t].bought]
    /\ Become(t, None)
    /\ UNCHANGED <<start, sold, bought, hand, faultVars, written>>

\* clearProtection(): a book that cannot be read is an empty one.
ClearReads(t) ==
    /\ At(t, "clear")
    /\ \/ Become(t, [step |-> "cancel", seen |-> OnBook]) /\ UNCHANGED faultVars
       \/ Become(t, [step |-> "cancel", seen |-> {}]) /\ ReadFails
    /\ UNCHANGED <<rec, start, venueVars, written>>

ClearCancels(t) ==
    /\ At(t, "cancel")
    /\ rest' = [u \in Trade |->
         IF u \in Leftovers(job[t].seen, t) \cup (job[t].seen \cap {t}) THEN 0
         ELSE rest[u]]
    /\ rec' = [rec EXCEPT ![t].cover = 0]
    /\ Become(t, None)
    /\ UNCHANGED <<start, sold, bought, hand, faultVars, written>>

-----------------------------------------------------------------------------
(* The loop *)

\* pollInner(): its own orders by their ids; an exit gone from the book is off
\* the record; what is held and not covered is protected.  Out of contracts,
\* what rests of its own exit comes off.
Poll(t) ==
    /\ start = None /\ Free(t) /\ t \in Open
    /\ LET r == LookedUp(t)
           c == IF rest[t] = 0 THEN 0 ELSE r.cover
       IN IF r.phase = "done"
          THEN /\ rec' = [rec EXCEPT ![t] = [r EXCEPT !.cover = 0]]
               /\ rest' = [rest EXCEPT ![t] = 0]
               /\ UNCHANGED job
          ELSE /\ rec' = [rec EXCEPT ![t] = [r EXCEPT !.cover = c]]
               /\ Become(t, IF r.pos > 0 /\ c # r.pos
                            THEN [step |-> "protect"] ELSE None)
               /\ UNCHANGED rest
    /\ UNCHANGED <<start, sold, bought, hand, faultVars, written>>

\* sweepOrphans(): an exit of a trade that is over.
Sweep(t) ==
    /\ start = None /\ Free(t) /\ rec[t].phase = "done" /\ rest[t] > 0
    /\ rest' = [rest EXCEPT ![t] = 0]
    /\ UNCHANGED <<rec, job, start, sold, bought, hand, faultVars, written>>

-----------------------------------------------------------------------------
(* reconcileInner() and syncPosition() *)

\* A job that has read the position keeps what the trade's fills on the record
\* came to then ("was"): history, for the properties.

\* From the screen, or in its turn at start: the entry and every fill first.
Reconcile(t) ==
    /\ Free(t) /\ t \in Open
    /\ \/ start = None /\ t \in Buttons
       \/ start # None /\ t \in start /\ \A u \in Trade : Free(u)
    /\ rec' = [rec EXCEPT ![t] = Absorbed(t)]
    /\ Become(t, [step |-> "net"])
    /\ start' = IF start = None THEN None ELSE start \ {t}
    /\ UNCHANGED <<venueVars, faultVars, written>>

ReadNet(t) ==
    /\ At(t, "net")
    /\ \/ \E n \in 0 .. Net :
            /\ PositionRead(n)
            /\ Become(t, [step |-> "siblings", net |-> n, was |-> rec[t].sold - rec[t].bought])
       \/ ReadFails /\ Become(t, None)
    /\ UNCHANGED <<rec, start, venueVars, written>>

\* What the records of the siblings hold.
Theirs(t) == SumFunction([u \in SiblingsOn(t) |-> rec[u].pos])

\* This trade's share is worked out once, here.
CompareShare(t) ==
    /\ At(t, "siblings")
    /\ LET held == job[t].net - Theirs(t) IN
       Become(t, IF held = rec[t].pos THEN None
                 ELSE [step |-> "judge", net |-> job[t].net, was |-> job[t].was,
                       held |-> held, shared |-> SiblingsOn(t) # {}])
    /\ UNCHANGED <<rec, start, venueVars, faultVars, written>>

\* reconciled: the record takes the number, and its exits follow.
Write(t, r, n) ==
    /\ written' = IF n # r.sold - r.bought \/ r.phase = "sent"
                  THEN written \cup {t} ELSE written
    /\ rec' = [rec EXCEPT ![t] =
                 [r EXCEPT !.pos = n, !.phase = IF n = 0 THEN "done" ELSE "held"]]
    /\ Become(t, [step |-> IF n = 0 THEN "clear" ELSE "protect"])

Leave(t, r) ==
    rec' = [rec EXCEPT ![t] = r] /\ Become(t, None) /\ UNCHANGED written

\* Mutant: one read without the contract is enough.
JudgeOnce(t) ==
    /\ At(t, "judge")
    /\ LET r == Absorbed(t)
           j == job[t]
       IN CASE j.held = r.pos \/ (j.shared /\ j.net # 0) -> Leave(t, r)
            [] OTHER -> Write(t, r, IF j.shared THEN 0 ELSE j.held)
    /\ UNCHANGED <<start, venueVars, faultVars>>

\* Mutant: what the others' records leave is this trade's, flat or not.
JudgeAnyway(t) ==
    /\ At(t, "judge")
    /\ LET r == Absorbed(t)
           j == job[t]
       IN CASE j.held = r.pos -> Leave(t, r)
            [] j.held # r.pos /\ j.net = 0 /\ r.pos # 0 ->
                 /\ rec' = [rec EXCEPT ![t] = r]
                 /\ Become(t, [step |-> "again", was |-> j.was])
                 /\ UNCHANGED written
            [] OTHER -> Write(t, r, j.held)
    /\ UNCHANGED <<start, venueVars, faultVars>>

\* After recoverFills(): explained by the fills; shared and not flat, so not
\* knowable whose it is; flat, to be read again; or this trade's to write down.
Judge(t) ==
    /\ At(t, "judge")
    /\ LET r == Absorbed(t)
           j == job[t]
       IN CASE j.held = r.pos \/ (j.shared /\ j.net # 0) -> Leave(t, r)
            [] j.held # r.pos /\ j.net = 0 /\ r.pos # 0 ->
                 /\ rec' = [rec EXCEPT ![t] = r]
                 /\ Become(t, [step |-> "again", was |-> j.was])
                 /\ UNCHANGED written
            [] OTHER -> Write(t, r, IF j.shared THEN 0 ELSE j.held)
    /\ UNCHANGED <<start, venueVars, faultVars>>

\* FLAT_CONFIRM_MS later: still no position, or nothing is written off.
LookAgain(t) ==
    /\ At(t, "again")
    /\ \/ \E n \in 0 .. Net :
            /\ PositionRead(n)
            /\ IF n = 0 THEN Write(t, rec[t], 0) ELSE Leave(t, rec[t])
       \/ ReadFails /\ Leave(t, rec[t])
    /\ UNCHANGED <<start, venueVars>>

-----------------------------------------------------------------------------
\* recover() has gone through every open trade: the loop starts.
Started ==
    /\ start # None /\ start \cap Open = {} /\ \A t \in Trade : Free(t)
    /\ start' = None
    /\ UNCHANGED <<rec, job, venueVars, faultVars, written>>

Crash ==
    /\ crashes < MaxCrash /\ crashes' = crashes + 1
    /\ start' = Open
    /\ job' = [t \in Trade |-> None]
    /\ UNCHANGED <<rec, venueVars, bad, failed, written>>

Exchange == HandBuys \/ \E t \in Trade : EntryFills(t) \/ ExitFills(t) \/ ExitDropped(t)

Works(t) ==
    \/ Enter(t) \/ Poll(t) \/ Sweep(t) \/ Reconcile(t) \/ ReadNet(t)
    \/ CompareShare(t) \/ Judge(t) \/ LookAgain(t)
    \/ ProtectReads(t) \/ ProtectSettles(t) \/ ClearReads(t) \/ ClearCancels(t)

Next == Exchange \/ Started \/ Crash \/ \E t \in Trade : Works(t)

Spec == Init /\ [][Next]_vars

-----------------------------------------------------------------------------
(* Properties *)

Most == SumFunction(Lots)

TypeOK ==
    /\ \A t \in Trade :
         /\ rec[t].phase \in {"none", "sent", "held", "done"}
         /\ rec[t].pos \in -Most .. Most
         /\ rec[t].phase = "held" => rec[t].pos # 0
         /\ rec[t].phase = "sent" => rec[t].pos = 0 /\ rec[t].sold = 0
         /\ sold[t] \in {0, Lots[t]} /\ rest[t] \in 0 .. Most
         /\ job[t] # None => job[t].step \in
              {"net", "siblings", "judge", "again", "protect", "settle", "clear", "cancel"}
    /\ start = None \/ start \subseteq Trade
    /\ Net >= 0

\* The steps in which reconcile writes a number over a record.
Writes(t) ==
    /\ At(t, "judge") \/ At(t, "again")
    /\ job'[t] # None /\ job'[t].step \in {"protect", "clear"}

\* The fills explain the position: nothing traded by hand, no record written
\* over before, and no trade has bought more than it sold.
FillsExplain == hand = 0 /\ written = {} /\ \A t \in Trade : Share[t] >= 0

\* engine.ts:3199-3206: "one read is not enough to take a position off the
\* desk's hands".  Where the fills explain the position, a trade that holds is
\* written off only by two bad reads, or by one if its entry filled between
\* the two.
WrittenOffFlat ==
    [][\A t \in Trade :
         Writes(t) /\ FillsExplain /\ Share[t] > 0 /\ rec'[t].pos = 0 =>
           bad' > (IF job[t].was = 0 THEN 0 ELSE 1)]_vars

\* Decision 0011: whatever another trade clears or protects, an open trade's
\* exit leaves the book only by that trade's own hand or the exchange's.
SiblingsLeftAlone ==
    [][\A t \in Trade :
         t \in Open /\ rest[t] > 0 /\ rest'[t] = 0 =>
           \/ bought'[t] # bought[t] \/ Net = 0
           \/ job'[t] # job[t] \/ rec'[t] # rec[t]]_vars

\* service.ts start(): nothing else runs while recover() goes through the open
\* trades, one by one, whatever the exchange fills meanwhile.  Where the fills
\* explain the position and no read is bad, the number written is what the
\* trade's own fills came to at some moment since the job began.
StartKeepsShares ==
    [][\A t \in Trade :
         start # None /\ Writes(t) /\ FillsExplain /\ bad' = 0 =>
           rec'[t].pos = Share[t] \/ rec'[t].pos \in Share[t] .. job[t].was]_vars

\* engine.ts:3166-3170: "a gap is only this trade's to write down when it
\* cannot be anyone else's".  With nothing bought by hand and no bad read, the
\* fills explain every record, so nothing is written over one.
GapIsItsOwn ==
    [][\A t \in Trade : hand = 0 /\ bad' = 0 => ~Writes(t)]_vars

\* engine.ts:1735-1736: an exit is "sized from what we actually hold".  With
\* nothing bought by hand and no read gone wrong, no trade buys back more than
\* it sold.
NeverOverbought ==
    hand = 0 /\ bad = 0 /\ failed = 0 /\ written = {} => \A t \in Trade : Share[t] >= 0

=============================================================================
