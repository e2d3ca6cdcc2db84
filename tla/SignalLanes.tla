---------------------------- MODULE SignalLanes ----------------------------
(***************************************************************************)
(* The signal side of the strategy runner (strategy/runner.ts): a signal,  *)
(* or the exit of a trade that may be sold again, is put in the line of    *)
(* every account with a strategy that takes it; a line is worked through   *)
(* one turn at a time, the longest timeframe first; and each strategy's    *)
(* part of a turn claims the signal in the journal, counts what the        *)
(* account has open against the caps, and places.                          *)
(*                                                                         *)
(* A handler is split where it awaits the database or the exchange.  What  *)
(* the rules about prices, hours and strikes decide is a free choice.      *)
(***************************************************************************)
EXTENDS Integers, Sequences, FiniteSets

CONSTANTS
    Signal,       \* TRADE signals: method, way, timeframe, direction, bar
    Strategy,     \* the strategies of the desk
    Account,      \* the accounts they trade
    Idle,         \* a line in which nothing is being traded
    TfSec,        \* TF_SEC of each signal
    SideOf,       \* the leg a signal sells, "CE" or "PE"
    AccountOf,    \* each strategy's account
    Takes,        \* the signals each strategy takes (signalMatches)
    List,         \* the order in which the store lists the strategies
    Reentry,      \* the accounts with re-entry on (REENTRY_KEY)
    Entries,      \* re-entries one exit of a signal's own trade opens
    MaxOpen,      \* a strategy's most open trades
    Cap,          \* an account's most open trades (GLOBAL_MAX_OPEN_KEY); 0 is no cap
    SideCap,      \* and the most of them on one side, where there is a cap
    Answering,    \* the accounts whose exchange answers
    \* Bounds on the environment.
    MaxTurns,     \* signals and exits handed over
    TicketUsed,   \* the accounts in which a trade is placed from the ticket
    Switched,     \* the strategies that are switched on and off
    MaxFaults     \* crashes, failed reads and switches, together

ASSUME LaneAssumption ==
    /\ TfSec \in [Signal -> Nat] /\ SideOf \in [Signal -> {"CE", "PE"}]
    /\ AccountOf \in [Strategy -> Account]
    /\ Takes \in [Strategy -> SUBSET Signal]
    /\ List \in Seq(Strategy)
    /\ Answering \cup Reentry \cup TicketUsed \subseteq Account
    /\ Switched \subseteq Strategy
    /\ {Entries, MaxOpen, Cap, SideCap, MaxTurns, MaxFaults} \subseteq Nat

VARIABLES
    armed,     \* scheduler_enabled
    on,        \* s.enabled of each strategy
    arriving,  \* turns handed over and not yet in their lines
    seq,       \* arrived
    line,      \* each account's waiting turns
    at,        \* what each line is trading now
    claims,    \* the rows of strategy_signal_runs
    open,      \* open trades of the strategies, by the key they were claimed on
    gone,      \* the ones that have closed
    byHand,    \* the accounts with a call open from the ticket
    faults

runnerVars == <<arriving, seq, line, at>>
journalVars == <<claims, open, gone, byHand>>
vars == <<armed, on, runnerVars, journalVars, faults>>

-----------------------------------------------------------------------------
\* What a turn is about: a signal, or an exit that may be followed.
SignalItem(s) == [kind |-> "signal", sig |-> s]
ExitItem(k, by) == [kind |-> "exit", of |-> k, by |-> by]

Tf(item) == IF item.kind = "signal" THEN TfSec[item.sig] ELSE TfSec[item.of.sig]

\* Which strategies an item is for: workOf of onSignal and of onOptionExit.
Mine(st, item) ==
    IF item.kind = "signal" THEN item.sig \in Takes[st] ELSE st = item.of.st

OtherSide(side) == IF side = "CE" THEN "PE" ELSE "CE"

\* signalKeyOf, and a re-entry's own key beside it: the trade it follows and
\* which of the trades that exit opens this is.
Key(st, item, entry) ==
    IF item.kind = "signal"
      THEN [st |-> st, sig |-> item.sig, path |-> <<>>, side |-> SideOf[item.sig]]
      ELSE [st |-> st, sig |-> item.of.sig,
            path |-> Append(item.of.path, entry),
            side |-> IF item.by = "stop" THEN OtherSide(item.of.side)
                                         ELSE item.of.side]

\* Mutant: every exit opens the rule's number of trades.
EntriesEach(item) == IF item.kind = "signal" THEN 1 ELSE Entries

\* How many trades one strategy's part of a turn may open: a re-entry's exit
\* is followed by one.
EntriesOf(item) ==
    IF item.kind = "signal" \/ Len(item.of.path) > 0 THEN 1 ELSE Entries

\* What one strategy claims in a turn, as it is switched now.
ClaimsOf(st, a, item) ==
    IF on[st] /\ AccountOf[st] = a /\ Mine(st, item)
      THEN [entry \in 1 .. EntriesOf(item) |-> Key(st, item, entry)] ELSE <<>>

\* The claims one turn goes through, strategy after strategy as listed.
Work(a, item) ==
    LET upTo[i \in 0 .. Len(List)] ==
          IF i = 0 THEN <<>> ELSE upTo[i - 1] \o ClaimsOf(List[i], a, item)
    IN upTo[Len(List)]

\* goesBefore(): the longer timeframe, then the one that came first.
GoesBefore(t, u) ==
    IF Tf(t.item) # Tf(u.item) THEN Tf(t.item) > Tf(u.item) ELSE t.seq < u.seq

Next1(waiting) ==
    CHOOSE t \in waiting : \A u \in waiting \ {t} : GoesBefore(t, u)

\* A turn as it is begun: run() looks at once whether the desk is armed.
Begun(t) == [turn |-> t, step |-> IF armed THEN "list" ELSE "off", todo |-> <<>>]

\* Mutant: a line does not wait for the ones still on their way in.
ServeEarly(waiting, busy, coming) ==
    IF busy = Idle /\ waiting # {}
      THEN [line |-> waiting \ {Next1(waiting)}, at |-> Begun(Next1(waiting))]
      ELSE [line |-> waiting, at |-> busy]

\* serve(): the next turn, unless one is being traded or still on its way in.
Serve(waiting, busy, coming) ==
    IF busy = Idle /\ coming = {} /\ waiting # {}
      THEN [line |-> waiting \ {Next1(waiting)}, at |-> Begun(Next1(waiting))]
      ELSE [line |-> waiting, at |-> busy]

-----------------------------------------------------------------------------
Init ==
    /\ armed = TRUE
    /\ on = [st \in Strategy |-> TRUE]
    /\ arriving = {} /\ seq = 0
    /\ line = [a \in Account |-> {}]
    /\ at = [a \in Account |-> Idle]
    /\ claims = {} /\ open = {} /\ gone = {}
    /\ byHand = {}
    /\ faults = 0

\* inTurn(): counted as on its way before anything is awaited.  A desk that is
\* not armed drops it.
Arrive(item) ==
    /\ arriving' = IF armed THEN arriving \cup {[item |-> item, seq |-> seq]}
                            ELSE arriving
    /\ seq' = seq + 1

\* onSignal() and onSetupFilled(): the recorder's first write of a signal, or a
\* grader's of its fill.  Each is told once; here it may be told again, as what
\* is sold once must not rest on that.
Hand(s) ==
    /\ seq < MaxTurns
    /\ Arrive(SignalItem(s))
    /\ UNCHANGED <<armed, on, line, at, journalVars, faults>>

\* The rest of inTurn(): every line is served once nothing is on its way.
ServeAll(coming, joined) ==
    LET served(a) == Serve(joined[a], at[a], coming)
    IN /\ line' = [a \in Account |-> served(a).line]
       /\ at' = [a \in Account |-> served(a).at]

\* The strategies are read, and the turn joins its accounts' lines.
Join(t) ==
    /\ t \in arriving
    /\ arriving' = arriving \ {t}
    /\ ServeAll(arriving',
         [a \in Account |->
            IF \E st \in Strategy :
                 AccountOf[st] = a /\ on[st] /\ Mine(st, t.item)
              THEN line[a] \cup {t} ELSE line[a]])
    /\ UNCHANGED <<armed, on, seq, journalVars, faults>>

\* The strategies cannot be read: it joins no line, and the lines go on.
JoinFails(t) ==
    /\ t \in arriving /\ faults < MaxFaults
    /\ arriving' = arriving \ {t}
    /\ ServeAll(arriving', line)
    /\ faults' = faults + 1
    /\ UNCHANGED <<armed, on, seq, journalVars>>

-----------------------------------------------------------------------------
\* Mutant: a line goes idle after each turn, and waits to be called.
TurnOverIdle(a) == at' = [at EXCEPT ![a] = Idle] /\ UNCHANGED line

\* serve()'s loop after a turn: the next one, or the line is idle.
TurnOver(a) ==
    LET s == Serve(line[a], Idle, arriving)
    IN /\ line' = [line EXCEPT ![a] = s.line]
       /\ at' = [at EXCEPT ![a] = s.at]

\* The turn a line is trading, at another of its awaits.
Goto(a, step, todo) ==
    /\ at' = [at EXCEPT ![a] =
                [turn |-> at[a].turn, step |-> step, todo |-> todo]]
    /\ UNCHANGED line

\* Mutant: a turn with nothing left to claim goes on.
ProceedOn(a, todo) == Goto(a, "claim", todo)

\* On to the next claim of the turn, or the turn is over.
Proceed(a, todo) ==
    IF todo = <<>> THEN TurnOver(a) ELSE Goto(a, "claim", todo)

\* The desk was disarmed while it waited.
TurnOff(a) ==
    /\ at[a] # Idle /\ at[a].step = "off"
    /\ TurnOver(a)
    /\ UNCHANGED <<armed, on, arriving, seq, journalVars, faults>>

\* The strategies as they are at its turn.
ReadStrategies(a) ==
    /\ at[a] # Idle /\ at[a].step = "list"
    /\ Proceed(a, Work(a, at[a].turn.item))
    /\ UNCHANGED <<armed, on, arriving, seq, journalVars, faults>>

\* Mutant: a claim that is there already is taken for one's own.
ClaimAgain(a) ==
    /\ at[a] # Idle /\ at[a].step = "claim"
    /\ Goto(a, "count", at[a].todo)
    /\ claims' = claims \cup {Head(at[a].todo)}
    /\ UNCHANGED <<armed, on, arriving, seq, open, gone, byHand, faults>>

\* takeSignal() up to claimSignal(): outside its hours, another account's, or
\* claimed already.
Claim(a) ==
    /\ at[a] # Idle /\ at[a].step = "claim"
    /\ LET k == Head(at[a].todo) IN
         \/ /\ Proceed(a, Tail(at[a].todo))
            /\ UNCHANGED claims
         \/ /\ AccountOf[k.st] = a /\ k \notin claims
            /\ claims' = claims \cup {k}
            /\ Goto(a, "count", at[a].todo)
    /\ UNCHANGED <<armed, on, arriving, seq, open, gone, byHand, faults>>

OpenOf(a) == {k \in open : AccountOf[k.st] = a}
OwnOf(a, st) == {k \in OpenOf(a) : k.st = st}
OnSide(a, side) == {k \in OpenOf(a) : k.side = side}

\* Mutant: the strategy's own cap is the only one.
RoomOfItsOwn(a, k) == Cardinality(OwnOf(a, k.st)) < MaxOpen

\* openTrades() against the three caps: the strategy's own, the account's and
\* the side's.  A trade placed from the ticket counts for the account's two,
\* which are none where the account's cap is 0.
Room(a, k) ==
    LET ticket(counts) == IF a \in byHand /\ counts THEN 1 ELSE 0
    IN /\ Cardinality(OwnOf(a, k.st)) < MaxOpen
       /\ Cap > 0 => /\ Cardinality(OpenOf(a)) + ticket(TRUE) < Cap
                     /\ Cardinality(OnSide(a, k.side)) + ticket(k.side = "CE") < SideCap

\* The count is read; after it the board, the volatility and the strike.
Count(a) ==
    /\ at[a] # Idle /\ at[a].step = "count"
    /\ IF Room(a, Head(at[a].todo))
         THEN Goto(a, "place", at[a].todo)
         ELSE Proceed(a, Tail(at[a].todo))
    /\ UNCHANGED <<armed, on, arriving, seq, journalVars, faults>>

\* svc.place(): the trade is in the journal, or a rule or a gate refused it.
Place(a) ==
    /\ at[a] # Idle /\ at[a].step = "place"
    /\ open' \in {open, open \cup {Head(at[a].todo)}}
    /\ Proceed(a, Tail(at[a].todo))
    /\ UNCHANGED <<armed, on, arriving, seq, claims, gone, byHand, faults>>

-----------------------------------------------------------------------------
\* A trade closes.  On its option's stop or target the runner is told; where
\* re-entry is off takeSignal() returns before it claims anything.
Exit(k) ==
    /\ k \in open
    /\ open' = open \ {k}
    /\ gone' = gone \cup {k}
    /\ \/ UNCHANGED <<arriving, seq>>
       \/ /\ seq < MaxTurns /\ AccountOf[k.st] \in Reentry
          /\ \E by \in {"stop", "target"} : Arrive(ExitItem(k, by))
    /\ UNCHANGED <<armed, on, line, at, claims, byHand, faults>>

\* The ticket is not held to the caps, nor does it wait in the line.
Ticket(a) ==
    /\ a \notin byHand
    /\ byHand' = byHand \cup {a}
    /\ UNCHANGED <<armed, on, runnerVars, claims, open, gone, faults>>

\* A strategy, or the desk, is switched on or off on the screen.
Switch ==
    /\ faults < MaxFaults /\ faults' = faults + 1
    /\ \/ armed' = ~armed /\ UNCHANGED on
       \/ \E st \in Switched : on' = [on EXCEPT ![st] = ~@] /\ UNCHANGED armed
    /\ UNCHANGED <<runnerVars, journalVars>>

\* The process dies: the lines were in memory, the journal is not.
Crash ==
    /\ faults < MaxFaults /\ faults' = faults + 1
    /\ arriving' = {}
    /\ line' = [a \in Account |-> {}]
    /\ at' = [a \in Account |-> Idle]
    /\ UNCHANGED <<armed, on, seq, journalVars>>

-----------------------------------------------------------------------------
Trades(a) ==
    TurnOff(a) \/ ReadStrategies(a) \/ Claim(a) \/ Count(a) \/ Place(a)

Environment ==
    \/ \E s \in Signal : Hand(s)
    \/ \E k \in open : Exit(k)
    \/ \E a \in TicketUsed : Ticket(a)
    \/ Switch
    \/ Crash

Next ==
    \/ Environment
    \/ \E t \in arriving : Join(t) \/ JoinFails(t)
    \/ \E a \in Account : Trades(a)

Spec == Init /\ [][Next]_vars

\* The database answers; so does the exchange of the accounts in Answering.
\* Another account's calls may never return.
Fairness ==
    /\ WF_vars(\E t \in arriving : Join(t))
    /\ \A a \in Answering : WF_vars(Trades(a))

FairSpec == Spec /\ Fairness

-----------------------------------------------------------------------------
(* Properties *)

IsKey(k) ==
    /\ k.st \in Strategy /\ k.sig \in Signal /\ k.side \in {"CE", "PE"}
    /\ k.path \in Seq(Nat)

IsTurn(t) ==
    /\ t.seq \in Nat
    /\ \/ t.item.kind = "signal" /\ t.item.sig \in Signal
       \/ t.item.kind = "exit" /\ IsKey(t.item.of)

TypeOK ==
    /\ armed \in BOOLEAN /\ on \in [Strategy -> BOOLEAN]
    /\ \A t \in arriving : IsTurn(t)
    /\ seq \in 0 .. MaxTurns /\ faults \in 0 .. MaxFaults
    /\ \A a \in Account : \A t \in line[a] : IsTurn(t)
    /\ \A a \in Account : at[a] # Idle =>
         /\ IsTurn(at[a].turn)
         /\ at[a].step \in {"off", "list", "claim", "count", "place"}
         /\ at[a].step \in {"claim", "count", "place"} => at[a].todo # <<>>
    /\ \A k \in claims \cup open \cup gone : IsKey(k)
    /\ byHand \subseteq TicketUsed

\* runner.ts:61-62 "an order sent before the claim can be sent twice": one
\* strategy sells one signal, or one re-entry, at most once, however often it
\* is handed over and wherever the process dies.
SoldOnce ==
    [][\A k \in open' \ open : k \notin gone]_vars

\* runner.ts:486-489: taken one at a time, each signal sees the ones before it
\* in the caps.  The trades of the strategies never pass the account's cap,
\* their side's or their own, whatever arrives at once.  A cap of 0 is no cap.
CapsHeld ==
    \A a \in Account :
      /\ Cap > 0 => Cardinality(OpenOf(a)) <= Cap
      /\ \A side \in {"CE", "PE"} :
           Cap > 0 => Cardinality(OnSide(a, side)) <= SideCap
      /\ \A st \in Strategy : Cardinality(OwnOf(a, st)) <= MaxOpen

\* runner.ts:495-501: when a line begins a turn, nothing of a longer timeframe
\* is waiting in it or is still on its way in from the same minute.
LongestFirst ==
    [][\A a \in Account :
         at'[a] # Idle /\ (at[a] = Idle \/ at'[a].turn # at[a].turn) =>
           \A t \in line'[a] \cup arriving' :
             Tf(t.item) <= Tf(at'[a].turn.item)]_vars

\* runner.ts:458-459: the exit of a signal's own trade opens its `entries`
\* trades and a re-entry's exit one, so a signal's trades never multiply.
NeverMultiply ==
    \A st \in Strategy, s \in Signal :
      Cardinality({k \in open : k.st = st /\ k.sig = s})
        <= IF Entries > 1 THEN Entries ELSE 1

\* runner.ts:489-495: no line waits for another account's exchange.  A turn in
\* the line of an account that is answered gets its turn.
OwnLine ==
    \A a \in Answering, s \in Signal :
      (\E t \in line[a] : t.item = SignalItem(s))
        ~> (\A t \in line[a] : t.item # SignalItem(s))

=============================================================================
