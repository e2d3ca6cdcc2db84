-------------------------------- MODULE Venue --------------------------------
(***************************************************************************)
(* The exchange as the desk sees it, translated from the simulated one it  *)
(* is tested on (exchange/paper.ts): the account's orders on one contract  *)
(* and the net position they leave.                                        *)
(*                                                                         *)
(* A state of the venue is [order |-> ..., net |-> ...].  An order is      *)
(* "none" until it is accepted, "open" while it rests ("open" and          *)
(* "partial" of the code) and "over" once it is filled or cancelled.       *)
(* Prices are left out: whether the market is at an order is a choice.     *)
(***************************************************************************)
EXTENDS TradeMachine, FiniteSets, FiniteSetsExt

OrderState == [status : {"none", "open", "over", "rejected"},
               size : 0 .. 2 * Requested,
               filled : 0 .. 2 * Requested]

VenueState == [order : [Order -> OrderState],
               net : -2 * Requested .. 2 * Requested]

EmptyVenue ==
    [order |-> [o \in Order |-> [status |-> "none", size |-> 0, filled |-> 0]],
     net |-> 0]

\* The venue with one order of it as s.
With(v, o, s) ==
    [v EXCEPT !.order = [p \in Order |-> IF p = o THEN s ELSE v.order[p]]]

Known(v, o) == v.order[o].status # "none"
Resting(v, o) == v.order[o].status = "open"
Left(v, o) == v.order[o].size - v.order[o].filled

\* What reduce-only orders may buy back: the entries sell, the exits buy.
Short(v) == IF v.net < 0 THEN -v.net ELSE 0

-----------------------------------------------------------------------------
\* placeOrder: a reduce-only order that would not reduce is refused...
Refuses(v, o, size) ==
    o \in Exits /\ ~Known(v, o) /\ (Short(v) = 0 \/ size > Short(v))

\* ... and a client id names one order for ever.
Accept(v, o, size) ==
    IF Known(v, o) THEN v
    ELSE With(v, o, [status |-> "open", size |-> size, filled |-> 0])

\* reduceCap: what it may fill is checked again as it fills.
Fillable(v, o) ==
    IF ~Resting(v, o) THEN 0
    ELSE IF o \in Entries THEN Left(v, o)
    ELSE IF Left(v, o) < Short(v) THEN Left(v, o) ELSE Short(v)

\* applyFill and the settle that follows it.
Fills(v, o, n) ==
    LET was == v.order[o]
        now == [was EXCEPT !.filled = @ + n,
                           !.status = IF was.filled + n >= was.size THEN "over"
                                      ELSE "open"]
    IN [With(v, o, now) EXCEPT !.net = IF o \in Entries THEN @ - n ELSE @ + n]

Settle(v, o, status) ==
    IF Resting(v, o) THEN With(v, o, [v.order[o] EXCEPT !.status = status]) ELSE v

Cancel(v, o) == Settle(v, o, "over")

\* editOrder, of an order that rests.
Edit(v, o, size) == With(v, o, [v.order[o] EXCEPT !.size = size])

\* A market order takes what is offered.  What is left of it is not filled
\* later; whether it still shows as open is the venue's business.
MarketOutcomes(v, o, size) ==
    LET a == Accept(v, o, size)
        some == {n \in 1 .. size : n <= Fillable(a, o)}
    IN IF Known(v, o) THEN {v}
       ELSE {Fills(a, o, n) : n \in some} \cup {Cancel(Fills(a, o, n), o) : n \in some}

\* An empty book refuses it, after it was accepted.
Unfilled(v, o, size) ==
    IF Known(v, o) THEN v ELSE Settle(Accept(v, o, size), o, "rejected")

\* A limit that is marketable fills what it can on arrival and rests.
LimitOutcomes(v, o, size) ==
    LET a == Accept(v, o, size)
    IN IF Known(v, o) THEN {v}
       ELSE {Fills(a, o, n) : n \in 1 .. Fillable(a, o)} \cup {a}

\* sweepReduceOnly: of the resting exits of one kind, oldest first, what does
\* not fit under the position any more.
Kind(o) == IF o \in Stops THEN "stop" ELSE "limit"

Excess(v) ==
    {o \in Exits :
        /\ Resting(v, o)
        /\ LET older == {p \in Exits : /\ Resting(v, p) /\ Kind(p) = Kind(o)
                                       /\ p[1] = o[1] /\ p[2] < o[2]
                                       /\ Left(v, p) <= Short(v)}
           IN Left(v, o) + MapThenSumSet(LAMBDA p : Left(v, p), older) > Short(v)}

=============================================================================
