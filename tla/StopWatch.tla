----------------------------- MODULE StopWatch -----------------------------
(***************************************************************************)
(* A sold option's own stop: the watch that holds the board in memory      *)
(* against every stop once a second (trading/stop-watch.ts), and the       *)
(* engine's check (stopIfReached, trading/engine.ts) that it and the loop  *)
(* both ask for, each trade in its own queue.  The trades are of one       *)
(* contract.                                                               *)
(***************************************************************************)
EXTENDS Integers, FiniteSets

CONSTANTS
    Trade,
    Top,        \* the offer's levels are 0 .. Top
    Stop, Run,  \* each trade's stop, and the offer that is a run, closed on at
                \* the first look; above Top when there is none (no backstop)
    Confirm,    \* STOP_CONFIRM_MS, in looks of the watch
    None,
    \* Bounds on the environment.
    MaxTrouble  \* closes refused, quotes not answered, and restarts

Offer == 0 .. Top

ASSUME WatchAssumption ==
    /\ Top \in Nat
    /\ Stop \in [Trade -> 1 .. Top] /\ Run \in [Trade -> 1 .. Top + 1]
    /\ Confirm \in Nat \ {0} /\ MaxTrouble \in Nat

VARIABLES
    offer,      \* the market
    board,      \* the board in memory; None when it is old
    scarce,     \* Delta's quota is past STOP_WATCH_QUOTA_PCT
    rec,        \* the journal: "held", "closing" (exit_pending), "done"
    since,      \* stopSince, as the seconds it is ago, and one; 0 is none
    list, handed, busy,   \* the watch, in memory
    loop,       \* the loop's pass
    closing,    \* the close under way in each trade's queue: by whom, and why
    sent,       \* history: closes of each trade the exchange took
    unbroken,   \* history: seconds every look saw the offer at the stop, and one
    troubles

market == <<offer, board, scarce>>
watch == <<list, handed, busy>>
judged == <<since, unbroken>>
trades == <<rec, judged, closing, sent, troubles>>
vars == <<market, trades, watch, loop>>

Reached(t, o) == o >= Stop[t]
Held == {t \in Trade : rec[t] = "held"}
Free(t) == closing[t] = None
ClosingBy(by) == {t \in Trade : ~Free(t) /\ closing[t].by = by}

Trouble == troubles < MaxTrouble /\ troubles' = troubles + 1

Init ==
    /\ offer = 0 /\ board = 0 /\ scarce = FALSE
    /\ rec = [t \in Trade |-> "held"]
    /\ since = [t \in Trade |-> 0] /\ unbroken = [t \in Trade |-> 0]
    /\ list = {} /\ handed = {} /\ busy = None
    /\ loop = None /\ closing = [t \in Trade |-> None]
    /\ sent = [t \in Trade |-> 0] /\ troubles = 0

-----------------------------------------------------------------------------
(* The market *)

Moves ==
    /\ offer' \in Offer \ {offer}
    /\ UNCHANGED <<board, scarce, trades, watch, loop>>

\* The socket's board, or ten seconds without one.
BoardTakes ==
    /\ board' \in {offer, None} \ {board}
    /\ UNCHANGED <<offer, scarce, trades, watch, loop>>

QuotaTurns ==
    /\ scarce' = ~scarce
    /\ UNCHANGED <<offer, board, trades, watch, loop>>

-----------------------------------------------------------------------------
(* The check: stopIfReached() *)

Later(n) == IF n = 0 \/ n > Confirm THEN n ELSE n + 1

Seen(t, o, n) == IF ~Reached(t, o) THEN 0 ELSE IF n = 0 THEN 1 ELSE n

\* Why a look at the offer closes: the mark is at the stop as well
\* (STOP_CONFIRM_FAST_MS, nothing to wait for), a run, or the count.  The mark
\* is a free choice.
Reasons(t, o) ==
    IF ~Reached(t, o) THEN {None}
    ELSE IF o >= Run[t] THEN {"once"}
    ELSE IF Seen(t, o, since[t]) > Confirm THEN {"once", "held"}
    ELSE {"once", None}

\* Mutant: an offer back under the stop does not start the count again.
JudgeKeeps(t, o, by) ==
    /\ unbroken' = [unbroken EXCEPT ![t] = Seen(t, o, @)]
    /\ \E why \in Reasons(t, o) :
         /\ since' = [since EXCEPT ![t] =
                        IF why # None THEN 0
                        ELSE IF Reached(t, o) THEN Seen(t, o, @) ELSE @]
         /\ closing' = [closing EXCEPT ![t] =
                          IF why = None THEN None ELSE [by |-> by, why |-> why]]

\* A look at the offer: under the stop forgets the count; with a reason, closes.
Judge(t, o, by) ==
    /\ unbroken' = [unbroken EXCEPT ![t] = Seen(t, o, @)]
    /\ \E why \in Reasons(t, o) :
         /\ since' = [since EXCEPT ![t] = IF why # None THEN 0 ELSE Seen(t, o, @)]
         /\ closing' = [closing EXCEPT ![t] =
                          IF why = None THEN None ELSE [by |-> by, why |-> why]]

\* closeNowInner(): the exits come off and the close is sent; refused, the
\* trade holds on.  checkStops() answers with the trade once it is closing.
CloseSends(t) ==
    /\ ~Free(t)
    /\ closing' = [closing EXCEPT ![t] = None]
    /\ \/ /\ rec' = [rec EXCEPT ![t] = "closing"]
          /\ sent' = [sent EXCEPT ![t] = @ + 1]
          /\ unbroken' = [unbroken EXCEPT ![t] = 0]
          /\ IF closing[t].by = "watch"
             THEN busy' = [busy EXCEPT !.over = @ \cup {t}]
             ELSE UNCHANGED busy
          /\ UNCHANGED troubles
       \/ Trouble /\ UNCHANGED <<rec, unbroken, sent, busy>>
    /\ UNCHANGED <<market, since, list, handed, loop>>

-----------------------------------------------------------------------------
(* The watch *)

\* Past the soft line only a run is looked at; past the hard one, nothing (Tick).
Due(t) ==
    IF Reached(t, board) THEN scarce => board >= Run[t]
    ELSE t \in handed /\ ~scarce

\* tick(), a second later: the trades at their stop, and those back under it
\* that were handed over, for the look that clears the count.  A contract with
\* a check running is left.
Tick ==
    /\ since' = [t \in Trade |-> Later(since[t])]
    /\ unbroken' = [t \in Trade |-> Later(unbroken[t])]
    /\ LET due == IF board = None THEN {} ELSE {t \in list : Due(t)} IN
       \/ (busy # None \/ due = {} \/ scarce) /\ UNCHANGED watch
       \/ /\ busy = None /\ due # {}
          /\ handed' = (handed \ due) \cup {t \in due : Reached(t, board)}
          /\ \* checkStops() reads one quote for all: the board, Delta's, or none.
             \/ \E o \in {board, offer} :
                  busy' = [ids |-> due, over |-> {}, quote |-> o]
             \/ UNCHANGED busy
          /\ UNCHANGED list
    /\ UNCHANGED <<market, rec, loop, closing, sent, troubles>>

\* Mutant: judged as it was listed, whatever it is now.
CheckListed(t) ==
    /\ busy # None /\ t \in busy.ids /\ Free(t)
    /\ Judge(t, busy.quote, "watch")
    /\ busy' = [busy EXCEPT !.ids = @ \ {t}]
    /\ UNCHANGED <<market, rec, list, handed, loop, sent, troubles>>

\* Each trade in its own queue, on the record as it is then.
Check(t) ==
    /\ busy # None /\ t \in busy.ids /\ Free(t)
    /\ IF rec[t] = "held"
       THEN /\ Judge(t, busy.quote, "watch")
            /\ busy' = [busy EXCEPT !.ids = @ \ {t}]
       ELSE /\ busy' = [busy EXCEPT !.ids = @ \ {t}, !.over = @ \cup {t}]
            /\ UNCHANGED <<judged, closing>>
    /\ UNCHANGED <<market, rec, list, handed, loop, sent, troubles>>

\* What is over is watched no more.
CheckAnswers ==
    /\ busy # None /\ busy.ids = {}
    /\ ClosingBy("watch") = {}
    /\ list' = list \ busy.over /\ handed' = handed \ busy.over
    /\ busy' = None
    /\ UNCHANGED <<market, trades, loop>>

-----------------------------------------------------------------------------
(* The loop *)

\* step() reads the open trades, and tells the watch when it has them.
PassReads ==
    /\ loop = None
    /\ loop' = [step |-> "read", held |-> Held,
                left |-> {t \in Trade : rec[t] # "done"}]
    /\ UNCHANGED <<market, trades, watch>>

PassNotes ==
    /\ loop # None /\ loop.step = "read"
    /\ list' = loop.held /\ handed' = handed \cap loop.held
    /\ loop' = [loop EXCEPT !.step = "poll"]
    /\ UNCHANGED <<market, trades, busy>>

\* Mutant: with no board the stop is left to the watch.
PollBoardOnly(t) ==
    /\ loop # None /\ loop.step = "poll" /\ t \in loop.left /\ Free(t)
    /\ loop' = [loop EXCEPT !.left = @ \ {t}]
    /\ \/ /\ rec[t] = "held"
          /\ IF board = None THEN UNCHANGED <<judged, closing>>
             ELSE Judge(t, board, "loop")
          /\ UNCHANGED rec
       \/ /\ rec[t] # "held" /\ rec' = [rec EXCEPT ![t] = "done"]
          /\ since' = [since EXCEPT ![t] = 0]
          /\ UNCHANGED <<unbroken, closing>>
    /\ UNCHANGED <<market, watch, sent, troubles>>

\* poll(): a close at work is followed up; a trade that holds is judged, on the
\* board or on Delta's quote; with neither, nothing is judged or forgotten.
Poll(t) ==
    /\ loop # None /\ loop.step = "poll" /\ t \in loop.left /\ Free(t)
    /\ loop' = [loop EXCEPT !.left = @ \ {t}]
    /\ \/ /\ rec[t] = "held"
          /\ \E o \in {offer, board} \ {None} : Judge(t, o, "loop")
          /\ UNCHANGED <<rec, troubles>>
       \/ /\ rec[t] = "held" /\ board = None /\ Trouble
          /\ UNCHANGED <<rec, judged, closing>>
       \/ /\ rec[t] # "held" /\ rec' = [rec EXCEPT ![t] = "done"]
          /\ since' = [since EXCEPT ![t] = 0]
          /\ UNCHANGED <<unbroken, closing, troubles>>
    /\ UNCHANGED <<market, watch, sent>>

PassEnds ==
    /\ loop # None /\ loop.step = "poll" /\ loop.left = {}
    /\ ClosingBy("loop") = {}
    /\ loop' = None
    /\ UNCHANGED <<market, trades, watch>>

\* The count is in memory: it starts again.
Crash ==
    /\ Trouble
    /\ since' = [t \in Trade |-> 0] /\ unbroken' = [t \in Trade |-> 0]
    /\ list' = {} /\ handed' = {} /\ busy' = None /\ loop' = None
    /\ closing' = [t \in Trade |-> None]
    /\ UNCHANGED <<market, rec, sent>>

-----------------------------------------------------------------------------
Loop == PassReads \/ PassNotes \/ PassEnds \/ \E t \in Trade : Poll(t)

Watch == CheckAnswers \/ \E t \in Trade : Check(t)

Next ==
    \/ Moves \/ BoardTakes \/ QuotaTurns \/ Tick \/ Crash
    \/ Loop \/ Watch
    \/ \E t \in Trade : CloseSends(t)

Spec == Init /\ [][Next]_vars

\* Two intervals, calls that are answered or time out, and a board that is old
\* after ten seconds.
FairSpec ==
    /\ Spec
    /\ WF_vars(board \notin {offer, None} /\ BoardTakes)
    /\ WF_vars(Tick) /\ WF_vars(Loop) /\ WF_vars(Watch)
    /\ \A t \in Trade : WF_vars(CloseSends(t))

-----------------------------------------------------------------------------
(* Properties *)

\* The watch and the loop both find the same trade at its stop, on lists read
\* at different times: its close goes to the exchange once.  Another would buy
\* back a contract of another trade.
ClosedOnce == \A t \in Trade : sent[t] <= 1

\* engine.ts:2531-2535: a close on the count is of a stop at which every look,
\* the watch's and the loop's, has seen the offer for Confirm seconds: one look
\* under it starts the count again, whoever took it.
UnbrokenLooks ==
    [][\A t \in Trade :
         Free(t) /\ ~Free(t)' /\ closing'[t].why = "held" => unbroken'[t] > Confirm]_vars

\* stop-watch.ts:95-107: whatever becomes of the board and the quota, an offer
\* that stays at the stop closes the trade.
StopActs ==
    \A t \in Trade : <>[](offer >= Stop[t]) => <>(rec[t] # "held")

=============================================================================
