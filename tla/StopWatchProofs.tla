-------------------------- MODULE StopWatchProofs --------------------------
(***************************************************************************)
(* Theorems of StopWatch for any set of trades, any stops and any length   *)
(* of the confirmation: a trade's close is sent once, and a close on the   *)
(* count is of a stop that every look has seen reached.                    *)
(***************************************************************************)
EXTENDS StopWatch, TLAPS

CountType ==
    /\ rec \in [Trade -> {"held", "closing", "done"}]
    /\ closing \in [Trade -> {None} \cup [by : {"watch", "loop"}, why : {"once", "held"}]]
    /\ since \in [Trade -> Nat] /\ unbroken \in [Trade -> Nat]
    /\ sent \in [Trade -> Nat]

\* A trade is being closed only while it holds, and one that holds has had no
\* close taken.
CloseInv ==
    \A t \in Trade :
      /\ sent[t] <= 1
      /\ rec[t] = "held" => sent[t] = 0
      /\ ~Free(t) => rec[t] = "held"

\* The engine's count is never ahead of what the looks have seen; a trade that
\* is being closed counts nothing.
CountInv ==
    \A t \in Trade :
      /\ since[t] <= unbroken[t]
      /\ ~Free(t) => since[t] = 0

WatchInv == CountType /\ CloseInv /\ CountInv

\* A second later, and a look, keep two counts in order.
LEMMA LaterKeepsOrder ==
    ASSUME NEW n \in Nat, NEW m \in Nat, n <= m
    PROVE  Later(n) \in Nat /\ Later(m) \in Nat /\ Later(n) <= Later(m)
BY WatchAssumption DEF Later

LEMMA SeenKeepsOrder ==
    ASSUME NEW t, NEW o, NEW n \in Nat, NEW m \in Nat, n <= m
    PROVE  Seen(t, o, n) \in Nat /\ Seen(t, o, m) \in Nat /\ Seen(t, o, n) <= Seen(t, o, m)
BY DEF Seen

\* A look at a trade that holds and is not being closed.
LEMMA LookKeeps ==
    ASSUME WatchInv, NEW t \in Trade, NEW o, NEW by \in {"watch", "loop"},
           rec[t] = "held", Free(t), Judge(t, o, by), UNCHANGED <<rec, sent>>
    PROVE  WatchInv'
<1>1. PICK why \in Reasons(t, o) :
        /\ since' = [since EXCEPT ![t] = IF why # None THEN 0 ELSE Seen(t, o, @)]
        /\ closing' = [closing EXCEPT ![t] =
                         IF why = None THEN None ELSE [by |-> by, why |-> why]]
  BY DEF Judge
<1>2. unbroken' = [unbroken EXCEPT ![t] = Seen(t, o, @)]
  BY DEF Judge
<1>3. why \in {None, "once", "held"}
  BY <1>1 DEF Reasons
<1>4. /\ since[t] \in Nat /\ unbroken[t] \in Nat /\ since[t] <= unbroken[t]
      /\ Seen(t, o, since[t]) \in Nat /\ Seen(t, o, unbroken[t]) \in Nat
      /\ Seen(t, o, since[t]) <= Seen(t, o, unbroken[t])
  BY SeenKeepsOrder DEF WatchInv, CountType, CountInv
<1>5. CountType'
  BY <1>1, <1>2, <1>3, <1>4 DEF WatchInv, CountType
<1>6. CloseInv'
  BY <1>1 DEF WatchInv, CountType, CloseInv, Free
<1>7. CountInv'
  BY <1>1, <1>2, <1>4 DEF WatchInv, CountType, CountInv, Free
<1>. QED BY <1>5, <1>6, <1>7 DEF WatchInv

LEMMA WatchInit == Init => WatchInv
BY DEF Init, WatchInv, CountType, CloseInv, CountInv, Free

LEMMA WatchStep == WatchInv /\ [Next]_vars => WatchInv'
<1>. SUFFICES ASSUME WatchInv, [Next]_vars PROVE WatchInv'
  OBVIOUS
<1>1. CASE UNCHANGED trades
  BY <1>1 DEF trades, judged, WatchInv, CountType, CloseInv, CountInv, Free
<1>2. CASE Tick
  <2>1. /\ since' = [t \in Trade |-> Later(since[t])]
        /\ unbroken' = [t \in Trade |-> Later(unbroken[t])]
        /\ UNCHANGED <<rec, closing, sent>>
    BY <1>2 DEF Tick
  <2>2. \A t \in Trade :
          /\ Later(since[t]) \in Nat /\ Later(unbroken[t]) \in Nat
          /\ Later(since[t]) <= Later(unbroken[t])
    BY LaterKeepsOrder DEF WatchInv, CountType, CountInv
  <2>3. Later(0) = 0
    BY DEF Later
  <2>. QED BY <2>1, <2>2, <2>3 DEF WatchInv, CountType, CloseInv, CountInv, Free
<1>3. ASSUME NEW t \in Trade, Check(t)
      PROVE  WatchInv'
  <2>1. CASE rec[t] = "held"
    BY <1>3, <2>1, LookKeeps DEF Check
  <2>2. CASE rec[t] # "held"
    BY <1>3, <2>2 DEF Check, judged, WatchInv, CountType, CloseInv, CountInv, Free
  <2>. QED BY <2>1, <2>2
<1>4. ASSUME NEW t \in Trade, Poll(t)
      PROVE  WatchInv'
  <2>1. CASE UNCHANGED <<rec, judged, closing, sent>>
    BY <2>1 DEF judged, WatchInv, CountType, CloseInv, CountInv, Free
  <2>2. CASE /\ rec[t] = "held" /\ UNCHANGED <<rec, sent>>
             /\ \E o \in {offer, board} \ {None} : Judge(t, o, "loop")
    BY <1>4, <2>2, LookKeeps DEF Poll
  <2>3. CASE /\ rec[t] # "held" /\ rec' = [rec EXCEPT ![t] = "done"]
             /\ since' = [since EXCEPT ![t] = 0]
             /\ UNCHANGED <<unbroken, closing, sent>>
    BY <1>4, <2>3 DEF Poll, WatchInv, CountType, CloseInv, CountInv, Free
  <2>4. UNCHANGED sent
    BY <1>4 DEF Poll
  <2>5. \/ /\ rec[t] = "held" /\ rec' = rec
           /\ \E o \in {offer, board} \ {None} : Judge(t, o, "loop")
        \/ UNCHANGED <<rec, judged, closing>>
        \/ /\ rec[t] # "held" /\ rec' = [rec EXCEPT ![t] = "done"]
           /\ since' = [since EXCEPT ![t] = 0]
           /\ UNCHANGED <<unbroken, closing>>
    BY <1>4, Zenon DEF Poll
  <2>. QED BY <2>1, <2>2, <2>3, <2>4, <2>5
<1>5. ASSUME NEW t \in Trade, CloseSends(t)
      PROVE  WatchInv'
  <2>1. /\ rec[t] = "held" /\ sent[t] = 0 /\ since[t] = 0
        /\ closing' = [closing EXCEPT ![t] = None]
        /\ UNCHANGED since
    BY <1>5 DEF CloseSends, WatchInv, CloseInv, CountInv
  <2>2. CASE /\ rec' = [rec EXCEPT ![t] = "closing"]
             /\ sent' = [sent EXCEPT ![t] = @ + 1]
             /\ unbroken' = [unbroken EXCEPT ![t] = 0]
    BY <2>1, <2>2 DEF WatchInv, CountType, CloseInv, CountInv, Free
  <2>3. CASE UNCHANGED <<rec, unbroken, sent>>
    BY <2>1, <2>3 DEF WatchInv, CountType, CloseInv, CountInv, Free
  <2>. QED BY <1>5, <2>2, <2>3 DEF CloseSends
<1>6. CASE Crash
  BY <1>6 DEF Crash, WatchInv, CountType, CloseInv, CountInv, Free
<1>7. CASE \/ CheckAnswers \/ PassReads \/ PassNotes \/ PassEnds
           \/ Moves \/ BoardTakes \/ QuotaTurns
  BY <1>7, <1>1 DEF CheckAnswers, PassReads, PassNotes, PassEnds, Moves, BoardTakes,
    QuotaTurns
<1>. QED BY <1>1, <1>2, <1>3, <1>4, <1>5, <1>6, <1>7 DEF Next, Loop, Watch, vars

LEMMA WatchInvariant == Spec => []WatchInv
BY WatchInit, WatchStep, PTL DEF Spec

\* The watch and the loop close a trade once between them, however many trades,
\* restarts and refused closes there are.
THEOREM NeverClosedTwice == Spec => []ClosedOnce
<1>1. WatchInv => ClosedOnce
  BY DEF WatchInv, CloseInv, ClosedOnce
<1>. QED BY <1>1, WatchInvariant, PTL

\* Only the trade that is looked at begins to close.
LEMMA LookClosesItsOwn ==
    ASSUME CountType, NEW t \in Trade, NEW u \in Trade, NEW o, NEW by, Judge(u, o, by),
           Free(t), ~Free(t)'
    PROVE  u = t
<1>1. PICK why : closing' = [closing EXCEPT ![u] =
                              IF why = None THEN None ELSE [by |-> by, why |-> why]]
  BY DEF Judge
<1>. QED BY <1>1 DEF CountType, Free

\* A close on the count is of a stop reached at every look for Confirm seconds,
\* whichever of the two looked.
THEOREM CountedLooksUnbroken == Spec => UnbrokenLooks
<1>. DEFINE Kept(t) ==
       Free(t) /\ ~Free(t)' /\ closing'[t].why = "held" => unbroken'[t] > Confirm
<1>1. ASSUME WatchInv, NEW t \in Trade, NEW o, NEW by, Judge(t, o, by),
             Free(t), ~Free(t)', closing'[t].why = "held"
      PROVE  unbroken'[t] > Confirm
  <2>1. PICK why \in Reasons(t, o) :
          closing' = [closing EXCEPT ![t] =
                        IF why = None THEN None ELSE [by |-> by, why |-> why]]
    BY <1>1 DEF Judge
  <2>2. closing \in [Trade -> {None} \cup [by : {"watch", "loop"}, why : {"once", "held"}]]
    BY <1>1 DEF WatchInv, CountType
  <2>3. why = "held" /\ why # None
    BY <1>1, <2>1, <2>2 DEF Free
  <2>4. Seen(t, o, since[t]) > Confirm
    BY <2>1, <2>3 DEF Reasons
  <2>5. unbroken'[t] = Seen(t, o, unbroken[t])
    BY <1>1 DEF Judge, WatchInv, CountType
  <2>6. /\ since[t] \in Nat /\ unbroken[t] \in Nat
        /\ Seen(t, o, since[t]) \in Nat /\ Seen(t, o, unbroken[t]) \in Nat
        /\ Seen(t, o, since[t]) <= Seen(t, o, unbroken[t])
    BY <1>1, SeenKeepsOrder DEF WatchInv, CountType, CountInv
  <2>. QED BY <2>4, <2>5, <2>6, WatchAssumption
<1>2. ASSUME WatchInv, [Next]_vars, NEW t \in Trade, Free(t), ~Free(t)'
      PROVE  \E o, by : Judge(t, o, by)
  <2>1. CASE UNCHANGED closing
    BY <1>2, <2>1 DEF Free
  <2>2. ASSUME NEW u \in Trade, Check(u)
        PROVE  \E o, by : Judge(t, o, by)
    <3>1. CASE rec[u] = "held"
      <4>1. Judge(u, busy.quote, "watch")
        BY <2>2, <3>1 DEF Check
      <4>2. u = t
        BY <1>2, <4>1, LookClosesItsOwn DEF WatchInv
      <4>. QED BY <4>1, <4>2
    <3>2. CASE rec[u] # "held"
      BY <1>2, <2>2, <3>2 DEF Check, Free
    <3>. QED BY <3>1, <3>2
  <2>3. ASSUME NEW u \in Trade, Poll(u)
        PROVE  \E o, by : Judge(t, o, by)
    <3>1. CASE UNCHANGED closing
      BY <1>2, <3>1 DEF Free
    <3>2. CASE \E o \in {offer, board} \ {None} : Judge(u, o, "loop")
      <4>1. PICK o \in {offer, board} \ {None} : Judge(u, o, "loop")
        BY <3>2
      <4>2. u = t
        BY <1>2, <4>1, LookClosesItsOwn DEF WatchInv
      <4>. QED BY <4>1, <4>2
    <3>3. \/ \E o \in {offer, board} \ {None} : Judge(u, o, "loop")
          \/ UNCHANGED closing
      BY <2>3, Zenon DEF Poll
    <3>. QED BY <3>1, <3>2, <3>3
  <2>4. ASSUME NEW u \in Trade, CloseSends(u)
        PROVE  \E o, by : Judge(t, o, by)
    BY <1>2, <2>4 DEF CloseSends, Free, WatchInv, CountType
  <2>5. CASE Crash
    BY <1>2, <2>5 DEF Crash, Free
  <2>6. CASE \/ Tick \/ CheckAnswers \/ PassReads \/ PassNotes \/ PassEnds
             \/ Moves \/ BoardTakes \/ QuotaTurns
    BY <2>1, <2>6 DEF Tick, CheckAnswers, PassReads, PassNotes, PassEnds, Moves, BoardTakes,
      QuotaTurns, trades
  <2>. QED BY <1>2, <2>1, <2>2, <2>3, <2>4, <2>5, <2>6 DEF Next, Loop, Watch, vars, trades
<1>3. WatchInv /\ [Next]_vars => [\A t \in Trade : Kept(t)]_vars
  BY <1>1, <1>2
<1>. QED BY <1>3, WatchInvariant, PTL DEF Spec, UnbrokenLooks

=============================================================================
